-------------------------- MODULE MCRecovery_proofs -------------------------
(***************************************************************************)
(* Proofs about getting data back (MCRecovery): restores that run, the     *)
(* restore points with the retention beside them, and the setup and the    *)
(* catalog, which say what there is to get back.  What is about bundles is *)
(* in VaultParts_proofs.  The theorems hold for any targets, files, jobs,  *)
(* ages and PCs, and any number of runs, failures and restarts.            *)
(***************************************************************************)
EXTENDS VaultParts_proofs

-----------------------------------------------------------------------------
(* A step of the suite is a step of one part and leaves the others.        *)

Step ==
  \/ PointsNext \/ JobsNext \/ CatalogNext \/ ReplicasNext \/ WayNext \/ PacksNext \/ PanelNext

LEMMA PartsMove ==
  ASSUME [Step]_vars
  PROVE  /\ UNCHANGED part
         /\ [P!Next]_(P!vars) /\ [J!Next]_(J!vars) /\ [Packed!Next]_(Packed!vars)
         /\ part # "points" => UNCHANGED P!vars
         /\ part # "jobs" => UNCHANGED J!vars
         /\ part # "packs" => UNCHANGED Packed!vars
<1>1. UNCHANGED pointsVars => UNCHANGED P!vars
  BY DEF pointsVars, P!vars
<1>2. UNCHANGED jobsVars => UNCHANGED J!vars
  BY DEF jobsVars, J!vars, J!jobVars
<1>3. UNCHANGED packVars => UNCHANGED Packed!vars
  BY DEF packVars, Packed!vars
<1>4. CASE PointsNext
  BY <1>2, <1>3, <1>4 DEF PointsNext
<1>5. CASE JobsNext
  BY <1>1, <1>3, <1>5 DEF JobsNext
<1>6. CASE CatalogNext \/ ReplicasNext
  BY <1>1, <1>2, <1>3, <1>6 DEF CatalogNext, ReplicasNext
<1>7. CASE WayNext
  BY <1>1, <1>2, <1>3, <1>7 DEF WayNext, vaultVars
<1>8. CASE PacksNext
  BY <1>1, <1>2, <1>8 DEF PacksNext
<1>9. CASE PanelNext
  BY <1>1, <1>2, <1>3, <1>9 DEF PanelNext
<1>10. CASE UNCHANGED vars
  BY <1>1, <1>2, <1>3, <1>10 DEF vars
<1>11. QED BY <1>4, <1>5, <1>6, <1>7, <1>8, <1>9, <1>10 DEF Step

-----------------------------------------------------------------------------
(* RestoreJobs.  A restore writes to names that nothing had when it looked *)
(* at the disk, and nobody but restores writes there.  A record is removed *)
(* only when its target is reported complete.                              *)

Content == {"none", "user", "partial", "whole"}
Job     == [target : Targets \cup {"none"}, listed : BOOLEAN,
            todo : SUBSET J!FileIds, open : SUBSET J!FileIds]

JobsTyped ==
  /\ record \in [Targets -> [id : Ids \cup {0}, status : {"none", "restoring", "failed"}]]
  /\ running \in SUBSET Ids /\ job \in [Ids -> Job]
  /\ disk \in [Targets -> [J!Names -> Content]]

JobsInv ==
  /\ JobsTyped
  /\ \A i \in running : job[i].target \in Targets
  /\ \A i \in Ids : job[i].open \subseteq job[i].todo /\ (~job[i].listed => job[i].todo = {})
  /\ \A i \in Ids : \A f \in job[i].todo :
       job[i].target \in Targets /\ disk[job[i].target][J!Own(f)] # "user"
  /\ J!OfferedUntilRestored

\* The files of the user are the same before and after.
UserFilesStay ==
  \A d \in Targets, n \in J!Names : (disk'[d][n] = "user") <=> (disk[d][n] = "user")

LEMMA OwnIsName ==
  ASSUME J!JobsAssumption, NEW f \in J!FileIds
  PROVE  J!Own(f) \in J!Names
BY DEF J!JobsAssumption, J!Own, J!Names

LEMMA SmallestId ==
  ASSUME NEW S \in SUBSET Nat, S # {}
  PROVE  J!Min(S) \in S /\ \A x \in S : J!Min(S) <= x
<1>1. IsWellFoundedOn(OpToRel(<, Nat), Nat)
  BY NatLessThanWellFounded
<1>2. PICK m \in S : \A y \in S : <<y, m>> \notin OpToRel(<, Nat)
  BY <1>1, WFMin
<1>3. \A y \in S : ~(y < m)
  BY <1>2 DEF OpToRel
<1>4. \A y \in S : m <= y
  BY <1>3
<1>5. QED BY <1>4 DEF J!Min

LEMMA JobsInit == J!JobsAssumption /\ J!Init => JobsInv
<1> SUFFICES ASSUME J!JobsAssumption, J!Init PROVE JobsInv
  OBVIOUS
<1>1. JobsTyped
  BY DEF J!Init, J!NoRecord, J!NoJob, JobsTyped, Job, Content
<1>2. \A i \in Ids : job[i] = J!NoJob
  BY DEF J!Init
<1>3. QED
  BY <1>1, <1>2 DEF J!Init, J!NoJob, J!JobsAssumption, J!OfferedUntilRestored, JobsInv

\* A run goes on or ends: it has no more to do than before, and its target is offered.
LEMMA WorkKeepsJobs ==
  ASSUME JobsInv, J!JobsAssumption, JobsTyped', UserFilesStay, running' \subseteq running,
         \A i \in Ids : /\ job'[i].target = job[i].target /\ job'[i].listed = job[i].listed
                       /\ job'[i].todo \subseteq job[i].todo /\ job'[i].open \subseteq job'[i].todo,
         J!OfferedUntilRestored'
  PROVE  JobsInv'
<1>1. \A i \in Ids : \A f \in job[i].todo : J!Own(f) \in J!Names
  BY OwnIsName DEF JobsInv, JobsTyped, Job
<1>2. \A i \in running' : job'[i].target \in Targets
  BY DEF JobsInv, JobsTyped
<1>3. \A i \in Ids : \A f \in job'[i].todo :
        job'[i].target \in Targets /\ disk'[job'[i].target][J!Own(f)] # "user"
  BY <1>1 DEF JobsInv, UserFilesStay
<1>4. \A i \in Ids : ~job'[i].listed => job'[i].todo = {}
  BY DEF JobsInv
<1>5. QED BY <1>2, <1>3, <1>4 DEF JobsInv

LEMMA RunKeepsJobs ==
  ASSUME JobsInv, J!JobsAssumption, NEW d \in Targets, NEW id \in Ids, J!RunRestoreJob(d, id)
  PROVE  JobsInv'
<1> DEFINE new == [J!NoJob EXCEPT !.target = d]
<1>1. /\ new \in Job /\ new.target = d /\ new.listed = FALSE /\ new.todo = {} /\ new.open = {}
  BY DEF J!NoJob, Job
<1> HIDE DEF new
<1>2. /\ record' = [record EXCEPT ![d] = [id |-> id, status |-> "restoring"]]
      /\ running' = running \cup {id} /\ job' = [job EXCEPT ![id] = new]
      /\ restored' = restored \ {d} /\ disk' = disk
  BY DEF J!RunRestoreJob, J!UpsertActiveRestore, new
<1>3. job' \in [Ids -> Job] /\ \A i \in Ids : job'[i] = IF i = id THEN new ELSE job[i]
  BY <1>1, <1>2 DEF JobsInv, JobsTyped
<1>4. JobsTyped'
  BY <1>2, <1>3 DEF JobsInv, JobsTyped
<1>5. J!OfferedUntilRestored'
  BY <1>1, <1>2, <1>3 DEF JobsInv, JobsTyped, J!JobsAssumption, J!OfferedUntilRestored
<1>6. QED
  BY <1>1, <1>2, <1>3, <1>4, <1>5 DEF JobsInv, JobsTyped

LEMMA StartKeepsJobs ==
  ASSUME JobsInv, J!JobsAssumption, NEW d \in Targets, J!StartRestore(d) \/ J!ResumeRestore(d)
  PROVE  JobsInv'
<1>1. CASE J!StartRestore(d)
  <2> DEFINE unused == {id \in Ids : job[id].target = "none"}
  <2>1. unused \in SUBSET Nat /\ unused # {}
    BY <1>1 DEF J!StartRestore, J!JobsAssumption
  <2>2. J!Min(unused) \in Ids
    BY <2>1, SmallestId
  <2>3. J!RunRestoreJob(d, J!Min(unused))
    BY <1>1 DEF J!StartRestore
  <2>4. QED BY <2>2, <2>3, RunKeepsJobs
<1>2. CASE J!ResumeRestore(d)
  <2>1. \E id \in Ids : J!RunRestoreJob(d, id)
    <3>1. record[d].id \in Ids \cup {0}
      BY DEF JobsInv, JobsTyped
    <3>2. QED BY <1>2, <3>1 DEF J!ResumeRestore
  <2>2. QED BY <2>1, RunKeepsJobs
<1>3. QED BY <1>1, <1>2

LEMMA ListKeepsJobs ==
  ASSUME JobsInv, J!JobsAssumption, NEW id \in Ids, J!ListDestination(id)
  PROVE  JobsInv' /\ UserFilesStay
<1> DEFINE missing == J!Missing(job[id].target)
<1>1. /\ id \in running /\ missing \in SUBSET J!FileIds
      /\ job' = [job EXCEPT ![id].listed = TRUE, ![id].todo = missing]
      /\ UNCHANGED <<record, running, restored, disk>>
  BY DEF J!ListDestination, J!Missing
<1>2. \A f \in missing : disk[job[id].target][J!Own(f)] = "none"
  BY DEF J!Missing
<1>3. job[id].target \in Targets /\ job[id].open = {}
  BY <1>1 DEF JobsInv, J!ListDestination
<1> HIDE DEF missing
<1>4. job' \in [Ids -> Job] /\ job'[id].target = job[id].target /\ job'[id].listed = TRUE
      /\ job'[id].todo = missing /\ job'[id].open = job[id].open
      /\ \A i \in Ids : i # id => job'[i] = job[i]
  <2> DEFINE j == [job[id] EXCEPT !.listed = TRUE, !.todo = missing]
  <2>1. job \in [Ids -> Job] /\ job' = [job EXCEPT ![id] = j]
    BY <1>1 DEF JobsInv, JobsTyped
  <2>2. /\ j \in Job /\ j.target = job[id].target /\ j.listed = TRUE
        /\ j.todo = missing /\ j.open = job[id].open
    <3>1. job[id] \in Job
      BY <2>1
    <3>2. QED BY <1>1, <3>1 DEF Job
  <2> HIDE DEF j
  <2>3. /\ job' \in [Ids -> Job] /\ job'[id] = j
        /\ \A i \in Ids : i # id => job'[i] = job[i]
    BY <2>1, <2>2
  <2>4. QED BY <2>2, <2>3
<1>5. JobsTyped'
  BY <1>1, <1>4 DEF JobsInv, JobsTyped
<1>6. J!OfferedUntilRestored'
  BY <1>1, <1>4 DEF JobsInv, J!OfferedUntilRestored
<1>7. \A i \in Ids : job'[i].target = job[i].target
  BY <1>4
<1>8. \A i \in Ids : \A f \in job'[i].todo :
        job'[i].target \in Targets /\ disk'[job'[i].target][J!Own(f)] # "user"
  BY <1>1, <1>2, <1>3, <1>4 DEF JobsInv
<1>9. \A i \in Ids : job'[i].open \subseteq job'[i].todo /\ (~job'[i].listed => job'[i].todo = {})
  BY <1>3, <1>4 DEF JobsInv
<1>10. QED BY <1>1, <1>5, <1>6, <1>7, <1>8, <1>9 DEF JobsInv, JobsTyped, UserFilesStay

\* rclone writes one file of the run's own target.
LEMMA FileKeepsJobs ==
  ASSUME JobsInv, J!JobsAssumption, NEW id \in Ids, NEW f \in J!FileIds,
         J!OpenFile(id, f) \/ J!FileArrives(id, f)
  PROVE  JobsInv' /\ UserFilesStay
<1>1. f \in job[id].todo
  BY DEF J!OpenFile, J!FileArrives, JobsInv
<1>2. job[id].target \in Targets /\ disk[job[id].target][J!Own(f)] # "user"
  BY <1>1 DEF JobsInv
<1>3. PICK c \in {"partial", "whole"} : disk' = [disk EXCEPT ![job[id].target][J!Own(f)] = c]
  BY DEF J!OpenFile, J!FileArrives
<1>4. PICK todo1 \in SUBSET job[id].todo, open1 \in SUBSET job[id].todo :
        open1 \subseteq todo1 /\ job' = [job EXCEPT ![id].todo = todo1, ![id].open = open1]
  <2>1. CASE J!OpenFile(id, f)
    <3>1. job' = [job EXCEPT ![id].open = job[id].open \cup {f}]
      BY <2>1 DEF J!OpenFile
    <3>2. job' = [job EXCEPT ![id].todo = job[id].todo, ![id].open = job[id].open \cup {f}]
      BY <3>1 DEF JobsInv, JobsTyped, Job
    <3>3. job[id].open \cup {f} \in SUBSET job[id].todo
      BY <1>1 DEF JobsInv
    <3>4. QED BY <3>2, <3>3
  <2>2. CASE J!FileArrives(id, f)
    <3>1. job' = [job EXCEPT ![id].todo = job[id].todo \ {f}, ![id].open = job[id].open \ {f}]
      BY <2>2 DEF J!FileArrives, JobsInv, JobsTyped, Job
    <3>2. job[id].open \ {f} \in SUBSET (job[id].todo \ {f})
      BY DEF JobsInv
    <3>3. QED BY <3>1, <3>2
  <2>3. QED BY <2>1, <2>2
<1>5. UNCHANGED <<record, running, restored>>
  BY DEF J!OpenFile, J!FileArrives
<1>6. job' \in [Ids -> Job] /\ job'[id].target = job[id].target /\ job'[id].listed = job[id].listed
      /\ job'[id].todo = todo1 /\ job'[id].open = open1
      /\ \A i \in Ids : i # id => job'[i] = job[i]
  <2> DEFINE j == [job[id] EXCEPT !.todo = todo1, !.open = open1]
  <2>1. job \in [Ids -> Job] /\ job' = [job EXCEPT ![id] = j]
    BY <1>4 DEF JobsInv, JobsTyped
  <2>2. /\ j \in Job /\ j.target = job[id].target /\ j.listed = job[id].listed
        /\ j.todo = todo1 /\ j.open = open1
    BY <1>4, <2>1 DEF Job
  <2> HIDE DEF j
  <2>3. QED BY <2>1, <2>2
<1>7. disk' \in [Targets -> [J!Names -> Content]] /\ UserFilesStay
  <2>1. J!Own(f) \in J!Names
    BY OwnIsName
  <2>2. QED BY <1>2, <1>3, <2>1 DEF JobsInv, JobsTyped, UserFilesStay, Content
<1>8. JobsTyped'
  BY <1>5, <1>6, <1>7 DEF JobsInv, JobsTyped
<1>9. \A i \in Ids : /\ job'[i].target = job[i].target /\ job'[i].listed = job[i].listed
                     /\ job'[i].todo \subseteq job[i].todo /\ job'[i].open \subseteq job'[i].todo
  BY <1>4, <1>6 DEF JobsInv
<1>10. J!OfferedUntilRestored'
  BY <1>5, <1>9 DEF JobsInv, J!OfferedUntilRestored
<1>11. QED BY <1>5, <1>7, <1>8, <1>9, <1>10, WorkKeepsJobs

\* A record is written for a run that goes on, or fails, and removed for one that
\* is complete.
LEMMA RecordKeepsJobs ==
  ASSUME JobsInv, J!JobsAssumption, NEW id \in Ids,
         J!CheckpointRestoreProgress(id) \/ J!RestoreComplete(id)
  PROVE  JobsInv' /\ UserFilesStay
<1>1. id \in running /\ job[id].target \in Targets
  BY DEF J!CheckpointRestoreProgress, J!RestoreComplete, JobsInv
<1>2. job' = job /\ disk' = disk /\ running' \in SUBSET running
  BY DEF J!CheckpointRestoreProgress, J!RestoreComplete
<1>3. record' \in [Targets -> [id : Ids \cup {0}, status : {"none", "restoring", "failed"}]]
  BY <1>1 DEF J!CheckpointRestoreProgress, J!RestoreComplete, J!UpsertActiveRestore, J!NoRecord,
              JobsInv, JobsTyped
<1>4. J!OfferedUntilRestored'
  <2>1. CASE J!CheckpointRestoreProgress(id)
    BY <1>1, <2>1 DEF J!CheckpointRestoreProgress, J!UpsertActiveRestore, J!JobsAssumption,
                      JobsInv, JobsTyped, J!OfferedUntilRestored
  <2>2. CASE J!RestoreComplete(id)
    BY <1>1, <2>2 DEF J!RestoreComplete, JobsInv, JobsTyped, J!OfferedUntilRestored
  <2>3. QED BY <2>1, <2>2
<1>5. JobsTyped' /\ UserFilesStay
  BY <1>2, <1>3 DEF JobsInv, JobsTyped, UserFilesStay
<1>6. QED BY <1>2, <1>4, <1>5, WorkKeepsJobs DEF JobsInv

LEMMA StoppedJob ==
  ASSUME NEW j \in Job
  PROVE  LET stop == [j EXCEPT !.todo = {}, !.open = {}] IN
         /\ stop \in Job /\ stop.target = j.target /\ stop.listed = j.listed
         /\ stop.todo = {} /\ stop.open = {}
BY DEF Job

LEMMA FailKeepsJobs ==
  ASSUME JobsInv, J!JobsAssumption, NEW id \in Ids, J!RestoreFails(id)
  PROVE  JobsInv' /\ UserFilesStay
<1> DEFINE d == job[id].target
           emptied == [n \in J!Names |-> IF \E f \in job[id].open : n = J!Own(f) THEN "none"
                                        ELSE disk[d][n]]
<1>1. id \in running /\ d \in Targets
  BY DEF J!RestoreFails, JobsInv
<1>2. /\ record' = [record EXCEPT ![d] = [id |-> id, status |-> "failed"]]
      /\ job' = [job EXCEPT ![id].todo = {}, ![id].open = {}]
      /\ running' \subseteq running /\ restored' = restored
      /\ disk' \in {disk, [disk EXCEPT ![d] = emptied]}
  BY DEF J!RestoreFails, J!FailedIsKept, J!UpsertActiveRestore
<1>3. \A n \in J!Names : emptied[n] \in Content /\ ((emptied[n] = "user") <=> (disk[d][n] = "user"))
  BY <1>1 DEF JobsInv, JobsTyped, Content
<1>4. emptied \in [J!Names -> Content]
  BY <1>3
<1> HIDE DEF emptied, d
<1>5. disk' \in [Targets -> [J!Names -> Content]] /\ UserFilesStay
  <2>1. disk \in [Targets -> [J!Names -> Content]]
    BY DEF JobsInv, JobsTyped
  <2>2. CASE disk' = disk
    BY <2>1, <2>2 DEF UserFilesStay
  <2>3. CASE disk' = [disk EXCEPT ![d] = emptied]
    <3>1. disk' \in [Targets -> [J!Names -> Content]]
      BY <1>4, <2>1, <2>3
    <3>2. \A t \in Targets : disk'[t] = IF t = d THEN emptied ELSE disk[t]
      BY <2>1, <2>3
    <3>3. QED BY <1>3, <3>1, <3>2 DEF UserFilesStay
  <2>4. QED BY <1>2, <2>2, <2>3
<1>6. \A i \in Ids : /\ job'[i].target = job[i].target /\ job'[i].listed = job[i].listed
                     /\ job'[i].todo \subseteq job[i].todo /\ job'[i].open \subseteq job'[i].todo
  BY <1>2 DEF JobsInv, JobsTyped, Job
<1>7. JobsTyped'
  <2>1. job[id] \in Job
    BY DEF JobsInv, JobsTyped
  <2>2. job' = [job EXCEPT ![id] = [job[id] EXCEPT !.todo = {}, !.open = {}]]
    BY <1>2
  <2>3. job' \in [Ids -> Job]
    BY <2>1, <2>2, StoppedJob DEF JobsInv, JobsTyped
  <2>4. QED BY <1>1, <1>2, <1>5, <2>3 DEF JobsInv, JobsTyped
<1>8. J!OfferedUntilRestored'
  BY <1>1, <1>2, <1>6 DEF JobsInv, JobsTyped, J!JobsAssumption, J!OfferedUntilRestored
<1>9. QED BY <1>2, <1>5, <1>6, <1>7, <1>8, WorkKeepsJobs

LEMMA RestartKeepsJobs ==
  ASSUME JobsInv, J!JobsAssumption, J!Restart
  PROVE  JobsInv' /\ UserFilesStay
<1>1. job' = [i \in Ids |-> [job[i] EXCEPT !.todo = {}, !.open = {}]]
      /\ running' = {} /\ UNCHANGED <<record, restored, disk>>
  BY DEF J!Restart
<1>a. \A i \in Ids : job[i] \in Job
  BY DEF JobsInv, JobsTyped
<1>b. \A i \in Ids : job'[i] = [job[i] EXCEPT !.todo = {}, !.open = {}]
  BY <1>1
<1>2. \A i \in Ids : /\ job'[i].target = job[i].target /\ job'[i].listed = job[i].listed
                     /\ job'[i].todo \subseteq job[i].todo /\ job'[i].open \subseteq job'[i].todo
  BY <1>a, <1>b, StoppedJob
<1>c. job' \in [Ids -> Job]
  BY <1>1, <1>a, StoppedJob
<1>3. JobsTyped' /\ UserFilesStay
  BY <1>1, <1>c DEF JobsInv, JobsTyped, UserFilesStay
<1>4. J!OfferedUntilRestored'
  <2>1. \A i \in Ids : job'[i].target = job[i].target /\ job'[i].listed = job[i].listed
    BY <1>2
  <2>2. J!OfferedUntilRestored
    BY DEF JobsInv
  <2>3. QED BY <1>1, <2>1, <2>2 DEF J!OfferedUntilRestored
<1>5. QED BY <1>1, <1>2, <1>3, <1>4, WorkKeepsJobs

\* Point-in-time restores and packed files write where there was nothing.
LEMMA OthersKeepJobs ==
  ASSUME JobsInv, J!JobsAssumption,
         \/ J!StartPointInTime \/ J!ChoosePath \/ J!CopyRemoteToLocal \/ J!PointInTimeFails
         \/ J!StartPacked \/ J!PackedEnds \/ UNCHANGED J!vars
  PROVE  JobsInv' /\ UserFilesStay
<1>1. UNCHANGED J!jobVars
  BY DEF J!StartPointInTime, J!ChoosePath, J!CopyRemoteToLocal, J!PointInTimeFails,
         J!StartPacked, J!PackedEnds, J!vars
<1>2. \/ disk' = disk
      \/ \E d, n : disk[d][n] = "none" /\ disk' = [disk EXCEPT ![d][n] = "whole"]
  <2>1. CASE J!CopyRemoteToLocal
    BY <2>1 DEF J!CopyRemoteToLocal
  <2>2. CASE J!PackedEnds
    <3>1. CASE disk' = disk
      BY <3>1
    <3>2. CASE \E d \in Targets, f \in J!FileIds : \E s \in J!FreeSlot(d, f) :
                 disk' = [disk EXCEPT ![d][<<f, s>>] = "whole"]
      <4>1. PICK d \in Targets, f \in J!FileIds :
              \E s \in J!FreeSlot(d, f) : disk' = [disk EXCEPT ![d][<<f, s>>] = "whole"]
        BY <3>2
      <4>a. PICK s \in J!FreeSlot(d, f) : disk' = [disk EXCEPT ![d][<<f, s>>] = "whole"]
        BY <4>1
      <4> DEFINE free == {t \in 1 .. Slots : disk[d][<<f, t>>] = "none"}
      <4>2. free # {} /\ s = J!Min(free)
        BY <4>a DEF J!FreeSlot
      <4>3. free \in SUBSET Nat
        OBVIOUS
      <4>4. s \in free
        BY <4>2, <4>3, SmallestId
      <4>5. QED BY <4>a, <4>4
    <3>3. QED BY <2>2, <3>1, <3>2 DEF J!PackedEnds
  <2>3. QED
    BY <2>1, <2>2 DEF J!StartPointInTime, J!ChoosePath, J!PointInTimeFails, J!StartPacked, J!vars
<1>3. disk' \in [Targets -> [J!Names -> Content]] /\ UserFilesStay
  <2>1. CASE disk' = disk
    BY <2>1 DEF JobsInv, JobsTyped, UserFilesStay
  <2>2. CASE \E d, n : disk[d][n] = "none" /\ disk' = [disk EXCEPT ![d][n] = "whole"]
    <3>1. PICK d, n : disk[d][n] = "none" /\ disk' = [disk EXCEPT ![d][n] = "whole"]
      BY <2>2
    <3>2. disk \in [Targets -> [J!Names -> Content]]
      BY DEF JobsInv, JobsTyped
    <3>3. disk' \in [Targets -> [J!Names -> Content]]
      BY <3>1, <3>2 DEF Content
    <3>4. \A e \in Targets, m \in J!Names :
            disk'[e][m] = IF e = d /\ m = n THEN "whole" ELSE disk[e][m]
      BY <3>1, <3>2
    <3>5. QED BY <3>1, <3>3, <3>4 DEF UserFilesStay
  <2>3. QED BY <1>2, <2>1, <2>2
<1>4. JobsTyped' /\ J!OfferedUntilRestored'
  BY <1>1, <1>3 DEF JobsInv, JobsTyped, J!jobVars, J!OfferedUntilRestored
<1>5. QED BY <1>1, <1>3, <1>4, WorkKeepsJobs DEF JobsInv, JobsTyped, J!jobVars

LEMMA JobsStep ==
  ASSUME JobsInv, J!JobsAssumption, [J!Next]_(J!vars)
  PROVE  JobsInv' /\ UserFilesStay
<1>1. ASSUME NEW d \in Targets, J!StartRestore(d) \/ J!ResumeRestore(d)
      PROVE  JobsInv' /\ UserFilesStay
  <2>1. UserFilesStay
    BY <1>1 DEF J!StartRestore, J!ResumeRestore, J!RunRestoreJob, UserFilesStay
  <2>2. QED BY <1>1, <2>1, StartKeepsJobs
<1>2. QED
  BY <1>1, ListKeepsJobs, FileKeepsJobs, RecordKeepsJobs, FailKeepsJobs, RestartKeepsJobs,
     OthersKeepJobs DEF J!Next

\* What was started and not reported complete is offered again, for any targets and
\* any number of runs, failures and restarts (main/ipc.js, restore:getActiveJobs).
THEOREM StartedIsOffered == Spec => []OfferedUntilRestored
<1>1. Init => JobsInv
  BY JobsInit, RecoveryAssumption DEF Init
<1>2. JobsInv /\ [Step]_vars => JobsInv'
  BY JobsStep, PartsMove, RecoveryAssumption
<1>3. JobsInv => OfferedUntilRestored
  BY DEF JobsInv, OfferedUntilRestored
<1>4. QED BY <1>1, <1>2, <1>3, PTL DEF Spec, Step

\* No restore, of a folder, of a point in time or of a packed file, touches a file
\* that the user had at its target, for any number of them at a time.
THEOREM UserFilesAreLeft == Spec => ExistingKept
<1>1. Init => JobsInv
  BY JobsInit, RecoveryAssumption DEF Init
<1>2. JobsInv /\ [Step]_vars => JobsInv'
  BY JobsStep, PartsMove, RecoveryAssumption
<1>3. JobsInv /\ [Step]_vars =>
        [\A d \in Targets, n \in J!Names : disk[d][n] = "user" => disk'[d][n] = "user"]_(J!vars)
  BY JobsStep, PartsMove, RecoveryAssumption DEF UserFilesStay
<1>4. QED BY <1>1, <1>2, <1>3, PTL DEF Spec, Step, ExistingKept, J!ExistingKept

-----------------------------------------------------------------------------
(* RestorePoints, one entry.  A plan takes the oldest version that is newer *)
(* than its time, or the current copy.  Whatever a step does with an entry, *)
(* it leaves that choice for every time that retention covers; and what it  *)
(* would choose now is what the vault holds now.                            *)

Versions == [content : Nat, at : Nat]
Entry    == [status : {"none", "backed_up", "deleted"}, remote : Nat, at : Nat, deletedAt : Nat,
             versions : SUBSET Versions]

\* An entry at time n.
EntryInv(e, n) ==
  /\ e.at < n /\ e.deletedAt < n
  /\ \A v \in e.versions : v.at < n
  /\ \A v, w \in e.versions : v.at = w.at => v = w
  /\ e.status = "none" => e.remote = 0 /\ e.deletedAt = 0 /\ e.versions = {}
  /\ e.status = "backed_up" =>
       e.remote # 0 /\ e.deletedAt = 0 /\ \A v \in e.versions : v.at <= e.at
  /\ e.status = "deleted" =>
       /\ e.deletedAt # 0 /\ \A v \in e.versions : v.at <= e.deletedAt
       /\ \E v \in e.versions : v.at = e.deletedAt

\* The version that a plan of time t takes.
Chosen(e, t, v) ==
  v \in e.versions /\ v.at > t /\ \A w \in e.versions : w.at > t => v.at <= w.at

CoveredAt(t, n) == t + VersionAge >= n /\ t + DeletedAge >= n

\* A step at time now makes b of e, and nothing keeps the content of the times g.
ChoiceStays(e, b, g) ==
  /\ b \in Entry /\ EntryInv(b, now + 1)
  /\ P!Held(b) # 0 => P!ChooseRemoteForTime(b, now) = P!Held(b)
  /\ \A t \in P!Times :
       t < now /\ t \notin g /\ CoveredAt(t, now + 1) /\ P!ChooseRemoteForTime(e, t) # 0
         => P!ChooseRemoteForTime(b, t) = P!ChooseRemoteForTime(e, t)

LEMMA OldestIsOldest ==
  ASSUME NEW vs \in SUBSET Versions, vs # {}
  PROVE  P!Oldest(vs) \in vs /\ \A w \in vs : P!Oldest(vs).at <= w.at
<1> DEFINE moments == {v.at : v \in vs}
<1>1. moments \in SUBSET Nat /\ moments # {}
  BY DEF Versions
<1>2. PICK v \in vs : v.at = J!Min(moments)
  BY <1>1, SmallestId
<1>3. \A w \in vs : v.at <= w.at
  BY <1>1, <1>2, SmallestId
<1>4. QED BY <1>3 DEF P!Oldest

LEMMA ChosenIsPlanned ==
  ASSUME NEW e \in Entry, NEW n \in Nat, EntryInv(e, n), NEW t \in Nat, NEW v, Chosen(e, t, v)
  PROVE  P!ChooseRemoteForTime(e, t) = v.content
<1> DEFINE later == P!NextVersions(e, t)
<1>1. later \in SUBSET Versions /\ v \in later
  BY DEF Entry, P!NextVersions, Chosen
<1>2. P!Oldest(later) \in later /\ P!Oldest(later).at <= v.at
  BY <1>1, OldestIsOldest
<1>3. P!Oldest(later) \in e.versions /\ P!Oldest(later).at > t
  BY <1>2 DEF P!NextVersions
<1>4. v.at <= P!Oldest(later).at /\ v \in e.versions
  BY <1>3 DEF Chosen
<1>5. v.at \in Nat /\ P!Oldest(later).at \in Nat
  BY <1>1, <1>2 DEF Versions
<1>6. P!Oldest(later) = v
  BY <1>2, <1>3, <1>4, <1>5 DEF EntryInv
<1>7. QED BY <1>1, <1>6 DEF P!ChooseRemoteForTime

LEMMA NothingChosenIsLatest ==
  ASSUME NEW e \in Entry, NEW t \in Nat
  PROVE  \/ \E v \in e.versions : Chosen(e, t, v)
         \/ /\ \A v \in e.versions : ~(v.at > t)
            /\ P!ChooseRemoteForTime(e, t) = P!Latest(e, t)
<1> DEFINE later == P!NextVersions(e, t)
<1>1. CASE later # {}
  <2>1. later \in SUBSET Versions
    BY DEF Entry, P!NextVersions
  <2>2. P!Oldest(later) \in later /\ \A w \in later : P!Oldest(later).at <= w.at
    BY <1>1, <2>1, OldestIsOldest
  <2>3. QED BY <2>2 DEF Chosen, P!NextVersions
<1>2. CASE later = {}
  BY <1>2 DEF P!ChooseRemoteForTime, P!NextVersions
<1>3. QED BY <1>1, <1>2

\* What was there at a time that the plan still covers, with no version after it, is
\* the copy that is there.
LEMMA LatestIsHeld ==
  ASSUME NEW e \in Entry, NEW n \in Nat, EntryInv(e, n), NEW t \in Nat,
         \A v \in e.versions : ~(v.at > t), P!ChooseRemoteForTime(e, t) # 0
  PROVE  /\ e.status = "backed_up" /\ e.at <= t /\ P!ChooseRemoteForTime(e, t) = e.remote
<1>1. P!ChooseRemoteForTime(e, t) = P!Latest(e, t)
  BY DEF P!ChooseRemoteForTime, P!NextVersions
<1>2. e.remote # 0 /\ ~(e.deletedAt # 0 /\ e.deletedAt <= t) /\ ~(e.at > t) /\ P!Latest(e, t) = e.remote
  BY <1>1 DEF P!Latest, P!Nothing
<1>3. e.at \in Nat /\ e.deletedAt \in Nat /\ e.status \in {"none", "backed_up", "deleted"}
  BY DEF Entry
<1>4. e.status # "deleted"
  BY <1>2, <1>3 DEF EntryInv
<1>5. e.status # "none"
  BY <1>2 DEF EntryInv
<1>6. QED BY <1>1, <1>2, <1>3, <1>4, <1>5

LEMMA HeldIsPlanned ==
  ASSUME NEW b \in Entry, NEW n \in Nat, EntryInv(b, n + 1), P!Held(b) # 0
  PROVE  P!ChooseRemoteForTime(b, n) = P!Held(b)
<1>1. b.status = "backed_up" /\ P!Held(b) = b.remote
  BY DEF P!Held, P!Nothing
<1>2. b.deletedAt = 0 /\ ~(b.at > n) /\ \A v \in b.versions : ~(v.at > n)
  BY <1>1 DEF EntryInv, Entry, Versions
<1>3. P!NextVersions(b, n) = {}
  BY <1>2 DEF P!NextVersions
<1>4. QED BY <1>1, <1>2, <1>3 DEF P!ChooseRemoteForTime, P!Latest

\* What the records of the manifest do to an entry.
LEMMA BackedUpEntry ==
  ASSUME NEW e \in Entry, NEW c \in Nat, now \in Nat
  PROVE  LET b == P!RecordBackedUp(e, c) IN
         /\ b \in Entry /\ b.status = "backed_up" /\ b.remote = c /\ b.at = now /\ b.deletedAt = 0
         /\ b.versions = e.versions
BY DEF P!RecordBackedUp, Entry

LEMMA HistoryEntry ==
  ASSUME NEW e \in Entry, now \in Nat
  PROVE  LET b == P!RecordHistory(e) IN
         /\ b \in Entry /\ b.status = e.status /\ b.remote = e.remote /\ b.at = e.at
         /\ b.deletedAt = e.deletedAt
         /\ b.versions = P!Room(e.versions) \cup {[content |-> e.remote, at |-> now]}
<1>1. P!Room(e.versions) \in SUBSET Versions /\ [content |-> e.remote, at |-> now] \in Versions
  BY DEF P!Room, Entry, Versions
<1>2. P!Room(e.versions) \cup {[content |-> e.remote, at |-> now]} \in SUBSET Versions
  BY <1>1
<1>3. QED BY <1>2 DEF P!RecordHistory, Entry

LEMMA DeletedEntry ==
  ASSUME NEW e \in Entry, now \in Nat
  PROVE  LET b == P!RecordDeleted(e) IN
         /\ b \in Entry /\ b.status = "deleted" /\ b.remote = e.remote /\ b.at = e.at
         /\ b.deletedAt = now
         /\ b.versions = P!Room(e.versions) \cup {[content |-> e.remote, at |-> now]}
<1> DEFINE h == P!RecordHistory(e)
<1>1. /\ h \in Entry /\ h.remote = e.remote /\ h.at = e.at
      /\ h.versions = P!Room(e.versions) \cup {[content |-> e.remote, at |-> now]}
  BY HistoryEntry
<1>2. P!RecordDeleted(e) = [h EXCEPT !.status = "deleted", !.deletedAt = now]
  BY DEF P!RecordDeleted
<1> HIDE DEF h
<1>3. QED BY <1>1, <1>2 DEF Entry

LEMMA SameEntryStays ==
  ASSUME NEW e \in Entry, now \in Nat, EntryInv(e, now), NEW g
  PROVE  ChoiceStays(e, e, g)
<1>1. EntryInv(e, now + 1)
  BY DEF EntryInv, Entry, Versions
<1>2. QED BY <1>1, HeldIsPlanned DEF ChoiceStays

LEMMA NewEntryStays ==
  ASSUME NEW e \in Entry, now \in Nat \ {0}, EntryInv(e, now), e.status # "backed_up", NEW g
  PROVE  ChoiceStays(e, P!RecordBackedUp(e, now), g)
<1> DEFINE b == P!RecordBackedUp(e, now)
<1>1. /\ b \in Entry /\ b.status = "backed_up" /\ b.remote = now /\ b.at = now /\ b.deletedAt = 0
      /\ b.versions = e.versions
  BY BackedUpEntry
<1> HIDE DEF b
<1>2. EntryInv(b, now + 1)
  BY <1>1 DEF EntryInv, Entry, Versions
<1>3. ASSUME NEW t \in Nat, P!ChooseRemoteForTime(e, t) # 0
      PROVE  P!ChooseRemoteForTime(b, t) = P!ChooseRemoteForTime(e, t)
  <2>1. CASE \A v \in e.versions : ~(v.at > t)
    BY <1>3, <2>1, LatestIsHeld
  <2>2. CASE ~ \A v \in e.versions : ~(v.at > t)
    <3>1. PICK v \in e.versions : Chosen(e, t, v)
      BY <2>2, NothingChosenIsLatest
    <3>2. Chosen(b, t, v)
      BY <1>1, <3>1 DEF Chosen
    <3>3. now + 1 \in Nat
      OBVIOUS
    <3>4. QED BY <1>1, <1>2, <3>1, <3>2, <3>3, ChosenIsPlanned
  <2>3. QED BY <2>1, <2>2
<1>4. \A t \in P!Times : t \in Nat
  BY DEF P!Times
<1>5. ChoiceStays(e, b, g)
  BY <1>1, <1>2, <1>3, <1>4, HeldIsPlanned DEF ChoiceStays
<1>6. QED BY <1>5 DEF b

\* The copy that is replaced or deleted becomes the newest version; if the oldest has
\* to make room, the entry forgets the time before it.
LEMMA HistoryStays ==
  ASSUME NEW e \in Entry, now \in Nat \ {0}, EntryInv(e, now), e.status = "backed_up",
         NEW g, P!CutOff(e) \subseteq g,
         NEW b \in Entry,
         b.versions = P!Room(e.versions) \cup {[content |-> e.remote, at |-> now]},
         EntryInv(b, now + 1)
  PROVE  ChoiceStays(e, b, g)
<1> DEFINE h == [content |-> e.remote, at |-> now]
<1>1. h.content = e.remote /\ h.at = now /\ h \in b.versions
  OBVIOUS
<1>2. P!Room(e.versions) \subseteq e.versions /\ b.versions = P!Room(e.versions) \cup {h}
  BY DEF P!Room
<1> HIDE DEF h
<1>3. ASSUME NEW t \in P!Times, t < now, t \notin g, P!ChooseRemoteForTime(e, t) # 0
      PROVE  P!ChooseRemoteForTime(b, t) = P!ChooseRemoteForTime(e, t)
  <2>0. t \in Nat
    BY DEF P!Times
  <2>1. \A w \in e.versions : w.at < now /\ w.at \in Nat
    BY DEF EntryInv, Entry, Versions
  <2>2. PICK v : Chosen(b, t, v) /\ v.content = P!ChooseRemoteForTime(e, t)
    <3>1. CASE \A v \in e.versions : ~(v.at > t)
      <4>1. P!ChooseRemoteForTime(e, t) = h.content
        BY <1>1, <1>3, <2>0, <3>1, LatestIsHeld
      <4>2. Chosen(b, t, h)
        BY <1>1, <1>2, <1>3, <2>0, <3>1 DEF Chosen
      <4>3. QED BY <4>1, <4>2
    <3>2. CASE ~ \A v \in e.versions : ~(v.at > t)
      <4>1. PICK v \in e.versions : Chosen(e, t, v)
        BY <2>0, <3>2, NothingChosenIsLatest
      <4>2. P!ChooseRemoteForTime(e, t) = v.content
        BY <2>0, <4>1, ChosenIsPlanned
      <4>3. v \in P!Room(e.versions)
        <5>1. P!Full(e.versions) => ~(t < P!Oldest(e.versions).at)
          BY <1>3 DEF P!CutOff
        <5>2. P!Full(e.versions) => v # P!Oldest(e.versions)
          BY <2>0, <2>1, <4>1, <5>1 DEF Chosen
        <5>3. QED BY <5>2 DEF P!Room
      <4>4. Chosen(b, t, v)
        BY <1>1, <1>2, <1>3, <2>0, <2>1, <4>1, <4>3 DEF Chosen
      <4>5. QED BY <4>2, <4>4
    <3>3. QED BY <3>1, <3>2
  <2>3. now + 1 \in Nat
    OBVIOUS
  <2>4. QED BY <2>0, <2>2, <2>3, ChosenIsPlanned
<1>4. QED BY <1>3, HeldIsPlanned DEF ChoiceStays

LEMMA RoomKeepsEntry ==
  ASSUME NEW e \in Entry, now \in Nat \ {0}, EntryInv(e, now), e.status = "backed_up"
  PROVE  LET vs == P!Room(e.versions) \cup {[content |-> e.remote, at |-> now]} IN
         /\ \A v \in vs : v.at <= now
         /\ \A v, w \in vs : v.at = w.at => v = w
         /\ \E v \in vs : v.at = now
<1> DEFINE h == [content |-> e.remote, at |-> now]
<1>1. P!Room(e.versions) \subseteq e.versions /\ h.at = now
  BY DEF P!Room
<1> HIDE DEF h
<1>2. \A v \in e.versions : v.at < now /\ v.at \in Nat
  BY DEF EntryInv, Entry, Versions
<1>3. \A v \in P!Room(e.versions) \cup {h} : v.at <= now
  BY <1>1, <1>2
<1>4. \A v, w \in P!Room(e.versions) \cup {h} : v.at = w.at => v = w
  BY <1>1, <1>2 DEF EntryInv
<1>5. QED BY <1>1, <1>3, <1>4 DEF h

LEMMA ModifiedEntryStays ==
  ASSUME NEW e \in Entry, now \in Nat \ {0}, EntryInv(e, now), e.status = "backed_up",
         NEW g, P!CutOff(e) \subseteq g
  PROVE  ChoiceStays(e, P!RecordBackedUp(P!RecordHistory(e), now), g)
<1> DEFINE vs == P!Room(e.versions) \cup {[content |-> e.remote, at |-> now]}
           m  == P!RecordHistory(e)
           b  == P!RecordBackedUp(m, now)
<1>1. m \in Entry /\ m.versions = vs
  BY HistoryEntry
<1> HIDE DEF m
<1>2. /\ b \in Entry /\ b.status = "backed_up" /\ b.remote = now /\ b.at = now /\ b.deletedAt = 0
      /\ b.versions = vs
  BY <1>1, BackedUpEntry
<1>3. /\ \A v \in vs : v.at <= now
      /\ \A v, w \in vs : v.at = w.at => v = w
  BY RoomKeepsEntry
<1> HIDE DEF b, vs
<1>4. EntryInv(b, now + 1)
  <2>1. \A v \in vs : v.at \in Nat
    BY <1>2 DEF Entry, Versions
  <2>2. QED BY <1>2, <1>3, <2>1 DEF EntryInv
<1>5. ChoiceStays(e, b, g)
  BY <1>2, <1>4, HistoryStays DEF vs
<1>6. QED BY <1>5 DEF b, m

LEMMA DeletedEntryStays ==
  ASSUME NEW e \in Entry, now \in Nat \ {0}, EntryInv(e, now), e.status = "backed_up",
         NEW g, P!CutOff(e) \subseteq g
  PROVE  ChoiceStays(e, P!RecordDeleted(e), g)
<1> DEFINE vs == P!Room(e.versions) \cup {[content |-> e.remote, at |-> now]}
           b  == P!RecordDeleted(e)
<1>1. /\ b \in Entry /\ b.status = "deleted" /\ b.remote = e.remote /\ b.at = e.at
      /\ b.deletedAt = now /\ b.versions = vs
  BY DeletedEntry
<1>2. /\ \A v \in vs : v.at <= now
      /\ \A v, w \in vs : v.at = w.at => v = w
      /\ \E v \in vs : v.at = now
  BY RoomKeepsEntry
<1> HIDE DEF b, vs
<1>3. EntryInv(b, now + 1)
  <2>1. \A v \in vs : v.at \in Nat
    BY <1>1 DEF Entry, Versions
  <2>2. e.at < now /\ e.at \in Nat
    BY DEF EntryInv, Entry
  <2>3. QED BY <1>1, <1>2, <2>1, <2>2 DEF EntryInv
<1>4. ChoiceStays(e, b, g)
  BY <1>1, <1>3, HistoryStays DEF vs
<1>5. QED BY <1>4 DEF b

\* A copy that was lost and uploaded again, or uploaded over without a version: the
\* times since the last version are lost.
LEMMA UnversionedEntryStays ==
  ASSUME NEW e \in Entry, now \in Nat \ {0}, EntryInv(e, now), e.status = "backed_up",
         NEW c \in Nat \ {0}, NEW g, P!Unversioned(e) \subseteq g
  PROVE  ChoiceStays(e, P!RecordBackedUp(e, c), g)
<1> DEFINE b == P!RecordBackedUp(e, c)
<1>2. /\ b \in Entry /\ b.status = "backed_up" /\ b.remote = c /\ b.at = now
      /\ b.deletedAt = 0 /\ b.versions = e.versions
  BY BackedUpEntry
<1> HIDE DEF b
<1>3. EntryInv(b, now + 1)
  BY <1>2 DEF EntryInv, Entry, Versions
<1>4. ASSUME NEW t \in P!Times, t < now, t \notin g
      PROVE  P!ChooseRemoteForTime(b, t) = P!ChooseRemoteForTime(e, t)
  <2>1. P!NextVersions(e, t) # {}
    BY <1>4 DEF P!Unversioned
  <2>2. P!NextVersions(b, t) = P!NextVersions(e, t)
    BY <1>2 DEF P!NextVersions
  <2>3. QED BY <2>1, <2>2 DEF P!ChooseRemoteForTime
<1>5. ChoiceStays(e, b, g)
  BY <1>2, <1>3, <1>4, HeldIsPlanned DEF ChoiceStays
<1>6. QED BY <1>5 DEF b

\* A version that is newer than a covered time is not taken by retention.
LEMMA CoveredIsKept ==
  ASSUME NEW e \in Entry, now \in Nat, P!RetentionAssumption, NEW v \in e.versions,
         NEW t \in Nat, CoveredAt(t, now), v.at > t
  PROVE  v \in P!Keep(e)
<1>1. v.at \in Nat
  BY DEF Entry, Versions
<1>2. v.at + P!Cutoff(e) >= now
  BY <1>1 DEF CoveredAt, P!Cutoff, P!RetentionAssumption
<1>3. QED BY <1>2 DEF P!Keep

\* What retention takes is too old for any time that it covers, and never the newest.
LEMMA PurgedEntryStays ==
  ASSUME NEW e \in Entry, now \in Nat \ {0}, EntryInv(e, now), P!RetentionAssumption,
         NEW purged \in SUBSET (e.versions \ P!Keep(e)), NEW b,
         b = [e EXCEPT !.versions = P!Retained(@, purged)]
  PROVE  /\ b \in Entry /\ EntryInv(b, now) /\ b.versions = e.versions \ purged
         /\ b.status = e.status /\ b.remote = e.remote
         /\ \A t \in Nat : CoveredAt(t, now) /\ P!ChooseRemoteForTime(e, t) # 0
              => P!ChooseRemoteForTime(b, t) = P!ChooseRemoteForTime(e, t)
<1>1. /\ b \in Entry /\ b.status = e.status /\ b.remote = e.remote /\ b.at = e.at
      /\ b.deletedAt = e.deletedAt /\ b.versions = e.versions \ purged
  BY DEF Entry, P!Retained
<1>2. \A v \in e.versions : (\A w \in e.versions : ~(w.at > v.at)) => v \notin purged
  <2> SUFFICES ASSUME NEW v \in e.versions, \A w \in e.versions : ~(w.at > v.at) PROVE v \in P!Keep(e)
    OBVIOUS
  <2>1. {w \in e.versions : w.at > v.at} = {}
    OBVIOUS
  <2>2. P!Cardinality({w \in e.versions : w.at > v.at}) = 0
    BY <2>1, FS_EmptySet DEF P!Cardinality, Cardinality
  <2>3. QED BY <2>2 DEF P!Keep, P!RetentionAssumption
<1>3. EntryInv(b, now)
  <2>1. e.status = "deleted" => \E v \in b.versions : v.at = b.deletedAt
    BY <1>1, <1>2 DEF EntryInv, Entry, Versions
  <2>2. QED BY <1>1, <2>1 DEF EntryInv, Entry, Versions
<1>4. ASSUME NEW t \in Nat, CoveredAt(t, now), P!ChooseRemoteForTime(e, t) # 0
      PROVE  P!ChooseRemoteForTime(b, t) = P!ChooseRemoteForTime(e, t)
  <2>1. CASE \A v \in e.versions : ~(v.at > t)
    <3>1. P!NextVersions(b, t) = {} /\ P!NextVersions(e, t) = {} /\ P!Latest(b, t) = P!Latest(e, t)
      BY <1>1, <2>1 DEF P!NextVersions, P!Latest
    <3>2. QED BY <3>1 DEF P!ChooseRemoteForTime
  <2>2. CASE ~ \A v \in e.versions : ~(v.at > t)
    <3>1. PICK v \in e.versions : Chosen(e, t, v)
      BY <2>2, NothingChosenIsLatest
    <3>2. v.at \in Nat /\ v.at > t
      BY <3>1 DEF Chosen, Entry, Versions
    <3>3. v \in b.versions
      BY <1>1, <1>4, <3>1, <3>2, CoveredIsKept
    <3>4. Chosen(b, t, v)
      BY <1>1, <3>1, <3>3 DEF Chosen
    <3>5. QED BY <1>1, <1>3, <3>1, <3>4, ChosenIsPlanned
  <2>3. QED BY <2>1, <2>2
<1>5. QED BY <1>1, <1>3, <1>4

-----------------------------------------------------------------------------
(* RestorePoints: what was there at a covered time is what a plan of that   *)
(* time takes, unless nothing kept it since.                                *)

PointsTyped ==
  /\ now \in Nat \ {0}
  /\ entry \in [Files -> Entry] /\ past \in [P!Times -> [Files -> Nat]]
  /\ lost \in [Files -> SUBSET P!Times]
  /\ moved \in [Files -> SUBSET Versions]
  /\ points \in SUBSET P!Times /\ \A p \in points : p < now

PlansArePast ==
  \A f \in Files : \A t \in P!Times :
    t < now /\ CoveredAt(t, now) /\ past[t][f] # 0 /\ t \notin lost[f]
      => P!ChooseRemoteForTime(entry[f], t) = past[t][f]

\* What a purge has moved is what it may move: it looks at the clock once.
PointsInv ==
  /\ PointsTyped
  /\ \A f \in Files : EntryInv(entry[f], now) /\ moved[f] \subseteq entry[f].versions \ P!Keep(entry[f])
  /\ PlansArePast

LEMMA PointsInit == P!RetentionAssumption /\ P!Init => PointsInv
<1> SUFFICES ASSUME P!RetentionAssumption, P!Init PROVE PointsInv
  OBVIOUS
<1>1. P!NoEntry \in Entry /\ EntryInv(P!NoEntry, 1)
  BY DEF P!NoEntry, P!Nothing, Entry, EntryInv
<1>2. PointsTyped
  BY <1>1 DEF P!Init, PointsTyped, P!Nothing
<1>3. \A f \in Files : EntryInv(entry[f], now) /\ moved[f] \subseteq entry[f].versions \ P!Keep(entry[f])
  BY <1>1 DEF P!Init
<1>4. PlansArePast
  BY DEF P!Init, PlansArePast, P!Nothing
<1>5. QED BY <1>2, <1>3, <1>4 DEF PointsInv

\* A moment passes: no choice changes for a time that is still covered.
LEMMA MomentKeepsPoints ==
  ASSUME P!RetentionAssumption, PointsInv, NEW e \in [Files -> Entry], P!Step(e), UNCHANGED moved,
         lost' \in [Files -> SUBSET P!Times],
         \A f \in Files : lost[f] \subseteq lost'[f],
         \A f \in Files : ChoiceStays(entry[f], e[f], lost'[f]),
         points' \subseteq points \cup {now}
  PROVE  PointsInv'
<1>1. /\ now \in P!Times /\ now' = now + 1 /\ entry' = e
      /\ past' = [past EXCEPT ![now] = [f \in Files |-> P!Held(e[f])]]
  BY DEF P!Step, PointsInv, PointsTyped, P!Times, P!RetentionAssumption
<1>2. \A f \in Files : P!Held(e[f]) \in Nat
  BY DEF Entry, P!Held, P!Nothing
<1>3. [f \in Files |-> P!Held(e[f])] \in [Files -> Nat]
  BY <1>2
<1>4. PointsTyped'
  <2>1. past' \in [P!Times -> [Files -> Nat]]
    BY <1>1, <1>3 DEF PointsInv, PointsTyped
  <2>2. points' \in SUBSET P!Times /\ \A p \in points' : p < now'
    BY <1>1 DEF PointsInv, PointsTyped, P!Times
  <2>3. QED BY <1>1, <2>1, <2>2 DEF PointsInv, PointsTyped
<1>5. \A f \in Files : EntryInv(entry'[f], now') /\ moved'[f] = {}
  BY <1>1 DEF ChoiceStays, P!Step, P!NotPurging
<1>6. ASSUME NEW f \in Files, NEW t \in P!Times,
             t < now', CoveredAt(t, now'), past'[t][f] # 0, t \notin lost'[f]
      PROVE  P!ChooseRemoteForTime(entry'[f], t) = past'[t][f]
  <2>1. t \in Nat /\ now \in Nat
    BY DEF P!Times, PointsInv, PointsTyped
  <2>2. CASE t = now
    BY <1>1, <1>6, <2>2 DEF ChoiceStays, PointsInv, PointsTyped
  <2>3. CASE t # now
    <3>0. t < now /\ t \notin lost[f]
      BY <1>1, <1>6, <2>1, <2>3
    <3>1. t < now /\ past'[t][f] = past[t][f] /\ t \notin lost[f]
      BY <1>1, <2>3, <3>0 DEF PointsInv, PointsTyped
    <3>2. CoveredAt(t, now)
      BY <1>1, <1>6, <2>1 DEF CoveredAt, P!RetentionAssumption
    <3>3. P!ChooseRemoteForTime(entry[f], t) = past[t][f]
      BY <1>6, <3>1, <3>2 DEF PointsInv, PlansArePast
    <3>4. QED BY <1>1, <1>6, <2>1, <3>1, <3>3 DEF ChoiceStays
  <2>4. QED BY <2>2, <2>3
<1>7. QED BY <1>4, <1>5, <1>6 DEF PointsInv, PlansArePast

\* One file moves, with the times that it loses.
LEMMA FileKeepsPoints ==
  ASSUME P!RetentionAssumption, PointsInv, NEW f \in Files, NEW b, NEW g,
         ChoiceStays(entry[f], b, lost[f] \cup g), g \subseteq P!Times,
         P!Step([entry EXCEPT ![f] = b]), P!Lose(f, g), UNCHANGED <<points, moved>>
  PROVE  PointsInv'
<1> DEFINE e == [entry EXCEPT ![f] = b]
<1>1. e \in [Files -> Entry]
  BY DEF ChoiceStays, PointsInv, PointsTyped
<1>2. lost' = [lost EXCEPT ![f] = lost[f] \cup g] /\ lost \in [Files -> SUBSET P!Times]
  BY DEF P!Lose, PointsInv, PointsTyped
<1>3. \A h \in Files : ChoiceStays(entry[h], e[h], lost'[h])
  <2> TAKE h \in Files
  <2>1. CASE h = f
    BY <1>2, <2>1 DEF PointsInv, PointsTyped
  <2>2. CASE h # f
    BY <2>2, SameEntryStays DEF PointsInv, PointsTyped
  <2>3. QED BY <2>1, <2>2
<1>4. lost' \in [Files -> SUBSET P!Times] /\ \A h \in Files : lost[h] \subseteq lost'[h]
  BY <1>2
<1> HIDE DEF e
<1>5. P!Step(e)
  BY DEF e
<1>6. QED BY <1>1, <1>3, <1>4, <1>5, MomentKeepsPoints

\* The record of a purge changes no choice of a covered time.
LEMMA RecordKeepsPoints ==
  ASSUME P!RetentionAssumption, PointsInv, NEW f \in Files, P!RecordRetained(f)
  PROVE  PointsInv'
<1> DEFINE b == [entry[f] EXCEPT !.versions = P!Retained(@, moved[f])]
<1>1. /\ now \in Nat \ {0} /\ entry \in [Files -> Entry] /\ EntryInv(entry[f], now)
      /\ moved[f] \in SUBSET (entry[f].versions \ P!Keep(entry[f]))
  BY DEF PointsInv, PointsTyped
<1>2. entry' = [entry EXCEPT ![f] = b]
  BY DEF P!RecordRetained
<1>3. /\ b \in Entry /\ EntryInv(b, now)
      /\ \A t \in Nat : CoveredAt(t, now) /\ P!ChooseRemoteForTime(entry[f], t) # 0
           => P!ChooseRemoteForTime(b, t) = P!ChooseRemoteForTime(entry[f], t)
  BY <1>1, PurgedEntryStays
<1> HIDE DEF b
<1>4. entry'[f] = b /\ \A h \in Files : h # f => entry'[h] = entry[h]
  BY <1>1, <1>2
<1>5. /\ UNCHANGED <<now, points, past, lost>>
      /\ moved' = [moved EXCEPT ![f] = {}]
  BY DEF P!RecordRetained
<1>6. PointsTyped'
  BY <1>1, <1>2, <1>3, <1>5 DEF PointsInv, PointsTyped
<1>7. \A h \in Files : EntryInv(entry'[h], now')
                      /\ moved'[h] \subseteq (entry[h].versions \ P!Keep(entry[h]))'
  <2> SUFFICES ASSUME NEW h \in Files
               PROVE  /\ EntryInv(entry'[h], now')
                      /\ moved'[h] \subseteq (entry[h].versions \ P!Keep(entry[h]))'
    OBVIOUS
  <2>1. CASE h = f
    BY <1>3, <1>4, <1>5, <2>1 DEF PointsInv, PointsTyped
  <2>2. CASE h # f
    <3>1. entry'[h] = entry[h] /\ moved'[h] = moved[h] /\ now' = now
      BY <1>4, <1>5, <2>2 DEF PointsInv, PointsTyped
    <3>2. P!Keep(entry[h])' = P!Keep(entry[h])
      BY <3>1 DEF P!Keep, P!Cutoff
    <3>3. QED BY <3>1, <3>2 DEF PointsInv
  <2>3. QED BY <2>1, <2>2
<1>8. PlansArePast'
  <2> SUFFICES ASSUME NEW h \in Files, NEW t \in P!Times,
                      t < now, CoveredAt(t, now), past[t][h] # 0, t \notin lost[h]
               PROVE  P!ChooseRemoteForTime(entry'[h], t) = past[t][h]
    BY <1>5 DEF PlansArePast
  <2>1. P!ChooseRemoteForTime(entry[h], t) = past[t][h] /\ t \in Nat
    BY DEF PointsInv, PlansArePast, P!Times
  <2>2. QED BY <1>3, <1>4, <2>1
<1>9. QED BY <1>6, <1>7, <1>8 DEF PointsInv

\* The moves of a purge, and a purge that breaks off, leave what entries say.
LEMMA MoveKeepsPoints ==
  ASSUME P!RetentionAssumption, PointsInv, NEW f \in Files, P!MoveExpired(f) \/ P!PurgeStops(f)
  PROVE  PointsInv'
<1>1. UNCHANGED <<now, entry, points, past, lost>>
  BY DEF P!MoveExpired, P!PurgeStops
<1>2. /\ moved' \in [Files -> SUBSET Versions]
      /\ \A h \in Files : moved'[h] \subseteq entry[h].versions \ P!Keep(entry[h])
  <2>1. CASE moved' = moved \/ moved' = [moved EXCEPT ![f] = {}]
    BY <2>1 DEF PointsInv, PointsTyped
  <2>2. ASSUME NEW v \in entry[f].versions \ P!Keep(entry[f]),
               moved' = [moved EXCEPT ![f] = @ \cup {v}]
        PROVE  /\ moved' \in [Files -> SUBSET Versions]
               /\ \A h \in Files : moved'[h] \subseteq entry[h].versions \ P!Keep(entry[h])
    <3>1. v \in Versions
      BY DEF PointsInv, PointsTyped, Entry
    <3>2. QED BY <2>2, <3>1 DEF PointsInv, PointsTyped
  <2>3. QED BY <2>1, <2>2 DEF P!MoveExpired, P!PurgeStops
<1>3. PointsTyped' /\ PlansArePast'
  BY <1>1, <1>2 DEF PointsInv, PointsTyped, PlansArePast
<1>4. QED BY <1>1, <1>2, <1>3 DEF PointsInv, P!Keep, P!Cutoff

LEMMA PointsStep ==
  ASSUME P!RetentionAssumption, PointsInv, [P!Next]_(P!vars)
  PROVE  PointsInv'
<1>1. now \in Nat \ {0} /\ now \in Nat
  BY DEF PointsInv, PointsTyped
<1>2. \A f \in Files : /\ entry[f] \in Entry /\ EntryInv(entry[f], now)
                      /\ P!CutOff(entry[f]) \subseteq P!Times
                      /\ P!Unversioned(entry[f]) \subseteq P!Times
  BY DEF PointsInv, PointsTyped, P!CutOff, P!Unversioned
<1>3. ASSUME NEW f \in Files, P!BackUpNewFile(f) PROVE PointsInv'
  <2>1. ChoiceStays(entry[f], P!RecordBackedUp(entry[f], now), lost[f] \cup {})
    BY <1>1, <1>2, <1>3, NewEntryStays DEF P!BackUpNewFile
  <2>2. P!Lose(f, {})
    BY <1>3 DEF P!BackUpNewFile, P!Lose, PointsInv, PointsTyped
  <2>3. P!Step([entry EXCEPT ![f] = P!RecordBackedUp(entry[f], now)]) /\ UNCHANGED <<points, moved>>
    BY <1>3 DEF P!BackUpNewFile
  <2>4. {} \subseteq P!Times
    OBVIOUS
  <2>5. QED BY <2>1, <2>2, <2>3, <2>4, FileKeepsPoints
<1>4. ASSUME NEW f \in Files, P!BackUpModifiedFile(f) PROVE PointsInv'
  <2>1. ChoiceStays(entry[f], P!RecordBackedUp(P!RecordHistory(entry[f]), now),
                    lost[f] \cup P!CutOff(entry[f]))
    BY <1>1, <1>2, <1>4, ModifiedEntryStays DEF P!BackUpModifiedFile
  <2>2. /\ P!Step([entry EXCEPT ![f] = P!RecordBackedUp(P!RecordHistory(entry[f]), now)])
        /\ P!Lose(f, P!CutOff(entry[f])) /\ UNCHANGED <<points, moved>>
    BY <1>4 DEF P!BackUpModifiedFile
  <2>3. QED BY <1>2, <2>1, <2>2, FileKeepsPoints
<1>5. ASSUME NEW f \in Files, NEW c \in {entry[f].remote, now}, entry[f].status = "backed_up",
             P!Step([entry EXCEPT ![f] = P!RecordBackedUp(entry[f], c)]),
             P!Lose(f, P!Unversioned(entry[f])), UNCHANGED <<points, moved>>
      PROVE  PointsInv'
  <2>1. c \in Nat \ {0}
    BY <1>1, <1>2, <1>5 DEF EntryInv, Entry
  <2>2. ChoiceStays(entry[f], P!RecordBackedUp(entry[f], c), lost[f] \cup P!Unversioned(entry[f]))
    BY <1>1, <1>2, <1>5, <2>1, UnversionedEntryStays
  <2>3. QED BY <1>2, <1>5, <2>2, FileKeepsPoints
<1>6. ASSUME NEW f \in Files, P!RepairMissingCopy(f) \/ P!BackUpMarkedFile(f) PROVE PointsInv'
  BY <1>5, <1>6 DEF P!RepairMissingCopy, P!BackUpMarkedFile
<1>7. ASSUME NEW f \in Files, P!DeleteToHistory(f) PROVE PointsInv'
  <2>1. ChoiceStays(entry[f], P!RecordDeleted(entry[f]), lost[f] \cup P!CutOff(entry[f]))
    BY <1>1, <1>2, <1>7, DeletedEntryStays DEF P!DeleteToHistory
  <2>2. /\ P!Step([entry EXCEPT ![f] = P!RecordDeleted(entry[f])])
        /\ P!Lose(f, P!CutOff(entry[f])) /\ UNCHANGED <<points, moved>>
    BY <1>7 DEF P!DeleteToHistory
  <2>3. QED BY <1>2, <2>1, <2>2, FileKeepsPoints
<1>8. CASE P!AddRestorePoint
  <2>1. \A f \in Files : ChoiceStays(entry[f], entry[f], lost'[f])
    BY <1>1, <1>2, SameEntryStays
  <2>2. /\ P!Step(entry) /\ entry \in [Files -> Entry] /\ lost' \in [Files -> SUBSET P!Times]
        /\ \A f \in Files : lost[f] \subseteq lost'[f]
        /\ points' \subseteq points \cup {now} /\ UNCHANGED moved
    BY <1>8 DEF P!AddRestorePoint, PointsInv, PointsTyped
  <2>3. QED BY <2>1, <2>2, MomentKeepsPoints
<1>9. ASSUME NEW f \in Files, P!MoveExpired(f) \/ P!RecordRetained(f) \/ P!PurgeStops(f)
      PROVE  PointsInv'
  BY <1>9, RecordKeepsPoints, MoveKeepsPoints
<1>10. CASE UNCHANGED P!vars
  BY <1>10 DEF P!vars, PointsInv, PointsTyped, PlansArePast, P!Keep, P!Cutoff
<1>11. QED BY <1>3, <1>4, <1>6, <1>7, <1>8, <1>9, <1>10 DEF P!Next

\* A plan of a restore point that retention covers takes each file as it was then,
\* for any ages, any number of versions and any history of backups and purges.
THEOREM CoveredPointIsRestored == Spec => []PointRestoresItsFiles
<1>1. Init => PointsInv
  BY PointsInit, RecoveryAssumption DEF Init
<1>2. PointsInv /\ [Step]_vars => PointsInv'
  BY PointsStep, PartsMove, RecoveryAssumption
<1>3. PointsInv => PointRestoresItsFiles
  BY DEF PointsInv, PointsTyped, PlansArePast, CoveredAt, PointRestoresItsFiles,
         P!PointRestoresItsFiles, P!Covered, P!Nothing
<1>4. QED BY <1>1, <1>2, <1>3, PTL DEF Spec, Step

-----------------------------------------------------------------------------
(* RestorePoints: no copy is in two places.  A content is a version or the  *)
(* current copy of one file, once; one that has left the history is not     *)
(* current, and a version that still names it is too old for any covered    *)
(* time and was left by a purge that is underway or could not record it.    *)

Copies(e) ==
  {v.content : v \in e.versions} \cup (IF e.status = "backed_up" THEN {e.remote} ELSE {})

\* An entry has no copy twice.
CopiesDiffer(e) ==
  /\ \A v, w \in e.versions : v.content = w.content => v = w
  /\ e.status = "backed_up" => \A v \in e.versions : v.content # e.remote

\* What is moved of a file's history, by the purge underway or one that did not record it.
Unsaid(f) == unrecorded \cup {v.content : v \in moved[f]}

CopiesPast ==
  /\ expired \in SUBSET (Nat \ {0}) /\ \A c \in expired : c < now
  /\ \A f \in Files : \A c \in Copies(entry[f]) : c # 0 /\ c < now

NoCopyTwice ==
  /\ \A f \in Files : CopiesDiffer(entry[f])
  /\ \A f, g \in Files : f # g => Copies(entry[f]) \cap Copies(entry[g]) = {}

CurrentStays == \A f \in Files : entry[f].status = "backed_up" => entry[f].remote \notin expired

ExpiredIsUnsaid ==
  \A f \in Files : \A v \in entry[f].versions :
    v.content \in expired => v.content \in Unsaid(f) /\ ~CoveredAt(v.at, now)

CopiesInv == PointsInv /\ CopiesPast /\ NoCopyTwice /\ CurrentStays /\ ExpiredIsUnsaid

LEMMA CopiesInit == P!RetentionAssumption /\ P!Init => CopiesInv
<1> SUFFICES ASSUME P!RetentionAssumption, P!Init PROVE CopiesInv
  OBVIOUS
<1>1. Copies(P!NoEntry) = {} /\ CopiesDiffer(P!NoEntry)
  BY DEF P!NoEntry, Copies, CopiesDiffer
<1>2. PointsInv
  BY PointsInit
<1>3. entry = [f \in Files |-> P!NoEntry] /\ expired = {}
  BY DEF P!Init
<1>4. CopiesPast /\ NoCopyTwice /\ CurrentStays /\ ExpiredIsUnsaid
  BY <1>1, <1>3 DEF CopiesPast, NoCopyTwice, CurrentStays, ExpiredIsUnsaid
<1>5. QED BY <1>2, <1>4 DEF CopiesInv

LEMMA CopiesAreNumbers ==
  ASSUME NEW e \in Entry
  PROVE  Copies(e) \subseteq Nat
BY DEF Copies, Entry, Versions

\* One file moves: at most the copy of this moment is new, and a new version names a copy
\* that was current.
LEMMA FileKeepsCopies ==
  ASSUME P!RetentionAssumption, CopiesInv, PointsInv', NEW f \in Files, NEW b,
         P!Step([entry EXCEPT ![f] = b]), UNCHANGED <<expired, moved, unrecorded>>,
         CopiesDiffer(b), Copies(b) \subseteq Copies(entry[f]) \cup {now},
         b.status = "backed_up" => b.remote \notin expired,
         \A v \in b.versions : v \in entry[f].versions \/ v.content \notin expired
  PROVE  CopiesInv'
<1>1. /\ now \in Nat \ {0} /\ now' = now + 1 /\ entry \in [Files -> Entry]
      /\ entry' = [entry EXCEPT ![f] = b]
  BY DEF P!Step, CopiesInv, PointsInv, PointsTyped
<1>2. entry'[f] = b /\ \A h \in Files : h # f => entry'[h] = entry[h]
  BY <1>1
<1>3. \A h \in Files : \A c \in Copies(entry[h]) : c \in Nat
  BY <1>1, CopiesAreNumbers
<1>4. \A h \in Files : Copies(entry'[h]) \subseteq Copies(entry[h]) \cup (IF h = f THEN {now} ELSE {})
  BY <1>2
<1>5. CopiesPast'
  <2>1. expired' \in SUBSET (Nat \ {0}) /\ \A c \in expired' : c < now'
    BY <1>1 DEF CopiesInv, CopiesPast
  <2>2. ASSUME NEW h \in Files, NEW c \in Copies(entry'[h]) PROVE c # 0 /\ c < now'
    <3>1. c \in Copies(entry[h]) \/ c = now
      BY <1>4
    <3>2. QED BY <1>1, <1>3, <3>1 DEF CopiesInv, CopiesPast
  <2>3. QED BY <2>1, <2>2 DEF CopiesPast
<1>7. \A g, h \in Files : g # h => Copies(entry'[g]) \cap Copies(entry'[h]) = {}
  <2> SUFFICES ASSUME NEW g \in Files, NEW h \in Files, g # h, NEW c,
                      c \in Copies(entry'[g]), c \in Copies(entry'[h])
               PROVE  FALSE
    OBVIOUS
  <2>1. \A i \in Files : now \notin Copies(entry[i])
    BY <1>1 DEF CopiesInv, CopiesPast
  <2>2. Copies(entry[g]) \cap Copies(entry[h]) = {}
    BY DEF CopiesInv, NoCopyTwice
  <2>3. QED BY <1>4, <2>1, <2>2
<1>8. NoCopyTwice'
  <2>1. \A h \in Files : CopiesDiffer(entry'[h])
    BY <1>2 DEF CopiesInv, NoCopyTwice
  <2>2. QED BY <1>7, <2>1 DEF NoCopyTwice
<1>9. CurrentStays'
  BY <1>2 DEF CopiesInv, CurrentStays
<1>10. ExpiredIsUnsaid'
  <2>1. ASSUME NEW h \in Files, NEW v \in entry'[h].versions, v.content \in expired'
        PROVE  v.content \in Unsaid(h)' /\ ~CoveredAt(v.at, now')
    <3>1. v \in entry[h].versions /\ v.content \in expired
      BY <1>2, <2>1
    <3>2. v.at \in Nat
      BY <1>1, <3>1 DEF Entry, Versions
    <3>3. v.content \in Unsaid(h) /\ ~CoveredAt(v.at, now)
      BY <3>1 DEF CopiesInv, ExpiredIsUnsaid
    <3>4. Unsaid(h)' = Unsaid(h)
      BY DEF Unsaid
    <3>5. QED BY <1>1, <3>2, <3>3, <3>4 DEF CoveredAt, P!RetentionAssumption
  <2>2. QED BY <2>1 DEF ExpiredIsUnsaid
<1>11. QED BY <1>5, <1>8, <1>9, <1>10 DEF CopiesInv

\* The copies of an entry that history gets, or a new copy.
LEMMA HistoryCopies ==
  ASSUME NEW e \in Entry, NEW b \in Entry, NEW n, CopiesDiffer(e), e.status = "backed_up",
         n \notin Copies(e),
         b.versions = P!Room(e.versions) \cup {[content |-> e.remote, at |-> now]},
         b.status # "backed_up" \/ b.remote = n
  PROVE  /\ CopiesDiffer(b) /\ Copies(b) \subseteq Copies(e) \cup {n}
         /\ \A v \in b.versions : v \in e.versions \/ v.content = e.remote
<1> DEFINE h == [content |-> e.remote, at |-> now]
<1>1. h.content = e.remote /\ P!Room(e.versions) \subseteq e.versions
  BY DEF P!Room
<1>2. b.versions = P!Room(e.versions) \cup {h}
  OBVIOUS
<1> HIDE DEF h
<1>3. e.remote # n /\ \A v \in e.versions : v.content # n /\ v.content # e.remote
  BY DEF Copies, CopiesDiffer
<1>4. \A v \in b.versions : v = h \/ v \in e.versions
  BY <1>1, <1>2
<1>5. QED BY <1>1, <1>3, <1>4 DEF Copies, CopiesDiffer

\* What is moved is too old for any covered time, and no other entry has it.
LEMMA MoveKeepsCopies ==
  ASSUME P!RetentionAssumption, CopiesInv, PointsInv', NEW f \in Files, P!MoveExpired(f)
  PROVE  CopiesInv'
<1>1. PICK v \in entry[f].versions \ P!Keep(entry[f]) :
        /\ expired' = expired \cup {v.content}
        /\ \/ moved' = [moved EXCEPT ![f] = @ \cup {v}] /\ UNCHANGED unrecorded
           \/ unrecorded' = unrecorded \cup {v.content} /\ UNCHANGED moved
  BY DEF P!MoveExpired
<1>2. /\ UNCHANGED <<now, entry>> /\ entry[f] \in Entry /\ now \in Nat /\ v.at \in Nat
      /\ moved \in [Files -> SUBSET Versions]
  BY DEF P!MoveExpired, CopiesInv, PointsInv, PointsTyped, Entry, Versions
<1>3. v.content \in Copies(entry[f]) /\ v.content \in Nat /\ v.content # 0 /\ v.content < now
  BY <1>2, CopiesAreNumbers DEF Copies, CopiesInv, CopiesPast
<1>4. ~CoveredAt(v.at, now)
  BY <1>2 DEF CoveredAt, P!Keep, P!Cutoff, P!RetentionAssumption
<1>5. v.content \in Unsaid(f)'
  BY <1>1, <1>2 DEF Unsaid
<1>6. \A h \in Files : Unsaid(h) \subseteq Unsaid(h)'
  BY <1>1, <1>2 DEF Unsaid
<1>7. ASSUME NEW h \in Files, entry[h].status = "backed_up"
      PROVE  entry[h].remote \notin expired'
  <2>1. entry[h].remote \in Copies(entry[h])
    BY <1>7 DEF Copies
  <2>2. entry[h].remote # v.content
    <3>1. CASE h = f
      BY <1>7, <3>1 DEF CopiesInv, NoCopyTwice, CopiesDiffer
    <3>2. CASE h # f
      BY <1>3, <2>1, <3>2 DEF CopiesInv, NoCopyTwice
    <3>3. QED BY <3>1, <3>2
  <2>3. QED BY <1>1, <1>7, <2>2 DEF CopiesInv, CurrentStays
<1>8. ASSUME NEW h \in Files, NEW w \in entry[h].versions, w.content \in expired'
      PROVE  w.content \in Unsaid(h)' /\ ~CoveredAt(w.at, now)
  <2>1. CASE w.content \in expired
    BY <1>6, <2>1 DEF CopiesInv, ExpiredIsUnsaid
  <2>2. CASE w.content = v.content
    <3>0. w.content \in Copies(entry[h])
      BY DEF Copies
    <3>1. h = f
      BY <1>3, <2>2, <3>0 DEF CopiesInv, NoCopyTwice
    <3>2. w = v
      BY <2>2, <3>1 DEF CopiesInv, NoCopyTwice, CopiesDiffer
    <3>3. QED BY <1>4, <1>5, <3>1, <3>2
  <2>3. QED BY <1>1, <1>8, <2>1, <2>2
<1>9. CopiesPast'
  BY <1>1, <1>2, <1>3 DEF CopiesInv, CopiesPast
<1>10. NoCopyTwice' /\ CurrentStays' /\ ExpiredIsUnsaid'
  BY <1>2, <1>7, <1>8 DEF CopiesInv, NoCopyTwice, CurrentStays, ExpiredIsUnsaid
<1>11. QED BY <1>9, <1>10 DEF CopiesInv

\* A purge that ends a file's versions, with their record or without.
LEMMA PurgeKeepsCopies ==
  ASSUME P!RetentionAssumption, CopiesInv, PointsInv', NEW f \in Files,
         P!RecordRetained(f) \/ P!PurgeStops(f)
  PROVE  CopiesInv'
<1>1. /\ now \in Nat \ {0} /\ entry \in [Files -> Entry] /\ UNCHANGED <<now, expired>>
      /\ moved \in [Files -> SUBSET Versions] /\ moved' = [moved EXCEPT ![f] = {}]
      /\ EntryInv(entry[f], now) /\ moved[f] \in SUBSET (entry[f].versions \ P!Keep(entry[f]))
  BY DEF P!RecordRetained, P!PurgeStops, CopiesInv, PointsInv, PointsTyped
<1>2. CASE P!PurgeStops(f)
  <2>1. unrecorded' = unrecorded \cup {v.content : v \in moved[f]} /\ UNCHANGED entry
    BY <1>2 DEF P!PurgeStops
  <2>2. \A h \in Files : Unsaid(h) \subseteq Unsaid(h)'
    BY <1>1, <2>1 DEF Unsaid
  <2>3. ExpiredIsUnsaid'
    BY <1>1, <2>1, <2>2 DEF CopiesInv, ExpiredIsUnsaid
  <2>4. CopiesPast' /\ NoCopyTwice' /\ CurrentStays'
    BY <1>1, <2>1 DEF CopiesInv, CopiesPast, NoCopyTwice, CurrentStays
  <2>5. QED BY <2>3, <2>4 DEF CopiesInv
<1>3. CASE P!RecordRetained(f)
  <2> DEFINE b == [entry[f] EXCEPT !.versions = P!Retained(@, moved[f])]
  <2>1. entry' = [entry EXCEPT ![f] = b] /\ UNCHANGED unrecorded
    BY <1>3 DEF P!RecordRetained
  <2>2. /\ b.versions = entry[f].versions \ moved[f]
        /\ b.status = entry[f].status /\ b.remote = entry[f].remote
    <3>1. entry[f] \in Entry /\ b.versions = P!Retained(entry[f].versions, moved[f])
      BY <1>1 DEF Entry
    <3>2. b.status = entry[f].status /\ b.remote = entry[f].remote
      BY <1>1 DEF Entry
    <3>3. QED BY <3>1, <3>2 DEF P!Retained
  <2> HIDE DEF b
  <2>3. entry'[f] = b /\ \A h \in Files : h # f => entry'[h] = entry[h]
    BY <1>1, <2>1
  <2>4. \A h \in Files : /\ entry'[h].status = entry[h].status
                        /\ entry'[h].remote = entry[h].remote
                        /\ entry'[h].versions \subseteq entry[h].versions
    BY <2>2, <2>3
  <2>5. \A h \in Files : Copies(entry'[h]) \subseteq Copies(entry[h]) /\ CopiesDiffer(entry'[h])
    BY <2>4 DEF Copies, CopiesDiffer, CopiesInv, NoCopyTwice
  <2>6. ASSUME NEW h \in Files, NEW w \in entry'[h].versions, w.content \in expired
        PROVE  w.content \in Unsaid(h)' /\ ~CoveredAt(w.at, now)
    <3>1. w \in entry[h].versions /\ w.content \in Unsaid(h) /\ ~CoveredAt(w.at, now)
      BY <2>4, <2>6 DEF CopiesInv, ExpiredIsUnsaid
    <3>2. CASE h = f
      <4>1. w \notin moved[f]
        BY <2>2, <2>3, <2>6, <3>2
      <4>2. \A v \in moved[f] : v.content # w.content
        BY <1>1, <3>1, <3>2, <4>1 DEF CopiesInv, NoCopyTwice, CopiesDiffer
      <4>3. QED BY <2>1, <3>1, <3>2, <4>2 DEF Unsaid
    <3>3. CASE h # f
      BY <1>1, <2>1, <3>1, <3>3 DEF Unsaid
    <3>4. QED BY <3>2, <3>3
  <2>7. CopiesPast'
    BY <1>1, <2>5 DEF CopiesInv, CopiesPast
  <2>8. NoCopyTwice'
    BY <2>5 DEF CopiesInv, NoCopyTwice
  <2>9. CurrentStays'
    BY <1>1, <2>4 DEF CopiesInv, CurrentStays
  <2>10. ExpiredIsUnsaid'
    BY <1>1, <2>6 DEF ExpiredIsUnsaid
  <2>11. QED BY <2>7, <2>8, <2>9, <2>10 DEF CopiesInv
<1>4. QED BY <1>2, <1>3

LEMMA CopiesStep ==
  ASSUME P!RetentionAssumption, CopiesInv, [P!Next]_(P!vars)
  PROVE  CopiesInv'
<1>1. PointsInv'
  BY PointsStep DEF CopiesInv
<1>2. /\ now \in Nat /\ now \notin expired
      /\ \A f \in Files : /\ entry[f] \in Entry /\ now \notin Copies(entry[f])
                         /\ CopiesDiffer(entry[f])
  <2>1. now \in Nat /\ now \notin expired
    BY DEF CopiesInv, CopiesPast, PointsInv, PointsTyped
  <2>2. ASSUME NEW f \in Files
        PROVE  entry[f] \in Entry /\ now \notin Copies(entry[f]) /\ CopiesDiffer(entry[f])
    <3>1. entry[f] \in Entry /\ CopiesDiffer(entry[f])
      BY DEF CopiesInv, NoCopyTwice, PointsInv, PointsTyped
    <3>2. now \notin Copies(entry[f])
      BY <2>1 DEF CopiesInv, CopiesPast
    <3>3. QED BY <3>1, <3>2
  <2>3. QED BY <2>1, <2>2
<1>3. ASSUME NEW f \in Files, NEW c \in {entry[f].remote, now},
             P!Step([entry EXCEPT ![f] = P!RecordBackedUp(entry[f], c)]),
             c = now \/ entry[f].status = "backed_up", UNCHANGED <<expired, moved, unrecorded>>
      PROVE  CopiesInv'
  <2> DEFINE b == P!RecordBackedUp(entry[f], c)
  <2>1. c \in Nat
    BY <1>2 DEF Entry
  <2>2. b.status = "backed_up" /\ b.remote = c /\ b.versions = entry[f].versions
    BY <1>2, <2>1, BackedUpEntry
  <2>3. P!Step([entry EXCEPT ![f] = b])
    BY <1>3
  <2> HIDE DEF b
  <2>4. CopiesDiffer(b) /\ Copies(b) \subseteq Copies(entry[f]) \cup {now} /\ b.remote \notin expired
    BY <1>2, <1>3, <2>2 DEF Copies, CopiesDiffer, CopiesInv, CurrentStays
  <2>5. QED BY <1>1, <1>3, <2>2, <2>3, <2>4, FileKeepsCopies
<1>4. ASSUME NEW f \in Files, P!BackUpNewFile(f) \/ P!BackUpMarkedFile(f) \/ P!RepairMissingCopy(f)
      PROVE  CopiesInv'
  BY <1>3, <1>4 DEF P!BackUpNewFile, P!BackUpMarkedFile, P!RepairMissingCopy
<1>5. ASSUME NEW f \in Files, P!BackUpModifiedFile(f) PROVE CopiesInv'
  <2> DEFINE m == P!RecordHistory(entry[f])
             b == P!RecordBackedUp(m, now)
  <2>1. /\ m \in Entry
        /\ m.versions = P!Room(entry[f].versions) \cup {[content |-> entry[f].remote, at |-> now]}
    BY <1>2, HistoryEntry
  <2>2. /\ P!Step([entry EXCEPT ![f] = b]) /\ entry[f].status = "backed_up"
        /\ UNCHANGED <<expired, moved, unrecorded>>
    BY <1>5 DEF P!BackUpModifiedFile
  <2> HIDE DEF m
  <2>3. b \in Entry /\ b.remote = now /\ b.versions = m.versions
    BY <1>2, <2>1, BackedUpEntry
  <2> HIDE DEF b
  <2>4. /\ CopiesDiffer(b) /\ Copies(b) \subseteq Copies(entry[f]) \cup {now}
        /\ \A v \in b.versions : v \in entry[f].versions \/ v.content = entry[f].remote
    BY <1>2, <2>1, <2>2, <2>3, HistoryCopies
  <2>5. /\ b.remote \notin expired
        /\ \A v \in b.versions : v \in entry[f].versions \/ v.content \notin expired
    BY <1>2, <2>2, <2>3, <2>4 DEF CopiesInv, CurrentStays
  <2>6. QED BY <1>1, <2>2, <2>4, <2>5, FileKeepsCopies
<1>6. ASSUME NEW f \in Files, P!DeleteToHistory(f) PROVE CopiesInv'
  <2> DEFINE b == P!RecordDeleted(entry[f])
  <2>1. /\ b \in Entry /\ b.status = "deleted"
        /\ b.versions = P!Room(entry[f].versions) \cup {[content |-> entry[f].remote, at |-> now]}
    BY <1>2, DeletedEntry
  <2>2. /\ P!Step([entry EXCEPT ![f] = b]) /\ entry[f].status = "backed_up"
        /\ UNCHANGED <<expired, moved, unrecorded>>
    BY <1>6 DEF P!DeleteToHistory
  <2> HIDE DEF b
  <2>3. /\ CopiesDiffer(b) /\ Copies(b) \subseteq Copies(entry[f]) \cup {now}
        /\ \A v \in b.versions : v \in entry[f].versions \/ v.content = entry[f].remote
    BY <1>2, <2>1, <2>2, HistoryCopies
  <2>4. \A v \in b.versions : v \in entry[f].versions \/ v.content \notin expired
    BY <2>2, <2>3 DEF CopiesInv, CurrentStays
  <2>5. QED BY <1>1, <2>1, <2>2, <2>3, <2>4, FileKeepsCopies
<1>7. CASE P!AddRestorePoint
  <2>1. now' = now + 1 /\ UNCHANGED <<entry, expired, moved, unrecorded>>
    BY <1>7 DEF P!AddRestorePoint, P!Step
  <2>2. \A f \in Files : \A c \in Copies(entry[f]) : c \in Nat
    BY <1>2, CopiesAreNumbers
  <2>3. \A f \in Files : \A v \in entry[f].versions :
          v.content \in expired => v.content \in Unsaid(f) /\ ~CoveredAt(v.at, now)
    BY DEF CopiesInv, ExpiredIsUnsaid
  <2>4. \A f \in Files : \A v \in entry[f].versions :
          v.content \in expired => ~CoveredAt(v.at, now + 1)
    BY <1>2, <2>3 DEF CoveredAt, P!RetentionAssumption, Entry, Versions
  <2>5. \A f \in Files : Unsaid(f)' = Unsaid(f)
    BY <2>1 DEF Unsaid
  <2>6. CopiesPast'
    BY <1>2, <2>1, <2>2 DEF CopiesInv, CopiesPast
  <2>7. NoCopyTwice' /\ CurrentStays'
    BY <2>1 DEF CopiesInv, NoCopyTwice, CurrentStays
  <2>8. ExpiredIsUnsaid'
    BY <2>1, <2>3, <2>4, <2>5 DEF ExpiredIsUnsaid
  <2>9. QED BY <1>1, <2>6, <2>7, <2>8 DEF CopiesInv
<1>8. ASSUME NEW f \in Files, P!MoveExpired(f) \/ P!RecordRetained(f) \/ P!PurgeStops(f)
      PROVE  CopiesInv'
  BY <1>1, <1>8, MoveKeepsCopies, PurgeKeepsCopies
<1>9. CASE UNCHANGED P!vars
  <2>1. UNCHANGED <<now, entry, expired, moved, unrecorded>>
    BY <1>9 DEF P!vars
  <2>2. \A f \in Files : Unsaid(f)' = Unsaid(f)
    BY <2>1 DEF Unsaid
  <2>3. CopiesPast' /\ NoCopyTwice' /\ CurrentStays'
    BY <2>1 DEF CopiesInv, CopiesPast, NoCopyTwice, CurrentStays
  <2>4. ExpiredIsUnsaid'
    BY <2>1, <2>2 DEF CopiesInv, ExpiredIsUnsaid
  <2>5. QED BY <1>1, <2>3, <2>4 DEF CopiesInv
<1>10. QED BY <1>4, <1>5, <1>6, <1>7, <1>8, <1>9 DEF P!Next

LEMMA CopiesAreKept == ASSUME P!RetentionAssumption, CopiesInv PROVE P!PlannedIsKept
<1> SUFFICES ASSUME NEW p \in points, NEW f \in Files, P!ChooseRemoteForTime(entry[f], p) \in expired
             PROVE  ~P!Covered(p) /\ P!ChooseRemoteForTime(entry[f], p) \in Unsaid(f)
  BY DEF P!PlannedIsKept, Unsaid
<1>1. p \in Nat /\ entry[f] \in Entry /\ now \in Nat /\ EntryInv(entry[f], now)
  BY DEF CopiesInv, PointsInv, PointsTyped, P!Times
<1>2. CASE \A v \in entry[f].versions : ~(v.at > p)
  <2>1. P!ChooseRemoteForTime(entry[f], p) # 0
    BY DEF CopiesInv, CopiesPast
  <2>2. entry[f].status = "backed_up" /\ P!ChooseRemoteForTime(entry[f], p) = entry[f].remote
    BY <1>1, <1>2, <2>1, LatestIsHeld
  <2>3. QED BY <2>2 DEF CopiesInv, CurrentStays
<1>3. CASE ~ \A v \in entry[f].versions : ~(v.at > p)
  <2>1. PICK v \in entry[f].versions : Chosen(entry[f], p, v)
    BY <1>1, <1>3, NothingChosenIsLatest
  <2>2. P!ChooseRemoteForTime(entry[f], p) = v.content
    BY <1>1, <2>1, ChosenIsPlanned
  <2>3. v.content \in Unsaid(f) /\ ~CoveredAt(v.at, now)
    BY <2>1, <2>2 DEF CopiesInv, ExpiredIsUnsaid
  <2>4. v.at \in Nat /\ v.at > p
    BY <1>1, <2>1 DEF Chosen, Entry, Versions
  <2>5. ~P!Covered(p)
    BY <1>1, <2>3, <2>4 DEF P!Covered, CoveredAt, P!RetentionAssumption
  <2>6. QED BY <2>2, <2>3, <2>5
<1>4. QED BY <1>2, <1>3

-----------------------------------------------------------------------------
(* The plans, with the packs beside them.                                  *)

\* A plan of a covered restore point names no copy that left the history, and one of an
\* older point only such a one as a purge could not record, for any ages and histories,
\* with purges broken off anywhere; and what was recorded of a packed file can be got
\* back from the tree, the history or the bundles, for any number of files, changes and
\* bundles, as long as no run repacks after a bundle that failed and no full scan meets
\* an entry that waits: what the code does with either is in PackedFiles, at Failures
\* and Unsettled.
THEOREM PlansAreKept ==
  ASSUME "repack" \notin Failures, ~Unsettled
  PROVE  Spec => []PlannedIsKept
<1>1. Init => CopiesInv /\ PacksInv
  BY CopiesInit, PacksInit, RecoveryAssumption DEF Init
<1>2. CopiesInv /\ PacksInv /\ [Step]_vars => CopiesInv' /\ PacksInv'
  BY CopiesStep, PacksStep, PartsMove, RecoveryAssumption
<1>3. CopiesInv /\ PacksInv => PlannedIsKept
  BY CopiesAreKept, PacksAreKept, RecoveryAssumption DEF PlannedIsKept
<1>4. QED BY <1>1, <1>2, <1>3, PTL DEF Spec, Step

-----------------------------------------------------------------------------
(* What this PC backs up.                                                  *)

\* The catalog and the setup beside the others.
LEMMA OwnPartsMove ==
  ASSUME [Step]_vars
  PROVE  [C!Next]_(C!vars) /\ [Setup!SetupStep]_(Setup!setupVars)
<1>1. UNCHANGED catalogVars => UNCHANGED C!vars
  BY DEF catalogVars, C!vars
<1>2. UNCHANGED setupVars => UNCHANGED Setup!setupVars
  BY DEF setupVars, Setup!setupVars, Setup!savedVars, Setup!serviceVars, Setup!wizardVars,
         Setup!driveVars, Setup!loadVars
<1>3. UNCHANGED panelVars => UNCHANGED setupVars
  BY DEF panelVars
<1>4. CASE PointsNext \/ JobsNext \/ ReplicasNext \/ WayNext \/ PacksNext
  <2>1. UNCHANGED <<catalogVars, panelVars>>
    BY <1>4 DEF PointsNext, JobsNext, ReplicasNext, WayNext, vaultVars, PacksNext
  <2>2. QED BY <1>1, <1>2, <1>3, <2>1
<1>5. CASE CatalogNext
  BY <1>2, <1>3, <1>5 DEF CatalogNext
<1>6. CASE PanelNext
  BY <1>1, <1>2, <1>6 DEF PanelNext
<1>7. CASE UNCHANGED vars
  BY <1>1, <1>2, <1>3, <1>7 DEF vars
<1>8. QED BY <1>4, <1>5, <1>6, <1>7 DEF Step

-----------------------------------------------------------------------------
(* RestoreCatalog.  An import keeps what this PC's own row says of being   *)
(* enabled, and nothing but the user's removal touches that otherwise.     *)

CatalogRow == [root : HostNames \cup {"none"}, enabled : BOOLEAN,
               copies : SUBSET (HostNames \cup {"none"})]

CatalogInv ==
  /\ host \in [Machines -> HostNames]
  /\ folders \in [Machines -> [Machines -> CatalogRow]]
  /\ catalog.folders \in [Machines -> CatalogRow]

OwnStaysOn ==
  \A p \in Machines :
    folders[p][p].enabled /\ folders'[p][p] # C!NoFolder => folders'[p][p].enabled

LEMMA NoFolderIsRow == C!NoFolder \in CatalogRow /\ ~C!NoFolder.enabled
BY DEF C!NoFolder, C!NoName, CatalogRow

LEMMA CatalogInitially == C!Init => CatalogInv
BY NoFolderIsRow DEF C!Init, CatalogInv

\* A row of p changes, and the catalog may be published with it.
LEMMA RowChanges ==
  ASSUME CatalogInv, NEW p \in Machines, NEW row \in CatalogRow,
         folders' = [folders EXCEPT ![p][p] = row],
         folders[p][p].enabled /\ row # C!NoFolder => row.enabled,
         host' = host,
         UNCHANGED catalog \/ C!Sent(p, folders'[p])
  PROVE  CatalogInv' /\ OwnStaysOn
<1>1. folders' \in [Machines -> [Machines -> CatalogRow]]
  BY DEF CatalogInv
<1>2. catalog'.folders \in [Machines -> CatalogRow]
  BY <1>1 DEF CatalogInv, C!Sent
<1>3. OwnStaysOn
  BY DEF CatalogInv, OwnStaysOn
<1>4. QED BY <1>1, <1>2, <1>3 DEF CatalogInv

\* Every row of p changes, none of them whether it is enabled.
LEMMA RowsFollow ==
  ASSUME CatalogInv, NEW p \in Machines, NEW rows \in [Machines -> CatalogRow],
         folders' = [folders EXCEPT ![p] = rows],
         rows[p].enabled \/ ~folders[p][p].enabled \/ rows[p] = C!NoFolder,
         UNCHANGED <<host, catalog>>
  PROVE  CatalogInv' /\ OwnStaysOn
<1>1. folders' \in [Machines -> [Machines -> CatalogRow]]
  BY DEF CatalogInv
<1>2. CatalogInv'
  BY <1>1 DEF CatalogInv
<1>3. ASSUME NEW q \in Machines
      PROVE  /\ q # p => folders'[q] = folders[q]
             /\ folders'[p] = rows
  BY DEF CatalogInv
<1>4. folders[p][p].enabled \in BOOLEAN
  BY DEF CatalogInv, CatalogRow
<1>5. QED BY <1>2, <1>3, <1>4 DEF OwnStaysOn

LEMMA ImportKeepsOwn ==
  ASSUME CatalogInv, NEW p \in Machines, C!ImportRemoteCatalog(p)
  PROVE  CatalogInv' /\ OwnStaysOn
<1> DEFINE rows == [q \in Machines |->
              IF catalog.folders[q] = C!NoFolder THEN folders[p][q]
              ELSE [C!Imported(folders[p][q], catalog.folders[q])
                      EXCEPT !.copies = @ \cup folders[p][q].copies]]
<1>1. folders' = [folders EXCEPT ![p] = rows]
  <2>1. folders' = [folders EXCEPT ![p] = [q \in Machines |->
          IF catalog.folders[q] = C!NoFolder THEN folders[p][q]
          ELSE [C!Imported(folders[p][q], catalog.folders[q])
                  EXCEPT !.copies = @ \cup folders[p][q].copies]]]
    BY DEF C!ImportRemoteCatalog, CatalogInv
  <2>2. QED BY <2>1
<1>2. ASSUME NEW q \in Machines
      PROVE  rows[q] \in CatalogRow /\ rows[q].enabled = folders[p][q].enabled
  <2>1. folders[p][q] \in CatalogRow /\ catalog.folders[q] \in CatalogRow
    BY DEF CatalogInv
  <2>2. CASE catalog.folders[q] = C!NoFolder
    BY <2>1, <2>2
  <2>3. CASE catalog.folders[q] # C!NoFolder
    BY <2>1, <2>3 DEF C!Imported, CatalogRow
  <2>4. QED BY <2>2, <2>3
<1>3. rows \in [Machines -> CatalogRow]
  BY <1>2
<1>4. UNCHANGED <<host, catalog>>
  BY DEF C!ImportRemoteCatalog
<1> HIDE DEF rows
<1>5. QED BY <1>1, <1>2, <1>3, <1>4, RowsFollow

LEMMA RenameKeepsOwn ==
  ASSUME CatalogInv, NEW p \in Machines, C!RenameRemote(p)
  PROVE  CatalogInv' /\ OwnStaysOn
<1> DEFINE rows == [q \in Machines |->
                      C!FolderMoves(folders[p][q], aligning[p].from, host[p])]
<1>1. folders' = [folders EXCEPT ![p] = rows]
  BY DEF C!RenameRemote, CatalogInv
<1>2. ASSUME NEW q \in Machines
      PROVE  rows[q] \in CatalogRow /\ rows[q].enabled = folders[p][q].enabled
  <2>1. folders[p][q] \in CatalogRow /\ host[p] \in HostNames
    BY DEF CatalogInv
  <2>2. QED BY <2>1 DEF C!FolderMoves, CatalogRow
<1>3. rows \in [Machines -> CatalogRow]
  BY <1>2
<1>4. UNCHANGED <<host, catalog>>
  BY DEF C!RenameRemote
<1> HIDE DEF rows
<1>5. QED BY <1>1, <1>2, <1>3, <1>4, RowsFollow

LEMMA CatalogStep ==
  ASSUME CatalogInv, [C!Next]_(C!vars)
  PROVE  CatalogInv' /\ [OwnStaysOn]_(C!vars)
<1>1. CASE UNCHANGED C!vars
  BY <1>1 DEF C!vars, CatalogInv
<1>2. CASE C!Next
  <2> PICK p \in Machines :
        \/ C!RenameHost(p) \/ C!AddFolder(p) \/ C!AdoptFolder(p) \/ C!RemoveFolder(p)
        \/ C!ImportRemoteCatalog(p) \/ C!Disconnect(p)
        \/ C!StartRun(p) \/ C!ReadFails(p) \/ C!ReadRemote(p) \/ C!RenameRemote(p)
        \/ C!PublishAligned(p) \/ C!Copy(p) \/ C!Finish(p) \/ C!RunEnds(p)
    BY <1>2 DEF C!Next
  <2> folders[p][p] \in CatalogRow /\ host[p] \in HostNames
    BY DEF CatalogInv
  <2>1. CASE C!AddFolder(p)
    <3>1. [C!NoFolder EXCEPT !.root = host[p], !.enabled = TRUE] \in CatalogRow
      BY NoFolderIsRow DEF CatalogRow
    <3>2. ~folders[p][p].enabled
      BY <2>1, NoFolderIsRow DEF C!AddFolder
    <3>3. QED BY <2>1, <3>1, <3>2, RowChanges DEF C!AddFolder
  <2>2. CASE C!AdoptFolder(p)
    <3>1. folders' = [folders EXCEPT ![p][p] = [folders[p][p] EXCEPT !.enabled = TRUE]]
      BY <2>2 DEF C!Publish, C!PublishBreaks, C!AdoptFolder, CatalogInv
    <3>2. [folders[p][p] EXCEPT !.enabled = TRUE] \in CatalogRow
      BY DEF CatalogRow
    <3>3. [folders[p][p] EXCEPT !.enabled = TRUE].enabled
      BY DEF CatalogRow
    <3>4. QED BY <2>2, <3>1, <3>2, <3>3, RowChanges DEF C!Publish, C!PublishBreaks, C!AdoptFolder
  <2>3. CASE C!RemoveFolder(p)
    BY <2>3, NoFolderIsRow, RowChanges DEF C!Publish, C!PublishBreaks, C!RemoveFolder
  <2>4. CASE C!Disconnect(p)
    <3>1. [q \in Machines |-> C!NoFolder] \in [Machines -> CatalogRow]
      BY NoFolderIsRow
    <3>2. QED BY <2>4, <3>1, RowsFollow DEF C!Disconnect
  <2>5. CASE C!Copy(p)
    <3>1. CASE UNCHANGED folders
      BY <2>5, <3>1 DEF C!Copy, CatalogInv, OwnStaysOn
    <3>2. CASE folders' = [folders EXCEPT ![p][p].copies = @ \cup {folders[p][p].root}]
      <4> DEFINE row == [folders[p][p] EXCEPT !.copies = @ \cup {folders[p][p].root}]
      <4>1. folders' = [folders EXCEPT ![p][p] = row]
        BY <3>2 DEF CatalogInv
      <4>2. row \in CatalogRow /\ row.enabled = folders[p][p].enabled
        BY DEF CatalogRow
      <4>3. host' = host /\ UNCHANGED catalog
        BY <2>5 DEF C!Copy
      <4> HIDE DEF row
      <4>4. QED BY <4>1, <4>2, <4>3, RowChanges
    <3>3. QED BY <2>5, <3>1, <3>2 DEF C!Copy
  <2>6. CASE C!PublishAligned(p) \/ C!Finish(p)
    BY <2>6 DEF C!PublishAligned, C!Finish, C!Publish, C!PublishBreaks, C!Sent, CatalogInv, OwnStaysOn
  <2>7. CASE C!RenameHost(p)
    BY <2>7 DEF C!RenameHost, CatalogInv, OwnStaysOn
  <2>8. CASE C!StartRun(p) \/ C!ReadFails(p) \/ C!ReadRemote(p) \/ C!RunEnds(p)
    BY <2>8 DEF C!StartRun, C!ReadFails, C!ReadRemote, C!RunEnds, CatalogInv, OwnStaysOn
  <2>9. QED BY <2>1, <2>2, <2>3, <2>4, <2>5, <2>6, <2>7, <2>8, ImportKeepsOwn, RenameKeepsOwn
<1>3. QED BY <1>1, <1>2

-----------------------------------------------------------------------------
(* BackupSetup.  While the folders of the wizard are added the user is in  *)
(* its last step, where no password is being saved and no folder removed,  *)
(* unless he goes back.                                                    *)

PicksInv ==
  /\ step \in 1 .. 4 /\ (step = 4 => saving = "none")
  /\ adding \in Seq(Places) /\ picks \in Seq(Places) /\ added \in Nat
  /\ adding # <<>> =>
       /\ step = 4 /\ setup = "no" /\ added < Len(adding)
       /\ \A i \in 1 .. added : adding[i] \in chosen
  /\ adding = <<>> => added = 0

Picked == ~complete /\ complete' => \A i \in DOMAIN adding : adding[i] \in chosen'

LEMMA PicksInitially == Setup!SetupInit => PicksInv
<1>1. <<>> \in Seq(Places)
  OBVIOUS
<1>2. QED BY <1>1 DEF Setup!SetupInit, PicksInv

\* What the wizard adds is as it was, and nothing is completed.
LEMMA AddingUntouched ==
  ASSUME PicksInv, picks' \in Seq(Places),
         UNCHANGED <<step, saving, setup, adding, added, chosen, complete>>
  PROVE  PicksInv' /\ Picked
BY DEF PicksInv, Picked

\* Nothing is being added, before and after.
LEMMA NothingAdded ==
  ASSUME PicksInv, adding = <<>>, UNCHANGED <<adding, added>>, picks' \in Seq(Places),
         step' \in 1 .. 4, step' = 4 => saving' = "none"
  PROVE  PicksInv' /\ Picked
BY DEF PicksInv, Picked

LEMMA PreselectedPlaces ==
  ASSUME Setup!SetupAssumption PROVE Setup!Preselected \in Seq(Places)
<1> DEFINE S == SystemPlaces \ chosen
           choice(f) == f \in [1 .. Cardinality(S) -> S] /\ Setup!IsInjective(f)
<1>1. SystemPlaces \subseteq Places /\ IsFiniteSet(SystemPlaces)
  BY DEF Setup!SetupAssumption, Setup!IsFiniteSet, IsFiniteSet
<1>2. IsFiniteSet(S)
  BY <1>1, FS_Subset
<1>3. PICK g : g \in Bijection(1 .. Cardinality(S), S)
  BY <1>2, FS_CardinalityType DEF ExistsBijection
<1>4. choice(g)
  <2>1. g \in [1 .. Cardinality(S) -> S]
    BY <1>3 DEF Bijection, Injection
  <2>2. \A i, j \in 1 .. Cardinality(S) : g[i] = g[j] => i = j
    BY <1>3 DEF Bijection, Injection, IsInjective
  <2>3. QED BY <2>1, <2>2 DEF Setup!IsInjective
<1>5. choice(Setup!Preselected)
  <2>1. Setup!Preselected = CHOOSE f \in [1 .. Cardinality(S) -> S] : Setup!IsInjective(f)
    BY DEF Setup!Preselected, Setup!SetToSeq, Setup!Cardinality, Cardinality
  <2>2. QED BY <1>4, <2>1
<1>6. Cardinality(S) \in Nat
  BY <1>2, FS_CardinalityType
<1>7. S \subseteq Places /\ Setup!Preselected \in [1 .. Cardinality(S) -> S]
  BY <1>1, <1>5
<1> HIDE DEF S
<1>8. Setup!Preselected \in [1 .. Cardinality(S) -> Places]
  BY <1>7
<1>9. QED BY <1>6, <1>8
LEMMA WizardKeepsPicks ==
  ASSUME Setup!SetupAssumption, "back" \notin SetupFaults, PicksInv,
         \/ Setup!Continue \/ Setup!ChooseMode \/ Setup!Back \/ Setup!SavePassword
         \/ Setup!PasswordSaved \/ Setup!PasswordFails
  PROVE  PicksInv' /\ Picked
<1>1. adding = <<>> /\ UNCHANGED <<adding, added>>
  <2>1. CASE Setup!Continue \/ Setup!ChooseMode \/ Setup!SavePassword
    BY <2>1 DEF Setup!Continue, Setup!ChooseMode, Setup!SavePassword, PicksInv
  <2>2. CASE Setup!Back
    BY <2>2 DEF Setup!Back
  <2>3. CASE Setup!PasswordSaved \/ Setup!PasswordFails
    BY <2>3 DEF Setup!PasswordSaved, Setup!PasswordFails, PicksInv
  <2>4. QED BY <2>1, <2>2, <2>3
<1>2. step' \in 1 .. 4 /\ (step' = 4 => saving' = "none")
  <2>1. CASE Setup!Continue \/ Setup!ChooseMode \/ Setup!SavePassword \/ Setup!Back
    BY <2>1 DEF Setup!Continue, Setup!ChooseMode, Setup!SavePassword, Setup!Back, PicksInv
  <2>2. CASE Setup!PasswordSaved \/ Setup!PasswordFails
    BY <2>2 DEF Setup!PasswordSaved, Setup!PasswordFails, PicksInv
  <2>3. QED BY <2>1, <2>2
<1>3. picks' \in Seq(Places)
  <2>1. picks \in Seq(Places)
    BY DEF PicksInv
  <2>2. CASE Setup!PasswordSaved
    BY <2>1, <2>2, PreselectedPlaces DEF Setup!PasswordSaved
  <2>3. CASE ~Setup!PasswordSaved
    BY <2>1, <2>3 DEF Setup!Continue, Setup!ChooseMode, Setup!Back, Setup!SavePassword,
                      Setup!PasswordFails
  <2>4. QED BY <2>2, <2>3
<1>4. QED BY <1>1, <1>2, <1>3, NothingAdded

LEMMA PanelKeepsPicks ==
  ASSUME PicksInv, NEW p \in Places,
         \/ Setup!Reload \/ Setup!Pause \/ Setup!Resume \/ Setup!Disconnect
         \/ Setup!AddFolder(p) \/ Setup!RemoveFolder(p) \/ Setup!ToggleFolder(p)
  PROVE  PicksInv' /\ Picked
<1>1. setup \in {"yes", "unknown"} /\ UNCHANGED <<adding, added, saving>>
  BY DEF Setup!Reload, Setup!Pause, Setup!Resume, Setup!Disconnect, Setup!AddFolder,
         Setup!RemoveFolder, Setup!ToggleFolder, Setup!Ready, Setup!panelRest
<1>2. step' \in {step, 1} /\ picks' \in {picks, <<>>}
  BY DEF Setup!Reload, Setup!Pause, Setup!Resume, Setup!Disconnect, Setup!AddFolder,
         Setup!RemoveFolder, Setup!ToggleFolder, Setup!panelRest
<1>3. adding = <<>> /\ picks' \in Seq(Places) /\ step' \in 1 .. 4 /\ (step' = 4 => saving' = "none")
  BY <1>1, <1>2 DEF PicksInv
<1>4. QED BY <1>1, <1>3, NothingAdded

LEMMA FinishKeepsPicks ==
  ASSUME PicksInv, Setup!Finish \/ Setup!FinishAdds \/ Setup!FinishFails
  PROVE  PicksInv' /\ Picked
<1>1. UNCHANGED <<step, saving, picks>>
  BY DEF Setup!Finish, Setup!FinishAdds, Setup!FinishFails, Setup!finishRest
<1>2. CASE adding' = <<>> /\ added' = 0
  <2>1. PicksInv'
    BY <1>1, <1>2 DEF PicksInv
  <2>2. CASE Setup!FinishAdds
    <3>1. /\ chosen' = chosen \cup {adding[added + 1]} /\ adding # <<>>
          /\ added + 1 = Len(adding)
      BY <1>2, <2>2 DEF Setup!FinishAdds, Setup!Take, PicksInv
    <3>2. DOMAIN adding = 1 .. Len(adding) /\ added \in Nat
      BY LenProperties DEF PicksInv
    <3>3. \A i \in DOMAIN adding : i \in 1 .. added \/ i = added + 1
      BY <3>1, <3>2
    <3>4. QED BY <2>1, <3>1, <3>3 DEF Picked, PicksInv
  <2>3. CASE Setup!Finish
    <3>1. adding = <<>>
      BY <2>3 DEF Setup!Finish
    <3>2. QED BY <2>1, <3>1 DEF Picked
  <2>4. CASE Setup!FinishFails
    BY <2>1, <2>4 DEF Setup!FinishFails, Setup!nothingFinished, Picked
  <2>5. QED BY <2>2, <2>3, <2>4
<1>3. CASE ~(adding' = <<>> /\ added' = 0)
  <2>1. UNCHANGED <<complete, setup>>
    BY <1>3 DEF Setup!Finish, Setup!FinishAdds, Setup!FinishFails, Setup!FinishUp,
                Setup!nothingFinished
  <2>2. CASE Setup!Finish
    <3>1. /\ adding = <<>> /\ adding' = picks /\ picks # <<>> /\ UNCHANGED added
          /\ step = 4 /\ setup = "no"
      BY <1>3, <2>2 DEF Setup!Finish, Setup!FinishUp
    <3>2. QED BY <1>1, <2>1, <3>1 DEF PicksInv, Picked
  <2>3. CASE Setup!FinishAdds
    <3>1. /\ adding # <<>> /\ chosen' = chosen \cup {adding[added + 1]}
          /\ added + 1 # Len(adding) /\ added' = added + 1 /\ UNCHANGED adding
      BY <1>3, <2>3 DEF Setup!FinishAdds, Setup!Take, Setup!FinishUp
    <3>2. \A i \in 1 .. added + 1 : i \in 1 .. added \/ i = added + 1
      BY DEF PicksInv
    <3>3. \A i \in 1 .. added + 1 : adding[i] \in chosen'
      BY <3>1, <3>2 DEF PicksInv
    <3>4. added + 1 < Len(adding)
      BY <3>1, LenProperties DEF PicksInv
    <3>5. QED BY <1>1, <2>1, <3>1, <3>3, <3>4 DEF PicksInv, Picked
  <2>4. CASE Setup!FinishFails
    BY <1>3, <2>4 DEF Setup!FinishFails
  <2>5. QED BY <2>2, <2>3, <2>4
<1>4. QED BY <1>2, <1>3

LEMMA SetupStepKeepsPicks ==
  ASSUME Setup!SetupAssumption, "back" \notin SetupFaults, PicksInv,
         [Setup!SetupStep]_(Setup!setupVars)
  PROVE  PicksInv' /\ [Picked]_(Setup!setupVars)
<1>1. CASE UNCHANGED Setup!setupVars
  BY <1>1 DEF Setup!setupVars, Setup!savedVars, Setup!serviceVars, Setup!wizardVars,
              Setup!driveVars, Setup!loadVars, PicksInv
<1>2. CASE \/ Setup!ServicesStart \/ Setup!LoadEnds \/ Setup!StartGoogleAuth
           \/ Setup!SignInEnds \/ Setup!Poll \/ Setup!PollsEnd \/ Setup!RefreshEnds
  <2>1. UNCHANGED <<setup, step, picks, adding, added, saving>>
    BY <1>2 DEF Setup!ServicesStart, Setup!LoadEnds, Setup!StartGoogleAuth, Setup!SignInEnds,
                Setup!Poll, Setup!PollsEnd, Setup!RefreshEnds, Setup!Refreshed, Setup!wizardVars
  <2>2. UNCHANGED <<chosen, complete>>
    BY <1>2 DEF Setup!ServicesStart, Setup!LoadEnds, Setup!StartGoogleAuth, Setup!SignInEnds,
                Setup!Poll, Setup!PollsEnd, Setup!RefreshEnds, Setup!Refreshed, Setup!savedVars
  <2>3. QED BY <2>1, <2>2, AddingUntouched DEF PicksInv
<1>3. CASE \/ Setup!Continue \/ Setup!ChooseMode \/ Setup!Back \/ Setup!SavePassword
           \/ Setup!PasswordSaved \/ Setup!PasswordFails
  BY <1>3, WizardKeepsPicks
<1>4. CASE Setup!Finish \/ Setup!FinishAdds \/ Setup!FinishFails
  BY <1>4, FinishKeepsPicks
<1>5. CASE Setup!Reload \/ Setup!Pause \/ Setup!Resume \/ Setup!Disconnect
  <2>1. Outer \in Places
    BY DEF Setup!SetupAssumption
  <2>2. QED BY <1>5, <2>1, PanelKeepsPicks
<1>6. CASE Setup!Launch
  BY <1>6 DEF Setup!Launch, Setup!savedVars, PicksInv, Picked
<1>7. CASE \E p \in Places : Setup!AddFolder(p) \/ Setup!RemoveFolder(p) \/ Setup!ToggleFolder(p)
  BY <1>7, PanelKeepsPicks
<1>8. CASE \E p \in Places : Setup!Pick(p) \/ Setup!Unpick(p)
  <2> PICK p \in Places : Setup!Pick(p) \/ Setup!Unpick(p)
    BY <1>8
  <2>1. UNCHANGED <<setup, step, adding, added, saving, chosen, complete>>
    BY DEF Setup!Pick, Setup!Unpick, Setup!savedVars
  <2>2. CASE Setup!Pick(p)
    <3>1. picks' \in Seq(Places)
      BY <2>2 DEF PicksInv, Setup!Pick
    <3>2. QED BY <2>1, <3>1, AddingUntouched
  <2>3. CASE Setup!Unpick(p)
    <3>1. PICK i \in DOMAIN picks : picks' = Setup!RemoveAt(picks, i)
      BY <2>3 DEF Setup!Unpick
    <3>2. picks \in Seq(Places) /\ i \in 1 .. Len(picks)
      BY LenProperties DEF PicksInv
    <3>3. SubSeq(picks, 1, i - 1) \in Seq(Places) /\ SubSeq(picks, i + 1, Len(picks)) \in Seq(Places)
      BY <3>2
    <3>4. picks' \in Seq(Places)
      BY <3>1, <3>3, ConcatProperties DEF Setup!RemoveAt
    <3>5. QED BY <2>1, <3>4, AddingUntouched
  <2>4. QED BY <2>2, <2>3
<1>9. QED
  BY <1>1, <1>2, <1>3, <1>4, <1>5, <1>6, <1>7, <1>8 DEF Setup!SetupStep

\* An import of the catalog ends no backup of this PC, and a setup is completed only
\* with every folder that was picked, for any PCs, names and folders, unless a user
\* goes back in the wizard while the folders are added.
THEOREM OwnBackupsAreKept ==
  ASSUME "back" \notin SetupFaults
  PROVE  Spec => OwnBackupsStay
<1>1. Init => CatalogInv /\ PicksInv
  BY CatalogInitially, PicksInitially DEF Init
<1>2. CatalogInv /\ PicksInv /\ [Step]_vars => (CatalogInv /\ PicksInv)'
  BY OwnPartsMove, CatalogStep, SetupStepKeepsPicks, RecoveryAssumption
<1>3. CatalogInv /\ [Step]_vars =>
        [\A p \in Machines :
           folders[p][p].enabled /\ folders'[p][p] # C!NoFolder => folders'[p][p].enabled]_(C!vars)
  BY OwnPartsMove, CatalogStep DEF OwnStaysOn
<1>4. PicksInv /\ [Step]_vars =>
        [~complete /\ complete' => \A i \in DOMAIN adding : adding[i] \in chosen']_(Setup!setupVars)
  BY OwnPartsMove, SetupStepKeepsPicks, RecoveryAssumption DEF Picked
<1>5. QED
  BY <1>1, <1>2, <1>3, <1>4, PTL DEF Spec, Step, OwnBackupsStay, C!OwnBackupsStay, Setup!PicksAreKept

-----------------------------------------------------------------------------
LEMMA VaultMoves ==
  ASSUME [Step]_vars
  PROVE  UNCHANGED part /\ [R!Next]_(R!vars)
<1>1. UNCHANGED replicasVars => UNCHANGED R!vars
  BY DEF replicasVars, R!vars
<1>2. CASE ReplicasNext
  BY <1>2 DEF ReplicasNext
<1>3. CASE UNCHANGED <<part, replicasVars>>
  BY <1>1, <1>3
<1>4. QED
  BY <1>2, <1>3 DEF Step, vars, PointsNext, JobsNext, CatalogNext, WayNext, vaultVars, PacksNext,
                    PanelNext

-----------------------------------------------------------------------------
(* VaultReplicas.  While a transfer runs no backup does, unless the user   *)
(* ends the pause that it makes; so what was compared is still the same    *)
(* when the target becomes the active account.                             *)

ReplicasInv ==
  /\ active \in R!All /\ backed \in Nat /\ accounts \in [R!All -> SUBSET Nat]
  /\ backup.mirrors \subseteq Accounts /\ (~backup.on => backup.mirrors = {})
  /\ R!NothingLeftBehind
  /\ \E to, at, was, from : transfer = [to |-> to, at |-> at, was |-> was, from |-> from]
  /\ transfer.at # "none" =>
       /\ transfer.to \in R!All \ {active} /\ ~backup.on /\ paused
       /\ transfer.at # "mirror" => transfer.from = active
  /\ transfer.at = "promote" => accounts[transfer.to] = accounts[active]

LEMMA ReplicasInitially == ASSUME R!Init PROVE ReplicasInv
<1>1. accounts \in [R!All -> SUBSET Nat] /\ active \in R!All
  BY DEF R!Init, R!All, R!Foreign
<1>2. R!NothingLeftBehind /\ backed \in Nat
  BY DEF R!Init, R!NothingLeftBehind
<1>3. backup.mirrors = {} /\ transfer = R!NoMove
  BY DEF R!Init
<1>4. QED BY <1>1, <1>2, <1>3 DEF ReplicasInv, R!NoMove

\* What an account other than the active one holds tells nothing about the active one.
LEMMA OtherAccountMoves ==
  ASSUME ReplicasInv, NEW d \in R!All \ {active}, NEW h \in SUBSET Nat,
         accounts' = [accounts EXCEPT ![d] = h], UNCHANGED <<active, backed>>
  PROVE  /\ accounts' \in [R!All -> SUBSET Nat] /\ accounts'[active'] = accounts[active]
         /\ active' \in R!All /\ backed' \in Nat /\ R!NothingLeftBehind'
BY DEF ReplicasInv, R!NothingLeftBehind

LEMMA PartlyIsFiles ==
  ASSUME ReplicasInv, NEW d \in R!All, NEW from \in R!All, NEW mirror \in BOOLEAN,
         NEW h \in R!Partly(d, from, mirror)
  PROVE  h \in SUBSET Nat
<1>1. PICK got \in SUBSET accounts[from], shed \in SUBSET accounts[d] : h = (accounts[d] \ shed) \cup got
  <2>1. CASE mirror
    BY <2>1 DEF R!Partly
  <2>2. CASE ~mirror
    <3>1. PICK got \in SUBSET accounts[from] : h = (accounts[d] \ {}) \cup got
      BY <2>2 DEF R!Partly
    <3>2. QED BY <3>1
  <2>3. QED BY <2>1, <2>2
<1>2. accounts[from] \in SUBSET Nat /\ accounts[d] \in SUBSET Nat
  BY DEF ReplicasInv
<1>3. QED BY <1>1, <1>2

\* A mirror takes the files of the active account and leaves them there.
LEMMA MirrorLeavesActive ==
  ASSUME ReplicasInv, NEW d \in R!All, R!Mirror(d), UNCHANGED <<active, backed>>
  PROVE  /\ accounts' \in [R!All -> SUBSET Nat] /\ accounts'[active'] = accounts[active]
         /\ active' \in R!All /\ backed' \in Nat /\ R!NothingLeftBehind'
<1>1. CASE accounts' = accounts
  BY <1>1 DEF ReplicasInv, R!NothingLeftBehind
<1>2. CASE d # active
  <2>1. active \in R!All /\ accounts[active] \in SUBSET Nat
    BY DEF ReplicasInv
  <2>2. PICK h \in SUBSET Nat : accounts' = [accounts EXCEPT ![d] = h]
    BY <1>2, <2>1, PartlyIsFiles DEF R!Mirror
  <2>3. QED BY <1>2, <2>2, OtherAccountMoves
<1>3. QED BY <1>1, <1>2 DEF R!Mirror

\* Without a transfer the accounts may change in any way that leaves the active one.
LEMMA NoTransferHolds ==
  ASSUME /\ accounts' \in [R!All -> SUBSET Nat] /\ active' \in R!All /\ backed' \in Nat
         /\ R!NothingLeftBehind',
         transfer' = R!NoMove \/ (transfer' = transfer /\ transfer.at = "none" /\ ReplicasInv),
         backup'.mirrors \subseteq Accounts /\ (~backup'.on => backup'.mirrors = {})
  PROVE  ReplicasInv'
BY DEF ReplicasInv, R!NoMove

LEMMA BackupKeepsReplicas ==
  ASSUME ~UserResumes, ReplicasInv,
         \/ R!StartBackup \/ R!BackUpFile \/ R!FinishBackup \/ R!ReplicateDestination
         \/ R!TogglePause \/ R!Restart
  PROVE  ReplicasInv'
<1>1. CASE R!StartBackup \/ R!FinishBackup \/ R!TogglePause \/ R!Restart
  <2>1. backup'.mirrors \subseteq Accounts /\ (~backup'.on => backup'.mirrors = {})
    <3>1. R!Replicas \subseteq Accounts
      BY DEF R!Replicas
    <3>2. CASE R!FinishBackup
      BY <3>1, <3>2 DEF R!FinishBackup
    <3>3. CASE ~R!FinishBackup
      BY <1>1, <3>3 DEF R!StartBackup, R!TogglePause, R!Restart, ReplicasInv
    <3>4. QED BY <3>2, <3>3
  <2>2. /\ UNCHANGED <<accounts, active, backed>>
        /\ transfer' = R!NoMove \/ (transfer' = transfer /\ transfer.at = "none")
    BY <1>1 DEF R!StartBackup, R!FinishBackup, R!TogglePause, R!Restart, R!NoMove, ReplicasInv
  <2>3. QED BY <2>1, <2>2, NoTransferHolds DEF ReplicasInv, R!NothingLeftBehind
<1>2. CASE R!BackUpFile
  <2>1. /\ accounts' = [accounts EXCEPT ![active] = accounts[active] \cup {backed + 1}]
        /\ backed' = backed + 1 /\ UNCHANGED <<active, backup, transfer>> /\ transfer.at = "none"
    BY <1>2 DEF R!BackUpFile, ReplicasInv
  <2>2. accounts' \in [R!All -> SUBSET Nat] /\ accounts'[active] = accounts[active] \cup {backed + 1}
    BY <2>1 DEF ReplicasInv
  <2>3. 1 .. backed' \subseteq accounts'[active']
    BY <2>1, <2>2 DEF ReplicasInv, R!NothingLeftBehind
  <2>4. QED BY <2>1, <2>2, <2>3, NoTransferHolds DEF ReplicasInv, R!NothingLeftBehind
<1>3. CASE R!ReplicateDestination
  <2>1. PICK d \in backup.mirrors :
          /\ R!Mirror(d) /\ UNCHANGED <<active, backed, transfer>>
          /\ backup' = [on |-> backup.mirrors # {d}, mirrors |-> backup.mirrors \ {d}]
    BY <1>3 DEF R!ReplicateDestination
  <2>2. d \in R!All /\ transfer.at = "none"
    BY <2>1 DEF ReplicasInv, R!All
  <2>3. backup'.mirrors \subseteq Accounts /\ (~backup'.on => backup'.mirrors = {})
    BY <2>1 DEF ReplicasInv
  <2>4. QED BY <2>1, <2>2, <2>3, MirrorLeavesActive, NoTransferHolds
<1>4. QED BY <1>1, <1>2, <1>3

LEMMA TransferKeepsReplicas ==
  ASSUME R!ReplicasAssumption, ReplicasInv, NEW d,
         \/ d \in Accounts /\ (\/ R!ConnectDestination(d) \/ R!Connected(d)
                               \/ R!TransferToDestination(d) \/ R!SyncReplica(d))
         \/ R!TransferFails \/ R!AssertEmptyTarget \/ R!CopyRoots
         \/ R!VerifyRoots \/ R!Promote \/ R!ReplicaSynced
  PROVE  ReplicasInv'
<1>1. CASE d \in Accounts /\ (R!ConnectDestination(d) \/ R!Connected(d))
  BY <1>1 DEF R!ConnectDestination, R!Connected, ReplicasInv, R!NothingLeftBehind
<1>2. CASE d \in Accounts /\ (R!TransferToDestination(d) \/ R!SyncReplica(d))
  <2>1. /\ UNCHANGED <<active, accounts, backup, backed>> /\ ~backup.on /\ paused'
        /\ d # active /\ d \in R!All
        /\ \/ \E was : transfer' = [to |-> d, at |-> "begun", was |-> was, from |-> active]
           \/ transfer' = [to |-> d, at |-> "mirror", was |-> "none", from |-> Main]
    <3>1. CASE R!TransferToDestination(d)
      BY <1>2, <3>1 DEF R!TransferToDestination, R!Reserve, R!BackupIsIdle, R!Offers, R!All
    <3>2. CASE R!SyncReplica(d)
      BY <1>2, <3>2 DEF R!SyncReplica, R!Reserve, R!BackupIsIdle, R!NoMove, R!All
    <3>3. QED BY <1>2, <3>1, <3>2
  <2>2. QED BY <2>1 DEF ReplicasInv, R!NothingLeftBehind
<1>3. CASE R!TransferFails
  <2>1. /\ transfer' = R!NoMove /\ UNCHANGED <<active, backup, backed>>
        /\ transfer.to \in R!All \ {active} /\ transfer.from = active
    BY <1>3 DEF R!TransferFails, R!Release, ReplicasInv
  <2>2. CASE accounts' = accounts
    BY <2>1, <2>2, NoTransferHolds DEF ReplicasInv, R!NothingLeftBehind
  <2>3. CASE accounts' # accounts
    <3>1. PICK h \in R!Partly(transfer.to, transfer.from, FALSE) :
            accounts' = [accounts EXCEPT ![transfer.to] = h]
      BY <1>3, <2>3 DEF R!TransferFails
    <3>2. h \in SUBSET Nat
      BY <2>1, PartlyIsFiles DEF ReplicasInv
    <3>3. QED BY <2>1, <3>1, <3>2, OtherAccountMoves, NoTransferHolds DEF ReplicasInv
  <2>4. QED BY <2>2, <2>3
<1>4. CASE R!AssertEmptyTarget \/ R!VerifyRoots
  <2>1. /\ UNCHANGED <<active, accounts, backup, backed, paused>> /\ transfer.at \in {"begun", "verify"}
        /\ \/ transfer' = [transfer EXCEPT !.at = "copy"]
           \/ /\ transfer' = [transfer EXCEPT !.at = "promote"]
              /\ accounts[transfer.from] = accounts[transfer.to]
    BY <1>4 DEF R!AssertEmptyTarget, R!VerifyRoots, R!SameTrees
  <2>2. PICK to, at, was, from : transfer = [to |-> to, at |-> at, was |-> was, from |-> from]
    BY DEF ReplicasInv
  <2>3. \E s : transfer' = [to |-> to, at |-> s, was |-> was, from |-> from]
    BY <2>1, <2>2
  <2>4. /\ transfer'.to = transfer.to /\ transfer'.from = transfer.from /\ transfer.from = active
        /\ transfer'.at = "copy" \/ accounts[transfer.from] = accounts[transfer.to]
        /\ transfer'.at # "mirror"
    BY <2>1, <2>2 DEF ReplicasInv
  <2>5. QED BY <2>1, <2>3, <2>4 DEF ReplicasInv, R!NothingLeftBehind
<1>5. CASE R!CopyRoots
  <2>1. /\ UNCHANGED <<active, backup, backed, paused>> /\ transfer.at = "copy"
        /\ accounts' = [accounts EXCEPT ![transfer.to] = accounts[transfer.to] \cup accounts[transfer.from]]
        /\ transfer' = [transfer EXCEPT !.at = "verify"]
    BY <1>5 DEF R!CopyRoots
  <2>2. transfer.to \in R!All \ {active} /\ transfer.from = active /\ active \in R!All
    BY <2>1 DEF ReplicasInv
  <2>3. accounts[transfer.to] \cup accounts[transfer.from] \in SUBSET Nat
    BY <2>2 DEF ReplicasInv
  <2>4. /\ accounts' \in [R!All -> SUBSET Nat] /\ R!NothingLeftBehind'
    BY <2>1, <2>2, <2>3, OtherAccountMoves
  <2>5. /\ transfer'.to = transfer.to /\ transfer'.from = transfer.from /\ transfer'.at = "verify"
        /\ \E to, at, was, from : transfer' = [to |-> to, at |-> at, was |-> was, from |-> from]
    BY <2>1 DEF ReplicasInv
  <2>6. QED BY <2>1, <2>2, <2>4, <2>5 DEF ReplicasInv
<1>6. CASE R!Promote
  <2>1. /\ transfer.at = "promote" /\ transfer' = R!NoMove /\ active' \in {active, transfer.to}
        /\ UNCHANGED <<accounts, backup, backed>>
    BY <1>6 DEF R!Promote, R!Release
  <2>2. active' \in R!All /\ accounts[active'] = accounts[active]
    BY <2>1 DEF ReplicasInv
  <2>3. QED BY <2>1, <2>2, NoTransferHolds DEF ReplicasInv, R!NothingLeftBehind
<1>7. CASE R!ReplicaSynced
  <2>1. /\ transfer.at = "mirror" /\ R!Mirror(transfer.to) /\ transfer' = R!NoMove
        /\ UNCHANGED <<active, backup, backed>>
    BY <1>7 DEF R!ReplicaSynced, R!Release
  <2>2. transfer.to \in R!All
    BY <2>1 DEF ReplicasInv
  <2>3. QED BY <2>1, <2>2, MirrorLeavesActive, NoTransferHolds DEF ReplicasInv
<1>8. QED BY <1>1, <1>2, <1>3, <1>4, <1>5, <1>6, <1>7

LEMMA ReplicasStep ==
  ASSUME ~UserResumes, R!ReplicasAssumption, ReplicasInv, [R!Next]_(R!vars)
  PROVE  ReplicasInv'
<1>1. CASE UNCHANGED R!vars
  BY <1>1 DEF R!vars, ReplicasInv, R!NothingLeftBehind
<1>2. CASE \E d \in Accounts : \/ R!ConnectDestination(d) \/ R!Connected(d)
                               \/ R!TransferToDestination(d) \/ R!SyncReplica(d)
  BY <1>2, TransferKeepsReplicas
<1>3. CASE \/ R!TransferFails \/ R!AssertEmptyTarget \/ R!CopyRoots \/ R!VerifyRoots
           \/ R!Promote \/ R!ReplicaSynced
  BY <1>3, TransferKeepsReplicas
<1>4. CASE \/ R!StartBackup \/ R!BackUpFile \/ R!FinishBackup \/ R!ReplicateDestination
           \/ R!TogglePause \/ R!Restart
  BY <1>4, BackupKeepsReplicas
<1>5. QED BY <1>1, <1>2, <1>3, <1>4 DEF R!Next
-----------------------------------------------------------------------------
(* BackupSetup.  The account that is shown follows the questions in their  *)
(* order, so a wizard that has left its first step has a connected         *)
(* account; every handler that changes the folders of a finished setup     *)
(* ends with a load.                                                       *)

Question == [by : {"poll", "signin", "failed", "continue", "load"}, seen : BOOLEAN]

\* What the panel knows of the account: the last answer to come is right.
AccountInv ==
  /\ connected => drive
  /\ \A i \in DOMAIN refreshes : refreshes[i].seen => drive
  /\ setup = "no" => IF refreshes = <<>> THEN connected = drive
                                         ELSE refreshes[Len(refreshes)].seen = drive

WizardInv ==
  /\ setup = "unknown" => step = 1 /\ saving = "none"
  /\ setup = "no" => ~complete /\ (step > 1 => drive) /\ (step = 4 => key)
  /\ setup = "yes" => complete
  /\ saving # "none" => setup = "no" /\ drive
  /\ starting # "no" => complete
  /\ starting = "paused" => pausedSetting

SavedTyped ==
  /\ drive \in BOOLEAN /\ key \in BOOLEAN /\ complete \in BOOLEAN /\ pausedSetting \in BOOLEAN
  /\ chosen \subseteq Places /\ off \subseteq Places /\ chosen \cap off = {}
  /\ restoring \in BOOLEAN /\ scheduling \in BOOLEAN /\ watched \subseteq Places
  /\ starting \in {"no", "start", "paused"}

PanelTyped ==
  /\ setup \in {"unknown", "no", "yes"} /\ mode \in {"none", "backup", "access"}
  /\ connected \in BOOLEAN /\ authStarted \in BOOLEAN /\ listed \subseteq Places
  /\ saving \in {"none", "backup", "access"} /\ reading \in {"no", "refresh", "info"}
  /\ joined \in BOOLEAN /\ signIns \in 0 .. 2 /\ steps \in 0 .. MaxSteps
  /\ refreshes \in Seq(Question)

SetupInv ==
  /\ SavedTyped /\ PanelTyped /\ PicksInv
  /\ AccountInv /\ WizardInv
  /\ Setup!SetUpIsWhole /\ Setup!FoldersApart /\ Setup!ServicesRun
  /\ setup = "yes" /\ ~joined => listed = chosen \cup off

LEMMA SetupInitially == ASSUME Setup!SetupAssumption, Setup!SetupInit PROVE SetupInv
<1>1. <<>> \in Seq(Places) /\ Len(<<>>) = 0 /\ DOMAIN <<>> = {} /\ <<>> \in Seq(Question)
  OBVIOUS
<1>2. SavedTyped
  <2>1. /\ drive \in BOOLEAN /\ key \in BOOLEAN /\ complete \in BOOLEAN /\ pausedSetting \in BOOLEAN
        /\ restoring \in BOOLEAN /\ scheduling \in BOOLEAN
    BY DEF Setup!SetupInit
  <2>2. starting \in {"no", "start", "paused"}
    BY DEF Setup!SetupInit
  <2>3. chosen = {} /\ off = {} /\ watched = {}
    BY DEF Setup!SetupInit
  <2>4. QED BY <2>1, <2>2, <2>3 DEF SavedTyped
<1>6. PanelTyped
  <2>1. signIns \in 0 .. 2 /\ steps \in 0 .. MaxSteps
    BY DEF Setup!SetupInit, Setup!SetupAssumption
  <2>2. refreshes \in Seq(Question)
    BY <1>1 DEF Setup!SetupInit
  <2>3. QED BY <2>1, <2>2 DEF Setup!SetupInit, PanelTyped
<1>3. AccountInv /\ WizardInv
  BY <1>1 DEF Setup!SetupInit, AccountInv, WizardInv
<1>4. Setup!SetUpIsWhole /\ Setup!FoldersApart /\ Setup!ServicesRun
  BY DEF Setup!SetupInit, Setup!SetUpIsWhole, Setup!FoldersApart, Setup!ServicesRun
<1>5. QED
  BY <1>1, <1>2, <1>3, <1>4, <1>6, PicksInitially DEF SetupInv, Setup!SetupInit

\* What a load shows and asks.
LEMMA LoadShows ==
  ASSUME NEW panel, Setup!Load(panel), joined \in BOOLEAN, reading \in {"no", "refresh", "info"}
  PROVE  /\ setup' = panel \/ setup' = (IF complete' THEN "yes" ELSE "no")
         /\ \/ refreshes' = refreshes
            \/ ~complete' /\ refreshes' = Append(refreshes, [by |-> "load", seen |-> drive'])
         /\ joined' \in BOOLEAN /\ reading' \in {"no", "refresh", "info"}
         /\ joined' \/ listed' = chosen' \cup off'
         /\ listed' = listed \/ listed' = chosen' \cup off'
<1>1. CASE Setup!JoinsRequest
  BY <1>1 DEF Setup!Load
<1>2. CASE ~Setup!JoinsRequest
  BY <1>2 DEF Setup!Load, Setup!Ask
<1>3. QED BY <1>1, <1>2

\* A question that is asked or answered keeps the sequence.
LEMMA AskedQuestion ==
  ASSUME refreshes \in Seq(Question), NEW r \in Question
  PROVE  LET grown == Append(refreshes, r) IN
         /\ grown \in Seq(Question) /\ grown # <<>> /\ grown[Len(grown)] = r
         /\ \A i \in DOMAIN grown : grown[i] = r \/ \E j \in DOMAIN refreshes : grown[i] = refreshes[j]
<1> DEFINE grown == Append(refreshes, r)
<1>1. grown \in Seq(Question) /\ Len(grown) = Len(refreshes) + 1 /\ grown[Len(grown)] = r
  OBVIOUS
<1>2. \A i \in 1 .. Len(refreshes) : grown[i] = refreshes[i]
  OBVIOUS
<1>3. DOMAIN grown = 1 .. Len(refreshes) + 1 /\ DOMAIN refreshes = 1 .. Len(refreshes)
  BY <1>1, LenProperties
<1>4. Len(refreshes) \in Nat
  OBVIOUS
<1> HIDE DEF grown
<1>5. \A i \in DOMAIN grown : i \in 1 .. Len(refreshes) \/ i = Len(grown)
  BY <1>1, <1>3, <1>4
<1>6. grown # <<>>
  <2>1. Len(grown) # 0
    BY <1>1, <1>4
  <2>2. QED BY <2>1
<1>7. QED BY <1>1, <1>2, <1>3, <1>5, <1>6 DEF grown

LEMMA AnsweredQuestion ==
  ASSUME refreshes \in Seq(Question), refreshes # <<>>
  PROVE  LET rest == Setup!RemoveAt(refreshes, 1) IN
         /\ rest \in Seq(Question)
         /\ \A i \in DOMAIN rest : \E j \in DOMAIN refreshes : rest[i] = refreshes[j]
         /\ rest = <<>> => refreshes[1] = refreshes[Len(refreshes)]
         /\ rest # <<>> => rest[Len(rest)] = refreshes[Len(refreshes)]
<1> DEFINE n == Len(refreshes)  rest == Setup!RemoveAt(refreshes, 1)
           front == SubSeq(refreshes, 1, 1 - 1)  back == SubSeq(refreshes, 1 + 1, n)
<1>1. n \in Nat \ {0} /\ DOMAIN refreshes = 1 .. n
  BY EmptySeq, LenProperties
<1>2. front = <<>> /\ back \in Seq(Question) /\ Len(back) = n - 1
      /\ \A i \in 1 .. n - 1 : back[i] = refreshes[i + 1]
  BY <1>1
<1>3. rest = back
  <2>1. rest = front \o back
    BY ZenonT(30) DEF Setup!RemoveAt
  <2>2. QED BY <1>2, <2>1
<1> HIDE DEF rest, back, front
<1>4. DOMAIN rest = 1 .. n - 1 /\ Len(rest) = n - 1 /\ rest \in Seq(Question)
      /\ \A i \in 1 .. n - 1 : rest[i] = refreshes[i + 1]
  BY <1>1, <1>2, <1>3, LenProperties
<1> HIDE DEF n
<1>5. \A i \in 1 .. n - 1 : i + 1 \in 1 .. n
  BY <1>1
<1>6. rest = <<>> => n = 1
  BY <1>1, <1>4
<1>7. rest # <<>> => n - 1 \in 1 .. n - 1 /\ (n - 1) + 1 = n
  <2>1. rest # <<>> => Len(rest) # 0
    BY <1>4, EmptySeq
  <2>2. QED BY <1>1, <1>4, <2>1
<1>8. QED BY <1>1, <1>4, <1>5, <1>6, <1>7 DEF n, rest

LEMMA AccountStays ==
  ASSUME AccountInv, UNCHANGED <<connected, drive, refreshes>>, setup' = setup \/ setup' # "no"
  PROVE  AccountInv'
BY DEF AccountInv

\* A step that leaves the settings, the folders and the services alone.
LEMMA WizardMoves ==
  ASSUME Setup!SetupAssumption, SetupInv,
         \/ Setup!LoadEnds \/ Setup!StartGoogleAuth \/ Setup!PollsEnd \/ Setup!Continue
         \/ Setup!ChooseMode \/ Setup!Back \/ Setup!SavePassword
         \/ \E p \in Places : Setup!Pick(p) \/ Setup!Unpick(p),
         PicksInv'
  PROVE  SetupInv'
<1>1. UNCHANGED <<drive, key, complete, chosen, off, pausedSetting, scheduling, watched, starting,
                  restoring, setup, connected, refreshes, listed, joined>>
  BY DEF Setup!LoadEnds, Setup!StartGoogleAuth, Setup!PollsEnd, Setup!Continue, Setup!ChooseMode,
         Setup!Back, Setup!SavePassword, Setup!Pick, Setup!Unpick, Setup!savedVars, Setup!serviceVars,
         Setup!driveVars, Setup!loadVars, Setup!wizardVars
<1>2. /\ saving' = saving \/ (saving' = mode /\ setup = "no" /\ step = 3)
      /\ step' = step \/ (setup = "no" /\ step' \in {2, 3, step - 1} /\ (step # 1 \/ connected))
  <2>1. step \in 1 .. 4
    BY DEF SetupInv, PicksInv
  <2>2. CASE Setup!Continue \/ Setup!ChooseMode \/ Setup!Back
    BY <2>1, <2>2 DEF Setup!Continue, Setup!ChooseMode, Setup!Back
  <2>3. CASE Setup!SavePassword
    BY <2>3 DEF Setup!SavePassword
  <2>4. CASE \/ Setup!LoadEnds \/ Setup!StartGoogleAuth \/ Setup!PollsEnd
             \/ \E p \in Places : Setup!Pick(p) \/ Setup!Unpick(p)
    <3>1. CASE Setup!LoadEnds \/ Setup!StartGoogleAuth \/ Setup!PollsEnd
      BY <3>1 DEF Setup!LoadEnds, Setup!StartGoogleAuth, Setup!PollsEnd, Setup!wizardVars
    <3>2. CASE \E p \in Places : Setup!Pick(p) \/ Setup!Unpick(p)
      BY <3>2 DEF Setup!Pick, Setup!Unpick
    <3>3. QED BY <2>4, <3>1, <3>2
  <2>5. QED BY <2>2, <2>3, <2>4
<1>3. /\ mode' \in {"none", "backup", "access"} /\ authStarted' \in BOOLEAN
      /\ reading' \in {"no", "refresh", "info"}
  BY DEF Setup!LoadEnds, Setup!StartGoogleAuth, Setup!PollsEnd, Setup!Continue, Setup!ChooseMode,
         Setup!Back, Setup!SavePassword, Setup!Pick, Setup!Unpick, Setup!wizardVars, Setup!driveVars,
         Setup!loadVars, SetupInv, PanelTyped
<1>4. signIns' \in 0 .. 2 /\ steps' \in 0 .. MaxSteps
  <2>1. signIns \in 0 .. 2 /\ steps \in 0 .. MaxSteps /\ MaxSteps \in Nat
    BY DEF SetupInv, PanelTyped, Setup!SetupAssumption
  <2>2. /\ signIns' = signIns \/ (signIns < 2 /\ signIns' = signIns + 1)
        /\ steps' = steps \/ (steps < MaxSteps /\ steps' = steps + 1)
    BY DEF Setup!LoadEnds, Setup!StartGoogleAuth, Setup!PollsEnd, Setup!Continue, Setup!ChooseMode,
           Setup!Back, Setup!SavePassword, Setup!Pick, Setup!Unpick, Setup!driveVars, Setup!Act
  <2>3. QED BY <2>1, <2>2
<1>5. SavedTyped' /\ PanelTyped'
  BY <1>1, <1>2, <1>3, <1>4 DEF SetupInv, SavedTyped, PanelTyped
<1>6. AccountInv'
  BY <1>1, AccountStays DEF SetupInv
<1>7. WizardInv'
  <2>1. step \in 1 .. 4
    BY DEF SetupInv, PicksInv
  <2>2. setup = "no" => (step' > 1 => drive) /\ (step' = 4 => key)
    BY <1>2, <2>1 DEF SetupInv, WizardInv, AccountInv
  <2>3. saving' # "none" => setup = "no" /\ drive
    BY <1>2, <2>1 DEF SetupInv, WizardInv
  <2>4. setup = "unknown" => step' = 1 /\ saving' = "none"
    BY <1>2 DEF SetupInv, WizardInv
  <2>5. QED BY <1>1, <2>2, <2>3, <2>4 DEF SetupInv, WizardInv
<1>8. Setup!SetUpIsWhole' /\ Setup!FoldersApart' /\ Setup!ServicesRun'
  BY <1>1 DEF SetupInv, Setup!SetUpIsWhole, Setup!FoldersApart, Setup!ServicesRun
<1>9. QED BY <1>1, <1>5, <1>6, <1>7, <1>8 DEF SetupInv

\* Questions are asked, and answered in their order.
LEMMA QuestionsMove ==
  ASSUME "late" \notin SetupFaults, SetupInv,
         Setup!SignInEnds \/ Setup!Poll \/ Setup!RefreshEnds, PicksInv'
  PROVE  SetupInv'
<1>1. UNCHANGED <<key, complete, chosen, off, pausedSetting, scheduling, watched, starting,
                  restoring, setup, step, mode, saving, listed, joined, steps>>
  BY DEF Setup!SignInEnds, Setup!Poll, Setup!RefreshEnds, Setup!Refreshed, Setup!savedVars,
         Setup!serviceVars, Setup!wizardVars, Setup!loadVars
<1>2. /\ drive' \in BOOLEAN /\ (drive => drive') /\ signIns' \in 0 .. 2
      /\ reading' \in {"no", "refresh", "info"} /\ authStarted' \in BOOLEAN
  <2>1. drive \in BOOLEAN /\ signIns \in 0 .. 2 /\ reading \in {"no", "refresh", "info"}
        /\ authStarted \in BOOLEAN
    BY DEF SetupInv, SavedTyped, PanelTyped
  <2>2. CASE Setup!SignInEnds
    <3>1. signIns > 0 /\ signIns' = signIns - 1 /\ UNCHANGED <<reading, authStarted>>
      BY <2>2 DEF Setup!SignInEnds, Setup!loadVars
    <3>2. drive' = TRUE \/ drive' = drive
      BY <2>2 DEF Setup!SignInEnds
    <3>3. signIns' \in 0 .. 2
      BY <2>1, <3>1
    <3>4. QED BY <2>1, <3>1, <3>2, <3>3
  <2>3. CASE Setup!Poll
    BY <2>1, <2>3 DEF Setup!Poll, Setup!savedVars, Setup!loadVars
  <2>4. CASE Setup!RefreshEnds
    BY <2>1, <2>4 DEF Setup!RefreshEnds, Setup!Refreshed, Setup!savedVars
  <2>5. QED BY <2>2, <2>3, <2>4
<1>3. /\ refreshes' \in Seq(Question) /\ connected' \in BOOLEAN
      /\ connected' => drive'
      /\ \A i \in DOMAIN refreshes' : refreshes'[i].seen => drive'
      /\ setup = "no" => IF refreshes' = <<>> THEN connected' = drive'
                                              ELSE refreshes'[Len(refreshes')].seen = drive'
  <2>1. /\ refreshes \in Seq(Question) /\ drive \in BOOLEAN /\ connected \in BOOLEAN
        /\ connected => drive
        /\ \A i \in DOMAIN refreshes : refreshes[i].seen => drive
        /\ setup = "no" => IF refreshes = <<>> THEN connected = drive
                                               ELSE refreshes[Len(refreshes)].seen = drive
    BY DEF SetupInv, AccountInv, SavedTyped, PanelTyped
  <2>2. CASE Setup!SignInEnds \/ Setup!Poll
    <3>1. PICK by \in {"poll", "signin", "failed"} :
            refreshes' = Append(refreshes, [by |-> by, seen |-> drive'])
      BY <2>2 DEF Setup!SignInEnds, Setup!Poll, Setup!Ask, Setup!savedVars
    <3> DEFINE q == [by |-> by, seen |-> drive']
    <3>2. q \in Question /\ q.seen = drive'
      BY <1>2 DEF Question
    <3>3. refreshes' = Append(refreshes, q) /\ connected' = connected
      BY <2>2, <3>1 DEF Setup!SignInEnds, Setup!Poll
    <3> HIDE DEF q
    <3>4. /\ refreshes' \in Seq(Question) /\ refreshes' # <<>> /\ refreshes'[Len(refreshes')] = q
          /\ \A i \in DOMAIN refreshes' :
               refreshes'[i] = q \/ \E j \in DOMAIN refreshes : refreshes'[i] = refreshes[j]
      BY <2>1, <3>2, <3>3, AskedQuestion
    <3>5. QED BY <1>2, <2>1, <3>2, <3>3, <3>4
  <2>3. CASE Setup!RefreshEnds
    <3>1. /\ 1 \in DOMAIN refreshes /\ refreshes' = Setup!RemoveAt(refreshes, 1)
          /\ connected' = refreshes[1].seen /\ drive' = drive
      BY <2>3 DEF Setup!RefreshEnds, Setup!Refreshed, Setup!savedVars
    <3>2. refreshes # <<>> /\ refreshes[1] \in Question
      BY <2>1, <3>1, LenProperties
    <3>3. refreshes[1].seen \in BOOLEAN
      BY <3>2 DEF Question
    <3>4. /\ refreshes' \in Seq(Question)
          /\ \A i \in DOMAIN refreshes' : \E j \in DOMAIN refreshes : refreshes'[i] = refreshes[j]
          /\ refreshes' = <<>> => refreshes[1] = refreshes[Len(refreshes)]
          /\ refreshes' # <<>> => refreshes'[Len(refreshes')] = refreshes[Len(refreshes)]
      BY <2>1, <3>1, <3>2, AnsweredQuestion
    <3>5. QED BY <2>1, <3>1, <3>2, <3>3, <3>4
  <2>4. QED BY <2>2, <2>3
<1>4. SavedTyped' /\ PanelTyped'
  BY <1>1, <1>2, <1>3 DEF SetupInv, SavedTyped, PanelTyped
<1>5. AccountInv'
  BY <1>1, <1>3 DEF AccountInv
<1>6. WizardInv' /\ Setup!SetUpIsWhole' /\ Setup!FoldersApart' /\ Setup!ServicesRun'
  BY <1>1, <1>2 DEF SetupInv, WizardInv, Setup!SetUpIsWhole, Setup!FoldersApart, Setup!ServicesRun
<1>7. QED BY <1>1, <1>4, <1>5, <1>6 DEF SetupInv

LEMMA ActCounts ==
  ASSUME Setup!SetupAssumption, SetupInv, Setup!Act
  PROVE  steps' \in 0 .. MaxSteps
<1>1. steps \in 0 .. MaxSteps /\ MaxSteps \in Nat /\ steps < MaxSteps /\ steps' = steps + 1
  BY DEF SetupInv, PanelTyped, Setup!SetupAssumption, Setup!Act
<1>2. QED BY <1>1

LEMMA ServicesStartHolds ==
  ASSUME SetupInv, Setup!ServicesStart, PicksInv'
  PROVE  SetupInv'
<1>1. /\ UNCHANGED <<drive, key, complete, chosen, off, pausedSetting, restoring, setup, step, mode,
                     saving, connected, authStarted, signIns, refreshes, listed, reading, joined, steps>>
      /\ starting # "no" /\ starting' = "no"
      /\ \/ starting = "start" /\ scheduling' = TRUE /\ watched' = chosen
         \/ starting # "start" /\ UNCHANGED <<scheduling, watched>>
  BY DEF Setup!ServicesStart, Setup!savedVars, Setup!wizardVars, Setup!driveVars, Setup!loadVars
<1>2. complete /\ (starting = "start" \/ pausedSetting)
  BY <1>1 DEF SetupInv, WizardInv, SavedTyped
<1>3. SavedTyped' /\ PanelTyped'
  <2>1. SavedTyped'
    BY <1>1 DEF SetupInv, SavedTyped
  <2>2. PanelTyped'
    BY <1>1 DEF SetupInv, PanelTyped
  <2>3. QED BY <2>1, <2>2
<1>4. AccountInv' /\ WizardInv'
  BY <1>1, AccountStays DEF SetupInv, WizardInv
<1>5. Setup!SetUpIsWhole' /\ Setup!FoldersApart' /\ Setup!ServicesRun'
  BY <1>1, <1>2 DEF SetupInv, Setup!SetUpIsWhole, Setup!FoldersApart, Setup!ServicesRun
<1>6. QED BY <1>1, <1>3, <1>4, <1>5 DEF SetupInv

\* A setup that is over shows its folders, and the services are those of the folders.
LEMMA CompletedHolds ==
  ASSUME SetupInv, starting = "no", complete', drive', key',
         NEW panel, panel = "yes", Setup!Load(panel),
         chosen' \subseteq Places, off' \subseteq Places, chosen' \cap off' = {},
         Setup!FoldersApart', UNCHANGED <<drive, connected, authStarted, signIns, starting, mode>>,
         drive' \in BOOLEAN /\ key' \in BOOLEAN /\ complete' \in BOOLEAN /\ pausedSetting' \in BOOLEAN,
         restoring' \in BOOLEAN /\ scheduling' \in BOOLEAN /\ watched' \subseteq Places,
         ~pausedSetting' /\ ~restoring' => scheduling' /\ watched' = chosen',
         saving' = "none", steps' \in 0 .. MaxSteps, PicksInv'
  PROVE  SetupInv'
<1>1. joined \in BOOLEAN /\ reading \in {"no", "refresh", "info"} /\ listed \subseteq Places
  BY DEF SetupInv, PanelTyped
<1>2. /\ setup' = "yes" /\ refreshes' = refreshes
      /\ joined' \in BOOLEAN /\ reading' \in {"no", "refresh", "info"}
      /\ joined' \/ listed' = chosen' \cup off'
      /\ listed' \subseteq Places
  BY <1>1, LoadShows
<1>3. SavedTyped'
  BY DEF SetupInv, SavedTyped
<1>4. PanelTyped'
  BY <1>2 DEF SetupInv, PanelTyped
<1>5. AccountInv' /\ WizardInv'
  BY <1>2 DEF SetupInv, AccountInv, WizardInv
<1>6. Setup!SetUpIsWhole' /\ Setup!ServicesRun'
  BY DEF Setup!SetUpIsWhole, Setup!ServicesRun
<1>7. QED BY <1>2, <1>3, <1>4, <1>5, <1>6 DEF SetupInv

LEMMA PasswordHolds ==
  ASSUME SetupFaults \subseteq {"password"}, SetupInv,
         Setup!PasswordSaved \/ Setup!PasswordFails, PicksInv'
  PROVE  SetupInv'
<1>1. saving # "none" /\ setup = "no" /\ drive /\ ~complete /\ starting = "no"
  BY DEF SetupInv, WizardInv, Setup!PasswordSaved, Setup!PasswordFails
<1>2. CASE Setup!PasswordFails
  <2>1. UNCHANGED <<drive, key, complete, chosen, off, pausedSetting, scheduling, watched, starting,
                    restoring, setup, step, mode, connected, authStarted, signIns, refreshes, listed,
                    reading, joined, steps>> /\ saving' = "none"
    BY <1>2 DEF Setup!PasswordFails, Setup!serviceVars, Setup!driveVars, Setup!loadVars
  <2>2. SavedTyped' /\ PanelTyped'
    BY <2>1 DEF SetupInv, SavedTyped, PanelTyped
  <2>3. AccountInv' /\ WizardInv'
    BY <2>1, AccountStays DEF SetupInv, WizardInv
  <2>4. Setup!SetUpIsWhole' /\ Setup!FoldersApart' /\ Setup!ServicesRun'
    BY <2>1 DEF SetupInv, Setup!SetUpIsWhole, Setup!FoldersApart, Setup!ServicesRun
  <2>5. QED BY <2>1, <2>2, <2>3, <2>4 DEF SetupInv
<1>3. CASE Setup!PasswordSaved /\ saving # "access"
  <2>1. /\ UNCHANGED <<drive, complete, chosen, off, pausedSetting, scheduling, watched, starting,
                       restoring, setup, mode, connected, authStarted, signIns, refreshes, listed,
                       reading, joined, steps>>
        /\ saving' = "none" /\ key' = TRUE /\ step' = 4
    BY <1>3 DEF Setup!PasswordSaved, Setup!loadVars
  <2>2. SavedTyped' /\ PanelTyped'
    BY <2>1 DEF SetupInv, SavedTyped, PanelTyped
  <2>3. AccountInv' /\ WizardInv'
    BY <1>1, <2>1, AccountStays DEF SetupInv, WizardInv
  <2>4. Setup!SetUpIsWhole' /\ Setup!FoldersApart' /\ Setup!ServicesRun'
    BY <1>1, <2>1 DEF SetupInv, Setup!SetUpIsWhole, Setup!FoldersApart, Setup!ServicesRun
  <2>5. QED BY <2>1, <2>2, <2>3, <2>4 DEF SetupInv
<1>4. CASE Setup!PasswordSaved /\ saving = "access"
  <2>1. /\ UNCHANGED <<drive, chosen, off, pausedSetting, scheduling, watched, starting, mode,
                       connected, authStarted, signIns, steps>>
        /\ saving' = "none" /\ key' = TRUE /\ complete' = TRUE /\ restoring' = TRUE
        /\ Setup!Load("yes")
    BY <1>4 DEF Setup!PasswordSaved
  <2>2. /\ drive \in BOOLEAN /\ pausedSetting \in BOOLEAN /\ scheduling \in BOOLEAN
        /\ watched \subseteq Places /\ steps \in 0 .. MaxSteps
        /\ chosen \subseteq Places /\ off \subseteq Places /\ chosen \cap off = {}
    BY DEF SetupInv, SavedTyped, PanelTyped
  <2>3. Setup!FoldersApart'
    BY <2>1 DEF SetupInv, Setup!FoldersApart
  <2>4. QED BY <1>1, <2>1, <2>2, <2>3, CompletedHolds
<1>5. QED BY <1>2, <1>3, <1>4

\* A folder that may be taken lies apart from the others.
LEMMA TakenApart ==
  ASSUME SetupInv, NEW p \in Places, Setup!Allowed(p), Setup!Take(p)
  PROVE  /\ chosen' \subseteq Places /\ off' \subseteq Places /\ chosen' \cap off' = {}
         /\ Setup!FoldersApart'
<1>1. /\ chosen \subseteq Places /\ off \subseteq Places /\ chosen \cap off = {}
      /\ chosen' = chosen \cup {p} /\ off' = off \ {p}
      /\ \A q \in chosen : ~Setup!Nested(p, q)
      /\ \A q, r \in chosen : q = r \/ ~Setup!Nested(q, r)
  BY DEF SetupInv, SavedTyped, Setup!Allowed, Setup!Take, Setup!FoldersApart
<1>2. \A q \in chosen : ~Setup!Nested(q, p)
  BY <1>1 DEF Setup!Nested
<1>3. QED BY <1>1, <1>2 DEF Setup!FoldersApart

\* The last handlers of the wizard.
LEMMA FinishHolds ==
  ASSUME Setup!SetupAssumption, SetupInv, Setup!Finish \/ Setup!FinishAdds \/ Setup!FinishFails,
         PicksInv'
  PROVE  SetupInv'
<1>1. /\ UNCHANGED <<drive, key, pausedSetting, starting, step, mode, saving, connected, authStarted,
                     signIns>>
      /\ step = 4 /\ setup = "no"
  <2>1. CASE Setup!Finish
    BY <2>1 DEF Setup!Finish, Setup!finishRest
  <2>2. CASE Setup!FinishAdds \/ Setup!FinishFails
    BY <2>2 DEF Setup!FinishAdds, Setup!FinishFails, Setup!finishRest, SetupInv, PicksInv
  <2>3. QED BY <2>1, <2>2
<1>2. steps' \in 0 .. MaxSteps
  <2>1. CASE Setup!Finish
    BY <2>1, ActCounts DEF Setup!Finish
  <2>2. CASE Setup!FinishAdds \/ Setup!FinishFails
    BY <2>2 DEF Setup!FinishAdds, Setup!FinishFails, SetupInv, PanelTyped
  <2>3. QED BY <2>1, <2>2
<1>3. saving = "none" /\ ~complete /\ drive /\ key /\ starting = "no"
  BY <1>1 DEF SetupInv, PicksInv, WizardInv
<1>4. /\ \/ UNCHANGED <<chosen, off, watched>>
         \/ /\ UNCHANGED <<chosen, off>> /\ Setup!FinishUp
         \/ \E p \in Places : /\ Setup!Allowed(p) /\ Setup!Take(p)
                              /\ Setup!Watch(p) \/ Setup!FinishUp
      /\ Setup!FinishUp \/ UNCHANGED Setup!nothingFinished
  <2>1. CASE Setup!Finish \/ Setup!FinishFails
    BY <2>1 DEF Setup!Finish, Setup!FinishFails
  <2>2. CASE Setup!FinishAdds
    <3>1. added + 1 \in DOMAIN adding /\ adding \in Seq(Places)
      BY <2>2, LenProperties DEF Setup!FinishAdds, SetupInv, PicksInv
    <3>2. adding[added + 1] \in Places
      BY <3>1
    <3>3. QED BY <2>2, <3>2 DEF Setup!FinishAdds
  <2>3. QED BY <2>1, <2>2
<1>5. /\ chosen' \subseteq Places /\ off' \subseteq Places /\ chosen' \cap off' = {}
      /\ Setup!FoldersApart'
  <2>1. CASE UNCHANGED <<chosen, off>>
    BY <2>1 DEF SetupInv, SavedTyped, Setup!FoldersApart
  <2>2. CASE \E p \in Places : Setup!Allowed(p) /\ Setup!Take(p)
    BY <2>2, TakenApart
  <2>3. QED BY <1>4, <2>1, <2>2
<1>6. CASE Setup!FinishUp
  <2>1. /\ complete' = TRUE /\ restoring' = FALSE /\ Setup!Load("yes")
        /\ \/ pausedSetting /\ UNCHANGED <<scheduling, watched>>
           \/ ~pausedSetting /\ scheduling' = TRUE /\ watched' = chosen'
    BY <1>6 DEF Setup!FinishUp, Setup!CompleteSetup
  <2>2. /\ pausedSetting \in BOOLEAN /\ scheduling' \in BOOLEAN /\ watched' \subseteq Places
        /\ drive \in BOOLEAN /\ key \in BOOLEAN
    BY <1>5, <2>1 DEF SetupInv, SavedTyped
  <2>3. QED BY <1>1, <1>2, <1>3, <1>5, <2>1, <2>2, CompletedHolds
<1>7. CASE ~Setup!FinishUp
  <2>1. UNCHANGED <<complete, scheduling, restoring, listed, reading, joined, refreshes, setup>>
    BY <1>4, <1>7 DEF Setup!nothingFinished, Setup!loadVars
  <2>2. /\ watched \subseteq Places
        /\ ~scheduling /\ watched \subseteq chosen
    BY <1>3 DEF SetupInv, SavedTyped, Setup!ServicesRun
  <2>3. watched' \subseteq Places /\ watched' \subseteq chosen'
    BY <1>4, <1>7, <2>2 DEF Setup!Take, Setup!Watch
  <2>4. SavedTyped'
    BY <1>1, <1>5, <2>1, <2>3 DEF SetupInv, SavedTyped
  <2>5. PanelTyped'
    BY <1>1, <1>2, <2>1 DEF SetupInv, PanelTyped
  <2>6. AccountInv' /\ WizardInv'
    <3>1. AccountInv'
      BY <1>1, <2>1, AccountStays DEF SetupInv
    <3>2. WizardInv'
      BY <1>1, <2>1 DEF SetupInv, WizardInv
    <3>3. QED BY <3>1, <3>2
  <2>7. Setup!SetUpIsWhole' /\ Setup!ServicesRun'
    BY <1>1, <1>3, <2>1, <2>2, <2>3 DEF Setup!SetUpIsWhole, Setup!ServicesRun
  <2>8. QED BY <1>1, <1>5, <2>1, <2>4, <2>5, <2>6, <2>7 DEF SetupInv
<1>8. QED BY <1>6, <1>7

\* The handlers of a panel that is set up, but for the disconnect.
LEMMA PanelHolds ==
  ASSUME Setup!SetupAssumption, SetupFaults \subseteq {"password"}, SetupInv,
         \/ Setup!Pause \/ Setup!Resume
         \/ \E p \in Places : Setup!AddFolder(p) \/ Setup!RemoveFolder(p) \/ Setup!ToggleFolder(p),
         PicksInv'
  PROVE  SetupInv'
<1>1. /\ setup = "yes" /\ starting = "no" /\ Setup!Act /\ Setup!Load(setup)
      /\ UNCHANGED <<drive, key, complete, restoring, starting, mode, saving, connected, authStarted,
                     signIns>>
  BY DEF Setup!Pause, Setup!Resume, Setup!AddFolder, Setup!RemoveFolder, Setup!ToggleFolder,
         Setup!Ready, Setup!panelRest
<1>2. saving = "none" /\ complete /\ drive /\ key /\ steps' \in 0 .. MaxSteps
  BY <1>1, ActCounts DEF SetupInv, WizardInv, Setup!SetUpIsWhole, PanelTyped
<1>3. /\ chosen \subseteq Places /\ off \subseteq Places /\ watched \subseteq Places
      /\ chosen \cap off = {}
      /\ ~pausedSetting /\ ~restoring => scheduling /\ watched = chosen
  BY <1>1, <1>2 DEF SetupInv, SavedTyped, Setup!ServicesRun
<1>4. \/ /\ UNCHANGED <<chosen, off>>
         /\ \/ pausedSetting' = TRUE /\ scheduling' = FALSE /\ watched' = {}
            \/ pausedSetting' = FALSE /\ scheduling' = TRUE /\ watched' = chosen
      \/ /\ UNCHANGED <<pausedSetting, scheduling>>
         /\ \E p \in Places :
              \/ Setup!Allowed(p) /\ Setup!Take(p) /\ Setup!Watch(p)
              \/ /\ chosen' = chosen \ {p} /\ off' \in {off \ {p}, off \cup {p}}
                 /\ watched' = watched \ {p}
  <2>1. CASE Setup!Pause \/ Setup!Resume
    BY <2>1 DEF Setup!Pause, Setup!Resume
  <2>2. CASE \E p \in Places : Setup!AddFolder(p) \/ Setup!RemoveFolder(p) \/ Setup!ToggleFolder(p)
    BY <2>2 DEF Setup!AddFolder, Setup!RemoveFolder, Setup!ToggleFolder
  <2>3. QED BY <2>1, <2>2
<1>5. /\ chosen' \subseteq Places /\ off' \subseteq Places /\ chosen' \cap off' = {}
      /\ Setup!FoldersApart'
  <2>1. CASE chosen' \subseteq chosen /\ off' \subseteq Places /\ chosen' \cap off' = {}
    BY <1>3, <2>1 DEF SetupInv, Setup!FoldersApart
  <2>2. CASE \E p \in Places : Setup!Allowed(p) /\ Setup!Take(p)
    BY <2>2, TakenApart
  <2>3. QED BY <1>3, <1>4, <2>1, <2>2
<1>6. /\ watched' \subseteq Places /\ pausedSetting' \in BOOLEAN /\ scheduling' \in BOOLEAN
      /\ ~pausedSetting' /\ ~restoring => scheduling' /\ watched' = chosen'
  <2>1. pausedSetting \in BOOLEAN /\ scheduling \in BOOLEAN
    BY DEF SetupInv, SavedTyped
  <2>2. QED BY <1>3, <1>4, <2>1 DEF Setup!Take, Setup!Watch
<1>7. drive \in BOOLEAN /\ key \in BOOLEAN /\ complete \in BOOLEAN /\ restoring \in BOOLEAN
  BY DEF SetupInv, SavedTyped
<1>8. QED BY <1>1, <1>2, <1>5, <1>6, <1>7, CompletedHolds

\* Nothing of the account, the folders and the key is left.
LEMMA DisconnectHolds ==
  ASSUME Setup!SetupAssumption, SetupFaults \subseteq {"password"}, SetupInv, Setup!Disconnect,
         PicksInv'
  PROVE  SetupInv'
<1>1. /\ drive' = FALSE /\ key' = FALSE /\ complete' = FALSE /\ chosen' = {} /\ off' = {}
      /\ scheduling' = FALSE /\ watched' = {} /\ step' = 1 /\ connected' = FALSE
      /\ authStarted' = FALSE /\ mode' = "none"
      /\ UNCHANGED <<pausedSetting, starting, restoring, saving, signIns>>
      /\ setup = "yes" /\ starting = "no" /\ refreshes = <<>> /\ Setup!Load("no") /\ Setup!Act
  BY DEF Setup!Disconnect, Setup!Ready, Setup!Answered
<1>2. /\ saving = "none" /\ joined \in BOOLEAN /\ reading \in {"no", "refresh", "info"}
      /\ steps' \in 0 .. MaxSteps /\ listed \subseteq Places /\ signIns \in 0 .. 2
      /\ refreshes \in Seq(Question)
  BY <1>1, ActCounts DEF SetupInv, WizardInv, PanelTyped
<1>3. /\ setup' = "no" /\ joined' \in BOOLEAN /\ reading' \in {"no", "refresh", "info"}
      /\ listed' \subseteq Places
      /\ \/ refreshes' = refreshes
         \/ refreshes' = Append(refreshes, [by |-> "load", seen |-> FALSE])
  <2>1. /\ setup' = "no" \/ setup' = (IF complete' THEN "yes" ELSE "no")
        /\ \/ refreshes' = refreshes
           \/ ~complete' /\ refreshes' = Append(refreshes, [by |-> "load", seen |-> drive'])
        /\ joined' \in BOOLEAN /\ reading' \in {"no", "refresh", "info"}
        /\ listed' = listed \/ listed' = chosen' \cup off'
    BY <1>1, <1>2, LoadShows
  <2>2. QED BY <1>1, <1>2, <2>1
<1>4. refreshes' \in Seq(Question)
      /\ AccountInv'
  <2>1. CASE refreshes' = refreshes
    <3>1. DOMAIN <<>> = {}
      OBVIOUS
    <3>2. QED BY <1>1, <1>2, <2>1, <3>1 DEF AccountInv
  <2>2. CASE refreshes' = Append(refreshes, [by |-> "load", seen |-> FALSE])
    <3> DEFINE q == [by |-> "load", seen |-> FALSE]
    <3>1. q \in Question /\ q.seen = FALSE
      BY DEF Question
    <3>2. refreshes' = Append(refreshes, q)
      BY <2>2
    <3> HIDE DEF q
    <3>3. /\ refreshes' \in Seq(Question) /\ refreshes' # <<>>
          /\ refreshes'[Len(refreshes')] = q
          /\ \A i \in DOMAIN refreshes' :
               refreshes'[i] = q \/ \E j \in DOMAIN refreshes : refreshes'[i] = refreshes[j]
      BY <1>2, <3>1, <3>2, AskedQuestion
    <3>4. DOMAIN refreshes = {}
      BY <1>1
    <3>5. \A i \in DOMAIN refreshes' : refreshes'[i].seen = FALSE
      BY <3>1, <3>3, <3>4
    <3>6. QED BY <1>1, <3>1, <3>3, <3>5 DEF AccountInv
  <2>3. QED BY <1>3, <2>1, <2>2
<1>5. SavedTyped' /\ PanelTyped'
  <2>1. SavedTyped'
    BY <1>1 DEF SetupInv, SavedTyped
  <2>2. PanelTyped'
    BY <1>1, <1>2, <1>3, <1>4 DEF PanelTyped
  <2>3. QED BY <2>1, <2>2
<1>6. WizardInv' /\ Setup!SetUpIsWhole' /\ Setup!FoldersApart' /\ Setup!ServicesRun'
  BY <1>1, <1>2, <1>3 DEF WizardInv, Setup!SetUpIsWhole, Setup!FoldersApart, Setup!ServicesRun
<1>7. QED BY <1>3, <1>4, <1>5, <1>6 DEF SetupInv

\* The panel asks for the state again.
LEMMA ReloadHolds == ASSUME SetupInv, Setup!Reload, PicksInv' PROVE SetupInv'
<1>1. /\ UNCHANGED <<drive, key, complete, chosen, off, pausedSetting, scheduling, watched, starting,
                     restoring, step, mode, saving, connected, authStarted, signIns, steps>>
      /\ setup = "unknown" /\ joined' = FALSE /\ listed' = chosen' \cup off'
      /\ setup' = (IF complete' THEN "yes" ELSE "no") /\ reading' \in {"no", "refresh", "info"}
      /\ IF complete' THEN refreshes' = refreshes
                      ELSE refreshes' = Append(refreshes, [by |-> "load", seen |-> drive'])
  BY DEF Setup!Reload, Setup!Load, Setup!JoinsRequest, Setup!Ask, Setup!savedVars, Setup!serviceVars
<1>2. /\ drive \in BOOLEAN /\ refreshes \in Seq(Question) /\ step = 1 /\ saving = "none"
      /\ chosen \subseteq Places /\ off \subseteq Places
      /\ \A i \in DOMAIN refreshes : refreshes[i].seen => drive
      /\ connected => drive
  BY <1>1 DEF SetupInv, SavedTyped, PanelTyped, WizardInv, AccountInv
<1>3. refreshes' \in Seq(Question) /\ AccountInv'
  <2>1. CASE complete'
    BY <1>1, <1>2, <2>1 DEF AccountInv
  <2>2. CASE ~complete'
    <3> DEFINE q == [by |-> "load", seen |-> drive']
    <3>1. q \in Question
      BY <1>1, <1>2 DEF Question
    <3>2. refreshes' = Append(refreshes, q) /\ q.seen = drive'
      BY <1>1, <2>2
    <3> HIDE DEF q
    <3>3. /\ refreshes' \in Seq(Question) /\ refreshes' # <<>>
          /\ refreshes'[Len(refreshes')] = q
          /\ \A i \in DOMAIN refreshes' :
               refreshes'[i] = q \/ \E j \in DOMAIN refreshes : refreshes'[i] = refreshes[j]
      BY <1>2, <3>1, <3>2, AskedQuestion
    <3>4. QED BY <1>1, <1>2, <3>2, <3>3 DEF AccountInv
  <2>3. QED BY <2>1, <2>2
<1>4. SavedTyped' /\ PanelTyped'
  <2>1. SavedTyped'
    BY <1>1 DEF SetupInv, SavedTyped
  <2>2. PanelTyped'
    BY <1>1, <1>2, <1>3 DEF SetupInv, PanelTyped
  <2>3. QED BY <2>1, <2>2
<1>5. WizardInv' /\ Setup!SetUpIsWhole' /\ Setup!FoldersApart' /\ Setup!ServicesRun'
  BY <1>1, <1>2 DEF SetupInv, WizardInv, Setup!SetUpIsWhole, Setup!FoldersApart, Setup!ServicesRun
<1>6. QED BY <1>1, <1>3, <1>4, <1>5 DEF SetupInv

\* What was under way is lost; the services start again from what was saved.
LEMMA LaunchHolds ==
  ASSUME Setup!SetupAssumption, SetupInv, Setup!Launch, PicksInv'
  PROVE  SetupInv'
<1>1. /\ UNCHANGED <<drive, key, complete, chosen, off, pausedSetting>>
      /\ scheduling' = FALSE /\ watched' = {} /\ restoring' = FALSE
      /\ starting' = (IF ~complete THEN "no" ELSE IF pausedSetting THEN "paused" ELSE "start")
      /\ setup' = "unknown" /\ step' = 1 /\ mode' = "none" /\ saving' = "none"
      /\ connected' = FALSE /\ authStarted' = FALSE /\ signIns' = 0 /\ refreshes' = <<>>
      /\ listed' = {} /\ reading' = "no" /\ joined' = FALSE
  BY DEF Setup!Launch, Setup!savedVars
<1>2. <<>> \in Seq(Question) /\ DOMAIN <<>> = {} /\ steps' \in 0 .. MaxSteps
  BY EmptySeq, ActCounts DEF Setup!Launch
<1>3. SavedTyped' /\ PanelTyped'
  <2>1. SavedTyped'
    BY <1>1 DEF SetupInv, SavedTyped
  <2>2. signIns' \in 0 .. 2 /\ refreshes' \in Seq(Question)
    BY <1>1, <1>2
  <2>3. PanelTyped'
    BY <1>1, <1>2, <2>2 DEF PanelTyped
  <2>4. QED BY <2>1, <2>3
<1>4. AccountInv'
  BY <1>1, <1>2 DEF AccountInv
<1>5. WizardInv' /\ Setup!SetUpIsWhole' /\ Setup!FoldersApart' /\ Setup!ServicesRun'
  BY <1>1 DEF SetupInv, SavedTyped, WizardInv, Setup!SetUpIsWhole, Setup!FoldersApart, Setup!ServicesRun
<1>6. QED BY <1>1, <1>3, <1>4, <1>5 DEF SetupInv

LEMMA SetupStepHolds ==
  ASSUME Setup!SetupAssumption, SetupFaults \subseteq {"password"}, SetupInv,
         [Setup!SetupStep]_(Setup!setupVars)
  PROVE  SetupInv'
<1>1. "back" \notin SetupFaults /\ "late" \notin SetupFaults /\ PicksInv
  BY DEF SetupInv
<1>2. PicksInv'
  BY <1>1, SetupStepKeepsPicks
<1>3. CASE UNCHANGED Setup!setupVars
  <2>1. UNCHANGED <<drive, key, complete, chosen, off, pausedSetting, scheduling, watched, starting,
                    restoring, setup, step, mode, saving, connected, authStarted, signIns, refreshes,
                    listed, reading, joined, steps>>
    BY <1>3 DEF Setup!setupVars, Setup!savedVars, Setup!serviceVars, Setup!wizardVars,
                Setup!driveVars, Setup!loadVars
  <2>2. SavedTyped'
    BY <2>1 DEF SetupInv, SavedTyped
  <2>3. PanelTyped'
    BY <2>1 DEF SetupInv, PanelTyped
  <2>4. AccountInv' /\ WizardInv'
    BY <2>1 DEF SetupInv, AccountInv, WizardInv
  <2>5. Setup!SetUpIsWhole' /\ Setup!FoldersApart' /\ Setup!ServicesRun'
    BY <2>1 DEF SetupInv, Setup!SetUpIsWhole, Setup!FoldersApart, Setup!ServicesRun
  <2>6. QED BY <1>2, <2>1, <2>2, <2>3, <2>4, <2>5 DEF SetupInv
<1>4. CASE \/ Setup!LoadEnds \/ Setup!StartGoogleAuth \/ Setup!PollsEnd \/ Setup!Continue
           \/ Setup!ChooseMode \/ Setup!Back \/ Setup!SavePassword
           \/ \E p \in Places : Setup!Pick(p) \/ Setup!Unpick(p)
  BY <1>2, <1>4, WizardMoves
<1>5. CASE Setup!SignInEnds \/ Setup!Poll \/ Setup!RefreshEnds
  BY <1>1, <1>2, <1>5, QuestionsMove
<1>6. CASE Setup!PasswordSaved \/ Setup!PasswordFails
  BY <1>2, <1>6, PasswordHolds
<1>7. CASE Setup!Finish \/ Setup!FinishAdds \/ Setup!FinishFails
  BY <1>2, <1>7, FinishHolds
<1>8. CASE \/ Setup!Pause \/ Setup!Resume
           \/ \E p \in Places : Setup!AddFolder(p) \/ Setup!RemoveFolder(p) \/ Setup!ToggleFolder(p)
  BY <1>2, <1>8, PanelHolds
<1>9. CASE Setup!ServicesStart \/ Setup!Reload \/ Setup!Disconnect \/ Setup!Launch
  BY <1>2, <1>9, ServicesStartHolds, ReloadHolds, DisconnectHolds, LaunchHolds
<1>10. QED BY <1>3, <1>4, <1>5, <1>6, <1>7, <1>8, <1>9 DEF Setup!SetupStep

LEMMA SetupIsWhole == SetupInv => Setup!SetupHolds
BY DEF SetupInv, AccountInv, Setup!SetupHolds, Setup!ListIsKept, Setup!ConnectionIsShown
=============================================================================
