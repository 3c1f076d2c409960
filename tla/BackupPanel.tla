----------------------------- MODULE BackupPanel -----------------------------
(***************************************************************************)
(* What the backup panel shows of a run: the worker reports each file      *)
(* (main/backupWorker.js), the main process collects the reports for half  *)
(* a second (main/ipc.js), the messages to the renderer arrive in order,   *)
(* and the panel collects them again while it is hidden                    *)
(* (renderer/apps/LabSuiteBackup.jsx).                                     *)
(***************************************************************************)
EXTENDS Naturals, Sequences

CONSTANTS Items,            \* files of the backed up folders
          Edited,           \* bound: those that change again after they were stored
          MaxMessages,      \* bound: messages that are under way to the renderer
          PanelFaults,      \* "item" a file fails, "run" the end of a run fails; "batch" a
                            \* transfer fails as a whole
          WholeRuns         \* a run plans all that is due, not only one of the folders

PanelAssumption ==
  /\ MaxMessages \in Nat \ {0, 1} /\ WholeRuns \in BOOLEAN /\ Edited \subseteq Items
  /\ PanelFaults \subseteq {"item", "run", "batch"}

VARIABLES
  run, paused,      \* the worker's run; sync_paused
  due,              \* files that changed and are not stored
  work,             \* how far the last run that planned it came with each file; "left"
                    \* when the newest run has not planned it
  buffer,           \* fileActivityBuffer of the main process
  channel,          \* the messages to the renderer
  pending,          \* fileActivityBufferRef of the panel
  rows,             \* fileActivity: the rows it shows
  status            \* syncStatus

panelVars == <<run, paused, due, work, buffer, channel, pending, rows, status>>

Live     == {"queued", "uploading"}
Ended    == {"completed", "failed"}
Reports  == {"none"} \cup Live \cup Ended
NoRows   == [i \in Items |-> "none"]
Message(kind, content) == [kind |-> kind, rows |-> content]

TypeOK ==
  /\ run \in {"none", "running", "stopping"} /\ paused \in BOOLEAN
  /\ due \subseteq Items
  /\ buffer \in [Items -> Reports] /\ pending \in [Items -> Reports]
  /\ work \in [Items -> Reports \cup {"left"}]
  /\ rows \in [Items -> Reports \cup {"paused"}]
  /\ channel \in Seq([kind : {"rows", "syncing", "idle", "paused", "complete", "failed"},
                      rows : [Items -> Reports]])
  /\ Len(channel) <= MaxMessages
  /\ status \in {"idle", "syncing", "paused", "error"}

Init ==
  /\ run = "none" /\ paused = FALSE /\ due = Items /\ work = NoRows /\ buffer = NoRows
  /\ channel = <<>> /\ pending = NoRows /\ rows = NoRows /\ status = "idle"

Worker == <<run, paused, due, work>>
Panel  == <<pending, rows, status>>

Send(messages) ==
  /\ channel' = channel \o messages /\ Len(channel') <= MaxMessages

\* Newer reports replace older ones.
Merged(old, new) == [i \in Items |-> IF new[i] = "none" THEN old[i] ELSE new[i]]

Report(reports) == buffer' = Merged(buffer, reports)
ReportOne(i, s) == Report([NoRows EXCEPT ![i] = s])

-----------------------------------------------------------------------------
(* The run. *)

Change(i) ==
  /\ run = "none" /\ i \in Edited \ due /\ due' = due \cup {i}
  /\ UNCHANGED <<run, paused, work, buffer, channel, Panel>>

Planned(i, planned) ==
  IF i \in planned THEN "queued" ELSE IF work[i] \in {"none", "completed"} THEN work[i] ELSE "left"

\* The planned files are shown as queued.
StartRun ==
  /\ run = "none" /\ ~paused /\ run' = "running"
  /\ \E planned \in SUBSET due :
       /\ planned # {} /\ (WholeRuns => planned = due)
       /\ work' = [i \in Items |-> Planned(i, planned)]
       /\ Report([i \in Items |-> IF i \in planned THEN "queued" ELSE "none"])
  /\ Send(<<Message("syncing", NoRows)>>)
  /\ UNCHANGED <<paused, due, Panel>>

\* The network policy lets no run start.
Denied ==
  /\ run = "none" /\ ~paused /\ due # {} /\ Send(<<Message("paused", NoRows)>>)
  /\ UNCHANGED <<Worker, buffer, Panel>>

\* rclone reports what it transfers, also until it is killed.
EmitActiveTransfers(i) ==
  /\ run # "none" /\ work[i] \in Live
  /\ work' = [work EXCEPT ![i] = "uploading"] /\ ReportOne(i, "uploading")
  /\ UNCHANGED <<run, paused, due, channel, Panel>>

ItemEnds(i, outcome) ==
  /\ run = "running" /\ work[i] = "uploading"
  /\ work' = [work EXCEPT ![i] = outcome] /\ ReportOne(i, outcome)
  /\ due' = IF outcome = "failed" THEN due ELSE due \ {i}
  /\ UNCHANGED <<run, paused, channel, Panel>>

\* A file that disappeared is skipped, which the panel treats alike.
CompleteItem(i) == ItemEnds(i, "completed")
FailItem(i)     == "item" \in PanelFaults /\ ItemEnds(i, "failed")

\* flushFileActivityBuffer, then the message.
Flushed(message) ==
  /\ Send(IF buffer = NoRows THEN <<message>> ELSE <<Message("rows", buffer), message>>)
  /\ buffer' = NoRows

NoneUnderWay == \A i \in Items : work[i] \notin Live
SomeFailed   == \E i \in Items : work[i] = "failed"

RunCompletes ==
  /\ run = "running" /\ NoneUnderWay /\ run' = "none"
  /\ Flushed(Message(IF SomeFailed THEN "failed" ELSE "complete", NoRows))
  /\ UNCHANGED <<paused, due, work, Panel>>

\* backup:error, with one failure at least.
RunFails ==
  /\ run = "running" /\ run' = "none"
  /\ "batch" \in PanelFaults \/ ("run" \in PanelFaults /\ \A i \in Items : work[i] # "uploading")
  /\ Flushed(Message("failed", NoRows))
  /\ UNCHANGED <<paused, due, work, Panel>>

\* The reports stay with the timer.
RunPaused ==
  /\ run = "stopping" /\ run' = "none" /\ Send(<<Message("paused", NoRows)>>)
  /\ UNCHANGED <<paused, due, work, buffer, Panel>>

Pause ==
  /\ ~paused /\ paused' = TRUE /\ Send(<<Message("paused", NoRows)>>)
  /\ run' = IF run = "none" THEN "none" ELSE "stopping"
  /\ UNCHANGED <<due, work, buffer, Panel>>

Resume ==
  /\ paused /\ paused' = FALSE
  /\ Send(<<Message(IF run = "none" THEN "idle" ELSE "syncing", NoRows)>>)
  /\ UNCHANGED <<run, due, work, buffer, Panel>>

\* The timer of the main process.
FlushFileActivityBuffer ==
  /\ buffer # NoRows /\ Send(<<Message("rows", buffer)>>) /\ buffer' = NoRows
  /\ UNCHANGED <<Worker, Panel>>

-----------------------------------------------------------------------------
(* The panel. *)

Shows(r) == rows' = r /\ pending' = NoRows

\* Mutant: what a failed run did not come to is settled too.
SettledAll(r, failed) == [i \in Items |-> IF r[i] \in Live THEN "completed" ELSE r[i]]

\* settleLiveActivityRows; what is queued is left alone when something failed.
Settled(r, failed) ==
  [i \in Items |-> IF r[i] = "uploading" \/ (r[i] = "queued" /\ ~failed)
                   THEN "completed" ELSE r[i]]

PausedRows(r) == [i \in Items |-> IF r[i] \in Live THEN "paused" ELSE r[i]]

\* The listeners of the panel, also while it is hidden.
Receive ==
  /\ channel # <<>> /\ channel' = Tail(channel)
  /\ LET m   == Head(channel)
         all == Merged(rows, pending)
     IN \/ /\ m.kind = "rows" /\ pending' = Merged(pending, m.rows) /\ UNCHANGED <<rows, status>>
        \/ /\ m.kind \in {"syncing", "idle"} /\ status' = m.kind /\ UNCHANGED <<rows, pending>>
        \/ /\ m.kind = "paused" /\ status' = "paused" /\ Shows(PausedRows(all))
        \/ /\ m.kind \in {"complete", "failed"}
           /\ status' = IF m.kind = "failed" THEN "error" ELSE "idle"
           /\ Shows(Settled(all, m.kind = "failed"))
  /\ UNCHANGED <<Worker, buffer>>

\* The timer of the panel, which does nothing while the panel is hidden, or the panel
\* being shown again.
FlushBufferedFileActivity ==
  /\ pending # NoRows /\ Shows(Merged(rows, pending))
  /\ UNCHANGED <<Worker, buffer, channel, status>>

Next ==
  \/ \E i \in Items : \/ Change(i) \/ EmitActiveTransfers(i)
                      \/ CompleteItem(i) \/ FailItem(i)
  \/ StartRun \/ Denied \/ RunCompletes \/ RunFails \/ RunPaused \/ Pause \/ Resume
  \/ FlushFileActivityBuffer \/ Receive \/ FlushBufferedFileActivity

Spec == Init /\ [][Next]_panelVars

-----------------------------------------------------------------------------
\* All that was reported is shown.
Quiet == run = "none" /\ buffer = NoRows /\ channel = <<>> /\ pending = NoRows

\* A file that is shown as completed was stored, whatever was reported before, after or
\* around a pause, in a hidden panel too.  A transfer that fails as a whole breaks it, as
\* does a run of one folder after a run of another that failed.
CompletedIsStored ==
  Quiet => \A i \in Items : rows[i] = "completed" => work[i] = "completed"

\* After a run that ended by itself the panel shows what became of each file, and no
\* file as being uploaded.
OutcomeIsShown ==
  Quiet /\ status \in {"idle", "error"} /\ ~paused =>
    \A i \in Items :
      /\ work[i] \in Ended => rows[i] = work[i]
      /\ rows[i] = "uploading" => work[i] = "uploading"

\* A paused backup is shown as paused, and one that does not run is not shown as running.
StatusFits == Quiet => (paused => status = "paused") /\ status # "syncing"

PanelIsTrue == CompletedIsStored /\ OutcomeIsShown /\ StatusFits
=============================================================================
