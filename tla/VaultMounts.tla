---------------------------- MODULE VaultMounts ----------------------------
(***************************************************************************)
(* Disk Mount (main/ipc.js): one rclone process serves the vault in a      *)
(* backend directory, a view of links with readable names is built beside  *)
(* it, and a drive letter shows the view.                                  *)
(*                                                                         *)
(* Every attempt has its own process, listeners and timer, but all share   *)
(* one record of what is active.  An attempt ends when its promise is      *)
(* resolved; its timer does not look at that again once it waits.          *)
(***************************************************************************)
EXTENDS Naturals, FiniteSets

CONSTANTS MaxMounts,    \* bound: attempts, each with the drive letter of its number
          Overlaps      \* an attempt may begin while traces of an earlier one are left

MountsAssumption == MaxMounts \in Nat \ {0} /\ Overlaps \in BOOLEAN

Attempts == 1 .. MaxMounts
None     == 0

VARIABLES
  process,    \* of each attempt: not begun, alive, or ended with its close event to come
  serving,    \* attempts whose process serves the backend directory
  settled,    \* attempts whose promise is resolved
  timer,      \* of each attempt: before the 1.5 s, waiting for the backend, listing shortcuts
  active,     \* activeMountProcess
  letter,     \* activeMountDrive
  roots,      \* activeBackendMountPoint and activeMountViewRoot are set
  mountStatus,
  view,       \* the view directory holds links
  letters     \* drive letters that show the view

mountVars == <<process, serving, settled, timer, active, letter, roots, mountStatus, view, letters>>

TypeOK ==
  /\ process \in [Attempts -> {"none", "alive", "ended", "closed"}]
  /\ serving \subseteq {a \in Attempts : process[a] = "alive"}
  /\ settled \subseteq {a \in Attempts : process[a] # "none"}
  /\ timer \in [Attempts -> {"none", "armed", "waiting", "listing", "done"}]
  /\ active \in Attempts \cup {None} /\ letter \in Attempts \cup {None}
  /\ roots \in BOOLEAN /\ view \in BOOLEAN
  /\ mountStatus \in {"unmounted", "mounting", "mounted", "error"}
  /\ letters \subseteq Attempts

Init ==
  /\ process = [a \in Attempts |-> "none"] /\ serving = {} /\ settled = {}
  /\ timer = [a \in Attempts |-> "none"]
  /\ active = None /\ letter = None /\ roots = FALSE
  /\ mountStatus = "unmounted" /\ view = FALSE /\ letters = {}

\* Mutant: the drive letter stays.
CleanupKeepsDrive ==
  /\ view' = (view /\ ~roots)
  /\ roots' = FALSE
  /\ UNCHANGED letters

\* cleanupMountState: the letter that is known goes, and the directories if known.
CleanupMountState ==
  /\ letters' = letters \ {letter}
  /\ view' = (view /\ ~roots)
  /\ roots' = FALSE

Kill(a) ==
  /\ process' = IF process[a] = "alive" THEN [process EXCEPT ![a] = "ended"] ELSE process
  /\ serving' = serving \ {a}

\* Nothing of an earlier attempt is still to happen.
Quiet == \A a \in Attempts : process[a] \in {"none", "closed"} /\ timer[a] \in {"none", "done"}

\* vault:mount, unless mounted: the page disables its button while mounting.
Mount(a) ==
  /\ mountStatus \in {"unmounted", "error"} /\ (Overlaps \/ Quiet)
  /\ process[a] = "none" /\ \A b \in 1 .. a - 1 : process[b] # "none"
  /\ mountStatus' = "mounting"
  /\ letters' = letters \ {letter} /\ view' = FALSE
  /\ process' = [process EXCEPT ![a] = "alive"] /\ timer' = [timer EXCEPT ![a] = "armed"]
  /\ active' = a /\ letter' = a /\ roots' = TRUE
  /\ UNCHANGED <<serving, settled>>

\* rclone has signed in and WinFsp shows the vault, where no other process does.
Serve(a) ==
  /\ process[a] = "alive" /\ serving = {}
  /\ serving' = {a}
  /\ UNCHANGED <<process, settled, timer, active, letter, roots, mountStatus, view, letters>>

\* The process could not be spawned.
SpawnFails(a) ==
  /\ process[a] = "alive" /\ a \notin settled /\ timer[a] = "armed" /\ a \notin serving
  /\ process' = [process EXCEPT ![a] = "closed"]
  /\ settled' = settled \cup {a}
  /\ mountStatus' = "error"
  /\ CleanupMountState
  /\ active' = None /\ letter' = None
  /\ UNCHANGED <<serving, timer>>

\* rclone says that WinFsp is missing.
WinfspMissing(a) ==
  /\ process[a] = "alive" /\ a \notin settled /\ a \notin serving
  /\ settled' = settled \cup {a}
  /\ mountStatus' = "error"
  /\ active' = None /\ letter' = None
  /\ Kill(a)
  /\ view' = (view /\ ~roots) /\ roots' = FALSE /\ UNCHANGED letters
  /\ UNCHANGED timer

\* rclone ends by itself: the sign-in fails, the connection is lost.
Dies(a) ==
  /\ process[a] = "alive"
  /\ Kill(a)
  /\ UNCHANGED <<settled, timer, active, letter, roots, mountStatus, view, letters>>

\* The close event, whoever is active by then.
Closed(a) ==
  /\ process[a] = "ended"
  /\ process' = [process EXCEPT ![a] = "closed"]
  /\ active' = None /\ letter' = None
  /\ CleanupMountState
  /\ mountStatus' = "unmounted"
  /\ settled' = settled \cup {a}
  /\ UNCHANGED <<serving, timer>>

-----------------------------------------------------------------------------
(* The timer of an attempt. *)

TimerFires(a) ==
  /\ timer[a] = "armed"
  /\ timer' = [timer EXCEPT ![a] = IF a \in settled THEN "done" ELSE "waiting"]
  /\ UNCHANGED <<process, serving, settled, active, letter, roots, mountStatus, view, letters>>

\* waitForMountReady looks at the directory, which any process may serve.
BackendReady(a) ==
  /\ timer[a] = "waiting" /\ serving # {}
  /\ timer' = [timer EXCEPT ![a] = "listing"]
  /\ UNCHANGED <<process, serving, settled, active, letter, roots, mountStatus, view, letters>>

\* buildMountAliasView: the view is emptied and filled with links again.
BuildMountAliasView == view' = TRUE

\* getRestoreShortcuts answered or failed: the view is built, the letter made.
ShowDrive(a) ==
  /\ timer[a] = "listing" /\ serving # {} /\ a \notin letters
  /\ timer' = [timer EXCEPT ![a] = "done"]
  /\ BuildMountAliasView /\ letters' = letters \cup {a}
  /\ settled' = settled \cup {a}
  /\ mountStatus' = "mounted"
  /\ UNCHANGED <<process, serving, active, letter, roots>>

\* Not ready within 45 s, or the view could not be built.
GivesUp(a) ==
  /\ timer[a] \in {"waiting", "listing"}
  /\ timer[a] = "waiting" => serving = {}
  /\ timer' = [timer EXCEPT ![a] = "done"]
  /\ settled' = settled \cup {a}
  /\ mountStatus' = "error"
  /\ active' = None /\ letter' = None
  /\ Kill(a)
  /\ CleanupMountState

\* vault:unmount, offered while mounted.  taskkill waits.
Unmount ==
  /\ mountStatus = "mounted" /\ active # None
  /\ Kill(active)
  /\ active' = None /\ letter' = None
  /\ CleanupMountState
  /\ mountStatus' = "unmounted"
  /\ UNCHANGED <<settled, timer>>

Next ==
  \/ \E a \in Attempts :
       \/ Mount(a) \/ Serve(a) \/ SpawnFails(a) \/ WinfspMissing(a) \/ Dies(a) \/ Closed(a)
       \/ TimerFires(a) \/ BackendReady(a) \/ ShowDrive(a) \/ GivesUp(a)
  \/ Unmount

Spec == Init /\ [][Next]_mountVars

-----------------------------------------------------------------------------

\* What shows as mounted belongs to a process that Unmount would end, and once
\* nothing is mounted no drive letter is left over.  It relies on attempts that do
\* not overlap: the timer of an attempt that died early takes the next one's
\* directory for its own, and leaves a drive that nothing can unmount.
DriveIsOwned ==
  /\ mountStatus = "mounted" => (active # None /\ process[active] \in {"alive", "ended"})
  /\ mountStatus \in {"unmounted", "error"} => letters = {}
=============================================================================
