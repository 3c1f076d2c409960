----------------------------- MODULE VmConsole -----------------------------
(***************************************************************************)
(* The page of VM Protect (renderer/apps/VMProtect.jsx) and what it learns *)
(* of the receiver: by messages, by questions that are answered together   *)
(* with a slow search for virtual machines, and by the answers of what it  *)
(* asks for (main/ipc.js, the vmProtect handlers).  And that search itself *)
(* (main/vmDiscovery.js), which asks Windows, VMware and the disk about    *)
(* machines that are started and stopped meanwhile.                        *)
(*                                                                         *)
(* The receiver is vmProtect.js, as far as the page shows it; module       *)
(* VmReceiver has its life and VmBatches what it receives.  A machine that *)
(* is paired is named as the invitation it was paired by.                  *)
(***************************************************************************)
EXTENDS Naturals, Sequences, FiniteSets

CONSTANTS Invites,      \* invitations, and the guests they become
          Questions,    \* the page's own loads: by its button and its timer
          MaxChanges,   \* bound: changes of the receiver's state
          MaxMessages,  \* bound: messages on their way to the page
          Vms,          \* the virtual machines of the PC
          MaxPower      \* bound: machines started or stopped during a search

ConsoleAssumption ==
  /\ IsFiniteSet(Invites) /\ IsFiniteSet(Questions) /\ Questions # {}
  /\ IsFiniteSet(Vms) /\ MaxChanges \in Nat /\ MaxMessages \in Nat \ {0} /\ MaxPower \in Nat

VARIABLES
  receiver,    \* the receiver listens
  invited,     \* per invitation: "new", "invited", "pending", "approved", "rejected" or "gone"
  guests,      \* the paired machines
  heard,       \* those heard of in the last two minutes
  wall,        \* vmProtectFirewall: "unknown", "ok" or "denied"
  rule,        \* the rule is in Windows' firewall
  helperAt,    \* invitations whose helper is in a file or in the machine
  unwritten,   \* history: invitations whose helper could not be written
  staged,      \* per guest, what came last: "nothing", "batch" or "backup"
  backing,     \* per guest: "no", "running", "late" (a batch arrived meanwhile) or "done"
  failing,     \* guests whose folder failed the last time
  safe,        \* guests whose newest batch is in the backup
  behind,      \* history: guests with a batch that arrived during a backup
  wire,        \* vmProtect:state messages on their way to the page
  turn,        \* history: counts the changes of all the above
  sentAt,      \* history: the change of the latest message
  unsaidAt,    \* history: the latest change that sends no message
  op,          \* what the page has asked for and waits for, busyKey
  held,        \* per question, the state that waits for the end of the search
  page,        \* what the page shows of the receiver
  shownAt      \* history: the change that was shown with it

receiverVars == <<receiver, invited, guests, heard, wall, rule, helperAt, unwritten>>
backupVars   == <<staged, backing, failing, safe, behind>>
consoleVars  == <<receiverVars, backupVars, wire, turn, sentAt, unsaidAt, op, held, page, shownAt>>

Waiting == {i \in Invites : invited[i] \in {"invited", "pending", "approved"}}

\* getState: listed are invitations that wait, and guests.
RawState == [on |-> receiver, waiting |-> [i \in Waiting |-> invited[i]],
             guests |-> [g \in guests |-> g \in heard], at |-> turn]

\* The backup status of a guest compares the time of its last batch with the time
\* its folder was last backed up.
BackupStatus(g) ==
  CASE g \in failing -> "error" [] staged[g] = "backup" -> "protected"
    [] staged[g] = "batch" -> "pending" [] OTHER -> "waiting"

\* formatVmProtectState of a state that was read before.
Format(raw, w) ==
  [on |-> raw.on, waiting |-> raw.waiting, guests |-> raw.guests, wall |-> w,
   backup |-> [g \in DOMAIN raw.guests |-> BackupStatus(g)]]
Message(raw, w) == [view |-> Format(raw, w), at |-> raw.at]

Shown == Format(RawState, wall)

NoOp == [kind |-> "none"]

\* The program has started, with the receiver if a machine is paired.
ConsoleInit ==
  /\ guests \in SUBSET Invites /\ receiver = (guests # {}) /\ heard = {}
  /\ wall = "unknown" /\ rule \in BOOLEAN
  /\ invited = [i \in Invites |-> IF i \in guests THEN "gone" ELSE "new"]
  /\ helperAt = guests /\ unwritten = {}
  /\ staged = [i \in Invites |-> "nothing"] /\ backing = [i \in Invites |-> "no"]
  /\ failing = {} /\ safe = {} /\ behind = {}
  /\ wire = <<>> /\ turn = 0 /\ sentAt = 0 /\ unsaidAt = 0
  /\ op = NoOp /\ held = [q \in Questions |-> <<>>]
  /\ page = Shown /\ shownAt = 0

ConsoleTypeOK ==
  /\ receiver \in BOOLEAN /\ heard \subseteq guests /\ guests \subseteq Invites
  /\ invited \in [Invites -> {"new", "invited", "pending", "approved", "rejected", "gone"}]
  /\ wall \in {"unknown", "ok", "denied"} /\ rule \in BOOLEAN
  /\ helperAt \subseteq Invites /\ unwritten \subseteq Invites
  /\ staged \in [Invites -> {"nothing", "batch", "backup"}]
  /\ backing \in [Invites -> {"no", "running", "late", "done"}]
  /\ failing \subseteq Invites /\ safe \subseteq Invites /\ behind \subseteq Invites
  /\ turn \in 0 .. MaxChanges /\ sentAt \in 0 .. turn /\ unsaidAt \in 0 .. turn
  /\ shownAt \in 0 .. turn
  /\ op.kind \in {"none", "toggle", "start", "firewall", "create", "deploy", "respond", "forget",
                 "reload", "answer"}

-----------------------------------------------------------------------------
(* The receiver and its machines. *)

Changed == turn < MaxChanges /\ Len(wire) < MaxMessages /\ turn' = turn + 1

\* emitState: listeners format the state and send it to the page at once.
EmitState ==
  /\ wire' = Append(wire, Message(RawState, wall)')
  /\ sentAt' = turn' /\ UNCHANGED unsaidAt

Unsaid == unsaidAt' = turn' /\ UNCHANGED <<wire, sentAt>>

pageVars == <<op, held, page, shownAt>>

\* Mutant: Windows is taken to have added what was asked for.
EnsureRuleUnchecked == wall' = "ok" /\ rule' \in {rule, TRUE}

\* addRule: the rule is there already, is added, or Windows wants it approved.
EnsureRule ==
  \/ wall' = "ok" /\ rule' = TRUE
  \/ ~rule /\ wall' = "denied" /\ rule' = FALSE

\* ensureVmProtectServer, where the receiver is not running: guests count as offline
\* until they are heard of, and the rule of the firewall is looked for or added.
StartReceiver ==
  /\ receiver' = TRUE /\ EnsureRule
  /\ heard' = IF receiver THEN heard ELSE {}

\* Signed with the token of a paired machine; and the machine is heard of.
Authenticated(g) == receiver /\ g \in guests
TouchGuest(g) == heard' = heard \cup {g}

Heartbeat(g) ==
  /\ Authenticated(g) /\ g \notin heard /\ Changed
  /\ UNCHANGED <<receiver, invited, guests, wall, rule, helperAt, unwritten, backupVars, pageVars>>
  /\ TouchGuest(g) /\ EmitState

\* Two minutes without a request: the next state will say offline.
Silence(g) ==
  /\ g \in heard /\ Changed
  /\ heard' = heard \ {g} /\ Unsaid
  /\ UNCHANGED <<receiver, invited, guests, wall, rule, helperAt, unwritten, backupVars, pageVars>>

\* handleEnrollment, asked by a helper that runs in the machine.
AskToPair(i) ==
  /\ receiver /\ i \in helperAt /\ Changed
  /\ \/ /\ invited[i] = "invited"
        /\ invited' = [invited EXCEPT ![i] = "pending"]
        /\ UNCHANGED <<guests, heard>>
     \/ /\ invited[i] = "approved"
        /\ invited' = [invited EXCEPT ![i] = "gone"]
        /\ guests' = guests \cup {i} /\ heard' = heard \cup {i}
     \/ /\ invited[i] = "rejected"
        /\ invited' = [invited EXCEPT ![i] = "gone"]
        /\ UNCHANGED <<guests, heard>>
  /\ UNCHANGED <<receiver, wall, rule, helperAt, unwritten, backupVars, pageVars>>
  /\ EmitState

\* Time passes: an invitation is valid for a quarter of an hour.
Expire(i) ==
  /\ i \in Waiting /\ Changed
  /\ invited' = [invited EXCEPT ![i] = "gone"] /\ Unsaid
  /\ UNCHANGED <<receiver, guests, heard, wall, rule, helperAt, unwritten, backupVars, pageVars>>

\* A batch of a machine is committed; a backup may be going on, with the files it found.
CommitBatch(g) ==
  /\ Authenticated(g) /\ Changed
  /\ staged' = [staged EXCEPT ![g] = "batch"]
  /\ TouchGuest(g)
  /\ backing' = [backing EXCEPT ![g] = IF @ = "running" THEN "late" ELSE @]
  /\ behind' = IF backing[g] = "running" THEN behind \cup {g} ELSE behind
  /\ safe' = safe \ {g} /\ UNCHANGED failing
  /\ UNCHANGED <<receiver, invited, guests, wall, rule, helperAt, unwritten, pageVars>>
  /\ EmitState

BackupStarts(g) ==
  /\ staged[g] = "batch" /\ backing[g] = "no"
  /\ backing' = [backing EXCEPT ![g] = "running"]
  /\ UNCHANGED <<receiverVars, staged, failing, safe, behind, wire, turn, sentAt, unsaidAt, pageVars>>

\* The folder of the guest is recorded as backed up now, or as failed once more.
FolderEnds(g) ==
  /\ backing[g] \in {"running", "late"} /\ Changed
  /\ \/ /\ staged' = [staged EXCEPT ![g] = "backup"] /\ failing' = failing \ {g}
        /\ safe' = IF backing[g] = "running" THEN safe \cup {g} ELSE safe
        /\ behind' = IF backing[g] = "running" THEN behind \ {g} ELSE behind
     \/ failing' = failing \cup {g} /\ UNCHANGED <<staged, safe, behind>>
  /\ backing' = [backing EXCEPT ![g] = "done"]
  /\ Unsaid
  /\ UNCHANGED <<receiverVars, pageVars>>

\* The run ends, which is told; or it is paused, which is not.
RunEnds(g) ==
  /\ backing[g] = "done"
  /\ backing' = [backing EXCEPT ![g] = "no"]
  /\ UNCHANGED <<receiverVars, staged, failing, safe, behind, pageVars>>
  /\ \/ Changed /\ EmitState
     \/ UNCHANGED <<turn, wire, sentAt, unsaidAt>>

-----------------------------------------------------------------------------
(* What the page hears and asks. *)

hostVars == <<receiverVars, backupVars, turn, sentAt, unsaidAt>>

Shows(m) == page' = m.view /\ shownAt' = m.at

\* handleState of the page: lists are replaced, the server's fields too.
HandleState ==
  /\ wire # <<>> /\ Shows(Head(wire)) /\ wire' = Tail(wire)
  /\ UNCHANGED <<hostVars, op, held>>

\* loadEverything: both questions are asked at once; the state is answered at once.
LoadEverything(q) ==
  /\ held[q] = <<>>
  /\ held' = [held EXCEPT ![q] = <<Message(RawState, wall)>>]
  /\ UNCHANGED <<hostVars, wire, op, page, shownAt>>

\* The search has ended: only now the state is shown.
SearchEnds(q) ==
  /\ held[q] # <<>> /\ Shows(Head(held[q]))
  /\ held' = [held EXCEPT ![q] = <<>>]
  /\ UNCHANGED <<hostVars, wire, op>>

\* The buttons are for one thing at a time.
Click(asks) ==
  /\ op = NoOp /\ op' = asks
  /\ UNCHANGED <<hostVars, wire, held, page, shownAt>>

Reloads == op' = [kind |-> "reload"]

\* reloadState, after what was asked for is done: the state is asked for ...
ReloadState ==
  /\ op.kind = "reload"
  /\ op' = [kind |-> "answer", told |-> Message(RawState, wall)]
  /\ UNCHANGED <<hostVars, wire, held, page, shownAt>>

\* ... and shown.
AnswerArrives ==
  /\ op.kind = "answer" /\ Shows(op.told) /\ op' = NoOp
  /\ UNCHANGED <<hostVars, wire, held>>

Fails == op' = NoOp

-----------------------------------------------------------------------------
(* The receiver's button and its firewall. *)

ToggleReceiver ==
  /\ page.on => DOMAIN page.guests = {} /\ DOMAIN page.waiting = {}
  /\ Click([kind |-> IF page.on THEN "toggle" ELSE "start"])

StartAsked ==
  /\ op.kind = "start" /\ Changed
  /\ StartReceiver
  /\ UNCHANGED <<invited, guests, helperAt, unwritten, backupVars, held, page, shownAt>>
  /\ EmitState /\ Reloads

\* vmProtect:stopServer refuses while a machine is paired or invited.
StopAsked ==
  /\ op.kind = "toggle"
  /\ UNCHANGED <<guests, wall, rule, helperAt, unwritten, backupVars, held, page, shownAt>>
  /\ \/ /\ guests = {} /\ Waiting = {} /\ Changed
        /\ receiver' = FALSE /\ heard' = {}
        /\ invited' = [i \in Invites |-> IF invited[i] = "rejected" THEN "gone" ELSE invited[i]]
        /\ EmitState /\ Reloads
     \/ /\ guests # {} \/ Waiting # {}
        /\ Fails /\ UNCHANGED <<receiver, heard, invited, turn, wire, sentAt, unsaidAt>>

\* vmProtect:configureFirewall reads the state and then waits for the user's approval.
ConfigureFirewall ==
  /\ page.on /\ page.wall = "denied" /\ receiver
  /\ Click([kind |-> "firewall", raw |-> RawState])

\* The elevated script deletes the rule and adds it again; or it is not approved.
ConfigureRule ==
  \/ wall' = "ok" /\ rule' = TRUE
  \/ wall' = "denied" /\ rule' \in {rule, FALSE}

\* Approved or not: the state of before is sent and answered, with the new result.
FirewallAnswered ==
  /\ op.kind = "firewall" /\ Changed
  /\ ConfigureRule
  /\ LET told == [view |-> Format(op.raw, wall'), at |-> IF op.raw.at = turn THEN turn' ELSE op.raw.at] IN
       /\ wire' = Append(wire, told)
       /\ op' = [kind |-> "answer", told |-> told]
  /\ sentAt' = turn' /\ UNCHANGED unsaidAt
  /\ UNCHANGED <<receiver, invited, guests, heard, helperAt, unwritten, backupVars, held, page, shownAt>>

-----------------------------------------------------------------------------
(* Helpers and pairing. *)

NewHelper(how) ==
  \E i \in Invites : invited[i] = "new" /\ Click([kind |-> how, invite |-> i, step |-> "ensure"])
CreateHelper == NewHelper("create")
DeployHelper == NewHelper("deploy")

Goes(step) == [kind |-> op.kind, invite |-> op.invite, step |-> step]

\* ensureReceiver of the page, if it shows the receiver as stopped.
EnsureReceiver ==
  /\ op.kind \in {"create", "deploy"} /\ op.step = "ensure"
  /\ UNCHANGED <<invited, guests, helperAt, unwritten, backupVars, held, page, shownAt>>
  /\ \/ /\ page.on /\ op' = Goes("enroll")
        /\ UNCHANGED <<receiver, heard, wall, rule, turn, wire, sentAt, unsaidAt>>
     \/ /\ ~page.on /\ Changed
        /\ StartReceiver
        /\ op' = [kind |-> op.kind, invite |-> op.invite, step |-> "ensured",
                  told |-> Message(RawState, wall)']
        /\ EmitState

Ensured ==
  /\ op.kind \in {"create", "deploy"} /\ op.step = "ensured" /\ Shows(op.told)
  /\ op' = Goes("enroll")
  /\ UNCHANGED <<hostVars, wire, held>>

\* The receiver is started if need be, then the invitation is made.
CreateEnrollment ==
  /\ op.kind \in {"create", "deploy"} /\ op.step = "enroll" /\ Changed
  /\ StartReceiver
  /\ invited' = [invited EXCEPT ![op.invite] = "invited"]
  /\ op' = Goes("write")
  /\ UNCHANGED <<guests, helperAt, unwritten, backupVars, held, page, shownAt>>
  /\ EmitState

\* The file that the user runs in the machine; when it cannot be written, the
\* invitation stays.
WritePortableHelper ==
  /\ op.kind = "create" /\ op.step = "write"
  /\ \/ helperAt' = helperAt \cup {op.invite} /\ UNCHANGED unwritten
        /\ Reloads
     \/ unwritten' = unwritten \cup {op.invite} /\ UNCHANGED helperAt /\ Fails
  /\ UNCHANGED <<receiver, invited, guests, heard, wall, rule, backupVars, wire, turn, sentAt, unsaidAt,
                 held, page, shownAt>>

\* Three commands of vmrun: they succeed, or one fails or is killed after its time,
\* which the helper may survive.
RunVmrun ==
  /\ op.kind = "deploy" /\ op.step = "write"
  /\ \/ helperAt' = helperAt \cup {op.invite}
        /\ Reloads
     \/ helperAt' \in {helperAt, helperAt \cup {op.invite}}
        /\ op' = Goes("cancel")
  /\ UNCHANGED <<receiver, invited, guests, heard, wall, rule, unwritten, backupVars, wire, turn, sentAt,
                 unsaidAt, held, page, shownAt>>

\* Mutant: an invitation is left to run out.
KeepsEnrollment == invited

\* cancelEnrollment: the entry goes, whatever has become of it.
CancelEnrollment ==
  [invited EXCEPT ![op.invite] = "gone"]

DeployFails ==
  /\ op.kind = "deploy" /\ op.step = "cancel" /\ Changed
  /\ invited' = CancelEnrollment
  /\ Fails
  /\ UNCHANGED <<receiver, guests, heard, wall, rule, helperAt, unwritten, backupVars, held, page, shownAt>>
  /\ IF invited' = invited THEN Unsaid ELSE EmitState

\* respondToEnrollment, of an invitation the page lists.
Respond ==
  \E i \in DOMAIN page.waiting, yes \in BOOLEAN :
    /\ yes => page.waiting[i] = "pending"
    /\ Click([kind |-> "respond", invite |-> i, yes |-> yes])

\* Mutant: the page is left to ask.
DecidedQuietly == UNCHANGED <<wire, sentAt, unsaidAt>>

\* What approveEnrollment and rejectEnrollment send.
Decided == EmitState

RespondAsked ==
  /\ op.kind = "respond"
  /\ UNCHANGED <<receiver, guests, heard, wall, rule, helperAt, unwritten, backupVars, held, page, shownAt>>
  /\ LET may == IF op.yes THEN {"pending"} ELSE {"invited", "pending", "approved"} IN
       \/ /\ invited[op.invite] \in may /\ Changed
          /\ invited' = [invited EXCEPT ![op.invite] = IF op.yes THEN "approved" ELSE "rejected"]
          /\ Decided /\ Reloads
       \/ /\ invited[op.invite] \notin may /\ Fails
          /\ UNCHANGED <<invited, turn, wire, sentAt, unsaidAt>>

ForgetGuest ==
  \E g \in DOMAIN page.guests : Click([kind |-> "forget", invite |-> g, gone |-> FALSE])

\* vmProtect:forgetGuest; the page takes the machine from its list by itself.
ForgetAsked ==
  /\ op.kind = "forget" /\ ~op.gone
  /\ UNCHANGED <<receiver, invited, wall, rule, helperAt, unwritten, backupVars, held, page, shownAt>>
  /\ \/ /\ op.invite \in guests /\ Changed
        /\ guests' = guests \ {op.invite} /\ heard' = heard \ {op.invite}
        /\ EmitState
        /\ op' = [kind |-> op.kind, invite |-> op.invite, gone |-> TRUE]
     \/ /\ op.invite \notin guests /\ Fails
        /\ UNCHANGED <<guests, heard, turn, wire, sentAt, unsaidAt>>

TakenFromList ==
  /\ op.kind = "forget" /\ op.gone
  /\ LET left == DOMAIN page.guests \ {op.invite} IN
       page' = [page EXCEPT !.guests = [g \in left |-> page.guests[g]],
                            !.backup = [g \in left |-> page.backup[g]]]
  /\ op' = NoOp
  /\ UNCHANGED <<hostVars, wire, held, shownAt>>

ConsoleStep ==
  \/ \E g \in Invites : Heartbeat(g) \/ Silence(g) \/ CommitBatch(g) \/ BackupStarts(g)
                        \/ FolderEnds(g) \/ RunEnds(g)
  \/ \E i \in Invites : AskToPair(i) \/ Expire(i)
  \/ HandleState \/ ReloadState \/ AnswerArrives
  \/ \E q \in Questions : LoadEverything(q) \/ SearchEnds(q)
  \/ ToggleReceiver \/ StartAsked \/ StopAsked \/ ConfigureFirewall \/ FirewallAnswered
  \/ CreateHelper \/ DeployHelper \/ EnsureReceiver \/ Ensured \/ CreateEnrollment \/ WritePortableHelper
  \/ RunVmrun \/ DeployFails
  \/ Respond \/ RespondAsked \/ ForgetGuest \/ ForgetAsked \/ TakenFromList
-----------------------------------------------------------------------------
(* The search for virtual machines.  A machine that runs is seen in the list  *)
(* of processes, if its command line can be read, in vmrun's list, if that is *)
(* installed, or by the lock beside its file.                                 *)

VARIABLES
  power,    \* machines that run
  locked,   \* machines with a .lck beside their .vmx; a host that lost power leaves it
  guarded,  \* machines whose process keeps its command line to itself
  listed,   \* machines of VMware's inventory
  usual,    \* machines in the usual folders
  search,   \* the search in progress, or its result
  during,   \* history: machines that ran all the time, and some of the time, of the search
  switches

searchVars == <<power, locked, guarded, listed, usual, search, during, switches>>

NoSearch == [step |-> "none"]

SearchInit ==
  /\ power \in SUBSET Vms /\ \E left \in SUBSET (Vms \ power) : locked = power \cup left
  /\ guarded \in SUBSET Vms /\ listed \in SUBSET Vms /\ usual = Vms \ listed
  /\ search = NoSearch /\ during = [all |-> {}, some |-> {}] /\ switches = 0

SearchTypeOK ==
  /\ power \subseteq locked /\ locked \subseteq Vms
  /\ search.step \in {"none", "asking", "listing", "locks", "found"}
  /\ during.all \subseteq during.some /\ during.some \subseteq Vms

\* A machine is started, or stopped, which removes its lock.
Switch(v) ==
  /\ switches < MaxPower
  /\ search.step \in {"asking", "listing", "locks"} /\ search.disk # "asked"
  /\ switches' = switches + 1
  /\ IF v \in power THEN power' = power \ {v} /\ locked' = locked \ {v}
     ELSE power' = power \cup {v} /\ locked' = locked \cup {v}
  /\ during' = [all |-> during.all \cap power', some |-> during.some \cup power']
  /\ UNCHANGED <<guarded, listed, usual, search>>

DiscoverVMs ==
  /\ search = NoSearch
  /\ search' = [step |-> "asking", procs |-> "asked", disk |-> "asked",
                vmrun |-> "asked", paths |-> {}, hidden |-> 0, candidates |-> {}, byLock |-> {},
                errors |-> FALSE, status |-> "none"]
  /\ during' = [all |-> power, some |-> power]
  /\ UNCHANGED <<power, locked, guarded, listed, usual, switches>>

worldVars == <<power, locked, guarded, listed, usual, during, switches>>

Failed(told) == [told EXCEPT !.errors = TRUE]

\* Mutant: only processes that could be read are counted.
CountsReadable == 0

\* Processes less those whose command line names a file.
HiddenProcesses == Cardinality(power \cap guarded)

\* The files that the command lines name.
NamedByProcesses == power \ guarded

\* queryRunningVmProcesses: Get-CimInstance answers, or fails or takes too long.
ProcessesListed ==
  /\ search.step = "asking" /\ search.procs = "asked" /\ search.disk # "asked"
  /\ \/ search' = [search EXCEPT !.procs = "told", !.paths = NamedByProcesses,
                                 !.hidden = HiddenProcesses]
     \/ search' = Failed([search EXCEPT !.procs = "failed"])
  /\ UNCHANGED worldVars

\* loadInventoryFiles and scanVmRoots, which leaves out what lies beyond its limits
\* without a word.  They read beside the processes; which is first makes no difference.
DiskRead ==
  /\ search.step = "asking" /\ search.disk = "asked"
  /\ \/ search' = [search EXCEPT !.disk = "told", !.candidates = listed \cup usual]
     \/ search' = [search EXCEPT !.disk = "truncated", !.candidates = listed]
     \/ search' = Failed([search EXCEPT !.disk = "failed", !.candidates = listed])
     \/ search' = Failed([search EXCEPT !.disk = "failed", !.candidates = usual])
  /\ UNCHANGED worldVars

\* All have answered; then vmrun is asked, if it was found on the path, in the
\* standard places or the registry.
VmrunFound ==
  /\ search.step = "asking" /\ search.procs # "asked"
  /\ search' \in {[search EXCEPT !.step = "listing"], [search EXCEPT !.step = "locks"]}
  /\ UNCHANGED worldVars

\* queryVmrunList.
VmrunListed ==
  /\ search.step = "listing"
  /\ \/ search' = [search EXCEPT !.step = "locks", !.vmrun = "told", !.paths = @ \cup power]
     \/ search' = Failed([search EXCEPT !.vmrun = "failed", !.step = "locks"])
  /\ UNCHANGED worldVars

\* normalizeVmCandidates: one entry for each file, whoever named it.
Merged == search.paths \cup search.candidates

\* Where processes were hidden, a lock stands for running.
ByLock == IF search.hidden > 0 THEN (Merged \ search.paths) \cap locked ELSE {}

BuildStatus ==
  CASE search.errors -> "partial" [] Merged = {} -> "empty"
    [] search.vmrun = "asked" -> "limited" [] OTHER -> "ready"

LocksRead ==
  /\ search.step = "locks"
  /\ search' = [search EXCEPT !.step = "found", !.candidates = Merged, !.byLock = ByLock,
                              !.paths = @ \cup ByLock, !.status = BuildStatus]
  /\ UNCHANGED worldVars

SearchStep ==
  \/ \E v \in Vms : Switch(v)
  \/ DiscoverVMs \/ ProcessesListed \/ DiskRead \/ VmrunFound
  \/ VmrunListed \/ LocksRead

-----------------------------------------------------------------------------

\* The page shows the receiver as it is, once the messages have arrived: unless what it
\* shows was read before the latest message was sent, which a slow search and the
\* approval of the firewall bring about, or before a change that sends none.
PageShowsHost ==
  wire = <<>> /\ shownAt >= sentAt /\ shownAt >= unsaidAt => page = Shown

\* An invitation that is waited for has a helper to answer it, or is being made.
InvitedHasHelper ==
  \A i \in Waiting \ (helperAt \cup unwritten) :
    op.kind \in {"create", "deploy"} /\ op.invite = i

\* A machine that is shown as protected has its newest batch in the backup, unless a
\* batch of it arrived while its backup was going on.
ProtectedIsBackedUp ==
  \A g \in guests \ behind : BackupStatus(g) = "protected" => g \in safe

\* The firewall is called open only where its rule exists.
WallIsOpen == wall = "ok" => rule

ConsoleHolds == PageShowsHost /\ WallIsOpen /\ InvitedHasHelper /\ ProtectedIsBackedUp

\* A search lists as running only what ran during it, or has a lock where some process
\* was hidden; and everything that ran all the time, if vmrun answered, or if the
\* processes were listed and its own told its file or its file was known.
SearchHolds ==
  search.step = "found" =>
    /\ search.paths \ search.byLock \subseteq during.some
    /\ search.vmrun = "told" => during.all \subseteq search.paths
    /\ search.procs = "told" => during.all \ guarded \subseteq search.paths
    /\ search.procs = "told" /\ search.disk # "failed" =>
         during.all \cap listed \subseteq search.paths
    /\ search.status = "ready" /\ search.disk = "told" =>
         listed \cup usual \subseteq search.candidates
=============================================================================
