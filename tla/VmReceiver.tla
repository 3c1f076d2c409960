----------------------------- MODULE VmReceiver -----------------------------
(***************************************************************************)
(* VM Protect's receiver on the host (main/vmProtect.js): its life, the    *)
(* invitations by which virtual machines pair with it, the uploads of the  *)
(* first protocol, and the backup sources that main/ipc.js keeps for the   *)
(* paired machines.  What the second protocol uploads is module VmBatches; *)
(* here a batch is only the event of its commit.                           *)
(*                                                                         *)
(* The program may end at any point; the guests, the setting and the       *)
(* backup sources are in the database.                                     *)
(***************************************************************************)
EXTENDS Naturals, FiniteSets

CONSTANTS Guests,
          Legacy,       \* the guests paired over the first protocol, long ago
          Invitations,
          Bulk,         \* invitations for many guests, approved in advance
          MaxActive,    \* uploads at a time, all guests together
          MaxRestarts,  \* bound: restarts of the program
          MaxStarts,    \* bound: starts in flight
          MaxToggles    \* bound: sources the user switches on or off

ReceiverAssumption ==
  /\ IsFiniteSet(Guests) /\ Legacy \subseteq Guests
  /\ IsFiniteSet(Invitations) /\ Bulk \subseteq Invitations
  /\ MaxActive \in Nat \ {0} /\ MaxRestarts \in Nat /\ MaxStarts \in Nat \ {0} /\ MaxToggles \in Nat

VARIABLES
  server,      \* the receiver listens
  starting,    \* starts that wait for the port
  closing,     \* stops that wait for the last connection
  wanted,      \* the setting vm_protect_enabled
  refused,     \* history: the port was not to be had since the program started
  invitation,  \* the state of each enrollment, "none" when there is none
  consumed,    \* enrollments a single guest has used
  guest,       \* "new", "paired" or "forgotten"
  told,        \* guests whose answer with the token arrived
  uploading,   \* uploads of the first protocol in progress, per guest
  busy,        \* activeGuestUploads
  active,      \* activeUploads
  committed,   \* guests with a batch being committed, or waiting for its timer
  enabled,     \* per guest, how many enabled backup sources it has
  disabled,    \* per guest, how many disabled ones
  late,        \* history: guests forgotten while something of theirs was underway
  restarts, toggles

serverVars  == <<server, starting, closing, wanted, refused>>
pairingVars == <<invitation, consumed, guest, told>>
uploadVars  == <<uploading, busy, active, committed>>
sourceVars  == <<enabled, disabled, late, toggles>>
vars        == <<serverVars, pairingVars, uploadVars, sourceVars, restarts>>

Paired == {g \in Guests : guest[g] = "paired"}

TypeOK ==
  /\ server \in BOOLEAN /\ starting \in 0 .. MaxStarts /\ closing \in 0 .. MaxStarts
  /\ wanted \in BOOLEAN /\ refused \in BOOLEAN
  /\ invitation \in [Invitations -> {"none", "invited", "pending", "approved", "rejected"}]
  /\ consumed \subseteq Invitations \ Bulk
  /\ \A i \in consumed : invitation[i] = "none"
  /\ guest \in [Guests -> {"new", "paired", "forgotten"}]
  /\ told \subseteq {g \in Guests : guest[g] # "new"}
  /\ uploading \in [Legacy -> 0 .. MaxActive] /\ busy \subseteq Legacy
  /\ active \in 0 .. MaxActive
  /\ committed \subseteq Guests \ Legacy
  /\ enabled \in [Guests -> 0 .. 2 + MaxToggles] /\ disabled \in [Guests -> 0 .. 3 + MaxToggles]
  /\ late \subseteq Guests
  /\ restarts \in 0 .. MaxRestarts /\ toggles \in 0 .. MaxToggles

\* A program that has guests from before, or none.  Their source was switched
\* off once, and an upload has made another.
Init ==
  /\ server = FALSE /\ closing = 0 /\ refused = FALSE
  /\ invitation = [i \in Invitations |-> "none"] /\ consumed = {}
  /\ \E old \in {{}, Legacy} :
       /\ guest = [g \in Guests |-> IF g \in old THEN "paired" ELSE "new"]
       /\ told = old /\ wanted = (old # {}) /\ starting = IF old = {} THEN 0 ELSE 1
       /\ enabled = [g \in Guests |-> IF g \in old THEN 1 ELSE 0]
  /\ uploading = [g \in Legacy |-> 0] /\ busy = {} /\ active = 0 /\ committed = {}
  /\ disabled = enabled /\ late = {} /\ restarts = 0 /\ toggles = 0

-----------------------------------------------------------------------------
(* The receiver. *)

\* start(): from the page, from a helper to be made, or 1.2 s after the program.
StartServer ==
  /\ ~server /\ starting < MaxStarts
  /\ starting' = starting + 1
  /\ UNCHANGED <<server, closing, wanted, refused, pairingVars, uploadVars, sourceVars, restarts>>

\* The port is free; whatever was stopped meanwhile, the receiver runs.
Listening ==
  /\ starting > 0 /\ ~server
  /\ starting' = starting - 1
  /\ server' = TRUE /\ wanted' = TRUE
  /\ UNCHANGED <<closing, refused, pairingVars, uploadVars, sourceVars, restarts>>

\* Another start, or another program, has the port.
PortInUse ==
  /\ starting > 0
  /\ starting' = starting - 1
  /\ refused' = (refused \/ ~server)
  /\ UNCHANGED <<server, closing, wanted, pairingVars, uploadVars, sourceVars, restarts>>

\* Mutant: the page may stop the receiver at any time.
MayStopAlways == TRUE

\* The guard of vmProtect:stopServer.
MayStop == Paired = {} /\ \A i \in Invitations : invitation[i] \in {"none", "rejected"}

\* Enrollments and the upload locks go; uploads in progress go on.
StopServer ==
  /\ closing < MaxStarts /\ MayStop
  /\ server' = FALSE /\ closing' = closing + 1
  /\ invitation' = [i \in Invitations |-> "none"]
  /\ busy' = {}
  /\ UNCHANGED <<starting, wanted, refused, consumed, guest, told, uploading, active, committed,
                 sourceVars, restarts>>

\* close() called back: the setting is written now, whatever started meanwhile.
Stopped ==
  /\ closing > 0
  /\ closing' = closing - 1
  /\ wanted' = FALSE
  /\ UNCHANGED <<server, starting, refused, pairingVars, uploadVars, sourceVars, restarts>>

\* Mutant: the setting alone decides.
StartsWithSetting == wanted

\* index.js: the receiver starts with the program.
StartsWithProgram == wanted \/ Paired # {}

\* The program ends and starts again.
Restart ==
  /\ restarts < MaxRestarts
  /\ restarts' = restarts + 1
  /\ server' = FALSE /\ closing' = 0 /\ refused' = FALSE
  /\ starting' = IF StartsWithProgram THEN 1 ELSE 0
  /\ invitation' = [i \in Invitations |-> "none"]
  /\ uploading' = [g \in Legacy |-> 0] /\ busy' = {} /\ active' = 0 /\ committed' = {}
  /\ UNCHANGED <<wanted, consumed, guest, told, sourceVars>>

-----------------------------------------------------------------------------
(* Pairing. *)

CreateEnrollment(i) ==
  /\ server /\ invitation[i] = "none" /\ i \notin consumed
  /\ invitation' = [invitation EXCEPT ![i] = IF i \in Bulk THEN "approved" ELSE "invited"]
  /\ UNCHANGED <<serverVars, consumed, guest, told, uploadVars, sourceVars, restarts>>

\* Expired, too many wrong secrets, or the helper could not be deployed.
CancelEnrollment(i) ==
  /\ invitation[i] # "none"
  /\ invitation' = [invitation EXCEPT ![i] = "none"]
  /\ UNCHANGED <<serverVars, consumed, guest, told, uploadVars, sourceVars, restarts>>

ApproveEnrollment(i) ==
  /\ invitation[i] = "pending"
  /\ invitation' = [invitation EXCEPT ![i] = "approved"]
  /\ UNCHANGED <<serverVars, consumed, guest, told, uploadVars, sourceVars, restarts>>

RejectEnrollment(i) ==
  /\ invitation[i] \in {"invited", "pending", "approved"}
  /\ invitation' = [invitation EXCEPT ![i] = "rejected"]
  /\ UNCHANGED <<serverVars, consumed, guest, told, uploadVars, sourceVars, restarts>>

\* handleEnrollment, of an agent that asks every 2 s.
AskToPair(i) ==
  /\ server
  /\ \/ invitation[i] = "invited" /\ invitation' = [invitation EXCEPT ![i] = "pending"]
     \/ invitation[i] = "rejected" /\ invitation' = [invitation EXCEPT ![i] = "none"]
  /\ UNCHANGED <<serverVars, consumed, guest, told, uploadVars, sourceVars, restarts>>

\* issueGuest.  The answer with the token may be lost: a single invitation is
\* used up all the same.
IssueGuest(i, g) ==
  /\ server /\ invitation[i] = "approved" /\ guest[g] = "new" /\ g \notin Legacy
  /\ guest' = [guest EXCEPT ![g] = "paired"]
  /\ \/ i \in Bulk /\ UNCHANGED <<invitation, consumed>>
     \/ /\ i \notin Bulk
        /\ invitation' = [invitation EXCEPT ![i] = "none"]
        /\ consumed' = consumed \cup {i}
  /\ told' \in {told, told \cup {g}}
  /\ UNCHANGED <<serverVars, uploadVars, sourceVars, restarts>>

\* vmProtect:forgetGuest: the first source of the guest is disabled, if enabled.
\* What was staged stays; the guest's requests are refused from here on.
ForgetGuest(g) ==
  /\ guest[g] = "paired"
  /\ guest' = [guest EXCEPT ![g] = "forgotten"]
  /\ \/ /\ enabled[g] > 0
        /\ enabled' = [enabled EXCEPT ![g] = @ - 1]
        /\ disabled' = [disabled EXCEPT ![g] = @ + 1]
     \/ /\ enabled[g] = 0 \/ disabled[g] > 0
        /\ UNCHANGED <<enabled, disabled>>
  /\ late' = IF g \in committed \cup {h \in Legacy : uploading[h] > 0} \/ enabled'[g] > 0 THEN late \cup {g} ELSE late
  /\ UNCHANGED <<serverVars, invitation, consumed, told, uploadVars, toggles, restarts>>

-----------------------------------------------------------------------------
(* Uploads and their backup sources. *)

\* registerVmUploadForBackup: no enabled source is known, so one is added.
Registered(g) == enabled[g] > 0

Register(g) ==
  enabled' = IF Registered(g) THEN enabled ELSE [enabled EXCEPT ![g] = 1]

\* handleUpload, until the body is awaited.
BeginUpload(g) ==
  /\ server /\ guest[g] = "paired" /\ g \in told
  /\ active < MaxActive /\ g \notin busy
  /\ uploading' = [uploading EXCEPT ![g] = @ + 1]
  /\ busy' = busy \cup {g} /\ active' = active + 1
  /\ UNCHANGED <<serverVars, pairingVars, committed, sourceVars, restarts>>

EndUpload(g) ==
  /\ uploading[g] > 0
  /\ uploading' = [uploading EXCEPT ![g] = @ - 1]
  /\ busy' = busy \ {g} /\ active' = active - 1
  /\ UNCHANGED <<serverVars, pairingVars, committed, disabled, late, toggles, restarts>>

\* The file and its revision are in place.
UploadArrives(g) == EndUpload(g) /\ Register(g)

UploadFails(g) == EndUpload(g) /\ UNCHANGED enabled

\* A batch of the second protocol is to be committed; 2.5 s after that it is
\* registered.
CommitBatch(g) ==
  /\ server /\ guest[g] = "paired" /\ g \in told
  /\ committed' = committed \cup {g}
  /\ UNCHANGED <<serverVars, pairingVars, uploading, busy, active, sourceVars, restarts>>

BatchRegistered(g) ==
  /\ g \in committed
  /\ committed' = committed \ {g}
  /\ Register(g)
  /\ UNCHANGED <<serverVars, pairingVars, uploading, busy, active, disabled, late, toggles, restarts>>

\* Mutant: every guest that ever staged something.
ReconciledGuests == Guests \cap told

\* reconcileVmProtectBackupSources, once per start of the receiver: the guests
\* it looks at.
Reconciled == Paired

Reconcile(g) ==
  /\ server /\ g \in Reconciled /\ g \in told /\ ~Registered(g)
  /\ Register(g)
  /\ UNCHANGED <<serverVars, pairingVars, uploadVars, disabled, late, toggles, restarts>>

\* The user switches a source off, or on again; nothing asks whether its tree has
\* another enabled source by now.
ToggleSource(g) ==
  /\ toggles < MaxToggles
  /\ toggles' = toggles + 1
  /\ guest[g] = "paired"
  /\ \/ /\ enabled[g] > 0
        /\ enabled' = [enabled EXCEPT ![g] = @ - 1]
        /\ disabled' = [disabled EXCEPT ![g] = @ + 1]
     \/ /\ disabled[g] > 0
        /\ enabled' = [enabled EXCEPT ![g] = @ + 1]
        /\ disabled' = [disabled EXCEPT ![g] = @ - 1]
  /\ UNCHANGED <<serverVars, pairingVars, uploadVars, late, restarts>>

Serve == StartServer \/ Listening \/ PortInUse \/ StopServer \/ Stopped \/ Restart

Pair ==
  \/ \E i \in Invitations :
       \/ CreateEnrollment(i) \/ CancelEnrollment(i) \/ ApproveEnrollment(i)
       \/ RejectEnrollment(i) \/ AskToPair(i)
       \/ \E g \in Guests : IssueGuest(i, g)
  \/ \E g \in Guests : ForgetGuest(g)

Protect ==
  \/ \E g \in Legacy : BeginUpload(g) \/ UploadArrives(g) \/ UploadFails(g)
  \/ \E g \in Guests \ Legacy : CommitBatch(g) \/ BatchRegistered(g)
  \/ \E g \in Guests : Reconcile(g) \/ ToggleSource(g)

Next == Serve \/ Pair \/ Protect

Spec == Init /\ [][Next]_vars

-----------------------------------------------------------------------------

\* A paired machine finds the receiver, running or about to run, unless its port
\* was taken: whatever was stopped, started and restarted, in whatever order.
PairedIsServed == Paired # {} => server \/ starting > 0 \/ refused

\* At most one upload of a guest is in progress: the quota and the revisions rely
\* on it, and a stop of the receiver forgets the locks of uploads that go on.
OneUploadPerGuest == \A g \in Legacy : uploading[g] <= 1

\* A forgotten machine is no longer backed up, unless an upload or a batch of it
\* was underway, or it had two sources, when it was forgotten.
ForgottenStaysForgotten ==
  \A g \in Guests \ late : guest[g] = "forgotten" => enabled[g] = 0
=============================================================================
