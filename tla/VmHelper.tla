------------------------------ MODULE VmHelper ------------------------------
(***************************************************************************)
(* The helper of VM Protect's first protocol (the PowerShell script in     *)
(* main/vmProtect.js) with the host that receives its uploads: one run of  *)
(* the script, the hidden watcher it leaves behind, and the state.json     *)
(* that both of them read once and overwrite as a whole.                   *)
(*                                                                         *)
(* One protected file, whose contents are numbered: its stamp (length and  *)
(* time) tells them apart.                                                 *)
(***************************************************************************)
EXTENDS Naturals, FiniteSets

CONSTANTS Pairings,         \* numbers of the helpers made for this machine, 1 .. n
          MaxContent,       \* bound: contents of the file
          MaxAttempts,      \* attempts to send a file in one go
          HelperFaults,     \* "answer" an answer is lost, "guest" the machine stops, "host"
                            \* the host stops, "rename" it replaces the file in two steps
          Replaced          \* a helper replaces a pairing while the watcher of the old one runs

HelperAssumption ==
  /\ Pairings = 1 .. Cardinality(Pairings) /\ Pairings # {} /\ MaxContent \in Nat /\ MaxAttempts \in Nat \ {0}
  /\ HelperFaults \subseteq {"answer", "guest", "host", "rename"} /\ Replaced \in BOOLEAN

VARIABLES
  content,      \* what the file holds
  stateFile,    \* state.json
  installed,    \* the watcher is started at every logon (Install-AlwaysProtect)
  helpers,      \* the two processes: what they are at, and $state in each
  pairedWith,   \* the guest the host issued last
  request,      \* the upload that the host handles (activeGuestUploads)
  staged        \* per pairing, the staged file

helperVars == <<content, stateFile, installed, helpers, pairedWith, request, staged>>

Absent     == MaxContent + 1     \* no stamp, no file
Unpaired   == [pairing |-> 0, stamp |-> Absent]
States     == [pairing : Pairings \cup {0}, stamp : 0 .. Absent]
Gone       == [step |-> "gone", state |-> Unpaired, seen |-> Absent, hash |-> Absent, attempt |-> 1]
NoRequest  == [from |-> "nobody", pairing |-> 0, hash |-> Absent, step |-> "none"]
Scripts    == {"once", "watch"}

TypeOK ==
  /\ content \in 0 .. MaxContent /\ stateFile \in States /\ installed \in BOOLEAN
  /\ helpers \in [Scripts -> [step : {"gone", "enroll", "look", "wait", "send", "sent", "answered",
                                      "failed"},
                              state : States, seen : 0 .. Absent, hash : 0 .. Absent,
                              attempt : 1 .. MaxAttempts]]
  /\ pairedWith \in Pairings \cup {0} /\ staged \in [Pairings -> 0 .. Absent]
  /\ request \in [from : Scripts \cup {"nobody"}, pairing : Pairings \cup {0}, hash : 0 .. Absent,
                  step : {"none", "body", "displaced", "stored"}]

Init ==
  /\ content = 0 /\ stateFile = Unpaired /\ installed = FALSE /\ helpers = [s \in Scripts |-> Gone]
  /\ pairedWith = 0 /\ request = NoRequest /\ staged = [p \in Pairings |-> Absent]

Goes(s, step)   == helpers' = [helpers EXCEPT ![s].step = step]
HostState       == <<pairedWith, request, staged>>
Stamped(s)      == [helpers[s].state EXCEPT !.stamp = helpers[s].seen]

\* Someone writes the file.
Edit ==
  /\ content < MaxContent /\ content' = content + 1
  /\ UNCHANGED <<stateFile, installed, helpers, HostState>>

-----------------------------------------------------------------------------
(* The script until it looks at the file. *)

\* The helper of pairing p: paired as such it goes on, else it enrolls.
LoadState(p) ==
  IF stateFile.pairing = p THEN [Gone EXCEPT !.step = "look", !.state = stateFile]
  ELSE [Gone EXCEPT !.step = "enroll", !.state = [Unpaired EXCEPT !.pairing = p]]

RunHelper(p) ==
  /\ helpers["once"].step = "gone"
  /\ stateFile.pairing # p /\ helpers["watch"].step # "gone" => Replaced
  /\ helpers' = [helpers EXCEPT !["once"] = LoadState(p)]
  /\ UNCHANGED <<content, stateFile, installed, HostState>>

\* Mutant: the stamps of the pairing before are kept.
NewStateWithStamps(p) == [pairing |-> p, stamp |-> stateFile.stamp]

\* The state of a new pairing knows no stamps.
NewState(p) == [pairing |-> p, stamp |-> Absent]

\* The user approves; Save-State.  The invitation is used up even when the answer is lost.
ConnectLabSuite(p) ==
  /\ helpers["once"].step = "enroll" /\ helpers["once"].state.pairing = p /\ p > pairedWith
  /\ pairedWith' = p
  /\ \/ /\ stateFile' = NewState(p)
        /\ helpers' = [helpers EXCEPT !["once"] = [Gone EXCEPT !.step = "look", !.state = NewState(p)]]
     \/ /\ "answer" \in HelperFaults /\ UNCHANGED stateFile
        /\ helpers' = [helpers EXCEPT !["once"] = Gone]
  /\ UNCHANGED <<content, installed, request, staged>>

\* Not approved, rejected, expired, or used up.
NotConnected ==
  /\ helpers["once"].step = "enroll" /\ helpers' = [helpers EXCEPT !["once"] = Gone]
  /\ UNCHANGED <<content, stateFile, installed, HostState>>

\* At every logon (the Run key), or by a run of the helper; one per pairing, for the mutex.
StartHiddenWatcher ==
  /\ installed /\ helpers["watch"].step = "gone"
  /\ helpers["once"].step = "enroll" => Replaced
  /\ helpers' = [helpers EXCEPT !["watch"] = [Gone EXCEPT !.step = "look", !.state = stateFile]]
  /\ UNCHANGED <<content, stateFile, installed, HostState>>

-----------------------------------------------------------------------------
(* Looking and sending. *)

\* A stamp that differs from the known one is a change; the watcher looks again 1.2 s later.
NoticeChange(s) ==
  /\ helpers[s].step = "look" /\ helpers[s].state.stamp # content
  /\ helpers' = [helpers EXCEPT ![s].seen = content,
                                ![s].step = IF s = "watch" THEN "wait" ELSE "send",
                                ![s].attempt = 1]
  /\ UNCHANGED <<content, stateFile, installed, HostState>>

StillThere ==
  /\ helpers["watch"].step = "wait"
  /\ Goes("watch", IF helpers["watch"].seen = content THEN "send" ELSE "look")
  /\ UNCHANGED <<content, stateFile, installed, HostState>>

\* The stream is hashed, then read again for the body.
SendProtectedFile(s) ==
  /\ helpers[s].step = "send"
  /\ helpers' = [helpers EXCEPT ![s].step = "sent", ![s].hash = content]
  /\ UNCHANGED <<content, stateFile, installed, HostState>>

Attempts(s) ==
  helpers' = IF helpers[s].attempt < MaxAttempts
             THEN [helpers EXCEPT ![s].step = "send", ![s].attempt = @ + 1]
             ELSE [helpers EXCEPT ![s].step = "failed"]

\* authenticate and handleUpload: the guest is known, and has no other upload.
HandleUpload(s) ==
  /\ helpers[s].step = "sent" /\ request = NoRequest
  /\ helpers[s].state.pairing # 0 /\ helpers[s].hash = content
  /\ request' = [from |-> s, pairing |-> helpers[s].state.pairing, hash |-> helpers[s].hash,
                 step |-> "body"]
  /\ UNCHANGED <<content, stateFile, installed, helpers, pairedWith, staged>>

\* Busy, unreachable, or the body does not match its hash.
UploadRefused(s) ==
  /\ helpers[s].step = "sent" /\ request.from # s /\ Attempts(s)
  /\ UNCHANGED <<content, stateFile, installed, HostState>>

\* atomicReplace, in one step or, when the file is open elsewhere, in two.
AtomicReplace ==
  /\ request.step \in {"body", "displaced"}
  /\ \/ /\ request' = [request EXCEPT !.step = "stored"]
        /\ staged' = [staged EXCEPT ![request.pairing] = request.hash]
     \/ /\ "rename" \in HelperFaults /\ request.step = "body"
        /\ staged[request.pairing] # Absent
        /\ request' = [request EXCEPT !.step = "displaced"]
        /\ staged' = [staged EXCEPT ![request.pairing] = Absent]
  /\ UNCHANGED <<content, stateFile, installed, helpers, pairedWith>>

\* The revision is made, and the answer is sent.  A lost answer is a failed attempt.
UploadAnswered ==
  /\ request.step = "stored" /\ request' = NoRequest
  /\ IF request.from \in Scripts
     THEN \/ Goes(request.from, "answered")
          \/ "answer" \in HelperFaults /\ Attempts(request.from)
     ELSE UNCHANGED helpers
  /\ UNCHANGED <<content, stateFile, installed, pairedWith, staged>>

\* The revision cannot be made: the staged file is the new one all the same.
RevisionFails ==
  /\ request.step = "stored" /\ request' = NoRequest
  /\ IF request.from \in Scripts THEN Attempts(request.from) ELSE UNCHANGED helpers
  /\ UNCHANGED <<content, stateFile, installed, pairedWith, staged>>

\* Mutant: the stamp is taken when the answer arrives.
StampedNow(s) == [helpers[s].state EXCEPT !.stamp = content]

StateAfter(s) == Stamped(s)

\* The stamp is the one from before the upload.  The watcher goes on; the run ends, and
\* only now leaves a watcher.
UploadSucceeded(s) ==
  /\ helpers[s].step = "answered" /\ stateFile' = StateAfter(s) /\ installed' = TRUE
  /\ helpers' = [helpers EXCEPT ![s] = IF s = "once" THEN Gone
                                       ELSE [Gone EXCEPT !.step = "look", !.state = StateAfter(s)]]
  /\ UNCHANGED <<content, HostState>>

\* The state is saved with what it knew.
UploadFailed(s) ==
  /\ helpers[s].step = "failed"
  /\ IF s = "watch" THEN Goes(s, "look") /\ UNCHANGED stateFile
     ELSE helpers' = [helpers EXCEPT ![s] = Gone] /\ stateFile' = helpers[s].state
  /\ UNCHANGED <<content, installed, HostState>>

\* A run that finds nothing to send.
NothingToSend ==
  /\ helpers["once"].step = "look" /\ helpers["once"].state.stamp = content
  /\ stateFile' = helpers["once"].state /\ installed' = TRUE
  /\ helpers' = [helpers EXCEPT !["once"] = Gone]
  /\ UNCHANGED <<content, HostState>>

\* The machine stops, or the user closes the script.
GuestStops ==
  /\ "guest" \in HelperFaults /\ \E s \in Scripts : helpers[s].step # "gone"
  /\ helpers' = [s \in Scripts |-> Gone]
  /\ request' = IF request.step \in {"none", "body"} THEN NoRequest
                ELSE [request EXCEPT !.from = "nobody"]
  /\ UNCHANGED <<content, stateFile, installed, pairedWith, staged>>

HostStops ==
  /\ "host" \in HelperFaults /\ request # NoRequest /\ request' = NoRequest
  /\ UNCHANGED <<content, stateFile, installed, helpers, pairedWith, staged>>

Next ==
  \/ Edit \/ \E p \in Pairings : RunHelper(p) \/ ConnectLabSuite(p)
  \/ NotConnected \/ StartHiddenWatcher \/ StillThere \/ NothingToSend
  \/ \E s \in Scripts : \/ NoticeChange(s) \/ SendProtectedFile(s) \/ HandleUpload(s)
                        \/ UploadRefused(s) \/ UploadSucceeded(s) \/ UploadFailed(s)
  \/ AtomicReplace \/ UploadAnswered \/ RevisionFails \/ GuestStops \/ HostStops

Spec == Init /\ [][Next]_helperVars

-----------------------------------------------------------------------------
(* Properties. *)

\* A content whose stamp is known is staged with the pairing that is kept: two processes
\* that overwrite state.json, edits in the middle of an upload, lost answers, retries and
\* stops make none be taken for sent that is not.
StampedIsStaged ==
  stateFile.stamp = content => staged[stateFile.pairing] = content

\* The pairing that was saved last is kept, whatever the processes save after it.
PairingStays == \A s \in Scripts : helpers[s].state.pairing # 0 /\ helpers[s].step # "enroll"
                                     => helpers[s].state.pairing = stateFile.pairing

HelperKeeps == StampedIsStaged /\ PairingStays
=============================================================================
