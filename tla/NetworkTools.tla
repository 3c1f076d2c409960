---------------------------- MODULE NetworkTools ----------------------------
(***************************************************************************)
(* Restart Internet and Wake-on-LAN (routerInternet.js, wakeOnLan.js and   *)
(* their handlers in ipc.js).                                              *)
(*                                                                         *)
(* A restart signs in at a router, keeps the login, and gives the WAN      *)
(* connection its user name with a 9 more or less at the end, so that it   *)
(* dials again; a name is the number of its trailing nines.  A device is   *)
(* woken by packets and asked for half a minute whether it is there.       *)
(***************************************************************************)
EXTENDS Naturals, Sequences, SequencesExt, TLC

CONSTANTS Routers,
          MaxProfiles,  \* at most so many are kept
          Original,     \* the nines of the user name before LabSuite came
          Devices,      \* ids of devices
          Macs, MaxCrashes

ToolsAssumption ==
  /\ MaxProfiles \in Nat \ {0} /\ Original \subseteq Nat /\ Original # {} /\ MaxCrashes \in Nat

NoRouter == "no router"
Idle     == [phase |-> "idle", router |-> NoRouter, login |-> "none", name |-> 0]

VARIABLES
  before, wan,          \* of each router: the name before and the name now
  credential,           \* of each router: the login in the keychain, and whether it fits
  profiles, active,
  restart,              \* the restart that is under way
  forgetting,           \* the router whose login was just deleted
  shown,                \* the outcome of the last restart
  devices, wakes,       \* the list, and the devices being woken
  listed,               \* (ghost) the devices the user has added and not removed
  crashes

routerVars == <<before, wan, credential, profiles, active, restart, forgetting, shown>>
deviceVars == <<devices, wakes, listed>>
toolVars   == <<routerVars, deviceVars, crashes>>

TypeOK ==
  /\ before \in [Routers -> Original] /\ wan \in [Routers -> Nat]
  /\ credential \in [Routers -> {"none", "good", "bad"}]
  /\ Range(profiles) \subseteq Routers /\ IsInjective(profiles) /\ Len(profiles) <= MaxProfiles
  /\ active \in Routers \cup {NoRouter} /\ forgetting \in Routers \cup {NoRouter}
  /\ restart.phase \in {"idle", "supplied", "saved", "store", "list", "configure", "update", "verify"}
  /\ shown \in {"none", "success", "failed"}
  /\ DOMAIN devices \subseteq Devices /\ Range(devices) \subseteq Macs /\ wakes \subseteq Devices \X Macs
  /\ listed \subseteq Devices /\ crashes \in 0 .. MaxCrashes

Init ==
  /\ before \in [Routers -> Original] /\ wan = before
  /\ credential = [r \in Routers |-> "none"] /\ profiles = <<>> /\ active = NoRouter
  /\ restart = Idle /\ forgetting = NoRouter /\ shown = "none"
  /\ devices = <<>> /\ wakes = {} /\ listed = {} /\ crashes = 0

-----------------------------------------------------------------------------
(* Restart Internet.  The panel takes one command at a time. *)

Free == restart = Idle /\ forgetting = NoRouter

\* With a login that the user types, right or wrong.
RestartSupplied(r, login) ==
  /\ Free
  /\ restart' = [Idle EXCEPT !.phase = "supplied", !.router = r, !.login = login]
  /\ shown' = "none"
  /\ UNCHANGED <<before, wan, credential, profiles, active, forgetting>>

\* With the saved one of the active router; without one the login is asked for.
RestartSaved ==
  /\ Free /\ active # NoRouter /\ credential[active] # "none"
  /\ restart' = [Idle EXCEPT !.phase = "saved", !.router = active, !.login = credential[active]]
  /\ shown' = "none"
  /\ UNCHANGED <<before, wan, credential, profiles, active, forgetting>>

Goes(phase) == restart' = [restart EXCEPT !.phase = phase]

Login ==
  /\ restart.phase \in {"supplied", "saved"} /\ restart.login = "good"
  /\ Goes(IF restart.phase = "supplied" THEN "store" ELSE "configure")
  /\ UNCHANGED <<before, wan, credential, profiles, active, forgetting, shown>>

\* writeRouterCredential
StoreLogin ==
  /\ restart.phase = "store" /\ Goes("list")
  /\ credential' = [credential EXCEPT ![restart.router] = "good"]
  /\ UNCHANGED <<before, wan, profiles, active, forgetting, shown>>

\* saveRouterProfileOrigins of all and this one, which are cut to ten.
ListProfile ==
  /\ restart.phase = "list" /\ Goes("configure")
  /\ profiles' = IF Contains(profiles, restart.router) \/ Len(profiles) = MaxProfiles THEN profiles
                 ELSE Append(profiles, restart.router)
  /\ active' = restart.router
  /\ UNCHANGED <<before, wan, credential, forgetting, shown>>

\* Mutant: there is always one nine more.
AddNine(name) == name + 1

\* toggleWanUsername
ToggleWanUsername(name) == IF name > 0 THEN name - 1 ELSE name + 1

\* loadWanConfiguration
Configure ==
  /\ restart.phase = "configure"
  /\ restart' = [restart EXCEPT !.phase = "update", !.name = ToggleWanUsername(wan[restart.router])]
  /\ UNCHANGED <<before, wan, credential, profiles, active, forgetting, shown>>

\* The router may apply it or not, whatever it answers.
Update(applied) ==
  /\ restart.phase = "update" /\ Goes("verify")
  /\ wan' = IF applied THEN [wan EXCEPT ![restart.router] = restart.name] ELSE wan
  /\ UNCHANGED <<before, credential, profiles, active, forgetting, shown>>

\* Mutant: the answer to the update is believed.
ShowApplied == "success"

ShowOutcome == IF wan[restart.router] = restart.name THEN "success" ELSE "failed"

Verify ==
  /\ restart.phase = "verify"
  /\ shown' = ShowOutcome /\ restart' = [restart EXCEPT !.phase = "idle"]
  /\ UNCHANGED <<before, wan, credential, profiles, active, forgetting>>

\* A wrong login, no answer, another firmware, a WAN list that cannot be used; the
\* update may have gone through.  The list of profiles is set before its save can fail.
RestartFails ==
  /\ restart.phase \notin {"idle", "list"} /\ shown' = "failed" /\ restart' = Idle
  /\ \/ UNCHANGED wan
     \/ restart.phase = "update" /\ wan' = [wan EXCEPT ![restart.router] = restart.name]
  /\ UNCHANGED <<before, credential, profiles, active, forgetting>>

SetActiveProfile(r) ==
  /\ Free /\ Contains(profiles, r) /\ active' = r
  /\ UNCHANGED <<before, wan, credential, profiles, restart, forgetting, shown>>

\* forgetProfile: the keychain first, then the list.
ForgetProfile ==
  /\ Free /\ active # NoRouter /\ credential[active] # "none"
  /\ credential' = [credential EXCEPT ![active] = "none"] /\ forgetting' = active
  /\ UNCHANGED <<before, wan, profiles, active, restart, shown>>

DropProfile ==
  /\ forgetting # NoRouter /\ forgetting' = NoRouter
  /\ profiles' = SelectSeq(profiles, LAMBDA r : r # forgetting)
  /\ active' = IF profiles' = <<>> THEN NoRouter ELSE profiles'[1]
  /\ UNCHANGED <<before, wan, credential, restart, shown>>

\* The password of the router changes.
LoginExpires(r) ==
  /\ credential[r] = "good" /\ credential' = [credential EXCEPT ![r] = "bad"]
  /\ UNCHANGED <<before, wan, profiles, active, restart, forgetting, shown>>

RouterNext ==
  \/ \E r \in Routers : \/ \E login \in {"good", "bad"} : RestartSupplied(r, login)
                        \/ SetActiveProfile(r) \/ LoginExpires(r)
  \/ RestartSaved \/ Login \/ StoreLogin \/ ListProfile \/ Configure
  \/ \E applied \in BOOLEAN : Update(applied)
  \/ Verify \/ RestartFails \/ ForgetProfile \/ DropProfile

-----------------------------------------------------------------------------
(* Wake-on-LAN.  A device is its MAC address here; every handler reads the    *)
(* list from the database and writes the whole of it back.                    *)

\* validateDeviceInput: no other device has the address.
Unused(id, mac) == \A other \in DOMAIN devices \ {id} : devices[other] # mac

AddDevice(id, mac) ==
  /\ id \notin DOMAIN devices /\ Unused(id, mac)
  /\ devices' = devices @@ (id :> mac) /\ listed' = listed \cup {id}
  /\ UNCHANGED wakes

UpdateDevice(id, mac) ==
  /\ id \in DOMAIN devices /\ Unused(id, mac)
  /\ devices' = [devices EXCEPT ![id] = mac]
  /\ UNCHANGED <<wakes, listed>>

RemoveDevice(id) ==
  /\ id \in DOMAIN devices
  /\ devices' = [other \in DOMAIN devices \ {id} |-> devices[other]] /\ listed' = listed \ {id}
  /\ UNCHANGED wakes

\* The packets, and the checks of wakeAndVerify.
WakeDevice(id) ==
  /\ id \in DOMAIN devices \ {w[1] : w \in wakes}
  /\ wakes' = wakes \cup {<<id, devices[id]>>}
  /\ UNCHANGED <<devices, listed>>

\* Mutant: the device that was read before the wait is written back.
WithStatusStale(w) == (w[1] :> w[2]) @@ devices

\* The list is read again, and only a device that is still there gets the result,
\* which is not told apart here.
WithStatus(w) == devices

WakeEnds(w) ==
  /\ w \in wakes /\ wakes' = wakes \ {w}
  /\ devices' = WithStatus(w)
  /\ UNCHANGED listed

DeviceNext ==
  \E id \in Devices : \/ \E mac \in Macs : \/ AddDevice(id, mac) \/ UpdateDevice(id, mac)
                                            \/ WakeEnds(<<id, mac>>)
                     \/ RemoveDevice(id) \/ WakeDevice(id)

-----------------------------------------------------------------------------
\* LabSuite is killed in the middle of what it was doing, and started again.
Crash ==
  /\ crashes < MaxCrashes /\ crashes' = crashes + 1
  /\ restart' = Idle /\ forgetting' = NoRouter /\ shown' = "none" /\ wakes' = {}
  /\ UNCHANGED <<before, wan, credential, profiles, active, devices, listed>>

RouterStep == RouterNext /\ UNCHANGED <<deviceVars, crashes>>
DeviceStep == DeviceNext /\ UNCHANGED <<routerVars, crashes>>

Next == RouterStep \/ DeviceStep \/ Crash

Spec == Init /\ [][Next]_toolVars

-----------------------------------------------------------------------------
\* However often the internet is restarted, whatever the router answers and
\* whenever LabSuite is killed: a connection keeps the name the provider gave it
\* up to one 9 (toggleWanUsername).  It holds of names with at most one 9 at the
\* end, see README.
NameSurvives == \A r \in Routers : wan[r] \in {before[r], ToggleWanUsername(before[r])}

\* A restart that is shown as done has changed the name (restartInternet).
ShownIsDone == shown = "success" => wan[restart.router] = restart.name

\* A login in the keychain can be seen and forgotten in the panel, except for the
\* moment of a save or a crash in it (ipc.js, routerInternet:restart).
LoginIsListed ==
  crashes = 0 =>
    \A r \in Routers : credential[r] # "none" =>
      Contains(profiles, r) \/ (restart.phase = "list" /\ restart.router = r)

\* A device is in the list from its addition to its removal, whichever wakes end in
\* between, and no two have one address (ipc.js, wol handlers).
DevicesKept ==
  /\ DOMAIN devices = listed
  /\ \A id, other \in DOMAIN devices : devices[id] = devices[other] => id = other

\* The tools keep what they were given: the name of the connection, the logins and
\* the list of devices.
ToolsKeepData == NameSurvives /\ ShownIsDone /\ LoginIsListed /\ DevicesKept
=============================================================================
