--------------------------- MODULE MCDesktop_proofs -------------------------
(***************************************************************************)
(* Proofs about the servers of MCDesktop in the local network: the Network *)
(* Drives that find and pair each other, and the receiver of VM Protect.   *)
(* They hold for any PCs, ports, guests and invitations, and any number of *)
(* starts, requests and restarts.                                          *)
(***************************************************************************)
EXTENDS MCDesktop, TLAPS

-----------------------------------------------------------------------------
(* A step of the suite is a step of one part and leaves the others.        *)

Step == LocalNext \/ BackupNext \/ ShellNext \/ AppNext \/ ExtraNext

LEMMA ServersMove ==
  ASSUME [Step]_vars
  PROVE  /\ UNCHANGED part
         /\ [Peers!Next]_(Peers!vars) /\ [Receiver!Next]_(Receiver!vars)
         /\ part # "peers" => UNCHANGED Peers!vars
         /\ part # "receiver" => UNCHANGED Receiver!vars
<1>1. UNCHANGED peersVars => UNCHANGED Peers!vars
  BY DEF peersVars, Peers!vars, Peers!runtimeVars, Peers!pairingVars
<1>2. UNCHANGED receiverVars => UNCHANGED Receiver!vars
  BY DEF receiverVars, Receiver!vars, Receiver!serverVars, Receiver!pairingVars,
         Receiver!uploadVars, Receiver!sourceVars
<1>3. UNCHANGED networkVars => UNCHANGED peersVars /\ UNCHANGED receiverVars
  BY DEF networkVars
<1>4. CASE LocalNext \/ BackupNext \/ ShellNext \/ AppNext
  <2>1. UNCHANGED part /\ UNCHANGED networkVars
    BY <1>4 DEF LocalNext, BackupNext, ShellNext, AppNext, appGroups
  <2>2. QED BY <1>1, <1>2, <1>3, <2>1
<1>5. CASE ExtraNext
  <2>1. UNCHANGED part
    BY <1>5 DEF ExtraNext
  <2>2. CASE part \in NetworkParts /\ NetworkNext
    BY <1>1, <1>2, <2>1, <2>2 DEF NetworkNext
  <2>3. CASE ~(part \in NetworkParts /\ NetworkNext)
    <3>1. UNCHANGED networkVars
      BY <1>5, <2>3 DEF ExtraNext
    <3>2. QED BY <1>1, <1>2, <1>3, <2>1, <3>1
  <2>4. QED BY <2>2, <2>3
<1>6. CASE UNCHANGED vars
  <2>1. UNCHANGED part /\ UNCHANGED networkVars
    BY <1>6 DEF vars
  <2>2. QED BY <1>1, <1>2, <1>3, <2>1
<1>7. QED BY <1>4, <1>5, <1>6 DEF Step

-----------------------------------------------------------------------------
(* LanPeers, serving.  A start that ends after a stop has closed the       *)
(* server it did not know of makes that server the known one: the port     *)
(* that is known is always listened on, and only a known port is           *)
(* broadcast.                                                              *)

ServedInv ==
  /\ server \in [PCs -> {0} \cup Ports] /\ listening \in [PCs -> SUBSET Ports]
  /\ advert \in [PCs -> {0} \cup Ports]
  /\ \A p \in PCs : server[p] # 0 => server[p] \in listening[p]
  /\ Peers!AdvertisedIsServed

LEMMA ServedInit == Peers!Init => ServedInv
BY DEF Peers!Init, ServedInv, Peers!AdvertisedIsServed

LEMMA ServedStep == ServedInv /\ [Peers!Next]_(Peers!vars) => ServedInv'
<1> SUFFICES ASSUME ServedInv, [Peers!Next]_(Peers!vars) PROVE ServedInv'
  OBVIOUS
<1> USE DEF ServedInv, Peers!AdvertisedIsServed
<1>1. ASSUME UNCHANGED <<server, listening, advert>> PROVE ServedInv'
  BY <1>1
<1>2. ASSUME NEW p \in PCs, Peers!StartNetworkDrive(p) PROVE ServedInv'
  BY <1>2 DEF Peers!StartNetworkDrive
<1>3. ASSUME NEW p \in PCs, Peers!StopNetworkDrive(p) PROVE ServedInv'
  BY <1>3 DEF Peers!StopNetworkDrive, Peers!Silence
<1>4. ASSUME NEW p \in PCs, Peers!RefreshAdvertisement(p) PROVE ServedInv'
  BY <1>4 DEF Peers!RefreshAdvertisement
<1>5. ASSUME NEW p \in PCs, Peers!DiscoveryFails(p) PROVE ServedInv'
  BY <1>5 DEF Peers!DiscoveryFails
<1>6. ASSUME NEW p \in PCs, NEW n \in Ports, Peers!Listening(p, n) PROVE ServedInv'
  BY <1>6 DEF Peers!Listening
<1>7. ASSUME NEW p \in PCs, NEW n \in Ports, Peers!PortInUse(p, n) PROVE ServedInv'
  BY <1>1, <1>7 DEF Peers!PortInUse
<1>8. ASSUME NEW p \in PCs, NEW q \in PCs, Peers!HandlePresence(p, q) \/ Peers!CheckPeers(p, q)
      PROVE  ServedInv'
  BY <1>1, <1>8 DEF Peers!HandlePresence, Peers!CheckPeers
<1>9. ASSUME Peers!Pairing PROVE ServedInv'
  <2>1. UNCHANGED Peers!runtimeVars
    BY <1>9 DEF Peers!Pairing, Peers!RequestPair, Peers!ForgetTrustedDevice,
                Peers!HandlePairRequest, Peers!AcceptPairRequest, Peers!RefusePairRequest,
                Peers!PairAnswer, Peers!PairRequestFails
  <2>2. QED BY <1>1, <2>1 DEF Peers!runtimeVars
<1>10. ASSUME UNCHANGED Peers!vars PROVE ServedInv'
  BY <1>1, <1>10 DEF Peers!vars, Peers!runtimeVars
<1>11. QED
  BY <1>2, <1>3, <1>4, <1>5, <1>6, <1>7, <1>8, <1>9, <1>10
     DEF Peers!Next, Peers!Serving, Peers!Others

\* A port that is broadcast is listened on, for any PCs and ports: main/lanRuntime.js
\* may be started and stopped while earlier starts still look for a port.
THEOREM BroadcastIsServed == Spec => []AdvertisedIsServed
<1>1. Init => ServedInv
  BY ServedInit DEF Init, NetworkInit
<1>2. ServedInv /\ [Step]_vars => ServedInv'
  BY ServedStep, ServersMove
<1>3. ServedInv => AdvertisedIsServed
  BY DEF ServedInv, AdvertisedIsServed
<1>4. QED BY <1>1, <1>2, <1>3, PTL DEF Spec, Step

-----------------------------------------------------------------------------
(* LanPeers, pairing.  A request is never made again under another         *)
(* number, and what an accepted one says stays.                            *)

Tokens == Peers!Requests

PairingInv ==
  /\ trust \in [PCs -> [PCs -> {0} \cup Tokens]]
  /\ pairRequest \in [Tokens -> {<<>>} \cup (PCs \X PCs)]
  /\ requester \in [Tokens -> {"none", "waiting", "paired", "failed"}]
  /\ pendingPeers \in [Tokens -> {"none", "pending", "accepted", "refused"}]
  /\ \A i \in Tokens : requester[i] # "none" \/ pendingPeers[i] # "none" =>
       pairRequest[i] \in PCs \X PCs
  /\ Peers!TrustNeedsConsent

LEMMA PairIsNotEmpty == \A a, b : <<a, b>> # <<>>
OBVIOUS

LEMMA PairingInit == Peers!Init => PairingInv
BY DEF Peers!Init, PairingInv, Peers!TrustNeedsConsent, Peers!Others, Tokens

\* A trusted token that is saved for a request both users have agreed to.
LEMMA TokenSaved ==
  ASSUME PairingInv, NEW p \in PCs, NEW q \in PCs, NEW i \in Tokens,
         pairRequest[i] \in {<<p, q>>, <<q, p>>}, pendingPeers'[i] = "accepted",
         trust' = Peers!SaveTrustedDevice(p, q, i),
         \A j \in Tokens : j # i => pendingPeers'[j] = pendingPeers[j],
         UNCHANGED pairRequest
  PROVE  /\ trust' \in [PCs -> [PCs -> {0} \cup Tokens]]
         /\ Peers!TrustNeedsConsent'
<1>1. /\ trust' \in [PCs -> [PCs -> {0} \cup Tokens]] /\ trust'[p][q] = i
      /\ \A a, b \in PCs : <<a, b>> # <<p, q>> => trust'[a][b] = trust[a][b]
  BY DEF PairingInv, Peers!SaveTrustedDevice
<1>2. ASSUME NEW a \in PCs, NEW b \in Peers!Others(a), trust'[a][b] # 0
      PROVE  /\ pendingPeers'[trust'[a][b]] = "accepted"
             /\ pairRequest'[trust'[a][b]] \in {<<a, b>>, <<b, a>>}
  <2>1. CASE <<a, b>> = <<p, q>>
    BY <1>1, <2>1
  <2>2. CASE <<a, b>> # <<p, q>>
    <3>1. trust'[a][b] = trust[a][b] /\ trust[a][b] \in Tokens
      BY <1>1, <1>2, <2>2 DEF PairingInv, Peers!Others
    <3>2. pendingPeers[trust[a][b]] = "accepted"
          /\ pairRequest[trust[a][b]] \in {<<a, b>>, <<b, a>>}
      BY <1>2, <3>1 DEF PairingInv, Peers!TrustNeedsConsent
    <3>3. QED BY <3>1, <3>2
  <2>3. QED BY <2>1, <2>2
<1>3. QED BY <1>1, <1>2 DEF Peers!TrustNeedsConsent

LEMMA PairingStep == PairingInv /\ [Peers!Next]_(Peers!vars) => PairingInv'
<1> SUFFICES ASSUME PairingInv, [Peers!Next]_(Peers!vars) PROVE PairingInv'
  OBVIOUS
<1>1. ASSUME UNCHANGED Peers!pairingVars PROVE PairingInv'
  BY <1>1 DEF Peers!pairingVars, PairingInv, Peers!TrustNeedsConsent
<1>2. ASSUME NEW p \in PCs, NEW q \in Peers!Others(p), Peers!RequestPair(p, q) PROVE PairingInv'
  <2>1. PICK i \in Tokens :
          /\ pairRequest[i] = <<>>
          /\ pairRequest' = [pairRequest EXCEPT ![i] = <<p, q>>]
          /\ requester' = [requester EXCEPT ![i] = "waiting"]
    BY <1>2 DEF Peers!RequestPair, Tokens
  <2>2. UNCHANGED <<trust, pendingPeers>>
    BY <1>2 DEF Peers!RequestPair
  <2>3. /\ pairRequest' \in [Tokens -> {<<>>} \cup (PCs \X PCs)] /\ pairRequest'[i] \in PCs \X PCs
        /\ requester' \in [Tokens -> {"none", "waiting", "paired", "failed"}]
        /\ \A j \in Tokens : j # i => pairRequest'[j] = pairRequest[j] /\ requester'[j] = requester[j]
    BY <2>1 DEF PairingInv, Peers!Others
  <2>4. ASSUME NEW a \in PCs, NEW b \in Peers!Others(a), trust[a][b] # 0
        PROVE  /\ pendingPeers[trust[a][b]] = "accepted"
               /\ pairRequest'[trust[a][b]] \in {<<a, b>>, <<b, a>>}
    <3>1. trust[a][b] \in Tokens /\ pendingPeers[trust[a][b]] = "accepted"
          /\ pairRequest[trust[a][b]] \in {<<a, b>>, <<b, a>>}
      BY <2>4 DEF PairingInv, Peers!TrustNeedsConsent, Peers!Others
    <3>2. pairRequest[trust[a][b]] # <<>>
      BY <3>1, PairIsNotEmpty
    <3>3. trust[a][b] # i
      BY <2>1, <3>2
    <3>4. QED BY <2>3, <3>1, <3>3
  <2>5. Peers!TrustNeedsConsent'
    BY <2>2, <2>4 DEF Peers!TrustNeedsConsent
  <2>6. QED BY <2>2, <2>3, <2>5 DEF PairingInv
<1>3. ASSUME NEW i \in Tokens, Peers!HandlePairRequest(i) PROVE PairingInv'
  <2>1. pendingPeers[i] = "none" /\ requester[i] = "waiting"
        /\ pendingPeers' = [pendingPeers EXCEPT ![i] = "pending"]
        /\ UNCHANGED <<trust, pairRequest, requester>>
    BY <1>3 DEF Peers!HandlePairRequest
  <2>2. QED BY <2>1 DEF PairingInv, Peers!TrustNeedsConsent, Peers!Others
<1>4. ASSUME NEW i \in Tokens, Peers!AcceptPairRequest(i) PROVE PairingInv'
  <2>1. pendingPeers[i] = "pending" /\ pendingPeers' = [pendingPeers EXCEPT ![i] = "accepted"]
        /\ trust' = Peers!SaveTrustedDevice(pairRequest[i][2], pairRequest[i][1], i)
        /\ UNCHANGED <<pairRequest, requester>>
    BY <1>4 DEF Peers!AcceptPairRequest
  <2>2. PICK p \in PCs, q \in PCs : pairRequest[i] = <<p, q>>
    BY <2>1 DEF PairingInv
  <2>3. pendingPeers' \in [Tokens -> {"none", "pending", "accepted", "refused"}]
        /\ pendingPeers'[i] = "accepted"
        /\ \A j \in Tokens : j # i => pendingPeers'[j] = pendingPeers[j]
    BY <2>1 DEF PairingInv
  <2>4. trust' \in [PCs -> [PCs -> {0} \cup Tokens]] /\ Peers!TrustNeedsConsent'
    BY <2>1, <2>2, <2>3, TokenSaved
  <2>5. QED BY <2>1, <2>2, <2>3, <2>4 DEF PairingInv
<1>5. ASSUME NEW i \in Tokens, Peers!RefusePairRequest(i) PROVE PairingInv'
  <2>1. pendingPeers[i] = "pending" /\ pendingPeers' = [pendingPeers EXCEPT ![i] = "refused"]
        /\ UNCHANGED <<trust, pairRequest, requester>>
    BY <1>5 DEF Peers!RefusePairRequest
  <2>2. QED BY <2>1 DEF PairingInv, Peers!TrustNeedsConsent, Peers!Others
<1>6. ASSUME NEW i \in Tokens, Peers!PairAnswer(i) PROVE PairingInv'
  <2>1. requester[i] = "waiting" /\ UNCHANGED <<pairRequest, pendingPeers>>
    BY <1>6 DEF Peers!PairAnswer
  <2>2. PICK p \in PCs, q \in PCs : pairRequest[i] = <<p, q>>
    BY <2>1 DEF PairingInv
  <2>3. requester' \in [Tokens -> {"none", "waiting", "paired", "failed"}]
        /\ \A j \in Tokens : j # i => requester'[j] = requester[j]
    BY <1>6 DEF PairingInv, Peers!PairAnswer
  <2>4. trust' \in [PCs -> [PCs -> {0} \cup Tokens]] /\ Peers!TrustNeedsConsent'
    <3>1. CASE Peers!Accepted(i) /\ trust' = Peers!SaveTrustedDevice(p, q, i)
      BY <2>1, <2>2, <3>1, TokenSaved DEF Peers!Accepted
    <3>2. CASE UNCHANGED trust
      BY <2>1, <3>2 DEF PairingInv, Peers!TrustNeedsConsent
    <3>3. QED BY <1>6, <2>2, <3>1, <3>2 DEF Peers!PairAnswer
  <2>5. QED BY <2>1, <2>2, <2>3, <2>4 DEF PairingInv
<1>7. ASSUME NEW i \in Tokens, Peers!PairRequestFails(i) PROVE PairingInv'
  <2>1. requester[i] = "waiting" /\ requester' = [requester EXCEPT ![i] = "failed"]
        /\ UNCHANGED <<trust, pairRequest, pendingPeers>>
    BY <1>7 DEF Peers!PairRequestFails
  <2>2. QED BY <2>1 DEF PairingInv, Peers!TrustNeedsConsent
<1>8. ASSUME NEW p \in PCs, NEW q \in PCs, Peers!ForgetTrustedDevice(p, q) PROVE PairingInv'
  <2>1. trust' = [trust EXCEPT ![p][q] = 0] /\ UNCHANGED <<pairRequest, requester, pendingPeers>>
    BY <1>8 DEF Peers!ForgetTrustedDevice
  <2>2. /\ trust' \in [PCs -> [PCs -> {0} \cup Tokens]]
        /\ \A a, b \in PCs : trust'[a][b] # 0 => trust'[a][b] = trust[a][b]
    BY <2>1 DEF PairingInv
  <2>3. Peers!TrustNeedsConsent'
    BY <2>1, <2>2 DEF PairingInv, Peers!TrustNeedsConsent, Peers!Others
  <2>4. QED BY <2>1, <2>2, <2>3 DEF PairingInv
<1>9. ASSUME Peers!Serving PROVE PairingInv'
  <2>1. UNCHANGED Peers!pairingVars
    BY <1>9 DEF Peers!Serving, Peers!StartNetworkDrive, Peers!StopNetworkDrive,
                Peers!RefreshAdvertisement, Peers!DiscoveryFails, Peers!Listening,
                Peers!PortInUse, Peers!HandlePresence, Peers!CheckPeers
  <2>2. QED BY <1>1, <2>1
<1>10. ASSUME UNCHANGED Peers!vars PROVE PairingInv'
  BY <1>1, <1>10 DEF Peers!vars
<1>11. QED
  BY <1>2, <1>3, <1>4, <1>5, <1>6, <1>7, <1>8, <1>9, <1>10
     DEF Peers!Next, Peers!Pairing, Peers!Others, Tokens

\* Trust goes back to a request that the asked user accepted in time, between these two
\* PCs, for any PCs and requests (main/lanTrust.js, lanFileServer.js).
THEOREM TrustIsConsented == Spec => []TrustNeedsConsent
<1>1. Init => PairingInv
  BY PairingInit DEF Init, NetworkInit
<1>2. PairingInv /\ [Step]_vars => PairingInv'
  BY PairingStep, ServersMove
<1>3. PairingInv => TrustNeedsConsent
  BY DEF PairingInv, TrustNeedsConsent
<1>4. QED BY <1>1, <1>2, <1>3, PTL DEF Spec, Step

-----------------------------------------------------------------------------
(* VmReceiver, the receiver's life.  It is stopped only when no machine is *)
(* paired, and one is paired only while it runs.                           *)

ReceiverTyped ==
  /\ receiver \in BOOLEAN /\ refused \in BOOLEAN /\ opening \in Nat
  /\ guest \in [Guests -> {"new", "paired", "forgotten"}]

ServesInv == ReceiverTyped /\ Receiver!PairedIsServed

LEMMA ServesInit == Receiver!Init => ServesInv
<1> SUFFICES ASSUME Receiver!Init PROVE ServesInv
  OBVIOUS
<1>1. PICK old \in {{}, Legacy} :
        /\ guest = [g \in Guests |-> IF g \in old THEN "paired" ELSE "new"]
        /\ opening = IF old = {} THEN 0 ELSE 1
  BY DEF Receiver!Init
<1>2. ReceiverTyped
  BY <1>1 DEF Receiver!Init, ReceiverTyped
<1>3. Receiver!PairedIsServed
  BY <1>1 DEF Receiver!PairedIsServed, Receiver!Paired
<1>4. QED BY <1>2, <1>3 DEF ServesInv

LEMMA ServesStep == ServesInv /\ [Receiver!Next]_(Receiver!vars) => ServesInv'
<1> SUFFICES ASSUME ServesInv, [Receiver!Next]_(Receiver!vars) PROVE ServesInv'
  OBVIOUS
<1> USE DEF ServesInv, ReceiverTyped, Receiver!PairedIsServed, Receiver!Paired
<1>1. CASE UNCHANGED <<receiver, refused, opening, guest>>
  BY <1>1
<1>2. CASE Receiver!Serve
  <2>1. CASE Receiver!StartServer
    BY <2>1 DEF Receiver!StartServer, Receiver!pairingVars
  <2>2. CASE Receiver!Listening
    BY <2>2 DEF Receiver!Listening, Receiver!pairingVars
  <2>3. CASE Receiver!PortInUse
    <3>1. UNCHANGED <<receiver, guest>> /\ opening' \in Nat
      BY <2>3 DEF Receiver!PortInUse, Receiver!pairingVars
    <3>2. refused' = (refused \/ ~receiver)
      BY <2>3 DEF Receiver!PortInUse
    <3>3. refused' \in BOOLEAN /\ (~receiver => refused')
      BY <3>2, Zenon
    <3>4. QED BY <3>1, <3>3
  <2>4. CASE Receiver!StopServer
    BY <2>4 DEF Receiver!StopServer, Receiver!MayStop
  <2>5. CASE Receiver!Stopped
    BY <2>5 DEF Receiver!Stopped, Receiver!pairingVars
  <2>6. CASE Receiver!Restart
    <3>1. receiver' = FALSE /\ refused' = FALSE /\ UNCHANGED guest /\ opening' \in {0, 1}
      BY <2>6 DEF Receiver!Restart
    <3>2. Receiver!Paired # {} => opening' = 1
      BY <2>6 DEF Receiver!Restart, Receiver!StartsWithProgram
    <3>3. Receiver!Paired' = Receiver!Paired
      BY <3>1
    <3>4. opening' \in Nat /\ (opening' = 1 => opening' > 0)
      BY <3>1
    <3>5. Receiver!PairedIsServed'
      BY <3>2, <3>3, <3>4
    <3>6. ReceiverTyped'
      BY <3>1, <3>4
    <3>7. QED BY <3>5, <3>6
  <2>7. QED BY <1>2, <2>1, <2>2, <2>3, <2>4, <2>5, <2>6 DEF Receiver!Serve
<1>3. ASSUME NEW i \in Invitations, NEW g \in Guests, Receiver!IssueGuest(i, g) PROVE ServesInv'
  <2>1. receiver = TRUE /\ guest' = [guest EXCEPT ![g] = "paired"]
        /\ UNCHANGED <<receiver, refused, opening>>
    BY <1>3 DEF Receiver!IssueGuest, Receiver!serverVars
  <2>2. QED BY <2>1
<1>4. ASSUME NEW g \in Guests, Receiver!ForgetGuest(g) PROVE ServesInv'
  <2>1. guest' = [guest EXCEPT ![g] = "forgotten"] /\ UNCHANGED <<receiver, refused, opening>>
    BY <1>4 DEF Receiver!ForgetGuest, Receiver!serverVars
  <2>2. \A h \in Guests : guest'[h] = "paired" => guest[h] = "paired"
    BY <2>1
  <2>3. QED BY <2>1, <2>2
<1>5. ASSUME NEW i \in Invitations,
             \/ Receiver!CreateEnrollment(i) \/ Receiver!CancelEnrollment(i)
             \/ Receiver!ApproveEnrollment(i) \/ Receiver!RejectEnrollment(i)
             \/ Receiver!AskToPair(i)
      PROVE  ServesInv'
  BY <1>1, <1>5
     DEF Receiver!CreateEnrollment, Receiver!CancelEnrollment, Receiver!ApproveEnrollment,
         Receiver!RejectEnrollment, Receiver!AskToPair, Receiver!serverVars
<1>6. CASE Receiver!Protect
  BY <1>1, <1>6
     DEF Receiver!Protect, Receiver!BeginUpload, Receiver!UploadArrives, Receiver!UploadFails,
         Receiver!EndUpload, Receiver!CommitBatch, Receiver!BatchRegistered, Receiver!Reconcile,
         Receiver!ToggleSource, Receiver!serverVars, Receiver!pairingVars
<1>7. CASE UNCHANGED Receiver!vars
  BY <1>1, <1>7 DEF Receiver!vars, Receiver!serverVars, Receiver!pairingVars
<1>8. QED BY <1>2, <1>3, <1>4, <1>5, <1>6, <1>7 DEF Receiver!Next, Receiver!Pair

\* A paired machine finds the receiver of main/vmProtect.js, running or about to run,
\* unless its port was taken: for any guests and invitations, and any number of starts,
\* stops and restarts.
THEOREM PairedMachinesAreServed == Spec => []PairedIsServed
<1>1. Init => ServesInv
  BY ServesInit DEF Init, NetworkInit
<1>2. ServesInv /\ [Step]_vars => ServesInv'
  BY ServesStep, ServersMove
<1>3. ServesInv => PairedIsServed
  BY DEF ServesInv, PairedIsServed
<1>4. QED BY <1>1, <1>2, <1>3, PTL DEF Spec, Step

-----------------------------------------------------------------------------
(* VmReceiver, uploads.  A stop of the receiver forgets the locks of       *)
(* uploads that go on; it comes only when no guest is paired, and a guest  *)
(* of the first protocol that was forgotten never pairs again, so that a   *)
(* lock that is missing is one of a guest that may not upload.             *)

Counts == [Legacy -> Nat]

UploadsInv ==
  /\ uploading \in Counts
  /\ guest \in [Guests -> {"new", "paired", "forgotten"}]
  /\ \A g \in Legacy : uploading[g] > 0 /\ guest[g] = "paired" => g \in busy
  /\ Receiver!OneUploadPerGuest

LEMMA UploadsInit == Receiver!ReceiverAssumption /\ Receiver!Init => UploadsInv
<1> SUFFICES ASSUME Receiver!ReceiverAssumption, Receiver!Init PROVE UploadsInv
  OBVIOUS
<1>1. uploading = [g \in Legacy |-> 0] /\ Legacy \subseteq Guests
  BY DEF Receiver!Init, Receiver!ReceiverAssumption
<1>2. guest \in [Guests -> {"new", "paired", "forgotten"}]
  BY DEF Receiver!Init
<1>3. QED BY <1>1, <1>2 DEF UploadsInv, Counts, Receiver!OneUploadPerGuest

LEMMA UploadsStep ==
  ASSUME Receiver!ReceiverAssumption, UploadsInv, [Receiver!Next]_(Receiver!vars)
  PROVE  UploadsInv'
<1> USE DEF UploadsInv, Counts, Receiver!OneUploadPerGuest
<1>0. Legacy \subseteq Guests
  BY DEF Receiver!ReceiverAssumption
<1>1. CASE UNCHANGED <<uploading, guest, busy>>
  BY <1>1
<1>2. CASE Receiver!StopServer
  <2>1. \A g \in Guests : guest[g] # "paired"
    BY <1>2 DEF Receiver!StopServer, Receiver!MayStop, Receiver!Paired
  <2>2. UNCHANGED <<uploading, guest>>
    BY <1>2 DEF Receiver!StopServer
  <2>3. QED BY <1>0, <2>1, <2>2
<1>3. CASE Receiver!Restart
  <2>1. uploading' = [g \in Legacy |-> 0] /\ UNCHANGED guest
    BY <1>3 DEF Receiver!Restart
  <2>2. QED BY <1>0, <2>1
<1>4. ASSUME NEW i \in Invitations, NEW g \in Guests, Receiver!IssueGuest(i, g) PROVE UploadsInv'
  <2>1. g \notin Legacy /\ guest' = [guest EXCEPT ![g] = "paired"] /\ UNCHANGED <<uploading, busy>>
    BY <1>4 DEF Receiver!IssueGuest, Receiver!uploadVars
  <2>2. \A h \in Legacy : guest'[h] = guest[h]
    BY <1>0, <2>1
  <2>3. QED BY <2>1, <2>2
<1>5. ASSUME NEW g \in Guests, Receiver!ForgetGuest(g) PROVE UploadsInv'
  <2>1. guest' = [guest EXCEPT ![g] = "forgotten"] /\ UNCHANGED <<uploading, busy>>
    BY <1>5 DEF Receiver!ForgetGuest, Receiver!uploadVars
  <2>2. \A h \in Legacy : guest'[h] = "paired" => guest[h] = "paired"
    BY <1>0, <2>1
  <2>3. QED BY <2>1, <2>2
<1>6. ASSUME NEW g \in Legacy, Receiver!BeginUpload(g) PROVE UploadsInv'
  <2>1. /\ guest[g] = "paired" /\ g \notin busy /\ busy' = busy \cup {g} /\ UNCHANGED guest
        /\ uploading' = [uploading EXCEPT ![g] = uploading[g] + 1]
    BY <1>6 DEF Receiver!BeginUpload, Receiver!pairingVars
  <2>2. uploading[g] = 0
    BY <2>1
  <2>3. QED BY <2>1, <2>2
<1>7. ASSUME NEW g \in Legacy, Receiver!EndUpload(g), UNCHANGED guest PROVE UploadsInv'
  <2>1. /\ uploading[g] = 1 /\ busy' = busy \ {g}
        /\ uploading' = [uploading EXCEPT ![g] = uploading[g] - 1]
    BY <1>7 DEF Receiver!EndUpload
  <2>2. QED BY <1>7, <2>1
<1>8. CASE Receiver!Protect
  <2>1. ASSUME NEW g \in Legacy, Receiver!UploadArrives(g) \/ Receiver!UploadFails(g) PROVE UploadsInv'
    BY <1>7, <2>1 DEF Receiver!UploadArrives, Receiver!UploadFails, Receiver!EndUpload,
                      Receiver!pairingVars
  <2>2. ASSUME NEW g \in Guests,
               \/ Receiver!CommitBatch(g) \/ Receiver!BatchRegistered(g)
               \/ Receiver!Reconcile(g) \/ Receiver!ToggleSource(g)
        PROVE  UploadsInv'
    BY <1>1, <2>2 DEF Receiver!CommitBatch, Receiver!BatchRegistered, Receiver!Reconcile,
                      Receiver!ToggleSource, Receiver!uploadVars, Receiver!pairingVars
  <2>3. QED BY <1>6, <1>8, <2>1, <2>2 DEF Receiver!Protect
<1>9. CASE Receiver!StartServer \/ Receiver!Listening \/ Receiver!PortInUse \/ Receiver!Stopped
  BY <1>1, <1>9 DEF Receiver!StartServer, Receiver!Listening, Receiver!PortInUse,
                    Receiver!Stopped, Receiver!pairingVars, Receiver!uploadVars
<1>10. ASSUME NEW i \in Invitations,
              \/ Receiver!CreateEnrollment(i) \/ Receiver!CancelEnrollment(i)
              \/ Receiver!ApproveEnrollment(i) \/ Receiver!RejectEnrollment(i)
              \/ Receiver!AskToPair(i)
       PROVE  UploadsInv'
  BY <1>1, <1>10
     DEF Receiver!CreateEnrollment, Receiver!CancelEnrollment, Receiver!ApproveEnrollment,
         Receiver!RejectEnrollment, Receiver!AskToPair, Receiver!uploadVars
<1>11. CASE UNCHANGED Receiver!vars
  BY <1>1, <1>11 DEF Receiver!vars, Receiver!uploadVars, Receiver!pairingVars
<1>12. QED
  BY <1>2, <1>3, <1>4, <1>5, <1>8, <1>9, <1>10, <1>11
     DEF Receiver!Next, Receiver!Serve, Receiver!Pair

\* The quota and the revisions of the first protocol (handleUpload) may rely on one
\* upload of a guest at a time, for any guests and any number of stops and restarts.
THEOREM UploadsAreOneAtATime == Spec => []OneUploadPerGuest
<1>1. Receiver!ReceiverAssumption
  BY DesktopAssumption DEF NetworkAssumption
<1>2. Init => UploadsInv
  BY <1>1, UploadsInit DEF Init, NetworkInit
<1>3. UploadsInv /\ [Step]_vars => UploadsInv'
  BY <1>1, UploadsStep, ServersMove
<1>4. UploadsInv => OneUploadPerGuest
  BY DEF UploadsInv, OneUploadPerGuest
<1>5. QED BY <1>2, <1>3, <1>4, PTL DEF Spec, Step

-----------------------------------------------------------------------------
(* VmReceiver, forgetting.  What registers a source asks whether one is    *)
(* enabled, not whether the machine is paired: that nothing of a forgotten *)
(* machine is underway is what keeps it from being backed up again.        *)

ForgottenInv ==
  /\ guest \in [Guests -> {"new", "paired", "forgotten"}]
  /\ sourceOn \in [Guests -> Nat] /\ uploading \in Counts
  /\ \A g \in Guests \ late : guest[g] = "forgotten" =>
       sourceOn[g] = 0 /\ g \notin committed /\ (g \in Legacy => uploading[g] = 0)

LEMMA ForgottenInit == Receiver!Init => ForgottenInv
<1> SUFFICES ASSUME Receiver!Init PROVE ForgottenInv
  OBVIOUS
<1>1. PICK old \in {{}, Legacy} :
        /\ guest = [g \in Guests |-> IF g \in old THEN "paired" ELSE "new"]
        /\ sourceOn = [g \in Guests |-> IF g \in old THEN 1 ELSE 0]
  BY DEF Receiver!Init
<1>2. uploading = [g \in Legacy |-> 0]
  BY DEF Receiver!Init
<1>3. QED BY <1>1, <1>2 DEF ForgottenInv, Counts

\* A source is added only for a guest that has none.
LEMMA RegisterAdds ==
  ASSUME sourceOn \in [Guests -> Nat], NEW g \in Guests, Receiver!Register(g)
  PROVE  sourceOn' \in [Guests -> Nat] /\ \A h \in Guests \ {g} : sourceOn'[h] = sourceOn[h]
BY DEF Receiver!Register, Receiver!Registered

LEMMA ForgottenStep ==
  ASSUME Receiver!ReceiverAssumption, ForgottenInv, [Receiver!Next]_(Receiver!vars)
  PROVE  ForgottenInv'
<1> USE DEF ForgottenInv, Counts
<1>0. Legacy \subseteq Guests
  BY DEF Receiver!ReceiverAssumption
<1>1. CASE UNCHANGED <<guest, sourceOn, uploading, committed, late>>
  BY <1>1
<1>2. CASE Receiver!Restart
  <2>1. uploading' = [g \in Legacy |-> 0] /\ committed' = {} /\ UNCHANGED <<guest, sourceOn, late>>
    BY <1>2 DEF Receiver!Restart, Receiver!sourceVars
  <2>2. QED BY <2>1
<1>3. CASE \/ Receiver!StartServer \/ Receiver!Listening \/ Receiver!PortInUse
           \/ Receiver!Stopped \/ Receiver!StopServer
  BY <1>1, <1>3 DEF Receiver!StartServer, Receiver!Listening, Receiver!PortInUse, Receiver!Stopped,
                    Receiver!StopServer, Receiver!pairingVars, Receiver!uploadVars, Receiver!sourceVars
<1>4. ASSUME NEW i \in Invitations, NEW g \in Guests, Receiver!IssueGuest(i, g) PROVE ForgottenInv'
  <2>1. guest' = [guest EXCEPT ![g] = "paired"] /\ UNCHANGED <<sourceOn, uploading, committed, late>>
    BY <1>4 DEF Receiver!IssueGuest, Receiver!uploadVars, Receiver!sourceVars
  <2>2. \A h \in Guests : guest'[h] = "forgotten" => guest[h] = "forgotten"
    BY <2>1
  <2>3. QED BY <2>1, <2>2
<1>5. ASSUME NEW g \in Guests, Receiver!ForgetGuest(g) PROVE ForgottenInv'
  <2>1. guest' = [guest EXCEPT ![g] = "forgotten"] /\ UNCHANGED <<uploading, committed>>
    BY <1>5 DEF Receiver!ForgetGuest, Receiver!uploadVars
  <2>2. sourceOn' \in [Guests -> Nat] /\ \A h \in Guests \ {g} : sourceOn'[h] = sourceOn[h]
    BY <1>5 DEF Receiver!ForgetGuest
  <2>3. late \subseteq late'
        /\ (g \in committed \/ (g \in Legacy /\ uploading[g] > 0) \/ sourceOn'[g] > 0 => g \in late')
    BY <1>5 DEF Receiver!ForgetGuest
  <2>4. ASSUME NEW h \in Guests \ late', guest'[h] = "forgotten"
        PROVE  sourceOn'[h] = 0 /\ h \notin committed' /\ (h \in Legacy => uploading'[h] = 0)
    <3>1. CASE h = g
      <4>1. g \notin late' /\ sourceOn'[g] \in Nat /\ (g \in Legacy => uploading[g] \in Nat)
        BY <2>2, <2>4, <3>1
      <4>2. sourceOn'[g] = 0 /\ g \notin committed /\ (g \in Legacy => uploading[g] = 0)
        BY <2>3, <4>1
      <4>3. QED BY <2>1, <3>1, <4>2
    <3>2. CASE h # g
      <4>1. h \notin late /\ guest[h] = "forgotten"
        BY <2>1, <2>3, <2>4, <3>2
      <4>2. sourceOn'[h] = sourceOn[h]
        BY <2>2, <3>2
      <4>3. QED BY <2>1, <4>1, <4>2
    <3>3. QED BY <3>1, <3>2
  <2>5. QED BY <2>1, <2>2, <2>4
<1>6. ASSUME NEW g \in Legacy, Receiver!BeginUpload(g) PROVE ForgottenInv'
  <2>1. guest[g] = "paired" /\ uploading' = [uploading EXCEPT ![g] = uploading[g] + 1]
        /\ UNCHANGED <<guest, sourceOn, committed, late>>
    BY <1>6 DEF Receiver!BeginUpload, Receiver!pairingVars, Receiver!sourceVars
  <2>2. QED BY <2>1
<1>7. ASSUME NEW g \in Legacy, Receiver!UploadArrives(g) \/ Receiver!UploadFails(g)
      PROVE  ForgottenInv'
  <2>1. uploading[g] > 0 /\ uploading' = [uploading EXCEPT ![g] = uploading[g] - 1]
        /\ UNCHANGED <<guest, committed, late>>
    BY <1>7 DEF Receiver!UploadArrives, Receiver!UploadFails, Receiver!EndUpload, Receiver!pairingVars
  <2>2. sourceOn' \in [Guests -> Nat] /\ \A h \in Guests \ {g} : sourceOn'[h] = sourceOn[h]
    BY <1>0, <1>7, RegisterAdds DEF Receiver!UploadArrives, Receiver!UploadFails
  <2>3. g \in late \/ guest[g] # "forgotten"
    BY <1>0, <2>1
  <2>4. QED BY <1>0, <2>1, <2>2, <2>3
<1>8. ASSUME NEW g \in Guests, Receiver!CommitBatch(g) PROVE ForgottenInv'
  <2>1. guest[g] = "paired" /\ committed' = committed \cup {g}
        /\ UNCHANGED <<guest, sourceOn, uploading, late>>
    BY <1>8 DEF Receiver!CommitBatch, Receiver!pairingVars, Receiver!sourceVars
  <2>2. QED BY <2>1
<1>9. ASSUME NEW g \in Guests, Receiver!BatchRegistered(g) PROVE ForgottenInv'
  <2>1. g \in committed /\ committed' = committed \ {g} /\ UNCHANGED <<guest, uploading, late>>
    BY <1>9 DEF Receiver!BatchRegistered, Receiver!pairingVars
  <2>2. sourceOn' \in [Guests -> Nat] /\ \A h \in Guests \ {g} : sourceOn'[h] = sourceOn[h]
    BY <1>9, RegisterAdds DEF Receiver!BatchRegistered
  <2>3. QED BY <2>1, <2>2
<1>10. ASSUME NEW g \in Guests, Receiver!Reconcile(g) PROVE ForgottenInv'
  <2>1. guest[g] = "paired" /\ UNCHANGED <<guest, uploading, committed, late>>
    BY <1>10 DEF Receiver!Reconcile, Receiver!Reconciled, Receiver!Paired, Receiver!pairingVars,
                 Receiver!uploadVars
  <2>2. sourceOn' \in [Guests -> Nat] /\ \A h \in Guests \ {g} : sourceOn'[h] = sourceOn[h]
    BY <1>10, RegisterAdds DEF Receiver!Reconcile
  <2>3. QED BY <2>1, <2>2
<1>11. ASSUME NEW g \in Guests, Receiver!ToggleSource(g) PROVE ForgottenInv'
  <2>1. guest[g] = "paired" /\ UNCHANGED <<guest, uploading, committed, late>>
    BY <1>11 DEF Receiver!ToggleSource, Receiver!pairingVars, Receiver!uploadVars
  <2>2. sourceOn' \in [Guests -> Nat] /\ \A h \in Guests \ {g} : sourceOn'[h] = sourceOn[h]
    BY <1>11 DEF Receiver!ToggleSource
  <2>3. QED BY <2>1, <2>2
<1>12. ASSUME NEW i \in Invitations,
              \/ Receiver!CreateEnrollment(i) \/ Receiver!CancelEnrollment(i)
              \/ Receiver!ApproveEnrollment(i) \/ Receiver!RejectEnrollment(i)
              \/ Receiver!AskToPair(i)
       PROVE  ForgottenInv'
  BY <1>1, <1>12
     DEF Receiver!CreateEnrollment, Receiver!CancelEnrollment, Receiver!ApproveEnrollment,
         Receiver!RejectEnrollment, Receiver!AskToPair, Receiver!uploadVars, Receiver!sourceVars
<1>13. CASE UNCHANGED Receiver!vars
  BY <1>1, <1>13 DEF Receiver!vars, Receiver!uploadVars, Receiver!pairingVars, Receiver!sourceVars
<1>14. QED
  BY <1>2, <1>3, <1>4, <1>5, <1>6, <1>7, <1>8, <1>9, <1>10, <1>11, <1>12, <1>13
     DEF Receiver!Next, Receiver!Serve, Receiver!Pair, Receiver!Protect

\* A forgotten machine is not backed up again, unless an upload or a batch of it was
\* underway, or it had two sources, when it was forgotten: for any guests, and any
\* number of restarts and of sources switched on and off (main/ipc.js).
THEOREM ForgottenIsForgotten == Spec => []ForgottenStaysForgotten
<1>1. Receiver!ReceiverAssumption
  BY DesktopAssumption DEF NetworkAssumption
<1>2. Init => ForgottenInv
  BY ForgottenInit DEF Init, NetworkInit
<1>3. ForgottenInv /\ [Step]_vars => ForgottenInv'
  BY <1>1, ForgottenStep, ServersMove
<1>4. ForgottenInv => ForgottenStaysForgotten
  BY DEF ForgottenInv, ForgottenStaysForgotten, Receiver!ForgottenStaysForgotten
<1>5. QED BY <1>2, <1>3, <1>4, PTL DEF Spec, Step
=============================================================================
