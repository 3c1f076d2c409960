------------------------------ MODULE LanPeers ------------------------------
(***************************************************************************)
(* Finding, serving and trusting other PCs: main/lanRuntime.js (starting   *)
(* and stopping the Network Drive), the server's life and the pairing      *)
(* dialogue of main/lanFileServer.js, main/lanTrust.js and                 *)
(* main/lanDiscovery.js.  Every PC runs the same program.                  *)
(*                                                                         *)
(* A pairing token is the number of the request that made it.  What is     *)
(* served to a trusted peer is module LanTransfers.                        *)
(***************************************************************************)
EXTENDS Naturals, FiniteSets

CONSTANTS PCs,
          Ports,       \* the ports a server tries, in this order
          MaxStarts,   \* bound: starts of a Network Drive, all PCs together
          MaxRequests  \* bound: pairing requests

PortsAssumption == \E n \in 1 .. 20 : Ports = 1 .. n
PeersBoundsAssumption == MaxStarts \in Nat /\ MaxRequests \in Nat

VARIABLES
  starting,    \* per PC, the port each start in flight tries now: bag as function
  starts,      \* starts so far
  server,      \* per PC, activePort of the server it knows; 0 for none
  listening,   \* per PC, ports on which the program accepts connections
  advert,      \* per PC, the port it broadcasts; 0 when discovery is silent
  peers,       \* per PC, what it last heard of each other: 0 or the port
  trust,       \* per PC and other PC, the token saved; 0 for none
  request,     \* request number -> who asks whom
  client,      \* request number -> what the asking PC waits for
  pending      \* request number -> what the asked PC made of it

runtimeVars == <<starting, starts, server, listening, advert, peers>>
pairingVars == <<trust, request, client, pending>>
vars        == <<runtimeVars, pairingVars>>

Requests == 1 .. MaxRequests
Others(p) == PCs \ {p}

TypeOK ==
  /\ starting \in [PCs -> [Ports -> 0 .. MaxStarts]] /\ starts \in 0 .. MaxStarts
  /\ server \in [PCs -> {0} \cup Ports] /\ listening \in [PCs -> SUBSET Ports]
  /\ advert \in [PCs -> {0} \cup Ports]
  /\ peers \in [PCs -> [PCs -> {0} \cup Ports]]
  /\ trust \in [PCs -> [PCs -> {0} \cup Requests]]
  /\ request \in [Requests -> {<<>>} \cup (PCs \X PCs)]
  /\ client \in [Requests -> {"none", "waiting", "paired", "failed"}]
  /\ pending \in [Requests -> {"none", "pending", "accepted", "refused"}]
  /\ \A p \in PCs : server[p] # 0 => server[p] \in listening[p]

Init ==
  /\ starting = [p \in PCs |-> [n \in Ports |-> 0]] /\ starts = 0
  /\ server = [p \in PCs |-> 0] /\ listening = [p \in PCs |-> {}]
  /\ advert = [p \in PCs |-> 0] /\ peers = [p \in PCs |-> [q \in PCs |-> 0]]
  /\ trust = [p \in PCs |-> [q \in PCs |-> 0]]
  /\ request = [i \in Requests |-> <<>>]
  /\ client = [i \in Requests |-> "none"] /\ pending = [i \in Requests |-> "none"]

-----------------------------------------------------------------------------
(* Serving. *)

\* startNetworkDrive, from the page or 1 s after the program starts: a running
\* server is advertised again, otherwise the first port is tried.
StartNetworkDrive(p) ==
  /\ starts < MaxStarts
  /\ starts' = starts + 1
  /\ \/ /\ server[p] # 0
        /\ advert' = [advert EXCEPT ![p] = server[p]]
        /\ UNCHANGED starting
     \/ /\ server[p] = 0
        /\ starting' = [starting EXCEPT ![p][1] = @ + 1]
        /\ UNCHANGED advert
  /\ UNCHANGED <<server, listening, peers, pairingVars>>

\* listenOnPort ends well: the server is known, and the start goes on to
\* advertise it, whatever the user did meanwhile.
Listening(p, n) ==
  /\ starting[p][n] > 0 /\ n \notin listening[p]
  /\ starting' = [starting EXCEPT ![p][n] = @ - 1]
  /\ server' = [server EXCEPT ![p] = n]
  /\ listening' = [listening EXCEPT ![p] = @ \cup {n}]
  /\ advert' = [advert EXCEPT ![p] = n]
  /\ UNCHANGED <<starts, peers, pairingVars>>

\* The port is in use, by this program or another: the next one, or an error.
PortInUse(p, n) ==
  /\ starting[p][n] > 0
  /\ starting' = IF n + 1 \in Ports
                 THEN [starting EXCEPT ![p][n] = @ - 1, ![p][n + 1] = @ + 1]
                 ELSE [starting EXCEPT ![p][n] = @ - 1]
  /\ UNCHANGED <<starts, server, listening, advert, peers, pairingVars>>

\* Mutant: stopping the drive leaves discovery running.
SilenceForgotten(p) == advert

\* What is broadcast once the server is closed.
Silence(p) == [advert EXCEPT ![p] = 0]

\* lanFileServer.stop and lanDiscovery.stop.
StopNetworkDrive(p) ==
  /\ server[p] # 0 \/ advert[p] # 0
  /\ listening' = [listening EXCEPT ![p] = @ \ {server[p]}]
  /\ server' = [server EXCEPT ![p] = 0]
  /\ advert' = Silence(p)
  /\ peers' = [peers EXCEPT ![p] = [q \in PCs |-> 0]]
  /\ UNCHANGED <<starting, starts, pairingVars>>

\* Saved settings or drop settings are broadcast again.
RefreshAdvertisement(p) ==
  /\ server[p] # 0 /\ advert[p] # 0
  /\ advert' = [advert EXCEPT ![p] = server[p]]
  /\ UNCHANGED <<starting, starts, server, listening, peers, pairingVars>>

\* The discovery socket fails and is closed; the server goes on.
DiscoveryFails(p) ==
  /\ advert[p] # 0
  /\ advert' = [advert EXCEPT ![p] = 0]
  /\ peers' = [peers EXCEPT ![p] = [q \in PCs |-> 0]]
  /\ UNCHANGED <<starting, starts, server, listening, pairingVars>>

HandlePresence(p, q) ==
  /\ advert[p] # 0 /\ advert[q] # 0 /\ peers[p][q] # advert[q]
  /\ peers' = [peers EXCEPT ![p][q] = advert[q]]
  /\ UNCHANGED <<starting, starts, server, listening, advert, pairingVars>>

\* 15 s of silence.
CheckPeers(p, q) ==
  /\ peers[p][q] # 0
  /\ peers' = [peers EXCEPT ![p][q] = 0]
  /\ UNCHANGED <<starting, starts, server, listening, advert, pairingVars>>

-----------------------------------------------------------------------------
(* Pairing. *)

RequestPair(p, q) ==
  /\ peers[p][q] # 0
  /\ \E i \in Requests :
       /\ request[i] = <<>> /\ \A j \in Requests : j < i => request[j] # <<>>
       /\ request' = [request EXCEPT ![i] = <<p, q>>]
       /\ client' = [client EXCEPT ![i] = "waiting"]
  /\ UNCHANGED <<runtimeVars, trust, pending>>

\* handlePairRequest shows the code to the user of the asked PC.
HandlePairRequest(i) ==
  /\ client[i] = "waiting" /\ pending[i] = "none"
  /\ peers[request[i][1]][request[i][2]] \in listening[request[i][2]]
  /\ pending' = [pending EXCEPT ![i] = "pending"]
  /\ UNCHANGED <<runtimeVars, trust, request, client>>

SaveTrustedDevice(p, q, token) == [trust EXCEPT ![p][q] = token]

AcceptPairRequest(i) ==
  /\ pending[i] = "pending"
  /\ pending' = [pending EXCEPT ![i] = "accepted"]
  /\ trust' = SaveTrustedDevice(request[i][2], request[i][1], i)
  /\ UNCHANGED <<runtimeVars, request, client>>

\* Rejected, or 120 s without an answer: later answers find no request.
RefusePairRequest(i) ==
  /\ pending[i] = "pending"
  /\ pending' = [pending EXCEPT ![i] = "refused"]
  /\ UNCHANGED <<runtimeVars, trust, request, client>>

\* Mutant: any answer pairs.
AcceptedIfAnswered(i) == pending[i] \in {"accepted", "refused"}

Accepted(i) == pending[i] = "accepted"

\* The answer reaches the PC that asked.
PairAnswer(i) ==
  /\ client[i] = "waiting" /\ pending[i] \in {"accepted", "refused"}
  /\ \/ /\ Accepted(i)
        /\ client' = [client EXCEPT ![i] = "paired"]
        /\ trust' = SaveTrustedDevice(request[i][1], request[i][2], i)
     \/ /\ ~Accepted(i)
        /\ client' = [client EXCEPT ![i] = "failed"]
        /\ UNCHANGED trust
  /\ UNCHANGED <<runtimeVars, request, pending>>

\* 125 s, or a lost connection: the asked PC does not learn of it.
PairRequestFails(i) ==
  /\ client[i] = "waiting"
  /\ client' = [client EXCEPT ![i] = "failed"]
  /\ UNCHANGED <<runtimeVars, trust, request, pending>>

ForgetTrustedDevice(p, q) ==
  /\ trust[p][q] # 0
  /\ trust' = [trust EXCEPT ![p][q] = 0]
  /\ UNCHANGED <<runtimeVars, request, client, pending>>

Serving ==
  \E p \in PCs :
    \/ StartNetworkDrive(p) \/ StopNetworkDrive(p)
    \/ RefreshAdvertisement(p) \/ DiscoveryFails(p)
    \/ \E n \in Ports : Listening(p, n) \/ PortInUse(p, n)
    \/ \E q \in Others(p) : HandlePresence(p, q) \/ CheckPeers(p, q)

Pairing ==
  \/ \E p \in PCs : \E q \in Others(p) : RequestPair(p, q) \/ ForgetTrustedDevice(p, q)
  \/ \E i \in Requests :
       \/ HandlePairRequest(i) \/ AcceptPairRequest(i) \/ RefusePairRequest(i)
       \/ PairAnswer(i) \/ PairRequestFails(i)

Next == Serving \/ Pairing

Spec == Init /\ [][Next]_vars

-----------------------------------------------------------------------------

\* Whatever starts and stops overlap, a port that is broadcast is one on which
\* the program listens: a peer is never sent to a closed door by this PC.
AdvertisedIsServed == \A p \in PCs : advert[p] # 0 => advert[p] \in listening[p]

\* Both PCs' trust goes back to a request that the asked user accepted in time,
\* between these two PCs, however answers, timeouts and new requests interleave.
TrustNeedsConsent ==
  \A p \in PCs : \A q \in Others(p) : trust[p][q] # 0 =>
    /\ pending[trust[p][q]] = "accepted"
    /\ request[trust[p][q]] \in {<<p, q>>, <<q, p>>}
=============================================================================
