---------------------------- MODULE PeerNetwork ----------------------------
(***************************************************************************)
(* The peer network of the hypermind multi-scope architecture              *)
(* (src/internal/hypermind/hypermind.go): PeerNetwork.activePeers, the     *)
(* directory of connected peers, and the DistributedHashTable that maps a  *)
(* scope ID to the list of peer IDs indexed under it.  ConnectPeer runs    *)
(* under peerNetwork.mu and takes dht.mu inside it for each add, and no    *)
(* other code takes the two locks in the other order, so a connect is one  *)
(* atomic step.  DiscoverPeers and GetActivePeers only read, under the     *)
(* read lock, and are the operators DiscoverPeers and ActivePeers.         *)
(*                                                                         *)
(* Data kept: a peer's ScopeIDs slice (duplicates and "" included) and     *)
(* LastSeen.  Address is stored verbatim and never read, so it is left     *)
(* out.                                                                    *)
(***************************************************************************)
EXTENDS HypermindBase, Sequences, FiniteSets

CONSTANTS
  PeerIDs,       \* non-empty peer identifiers
  MaxScopeList,  \* longest ScopeIDs slice a caller passes to ConnectPeer
  MaxIndexLen    \* longest DHT entry a run builds

ASSUME PeerAssumption ==
  /\ EmptyID \notin PeerIDs /\ NilRef \notin PeerIDs
  /\ MaxScopeList \in Nat /\ MaxIndexLen \in Nat

VARIABLES
  peers,      \* peerNetwork.activePeers: peer ID -> Peer or Absent
  dht         \* dht.entries: scope ID -> list of peer IDs

netVars == <<peers, dht, clock, ret>>

(* Any string a peer may declare as a scope, the empty one included: the   *)
(* keys of the DHT.                                                        *)
ScopeKeys == ScopeIDs \cup {EmptyID}

(* The ScopeIDs slices a caller passes.                                    *)
ScopeLists == UNION {[1..n -> ScopeKeys] : n \in 0..MaxScopeList}

PeerRec == [scopeIDs : ScopeLists, lastSeen : Times]

Connected == {p \in PeerIDs : peers[p] # Absent}

(* The positions of key k in the slice sids.                               *)
Occurrences(k, sids) == {i \in 1..Len(sids) : sids[i] = k}

(* Mutant of AddAll: the loop skips the first declared scope.              *)
AddAllSkipFirst(id, sids) ==
  [k \in ScopeKeys |->
     dht[k] \o [i \in 1..Cardinality(Occurrences(k, sids) \ {1}) |-> id]]

(* The loop `for _, scopeID := range peer.ScopeIDs { dht.add(scopeID, id) }`*)
(* appends id once to the entry of k per occurrence of k in the slice.     *)
AddAll(id, sids) ==
  [k \in ScopeKeys |->
     dht[k] \o [i \in 1..Cardinality(Occurrences(k, sids)) |-> id]]

(* dht.lookup(k) filtered by activePeers: the peers DiscoverPeers returns, *)
(* in index order.                                                         *)
DiscoverPeers(k) == SelectSeq(dht[k], LAMBDA p : peers[p] # Absent)

(* The set of peers DiscoverPeers(k) returns.                              *)
DiscoverSet(k) ==
  {dht[k][j] : j \in {i \in 1..Len(dht[k]) : peers[dht[k][i]] # Absent}}

(* GetActivePeers(): every peer of activePeers.                            *)
ActivePeers == Connected

NetInit ==
  /\ peers = [p \in PeerIDs |-> Absent]
  /\ dht = [k \in ScopeKeys |-> << >>]
  /\ clock = 0
  /\ ret = "ok"

(* Mutant of ConnectPeerRejected: the empty-ID check is dropped, so a peer *)
(* with ID "" is indexed.                                                  *)
ConnectPeerEmptyAccepted(ref) ==
  \/ /\ ref = NilRef
     /\ ret' = "InvalidParameter"
     /\ UNCHANGED <<peers, dht, clock>>
  \/ /\ ref = EmptyID
     /\ \E sids \in ScopeLists :
          dht' = [k \in ScopeKeys |->
                   dht[k] \o [i \in 1..Cardinality(Occurrences(k, sids)) |-> ref]]
     /\ ret' = "ok"
     /\ UNCHANGED <<peers, clock>>

(* ConnectPeer with a nil peer or an empty ID: rejected before the lock.   *)
ConnectPeerRejected(ref) ==
  /\ ref \in {NilRef, EmptyID}
  /\ ret' = "InvalidParameter"
  /\ UNCHANGED <<peers, dht, clock>>

(* ConnectPeer(peer): stamp LastSeen, upsert the record under its ID, then *)
(* index the ID under every scope it declares.  The guard on MaxIndexLen   *)
(* is the bound of the model, not of the code.                             *)
ConnectPeer(id, sids) ==
  /\ id \in PeerIDs
  /\ \A k \in ScopeKeys : Len(AddAll(id, sids)[k]) <= MaxIndexLen
  /\ \E t \in Now :
       /\ peers' = [peers EXCEPT ![id] = [scopeIDs |-> sids, lastSeen |-> t]]
       /\ clock' = t
  /\ dht' = AddAll(id, sids)
  /\ ret' = "ok"

NetNext ==
  \/ \E ref \in {NilRef, EmptyID} : ConnectPeerRejected(ref)
  \/ \E id \in PeerIDs, sids \in ScopeLists : ConnectPeer(id, sids)

NetSpec == NetInit /\ [][NetNext]_netVars

-----------------------------------------------------------------------------
(* Every component of the network has its type.                            *)
NetTypeOK ==
  /\ peers \in [PeerIDs -> PeerRec \cup {Absent}]
  /\ dht \in [ScopeKeys -> Seq(PeerIDs)]
  /\ clock \in Times
  /\ ret \in RetKinds

(* Every connected peer is found by DiscoverPeers under every scope its    *)
(* latest ConnectPeer declared, however connects of several peers and      *)
(* re-connects with other scope lists interleave.                          *)
DiscoverComplete ==
  \A p \in Connected :
    \A i \in 1..Len(peers[p].scopeIDs) : p \in DiscoverSet(peers[p].scopeIDs[i])

(* Spec section 8: DiscoverPeers returns each peer that declared the scope *)
(* once (two peers give a list of size 2).  The DHT never deduplicates, so *)
(* a peer that connects twice declaring the scope is returned twice.       *)
DiscoverNoDuplicates ==
  \A k \in ScopeKeys :
    \A i, j \in 1..Len(DiscoverPeers(k)) :
      DiscoverPeers(k)[i] = DiscoverPeers(k)[j] => i = j
=============================================================================
