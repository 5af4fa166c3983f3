------------------------- MODULE PeerNetworkProofs -------------------------
(***************************************************************************)
(* Proofs about the peer network for every value of the constants:         *)
(* ConnectPeer keeps the network well typed, and every connected peer is   *)
(* discovered under every scope its latest connect declared.               *)
(* DiscoverComplete is inductive once the type is known: dht.add only      *)
(* appends, so the entries that found a peer before a connect still find  *)
(* it after, and the connect itself appends the connecting peer once per   *)
(* declared scope.                                                         *)
(***************************************************************************)
EXTENDS PeerNetwork, SequenceTheorems, FiniteSetTheorems, TLAPS

(* A ScopeIDs slice is a sequence of scope keys.                           *)
LEMMA ScopeListIsSeq ==
  ASSUME NEW sids \in ScopeLists
  PROVE  sids \in Seq(ScopeKeys)
  BY PeerAssumption DEF ScopeLists

(* The positions of a key in a slice are finitely many, and at least one   *)
(* when the key is at position i.                                          *)
LEMMA OccurrencesCount ==
  ASSUME NEW sids \in Seq(ScopeKeys), NEW k
  PROVE  /\ IsFiniteSet(Occurrences(k, sids))
         /\ Cardinality(Occurrences(k, sids)) \in Nat
         /\ \A i \in 1..Len(sids) :
              sids[i] = k => Cardinality(Occurrences(k, sids)) >= 1
  <1>1. Len(sids) \in Nat
    BY LenProperties
  <1>2. IsFiniteSet(1..Len(sids))
    BY <1>1, FS_Interval
  <1>3. IsFiniteSet(Occurrences(k, sids))
    BY <1>2, FS_Subset DEF Occurrences
  <1>4. Cardinality(Occurrences(k, sids)) \in Nat
    BY <1>3, FS_CardinalityType
  <1>5. ASSUME NEW i \in 1..Len(sids), sids[i] = k
        PROVE  Cardinality(Occurrences(k, sids)) >= 1
    <2>1. Occurrences(k, sids) # {}
      BY <1>5 DEF Occurrences
    <2>2. QED
      BY <1>3, <1>4, <2>1, FS_EmptySet
  <1>6. QED
    BY <1>3, <1>4, <1>5

(* What AddAll(id, sids) makes of the entry of key k: the old entry,       *)
(* followed by id once per occurrence of k in sids.                        *)
LEMMA AddAllEntry ==
  ASSUME NEW id \in PeerIDs, NEW sids \in ScopeLists, NEW k \in ScopeKeys,
         dht[k] \in Seq(PeerIDs)
  PROVE  /\ Cardinality(Occurrences(k, sids)) \in Nat
         /\ AddAll(id, sids)[k] \in Seq(PeerIDs)
         /\ Len(AddAll(id, sids)[k]) = Len(dht[k]) + Cardinality(Occurrences(k, sids))
         /\ \A m \in 1..Len(dht[k]) : AddAll(id, sids)[k][m] = dht[k][m]
         /\ \A m \in (Len(dht[k]) + 1)..(Len(dht[k]) + Cardinality(Occurrences(k, sids))) :
              AddAll(id, sids)[k][m] = id
  <1> DEFINE n == Cardinality(Occurrences(k, sids))
             copies == [i \in 1..n |-> id]
  <1>1. n \in Nat
    BY ScopeListIsSeq, OccurrencesCount
  <1>2. copies \in Seq(PeerIDs) /\ Len(copies) = n
    BY <1>1, IsASeq
  <1>3. AddAll(id, sids)[k] = dht[k] \o copies
    BY DEF AddAll
  <1>4. Len(dht[k]) \in Nat
    BY LenProperties
  <1>5. QED
    BY <1>1, <1>2, <1>3, <1>4, ConcatProperties

(* Every step of the network keeps it well typed.                          *)
LEMMA NetTypeStep == NetTypeOK /\ [NetNext]_netVars => NetTypeOK'
  <1> SUFFICES ASSUME NetTypeOK, [NetNext]_netVars PROVE NetTypeOK'
    OBVIOUS
  <1>1. ASSUME NEW ref \in {NilRef, EmptyID}, ConnectPeerRejected(ref)
        PROVE  NetTypeOK'
    BY <1>1 DEF ConnectPeerRejected, NetTypeOK, RetKinds
  <1>2. ASSUME NEW id \in PeerIDs, NEW sids \in ScopeLists, ConnectPeer(id, sids)
        PROVE  NetTypeOK'
    <2>1. PICK t \in Now : /\ peers' = [peers EXCEPT ![id] =
                                          [scopeIDs |-> sids, lastSeen |-> t]]
                           /\ clock' = t
      BY <1>2 DEF ConnectPeer
    <2>2. t \in Times
      BY <2>1, BaseAssumption DEF Now, Times, NetTypeOK
    <2>3. peers' \in [PeerIDs -> PeerRec \cup {Absent}]
      BY <2>1, <2>2 DEF NetTypeOK, PeerRec
    <2>4. dht' \in [ScopeKeys -> Seq(PeerIDs)]
      BY <1>2, AddAllEntry DEF ConnectPeer, AddAll, NetTypeOK
    <2>5. QED
      BY <1>2, <2>1, <2>2, <2>3, <2>4 DEF ConnectPeer, NetTypeOK, RetKinds
  <1>3. CASE UNCHANGED netVars
    BY <1>3 DEF netVars, NetTypeOK
  <1>4. QED
    BY <1>1, <1>2, <1>3 DEF NetNext

(* The network is well typed in every reachable state.                     *)
THEOREM NetTypeCorrect == NetSpec => []NetTypeOK
  <1>1. NetInit => NetTypeOK
    BY BaseAssumption DEF NetInit, NetTypeOK, Times, RetKinds
  <1>2. QED
    BY <1>1, NetTypeStep, PTL DEF NetSpec

(* The invariant the discovery theorem needs.                              *)
NetInv == NetTypeOK /\ DiscoverComplete

(* Every step keeps every connected peer discoverable.                     *)
LEMMA DiscoverStep == NetInv /\ [NetNext]_netVars => NetInv'
  <1> SUFFICES ASSUME NetInv, [NetNext]_netVars PROVE NetInv'
    OBVIOUS
  <1>0. NetTypeOK'
    BY NetTypeStep DEF NetInv
  <1>1. ASSUME NEW ref \in {NilRef, EmptyID}, ConnectPeerRejected(ref)
        PROVE  DiscoverComplete'
    <2>1. peers' = peers /\ dht' = dht
      BY <1>1 DEF ConnectPeerRejected
    <2>2. QED
      BY <2>1 DEF NetInv, DiscoverComplete, DiscoverSet, Connected
  <1>2. ASSUME NEW id \in PeerIDs, NEW sids \in ScopeLists, ConnectPeer(id, sids)
        PROVE  DiscoverComplete'
    <2>1. PICK t \in Now : peers' = [peers EXCEPT ![id] =
                                       [scopeIDs |-> sids, lastSeen |-> t]]
      BY <1>2 DEF ConnectPeer
    <2>2. dht' = AddAll(id, sids)
      BY <1>2 DEF ConnectPeer
    <2> SUFFICES ASSUME NEW p \in Connected', NEW i \in 1..Len(peers'[p].scopeIDs)
                 PROVE  (p \in DiscoverSet(peers[p].scopeIDs[i]))'
      BY DEF DiscoverComplete
    <2>3. p \in PeerIDs /\ peers'[p] # Absent
      BY DEF Connected
    <2>4. CASE p = id
      <3> DEFINE k == sids[i]
      <3>1. sids \in Seq(ScopeKeys) /\ peers'[p].scopeIDs = sids
        BY <2>1, <2>4, ScopeListIsSeq DEF NetInv, NetTypeOK
      <3>2. i \in 1..Len(sids) /\ k \in ScopeKeys
        BY <3>1
      <3>3. Cardinality(Occurrences(k, sids)) >= 1
        BY <3>1, <3>2, OccurrencesCount
      <3>4. dht[k] \in Seq(PeerIDs) /\ Len(dht[k]) \in Nat
        BY <3>2, LenProperties DEF NetInv, NetTypeOK
      <3> DEFINE j == Len(dht[k]) + 1
      <3> DEFINE n == Cardinality(Occurrences(k, sids))
      <3>5. /\ n \in Nat
            /\ Len(AddAll(id, sids)[k]) = Len(dht[k]) + n
            /\ \A j2 \in (Len(dht[k]) + 1)..(Len(dht[k]) + n) :
                 AddAll(id, sids)[k][j2] = id
        BY <3>2, <3>4, AddAllEntry
      <3>6. j \in 1..Len(AddAll(id, sids)[k]) /\ AddAll(id, sids)[k][j] = id
        BY <3>3, <3>4, <3>5
      <3>7. j \in 1..Len(dht'[k]) /\ dht'[k][j] = id
        BY <2>2, <3>6
      <3>8. QED
        BY <3>1, <3>7, <2>3, <2>4 DEF DiscoverSet
    <2>5. CASE p # id
      <3>1. peers'[p] = peers[p] /\ p \in Connected
        BY <2>1, <2>3, <2>5 DEF NetInv, NetTypeOK, Connected
      <3> DEFINE k == peers[p].scopeIDs[i]
      <3>2. p \in DiscoverSet(k)
        BY <3>1 DEF NetInv, DiscoverComplete
      <3>3. k \in ScopeKeys
        <4>1. peers[p].scopeIDs \in Seq(ScopeKeys)
          BY <3>1, ScopeListIsSeq DEF NetInv, NetTypeOK, PeerRec, Connected
        <4>2. QED
          BY <4>1, <3>1
      <3>4. PICK j \in 1..Len(dht[k]) : dht[k][j] = p
        BY <3>2 DEF DiscoverSet
      <3>5. dht[k] \in Seq(PeerIDs)
        BY <3>3 DEF NetInv, NetTypeOK
      <3>6. /\ Cardinality(Occurrences(k, sids)) \in Nat
            /\ Len(AddAll(id, sids)[k]) = Len(dht[k]) + Cardinality(Occurrences(k, sids))
            /\ \A j2 \in 1..Len(dht[k]) : AddAll(id, sids)[k][j2] = dht[k][j2]
        <4>1. \A kk \in ScopeKeys : dht[kk] \in Seq(PeerIDs) =>
                /\ Cardinality(Occurrences(kk, sids)) \in Nat
                /\ Len(AddAll(id, sids)[kk]) = Len(dht[kk]) + Cardinality(Occurrences(kk, sids))
                /\ \A j2 \in 1..Len(dht[kk]) : AddAll(id, sids)[kk][j2] = dht[kk][j2]
          BY AddAllEntry
        <4>2. QED
          BY <4>1, <3>3, <3>5
      <3>7. j \in 1..Len(AddAll(id, sids)[k]) /\ AddAll(id, sids)[k][j] = p
        <4>1. Len(dht[k]) \in Nat
          BY <3>5, LenProperties
        <4>2. QED
          BY <3>4, <3>6, <4>1
      <3>8. j \in 1..Len(dht'[k]) /\ dht'[k][j] = p
        BY <2>2, <3>7
      <3>9. QED
        BY <3>1, <3>8, <2>3 DEF DiscoverSet
    <2>6. QED
      BY <2>4, <2>5
  <1>3. CASE UNCHANGED netVars
    <2>1. peers' = peers /\ dht' = dht
      BY <1>3 DEF netVars
    <2>2. Connected' = Connected
      BY <2>1 DEF Connected
    <2>3. ASSUME NEW k PROVE DiscoverSet(k)' = DiscoverSet(k)
      BY <2>1 DEF DiscoverSet
    <2>4. DiscoverComplete'
      BY <2>1, <2>2, <2>3 DEF NetInv, DiscoverComplete
    <2>5. QED
      BY <2>4, <1>0 DEF NetInv
  <1>4. QED
    BY <1>0, <1>1, <1>2, <1>3 DEF NetNext, NetInv

(* For every value of the constants, DiscoverPeers finds every connected   *)
(* peer under every scope its latest ConnectPeer declared (the property    *)
(* the run net_discovery checks).                                          *)
THEOREM DiscoveryComplete == NetSpec => []DiscoverComplete
  <1>1. NetInit => NetInv
    BY BaseAssumption DEF NetInit, NetInv, NetTypeOK, Times, RetKinds,
                          DiscoverComplete, Connected
  <1>2. NetInv => DiscoverComplete
    BY DEF NetInv
  <1>3. QED
    BY <1>1, <1>2, DiscoverStep, PTL DEF NetSpec
=============================================================================
