-------------------------- MODULE ATenSpaceProofs --------------------------
(***************************************************************************)
(* Proofs about the ATenSpace store for every value of the constants: the  *)
(* operations keep the space well typed, and every link joins two atoms    *)
(* in the space.  LinksJoinAtoms is inductive once the type is known:      *)
(* AddLink checks both ends, and AddAtom, the only writer of s.atoms,      *)
(* stores a pointer, so no atom ever leaves the space.                     *)
(***************************************************************************)
EXTENDS ATenSpace, SequenceTheorems, TLAPS

(* The records AddAtom, AddLink and DefineBoundary append have their type. *)
LEMMA RecordTypes ==
  /\ \A id \in AtomIDs, attrs \in AttrMaps, tid \in TensorIDs \cup {EmptyID} :
       [attrs |-> attrs, tensorID |-> tid] \in AtomRec
  /\ \A src, tgt \in AtomIDs : [source |-> src, target |-> tgt] \in LinkRec
  /\ \A b \in BoundaryIDs, members \in MemberLists :
       [id |-> b, atomIDs |-> members] \in BoundaryRec
  BY DEF AtomRec, LinkRec, BoundaryRec

(* An atom GetAtom finds is in the space, behind a pointer into the heap.  *)
LEMMA FoundAtom ==
  ASSUME SpaceTypeOK, NEW a, GetAtom(a) # Absent
  PROVE  /\ a \in AtomIDs /\ a \in Present
         /\ atoms[a] \in 1..Len(heap)
  BY DEF GetAtom, SpaceTypeOK, Present

(* Every step of the space keeps it well typed.                            *)
LEMMA SpaceTypeStep == SpaceTypeOK /\ [SpaceNext]_spaceVars => SpaceTypeOK'
  <1> SUFFICES ASSUME SpaceTypeOK, [SpaceNext]_spaceVars PROVE SpaceTypeOK'
    OBVIOUS
  <1>0. Len(heap) \in Nat /\ MaxAtoms \in Nat
    BY SpaceAssumption DEF SpaceTypeOK
  <1>1. ASSUME NEW id \in AtomIDs, NEW attrs \in AttrMaps,
               NEW tid \in TensorIDs \cup {EmptyID}, AddAtom(id, attrs, tid)
        PROVE  SpaceTypeOK'
    <2> DEFINE rec == [attrs |-> attrs, tensorID |-> tid]
    <2>1. rec \in AtomRec
      BY RecordTypes
    <2>2. heap' \in Seq(AtomRec) /\ Len(heap') = Len(heap) + 1
      BY <1>1, <2>1, AppendProperties DEF AddAtom, SpaceTypeOK
    <2>3. Len(heap') <= MaxAtoms
      BY <1>1, <1>0, <2>2 DEF AddAtom
    <2>4. atoms' \in [AtomIDs -> (1..Len(heap')) \cup {Absent}]
      BY <1>1, <1>0, <2>2 DEF AddAtom, SpaceTypeOK
    <2>5. QED
      BY <1>1, <2>2, <2>3, <2>4 DEF AddAtom, SpaceTypeOK
  <1>2. ASSUME NEW src \in AtomIDs, NEW tgt \in AtomIDs, AddLink(src, tgt)
        PROVE  SpaceTypeOK'
    BY <1>2, RecordTypes, AppendProperties DEF AddLink, SpaceTypeOK
  <1>3. ASSUME NEW a \in AtomIDs, NEW tid \in TensorIDs \cup {EmptyID},
               AttachTensor(a, tid)
        PROVE  SpaceTypeOK'
    <2> DEFINE p == atoms[a]
               new == [heap[p] EXCEPT !.tensorID = tid]
    <2>1. p \in 1..Len(heap)
      BY <1>3, FoundAtom DEF AttachTensor
    <2>2. heap[p] \in AtomRec
      BY <2>1, LenProperties DEF SpaceTypeOK
    <2>3. new \in AtomRec
      BY <2>2 DEF AtomRec
    <2>4. heap' = [heap EXCEPT ![p] = new]
      BY <1>3 DEF AttachTensor
    <2>5. heap' \in Seq(AtomRec) /\ Len(heap') = Len(heap)
      BY <2>1, <2>3, <2>4, ExceptSeq DEF SpaceTypeOK
    <2>6. QED
      BY <1>3, <2>5 DEF AttachTensor, SpaceTypeOK
  <1>4. ASSUME NEW b \in BoundaryIDs, NEW members \in MemberLists,
               DefineBoundary(b, members)
        PROVE  SpaceTypeOK'
    BY <1>4, RecordTypes, AppendProperties DEF DefineBoundary, SpaceTypeOK
  <1>5. CASE UNCHANGED spaceVars
    BY <1>5 DEF spaceVars, SpaceTypeOK
  <1>6. QED
    BY <1>1, <1>2, <1>3, <1>4, <1>5 DEF SpaceNext

(* The space is well typed in every reachable state.                       *)
THEOREM SpaceTypeCorrect == SpaceSpec => []SpaceTypeOK
  <1>1. SpaceInit => SpaceTypeOK
    BY SpaceAssumption DEF SpaceInit, SpaceTypeOK
  <1>2. QED
    BY <1>1, SpaceTypeStep, PTL DEF SpaceSpec

(* The invariant both theorems need.                                       *)
SpaceInv == SpaceTypeOK /\ LinksJoinAtoms

(* No step takes an atom out of the space.                                 *)
LEMMA PresentGrows ==
  ASSUME SpaceTypeOK, [SpaceNext]_spaceVars
  PROVE  Present \subseteq Present'
  <1> SUFFICES ASSUME NEW a \in Present PROVE a \in Present'
    OBVIOUS
  <1>1. CASE \E id \in AtomIDs, attrs \in AttrMaps, tid \in TensorIDs \cup {EmptyID} :
               AddAtom(id, attrs, tid)
    BY <1>1, SpaceAssumption DEF AddAtom, Present, SpaceTypeOK
  <1>2. CASE ~\E id \in AtomIDs, attrs \in AttrMaps, tid \in TensorIDs \cup {EmptyID} :
                AddAtom(id, attrs, tid)
    <2>1. atoms' = atoms
      BY <1>2 DEF SpaceNext, AddLink, AttachTensor, DefineBoundary, spaceVars
    <2>2. QED
      BY <2>1 DEF Present
  <1>3. QED
    BY <1>1, <1>2

(* Every step keeps every link between two atoms of the space.             *)
LEMMA LinksStep == SpaceInv /\ [SpaceNext]_spaceVars => SpaceInv'
  <1> SUFFICES ASSUME SpaceInv, [SpaceNext]_spaceVars PROVE SpaceInv'
    OBVIOUS
  <1>0. SpaceTypeOK' /\ Present \subseteq Present'
    BY SpaceTypeStep, PresentGrows DEF SpaceInv
  <1>1. ASSUME NEW src \in AtomIDs, NEW tgt \in AtomIDs, AddLink(src, tgt)
        PROVE  LinksJoinAtoms'
    <2>1. src \in Present /\ tgt \in Present
      BY <1>1, FoundAtom DEF AddLink, SpaceInv
    <2>2. links \in Seq(LinkRec) /\ [source |-> src, target |-> tgt] \in LinkRec
      BY RecordTypes DEF SpaceInv, SpaceTypeOK
    <2>3. /\ Len(links') = Len(links) + 1
          /\ \A i \in 1..Len(links) : links'[i] = links[i]
          /\ links'[Len(links) + 1] = [source |-> src, target |-> tgt]
      BY <1>1, <2>2, AppendProperties DEF AddLink
    <2>4. Len(links) \in Nat
      BY <2>2, LenProperties
    <2>5. \A i \in 1..Len(links') : links'[i].source \in Present
                                   /\ links'[i].target \in Present
      BY <2>1, <2>3, <2>4 DEF SpaceInv, LinksJoinAtoms
    <2>6. QED
      BY <2>5, <1>0 DEF LinksJoinAtoms
  <1>2. CASE ~\E src, tgt \in AtomIDs : AddLink(src, tgt)
    <2>1. links' = links
      BY <1>2 DEF SpaceNext, AddAtom, AttachTensor, DefineBoundary, spaceVars
    <2>2. QED
      BY <2>1, <1>0 DEF SpaceInv, LinksJoinAtoms
  <1>3. QED
    BY <1>0, <1>1, <1>2 DEF SpaceInv

(* For every value of the constants, every link of the space joins two     *)
(* atoms that are in it (the property the run space_links checks).         *)
THEOREM LinksAlwaysJoinAtoms == SpaceSpec => []LinksJoinAtoms
  <1>1. SpaceInit => SpaceInv
    BY SpaceAssumption DEF SpaceInit, SpaceInv, SpaceTypeOK, LinksJoinAtoms
  <1>2. SpaceInv => LinksJoinAtoms
    BY DEF SpaceInv
  <1>3. QED
    BY <1>1, <1>2, LinksStep, PTL DEF SpaceSpec
=============================================================================
