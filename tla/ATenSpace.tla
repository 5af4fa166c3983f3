----------------------------- MODULE ATenSpace -----------------------------
(***************************************************************************)
(* The ATenSpace hypergraph store (src/internal/atenspace/atenspace.go):   *)
(* Space.atoms, Space.links, Space.tensorStore and Space.boundaries, with  *)
(* the operations AddAtom, AddLink, AttachTensor and DefineBoundary.  Each *)
(* runs entirely under s.mu and is one atomic step.  GetAtom, GetTensor,   *)
(* GetLinksForAtom, GetBoundaries and QueryByBoundary only read and are    *)
(* operators.                                                              *)
(*                                                                         *)
(* Space.atoms holds *Atom pointers, and GetAtom hands the pointer out, so *)
(* the atoms are modelled as a heap: atoms maps an ID to a pointer and     *)
(* heap maps a pointer to the struct.  AddAtom always stores a fresh       *)
(* struct (its callers build a new &Atom{} each time).  Kept of a struct:  *)
(* Attributes and TensorID.  Type, Name, CreatedAt, a link's ID, Type,     *)
(* Strength and CreatedAt, a tensor's data and a boundary's Name, Type and *)
(* Properties are stored and never read by this code, so they are left    *)
(* out; a tensor is its ID.                                                *)
(***************************************************************************)
EXTENDS Naturals, Sequences

CONSTANTS
  AtomIDs,        \* non-empty atom identifiers
  TensorIDs,      \* non-empty tensor identifiers
  BoundaryIDs,    \* non-empty boundary identifiers
  AttrKeys,       \* keys of an atom's Attributes
  AttrVals,       \* values stored under them
  EmptyID,        \* the empty string ""
  NilRef,         \* a nil pointer argument
  Absent,         \* no atom under an ID
  Unset,          \* no value under an attribute key
  MaxAtoms,       \* number of Atom structs a run allocates
  MaxLinks,       \* longest links slice a run builds
  MaxBoundaries,  \* longest boundaries slice a run builds
  MaxMembers      \* longest AtomIDs slice of a boundary

ASSUME SpaceAssumption ==
  /\ EmptyID \notin AtomIDs \cup TensorIDs \cup BoundaryIDs
  /\ NilRef \notin AtomIDs \cup TensorIDs \cup BoundaryIDs
  /\ EmptyID # NilRef /\ Unset \notin AttrVals
  /\ Absent \notin Nat
  /\ \A n \in {MaxAtoms, MaxLinks, MaxBoundaries, MaxMembers} : n \in Nat

VARIABLES
  atoms,        \* s.atoms: atom ID -> pointer to an Atom struct, or Absent
  heap,         \* the Atom structs allocated so far, by pointer
  links,        \* s.links, in insertion order
  tensorStore,  \* the tensor IDs s.tensorStore holds
  boundaries    \* s.boundaries, in insertion order

spaceVars == <<atoms, heap, links, tensorStore, boundaries>>

Ptrs == 1..MaxAtoms

AttrMaps == [AttrKeys -> AttrVals \cup {Unset}]

(* An Atom struct: TensorID "" means no tensor.                            *)
AtomRec == [attrs : AttrMaps, tensorID : TensorIDs \cup {EmptyID}]

LinkRec == [source : AtomIDs, target : AtomIDs]

(* The AtomIDs slice of a boundary may name atoms that do not exist and    *)
(* even the empty string: DefineBoundary does not look at it.              *)
MemberLists == UNION {[1..n -> AtomIDs \cup {EmptyID}] : n \in 0..MaxMembers}

BoundaryRec == [id : BoundaryIDs, atomIDs : MemberLists]

(* The atom map after AddAtom: the atoms whose ID is in use.               *)
Present == {a \in AtomIDs : atoms[a] # Absent}

(* GetAtom(atomID): the stored pointer, or Absent ("atom not found").      *)
GetAtom(a) == IF a \in AtomIDs THEN atoms[a] ELSE Absent

(* GetTensor(atomID): the error it returns, or "ok".                       *)
GetTensor(a) ==
  IF GetAtom(a) = Absent THEN "atom not found"
  ELSE IF heap[atoms[a]].tensorID = EmptyID THEN "no tensor"
  ELSE IF heap[atoms[a]].tensorID \notin tensorStore THEN "tensor not found"
  ELSE "ok"

(* GetLinksForAtom(atomID): the links touching the atom, in order.         *)
GetLinksForAtom(a) ==
  SelectSeq(links, LAMBDA l : l.source = a \/ l.target = a)

(* The position of the first boundary with ID b, 0 when there is none:    *)
(* the loop of QueryByBoundary stops at the first match.                   *)
FirstBoundary(b) ==
  LET is == {i \in 1..Len(boundaries) : boundaries[i].id = b}
  IN  IF is = {} THEN 0 ELSE CHOOSE i \in is : \A j \in is : i <= j

(* QueryByBoundary(boundaryID): the existing atoms the first boundary with *)
(* that ID names, in its order; Absent when no boundary has the ID.        *)
QueryByBoundary(b) ==
  IF FirstBoundary(b) = 0 THEN Absent
  ELSE SelectSeq(boundaries[FirstBoundary(b)].atomIDs,
                 LAMBDA a : GetAtom(a) # Absent)

SpaceInit ==
  /\ atoms = [a \in AtomIDs |-> Absent]
  /\ heap = << >>
  /\ links = << >>
  /\ tensorStore = {}
  /\ boundaries = << >>

(* Mutant of AddAtom: the stored pointer is off by one.                   *)
AddAtomOffByOne(id, attrs, tid) ==
  /\ id \in AtomIDs
  /\ Len(heap) < MaxAtoms
  /\ heap' = Append(heap, [attrs |-> attrs, tensorID |-> tid])
  /\ atoms' = [atoms EXCEPT ![id] = Len(heap)]
  /\ UNCHANGED <<links, tensorStore, boundaries>>

(* AddAtom(atom): a nil atom or an empty ID is rejected before s.mu; else  *)
(* a nil Attributes map is replaced by an empty one and the struct is      *)
(* stored under its ID, replacing any earlier one.  attrs and tid are the  *)
(* Attributes and TensorID the caller put in the struct.                   *)
AddAtom(id, attrs, tid) ==
  /\ id \in AtomIDs
  /\ Len(heap) < MaxAtoms
  /\ heap' = Append(heap, [attrs |-> attrs, tensorID |-> tid])
  /\ atoms' = [atoms EXCEPT ![id] = Len(heap) + 1]
  /\ UNCHANGED <<links, tensorStore, boundaries>>

(* Mutant of AddLink: only the source atom is checked.                     *)
AddLinkSourceOnly(src, tgt) ==
  /\ GetAtom(src) # Absent
  /\ Len(links) < MaxLinks
  /\ links' = Append(links, [source |-> src, target |-> tgt])
  /\ UNCHANGED <<atoms, heap, tensorStore, boundaries>>

(* AddLink(link): a nil link or an empty Source or Target is rejected;     *)
(* then, under s.mu, a source or target with no atom is "not found";       *)
(* else the link is appended.                                              *)
AddLink(src, tgt) ==
  /\ GetAtom(src) # Absent
  /\ GetAtom(tgt) # Absent
  /\ Len(links) < MaxLinks
  /\ links' = Append(links, [source |-> src, target |-> tgt])
  /\ UNCHANGED <<atoms, heap, tensorStore, boundaries>>

(* AttachTensor(atomID, tensor): a nil tensor is rejected and an unknown   *)
(* atom is "not found"; else the atom's TensorID is set to the tensor's ID *)
(* and the tensor stored under that ID.  The tensor's ID is not checked:   *)
(* it may be "".                                                           *)
AttachTensor(a, tid) ==
  /\ GetAtom(a) # Absent
  /\ heap' = [heap EXCEPT ![atoms[a]].tensorID = tid]
  /\ tensorStore' = tensorStore \cup {tid}
  /\ UNCHANGED <<atoms, links, boundaries>>

(* DefineBoundary(boundary): a nil boundary or an empty ID is rejected;    *)
(* else the boundary is appended, even when one with its ID exists.        *)
DefineBoundary(b, members) ==
  /\ b \in BoundaryIDs
  /\ Len(boundaries) < MaxBoundaries
  /\ boundaries' = Append(boundaries, [id |-> b, atomIDs |-> members])
  /\ UNCHANGED <<atoms, heap, links, tensorStore>>

(* Every rejected call (nil argument, empty ID, unknown atom) returns an   *)
(* error and leaves the space as it was: a stuttering step.                *)
SpaceNext ==
  \/ \E id \in AtomIDs, attrs \in AttrMaps, tid \in TensorIDs \cup {EmptyID} :
       AddAtom(id, attrs, tid)
  \/ \E src, tgt \in AtomIDs : AddLink(src, tgt)
  \/ \E a \in AtomIDs, tid \in TensorIDs \cup {EmptyID} : AttachTensor(a, tid)
  \/ \E b \in BoundaryIDs, members \in MemberLists : DefineBoundary(b, members)

SpaceSpec == SpaceInit /\ [][SpaceNext]_spaceVars

-----------------------------------------------------------------------------
(* Every component of the space has its type.                              *)
SpaceTypeOK ==
  /\ heap \in Seq(AtomRec) /\ Len(heap) <= MaxAtoms
  /\ atoms \in [AtomIDs -> (1..Len(heap)) \cup {Absent}]
  /\ links \in Seq(LinkRec)
  /\ tensorStore \in SUBSET (TensorIDs \cup {EmptyID})
  /\ boundaries \in Seq(BoundaryRec)

(* Every link joins two atoms that are in the space, whatever order atoms  *)
(* and links were added in: AddLink checks both ends and atoms are never   *)
(* removed (only replaced under the same ID).                              *)
LinksJoinAtoms ==
  \A i \in 1..Len(links) :
    links[i].source \in Present /\ links[i].target \in Present
=============================================================================
