---------------------------- MODULE Integration ----------------------------
(***************************************************************************)
(* The unified framework (src/internal/integration/integration.go): one    *)
(* TensorLogic framework, one hypermind registry and one ATenSpace, used   *)
(* by concurrent goroutines through CreateBoundaryScope, PropagateState    *)
(* and DefineDomainBoundary.  Each of these calls the components one after *)
(* the other, with no lock of its own, so a call is a sequence of steps of *)
(* its goroutine (pc), one per component call, and the steps of several    *)
(* goroutines interleave.  A component call that runs under that           *)
(* component's lock is one step; the writes the layer does without a lock  *)
(* (Framework.Variables in RegisterVariable, atom.Attributes in            *)
(* PropagateState) are steps whose goroutine sits at the write beforehand. *)
(*                                                                         *)
(* The scope ID names the variable, the scope and the atom; the tensor ID  *)
(* scopeID + "_tensor" differs for different scope IDs, so a tensor ID is  *)
(* the scope ID it came from.                                              *)
(***************************************************************************)
EXTENDS ScopeRegistry, Sequences, FiniteSets

CONSTANTS
  Threads,        \* goroutines calling the framework
  BoundaryIDs,    \* boundary IDs passed to DefineDomainBoundary
  MaxAtoms,       \* Atom structs a run allocates
  MaxLinks,       \* unused by this layer; links stay empty
  MaxBoundaries,  \* longest boundaries slice a run builds
  MaxMembers      \* longest atomIDs slice passed to DefineDomainBoundary

ASSUME IntegrationAssumption ==
  /\ Threads # {}
  /\ \A n \in {MaxAtoms, MaxLinks, MaxBoundaries, MaxMembers} : n \in Nat
  /\ Absent \notin Nat

VARIABLES
  variables, nEquations,                          \* TensorLogic
  atoms, heap, links, tensorStore, boundaries,    \* ATenSpace
  pc,        \* where each goroutine is in its call
  arg        \* the arguments and locals of each goroutine's call

TL == INSTANCE TensorLogic WITH VarNames <- ScopeIDs, MaxEquations <- 0

AS == INSTANCE ATenSpace
        WITH AtomIDs <- ScopeIDs, TensorIDs <- ScopeIDs,
             AttrKeys <- Keys, AttrVals <- Vals

intVars == <<scopes, clock, ret, variables, nEquations,
             atoms, heap, links, tensorStore, boundaries, pc, arg>>

PCs == {"idle", "cbs_var", "cbs_scope", "cbs_atom", "cbs_tensor",
        "ps_hm", "ps_get", "ps_write", "qs_var", "qs_scope", "qs_atom"}

(* The three representations of a scope: its TensorLogic variable, its     *)
(* hypermind DistributedScope and its ATenSpace atom.                      *)
Parts == {"var", "scope", "atom"}

(* An empty State or Attributes map.                                       *)
EmptyMap == [k \in Keys |-> Unset]

(* The arguments of a call, the atom pointer PropagateState got from       *)
(* GetAtom (0 before it has one), the parts QueryScope has put into its    *)
(* ScopeInfo (found), and, as an observer's record that no code reads,     *)
(* the parts that held the scope when the query started (seen).           *)
ArgRec == [scope : ScopeIDs \cup {EmptyID}, delta : Deltas,
           ptr : 0..MaxAtoms, seen : SUBSET Parts, found : SUBSET Parts]

NewArg(s, delta) == [scope |-> s, delta |-> delta, ptr |-> 0,
                     seen |-> {}, found |-> {}]

Idle(t) == pc[t] = "idle"

(* Goroutines between the start of CreateBoundaryScope and its AddAtom:    *)
(* each will allocate one Atom struct.                                     *)
PendingAtoms == {t \in Threads : pc[t] \in {"cbs_var", "cbs_scope", "cbs_atom"}}

IntInit ==
  /\ RegInit
  /\ TL!TLInit
  /\ AS!SpaceInit
  /\ pc = [t \in Threads |-> "idle"]
  /\ arg = [t \in Threads |-> NewArg(EmptyID, << >>)]

Goto(t, where) == pc' = [pc EXCEPT ![t] = where]

(* CreateBoundaryScope(scopeID, scopeType) is called.  The guard on        *)
(* MaxAtoms is the bound of the model: every call started can allocate    *)
(* its atom.                                                               *)
StartCreate(t, s) ==
  /\ Idle(t)
  /\ Len(heap) + Cardinality(PendingAtoms) < MaxAtoms
  /\ Goto(t, "cbs_var")
  /\ arg' = [arg EXCEPT ![t] = NewArg(s, << >>)]
  /\ UNCHANGED <<scopes, clock, ret, variables, nEquations,
                 atoms, heap, links, tensorStore, boundaries>>

(* Mutant of CreateVariable: the empty-name check is dropped.              *)
CreateVariableNoNameCheck(t) ==
  /\ pc[t] = "cbs_var"
  /\ variables' = variables \cup {arg[t].scope}
  /\ Goto(t, "cbs_scope")
  /\ UNCHANGED <<scopes, clock, ret, nEquations,
                 atoms, heap, links, tensorStore, boundaries, arg>>

(* TensorLogic.RegisterVariable(&Variable{Name: scopeID}): an empty name   *)
(* is rejected and CreateBoundaryScope returns the error; else the name is *)
(* written into Framework.Variables, with no lock.                         *)
CreateVariable(t) ==
  /\ pc[t] = "cbs_var"
  /\ \/ /\ arg[t].scope = EmptyID
        /\ Goto(t, "idle")
        /\ UNCHANGED variables
     \/ /\ TL!RegisterVariable(arg[t].scope)
        /\ Goto(t, "cbs_scope")
  /\ UNCHANGED <<scopes, clock, ret, nEquations,
                 atoms, heap, links, tensorStore, boundaries, arg>>

(* Hypermind.RegisterScope(&DistributedScope{ID: scopeID}): State nil.     *)
CreateScope(t) ==
  /\ pc[t] = "cbs_scope"
  /\ RegisterScope(arg[t].scope, EmptyMap)
  /\ Goto(t, "cbs_atom")
  /\ UNCHANGED <<variables, nEquations,
                 atoms, heap, links, tensorStore, boundaries, arg>>

(* ATenSpace.AddAtom(&Atom{ID: scopeID}): a fresh struct, no attributes,  *)
(* no tensor.                                                              *)
CreateAtom(t) ==
  /\ pc[t] = "cbs_atom"
  /\ AS!AddAtom(arg[t].scope, EmptyMap, EmptyID)
  /\ Goto(t, "cbs_tensor")
  /\ UNCHANGED <<scopes, clock, ret, variables, nEquations, arg>>

(* Mutant of CreateTensor: the tensor is built without its ID.            *)
CreateTensorNoID(t) ==
  /\ pc[t] = "cbs_tensor"
  /\ AS!AttachTensor(arg[t].scope, EmptyID)
  /\ Goto(t, "idle")
  /\ UNCHANGED <<scopes, clock, ret, variables, nEquations, arg>>

(* ATenSpace.AttachTensor(scopeID, &Tensor{ID: scopeID + "_tensor"}),     *)
(* then CreateBoundaryScope returns.                                       *)
CreateTensor(t) ==
  /\ pc[t] = "cbs_tensor"
  /\ AS!AttachTensor(arg[t].scope, arg[t].scope)
  /\ Goto(t, "idle")
  /\ UNCHANGED <<scopes, clock, ret, variables, nEquations, arg>>

(* PropagateState(scopeID, state) is called.                               *)
StartPropagate(t, s, delta) ==
  /\ Idle(t)
  /\ Goto(t, "ps_hm")
  /\ arg' = [arg EXCEPT ![t] = NewArg(s, delta)]
  /\ UNCHANGED <<scopes, clock, ret, variables, nEquations,
                 atoms, heap, links, tensorStore, boundaries>>

(* Mutant of PropagateHypermind: an unknown scope is created from the      *)
(* delta instead of failing.                                               *)
PropagateHypermindUpsert(t) ==
  /\ pc[t] = "ps_hm"
  /\ \/ /\ Lookup(arg[t].scope) = Absent
        /\ RegisterScope(arg[t].scope, Merge(EmptyMap, arg[t].delta))
        /\ Goto(t, "ps_get")
     \/ /\ PropagateState(arg[t].scope, arg[t].delta)
        /\ Goto(t, "ps_get")
  /\ UNCHANGED <<variables, nEquations,
                 atoms, heap, links, tensorStore, boundaries, arg>>

(* Hypermind.PropagateState(scopeID, state): "not found" ends the call;   *)
(* else the scope's State is merged, and that is not undone if a later     *)
(* step fails.                                                             *)
PropagateHypermind(t) ==
  /\ pc[t] = "ps_hm"
  /\ \/ /\ PropagateStateNotFound(arg[t].scope)
        /\ Goto(t, "idle")
     \/ /\ PropagateState(arg[t].scope, arg[t].delta)
        /\ Goto(t, "ps_get")
  /\ UNCHANGED <<variables, nEquations,
                 atoms, heap, links, tensorStore, boundaries, arg>>

(* ATenSpace.GetAtom(scopeID) under the read lock: "not found" ends the    *)
(* call with an error; else the goroutine keeps the *Atom pointer.         *)
PropagateGetAtom(t) ==
  /\ pc[t] = "ps_get"
  /\ \/ /\ AS!GetAtom(arg[t].scope) = Absent
        /\ Goto(t, "idle")
        /\ UNCHANGED arg
     \/ /\ AS!GetAtom(arg[t].scope) # Absent
        /\ Goto(t, "ps_write")
        /\ arg' = [arg EXCEPT ![t].ptr = atoms[arg[t].scope]]
  /\ UNCHANGED <<scopes, clock, ret, variables, nEquations,
                 atoms, heap, links, tensorStore, boundaries>>

(* Mutant of PropagateWrite: Attributes replaced by the delta.            *)
PropagateWriteReplace(t) ==
  /\ pc[t] = "ps_write"
  /\ heap' = [heap EXCEPT ![arg[t].ptr].attrs = arg[t].delta]
  /\ Goto(t, "idle")
  /\ UNCHANGED <<scopes, clock, ret, variables, nEquations,
                 atoms, links, tensorStore, boundaries, arg>>

(* `for k, v := range state { atom.Attributes[k] = v }` through the        *)
(* pointer, with no lock: the struct may no longer be the one stored       *)
(* under the ID.  Then PropagateState returns.                             *)
PropagateWrite(t) ==
  /\ pc[t] = "ps_write"
  /\ heap' = [heap EXCEPT ![arg[t].ptr].attrs = Merge(@, arg[t].delta)]
  /\ Goto(t, "idle")
  /\ UNCHANGED <<scopes, clock, ret, variables, nEquations,
                 atoms, links, tensorStore, boundaries, arg>>

(* The parts of the framework that hold scope s.                          *)
Holding(s) ==
  {p \in Parts : \/ p = "var" /\ TL!Evaluate(s)
                 \/ p = "scope" /\ Lookup(s) # Absent
                 \/ p = "atom" /\ AS!GetAtom(s) # Absent}

(* QueryScope(scopeID) is called; it builds ScopeInfo{ID: scopeID}.       *)
StartQuery(t, s) ==
  /\ Idle(t)
  /\ Goto(t, "qs_var")
  /\ arg' = [arg EXCEPT ![t] = [NewArg(s, << >>) EXCEPT !.seen = Holding(s)]]
  /\ UNCHANGED <<scopes, clock, ret, variables, nEquations,
                 atoms, heap, links, tensorStore, boundaries>>

(* Put part p into the ScopeInfo when `found' holds, then go on to next:   *)
(* an error of the component call only leaves the field nil.               *)
QueryRead(t, p, found, next) ==
  /\ arg' = [arg EXCEPT ![t].found = IF found THEN @ \cup {p} ELSE @]
  /\ Goto(t, next)
  /\ UNCHANGED <<scopes, clock, ret, variables, nEquations,
                 atoms, heap, links, tensorStore, boundaries>>

(* TensorLogic.Evaluate(scopeID); Framework has no lock, but the read is   *)
(* one step: the racing write is caught by NoUnlockedConcurrentWrite.      *)
QueryVariable(t) ==
  /\ pc[t] = "qs_var"
  /\ QueryRead(t, "var", TL!Evaluate(arg[t].scope), "qs_scope")

(* Hypermind.GetScope(scopeID) under the registry's read lock.            *)
QueryHypermind(t) ==
  /\ pc[t] = "qs_scope"
  /\ QueryRead(t, "scope", Lookup(arg[t].scope) # Absent, "qs_atom")

(* Mutant of QueryAtom: the error check is inverted.                      *)
QueryAtomInverted(t) ==
  /\ pc[t] = "qs_atom"
  /\ QueryRead(t, "atom", AS!GetAtom(arg[t].scope) = Absent, "idle")

(* ATenSpace.GetAtom(scopeID) under the space's read lock; then QueryScope *)
(* returns the ScopeInfo with a nil error.                                 *)
QueryAtom(t) ==
  /\ pc[t] = "qs_atom"
  /\ QueryRead(t, "atom", AS!GetAtom(arg[t].scope) # Absent, "idle")

(* DefineDomainBoundary(boundaryID, boundaryType, atomIDs): one call of    *)
(* ATenSpace.DefineBoundary; an empty boundary ID is rejected (a stutter). *)
DefineDomainBoundary(t, b, members) ==
  /\ Idle(t)
  /\ AS!DefineBoundary(b, members)
  /\ UNCHANGED <<scopes, clock, ret, variables, nEquations, pc, arg>>

IntNext ==
  \E t \in Threads :
    \/ \E s \in ScopeIDs \cup {EmptyID} :
         \/ StartCreate(t, s)
         \/ \E delta \in Deltas : StartPropagate(t, s, delta)
         \/ StartQuery(t, s)
    \/ CreateVariable(t)
    \/ CreateScope(t)
    \/ CreateAtom(t)
    \/ CreateTensor(t)
    \/ PropagateHypermind(t)
    \/ PropagateGetAtom(t)
    \/ PropagateWrite(t)
    \/ QueryVariable(t)
    \/ QueryHypermind(t)
    \/ QueryAtom(t)
    \/ \E b \in BoundaryIDs, members \in AS!MemberLists :
         DefineDomainBoundary(t, b, members)

IntSpec == IntInit /\ [][IntNext]_intVars

(* The only caller of RegisterScope, CreateBoundaryScope, passes a nil     *)
(* State, which the registry replaces by an empty map.                     *)
Store == INSTANCE ScopeStore WITH store <- StoreView, InitialStates <- {EmptyMap}

-----------------------------------------------------------------------------
(* Every component of the framework and every goroutine has its type.     *)
IntTypeOK ==
  /\ RegTypeOK
  /\ TL!TLTypeOK
  /\ AS!SpaceTypeOK
  /\ pc \in [Threads -> PCs]
  /\ arg \in [Threads -> ArgRec]

Quiescent == \A t \in Threads : Idle(t)

(* When no call is in progress, every scope CreateBoundaryScope created    *)
(* exists in all three frameworks and its atom has a retrievable tensor    *)
(* (what TestUnifiedFramework_CreateBoundaryScope checks), whatever calls  *)
(* of other goroutines on the same scope interleaved with its steps.       *)
CreatedScopeComplete ==
  Quiescent =>
    /\ variables = Registered
    /\ Registered = AS!Present
    /\ \A s \in AS!Present : AS!GetTensor(s) = "ok"

(* When no call is in progress, the State of every scope equals the        *)
(* Attributes of the atom stored under its ID: PropagateState wrote the    *)
(* same delta into both (what TestUnifiedFramework_PropagateState and the  *)
(* complex scenario check).                                                *)
ScopeAtomAgree ==
  Quiescent =>
    \A s \in Registered \cap AS!Present : scopes[s].state = heap[atoms[s]].attrs

(* Framework.RegisterVariable writes Framework.Variables with no lock: two *)
(* goroutines in CreateBoundaryScope with valid IDs write the map at once.*)
VariablesWriteRace(t, u) ==
  /\ pc[t] = "cbs_var" /\ pc[u] = "cbs_var"
  /\ arg[t].scope # EmptyID /\ arg[u].scope # EmptyID

(* PropagateState writes atom.Attributes with no lock: two goroutines     *)
(* holding the same *Atom with non-empty deltas write the map at once.    *)
AttributesWriteRace(t, u) ==
  /\ pc[t] = "ps_write" /\ pc[u] = "ps_write"
  /\ arg[t].ptr = arg[u].ptr
  /\ arg[t].delta # << >> /\ arg[u].delta # << >>

(* Section 5 of the spec, for the map that PropagateState writes: no two   *)
(* goroutines ever write the same atom's Attributes map at once (the Go    *)
(* runtime aborts on "concurrent map writes").  Two PropagateState calls   *)
(* on one scope reach the unlocked loop over atom.Attributes together.    *)
NoUnlockedAttributesWrite ==
  \A t, u \in Threads : t # u => ~AttributesWriteRace(t, u)

(* Section 5 of the spec: no shared map is written without its owner's     *)
(* lock held, so no two goroutines can be writing the same Go map at once  *)
(* (the runtime aborts on "concurrent map writes").  Framework.Variables   *)
(* and atom.Attributes are written with no lock.                           *)
NoUnlockedConcurrentWrite ==
  \A t, u \in Threads :
    t # u => ~VariablesWriteRace(t, u) /\ ~AttributesWriteRace(t, u)

(* The registry, as the unified framework drives it, implements the scope  *)
(* store: a scope's State is the empty map CreateBoundaryScope registers,  *)
(* followed by the deltas of PropagateState calls merged key by key, and   *)
(* no rejected or failing call (empty ID, unknown scope) changes a State,  *)
(* however the steps of concurrent calls interleave.                       *)
StoreRefinement == Store!StoreSpec

(* TestUnifiedFramework_QueryScope: a QueryScope of a scope that           *)
(* CreateBoundaryScope has put into all three frameworks returns the       *)
(* variable, the scope and the atom, however other goroutines' creations   *)
(* and propagations of the same scope interleave with its three reads:     *)
(* no call ever removes a part.                                            *)
QueryAfterCreateComplete ==
  \A t \in Threads : Idle(t) /\ arg[t].seen = Parts => arg[t].found = Parts

(* The QueryScope tests assert either all three parts of a created scope   *)
(* or none of an unknown one.  The three reads take three different locks  *)
(* one after the other, so a query that overlaps CreateBoundaryScope can   *)
(* return some of the parts.                                               *)
QueryAllOrNothing ==
  \A t \in Threads : Idle(t) => arg[t].found \in {{}, Parts}
=============================================================================
