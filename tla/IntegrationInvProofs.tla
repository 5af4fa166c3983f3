------------------------ MODULE IntegrationInvProofs ------------------------
(***************************************************************************)
(* Proofs of the safety invariants of the unified framework that hold with *)
(* any number of goroutines: the type invariant, CreatedScopeComplete and  *)
(* QueryAfterCreateComplete.  Neither of the last two is inductive: both   *)
(* talk about the moments when calls have returned, and what makes them    *)
(* true then is what the goroutines still inside a call are about to do.   *)
(*                                                                         *)
(* CreateInv: CreateBoundaryScope builds a scope in the order variable,    *)
(* scope, atom, tensor, nothing ever removes a part, and a scope that has  *)
(* one part and not the next has a goroutine about to add the next part.   *)
(* QueryInv: the parts of a scope only grow, so a query that started with  *)
(* all three parts present has found exactly the parts it has read.        *)
(***************************************************************************)
EXTENDS IntegrationProofs, SequenceTheorems

(* The type of everything but the registry, whose type RegTypeOK the     *)
(* registry's own proof gives.                                             *)
RestTypeOK ==
  /\ TL!TLTypeOK
  /\ AS!SpaceTypeOK
  /\ pc \in [Threads -> PCs]
  /\ arg \in [Threads -> ArgRec]

LEMMA TypeSplit == IntTypeOK <=> RegTypeOK /\ RestTypeOK
  BY DEF IntTypeOK, RestTypeOK

(* A well-typed argument record carries a scope ID and a delta.            *)
LEMMA TypeArgs == RestTypeOK => CallArgsOK
  BY DEF RestTypeOK, ArgRec, CallArgsOK

(* Moving a goroutine to a program point keeps pc well typed.              *)
LEMMA GotoType ==
  ASSUME pc \in [Threads -> PCs], NEW t \in Threads, NEW w \in PCs, Goto(t, w)
  PROVE  pc' \in [Threads -> PCs]
  BY DEF Goto

(* The records a call starts with are well typed.                          *)
LEMMA NewArgType ==
  ASSUME NEW s \in ScopeIDs \cup {EmptyID}, NEW delta \in Deltas
  PROVE  /\ NewArg(s, delta) \in ArgRec
         /\ [NewArg(s, delta) EXCEPT !.seen = Holding(s)] \in ArgRec
  <1>1. 0 \in 0..MaxAtoms /\ Holding(s) \subseteq Parts
    BY IntegrationAssumption DEF Holding
  <1>2. QED
    BY <1>1 DEF NewArg, ArgRec

(* Writing a field of one goroutine's record within its type keeps arg    *)
(* well typed.                                                             *)
LEMMA ArgFieldType ==
  ASSUME arg \in [Threads -> ArgRec], NEW t \in Threads,
         NEW f \in {"ptr", "found"}, NEW v,
         f = "ptr" => v \in 0..MaxAtoms, f = "found" => v \in SUBSET Parts,
         arg' = [arg EXCEPT ![t] = [@ EXCEPT ![f] = v]]
  PROVE  arg' \in [Threads -> ArgRec]
  BY DEF ArgRec

(* The steps of the space the framework takes keep the space well typed:  *)
(* CreateAtom, CreateTensor, DefineDomainBoundary and PropagateWrite.      *)
LEMMA AddAtomType ==
  ASSUME AS!SpaceTypeOK, NEW s \in ScopeIDs, AS!AddAtom(s, EmptyMap, EmptyID)
  PROVE  AS!SpaceTypeOK'
  <1> DEFINE rec == [attrs |-> EmptyMap, tensorID |-> EmptyID]
  <1>0. Len(heap) \in Nat /\ MaxAtoms \in Nat
    BY IntegrationAssumption DEF AS!SpaceTypeOK
  <1>1. rec \in AS!AtomRec
    BY DEF AS!AtomRec, AS!AttrMaps, EmptyMap
  <1>2. heap' \in Seq(AS!AtomRec) /\ Len(heap') = Len(heap) + 1
    BY <1>1, AppendProperties DEF AS!AddAtom, AS!SpaceTypeOK
  <1>3. Len(heap') <= MaxAtoms
    BY <1>0, <1>2 DEF AS!AddAtom
  <1>4. atoms' \in [ScopeIDs -> (1..Len(heap')) \cup {Absent}]
    BY <1>0, <1>2 DEF AS!AddAtom, AS!SpaceTypeOK
  <1>5. QED
    BY <1>2, <1>3, <1>4 DEF AS!AddAtom, AS!SpaceTypeOK

LEMMA AttachTensorType ==
  ASSUME AS!SpaceTypeOK, NEW s \in ScopeIDs, AS!AttachTensor(s, s)
  PROVE  AS!SpaceTypeOK'
  <1> DEFINE p == atoms[s]
             new == [heap[p] EXCEPT !.tensorID = s]
  <1>1. p \in 1..Len(heap)
    BY IntegrationAssumption DEF AS!AttachTensor, AS!GetAtom, AS!SpaceTypeOK
  <1>2. heap[p] \in AS!AtomRec
    BY <1>1, LenProperties DEF AS!SpaceTypeOK
  <1>3. new \in AS!AtomRec
    BY <1>2 DEF AS!AtomRec
  <1>4. heap' = [heap EXCEPT ![p] = new]
    BY DEF AS!AttachTensor
  <1>5. heap' \in Seq(AS!AtomRec) /\ Len(heap') = Len(heap)
    BY <1>1, <1>3, <1>4, ExceptSeq DEF AS!SpaceTypeOK
  <1>6. QED
    BY <1>5 DEF AS!AttachTensor, AS!SpaceTypeOK

LEMMA DefineBoundaryType ==
  ASSUME AS!SpaceTypeOK, NEW b \in BoundaryIDs, NEW members \in AS!MemberLists,
         AS!DefineBoundary(b, members)
  PROVE  AS!SpaceTypeOK'
  <1>1. [id |-> b, atomIDs |-> members] \in AS!BoundaryRec
    BY DEF AS!BoundaryRec
  <1>2. QED
    BY <1>1, AppendProperties DEF AS!DefineBoundary, AS!SpaceTypeOK

(* PropagateWrite merges the delta into the Attributes of the struct its   *)
(* pointer names; a pointer outside the heap changes nothing.              *)
LEMMA WriteType ==
  ASSUME AS!SpaceTypeOK, NEW ptr, NEW delta \in Deltas,
         heap' = [heap EXCEPT ![ptr].attrs = Merge(@, delta)]
  PROVE  heap' \in Seq(AS!AtomRec) /\ Len(heap') = Len(heap)
  <1>1. CASE ptr \in 1..Len(heap)
    <2>1. heap[ptr] \in AS!AtomRec
      BY <1>1, LenProperties DEF AS!SpaceTypeOK
    <2>2. Merge(heap[ptr].attrs, delta) \in StateMaps
      BY <2>1, MergeType DEF AS!AtomRec, AS!AttrMaps, StateMaps
    <2>3. [heap[ptr] EXCEPT !.attrs = Merge(heap[ptr].attrs, delta)] \in AS!AtomRec
      BY <2>1, <2>2 DEF AS!AtomRec, AS!AttrMaps, StateMaps
    <2>4. heap' = [heap EXCEPT ![ptr] = [heap[ptr] EXCEPT !.attrs = Merge(heap[ptr].attrs, delta)]]
      OBVIOUS
    <2>5. QED
      BY <1>1, <2>3, <2>4, ExceptSeq DEF AS!SpaceTypeOK
  <1>2. CASE ptr \notin 1..Len(heap)
    <2>1. DOMAIN heap = 1..Len(heap)
      BY LenProperties DEF AS!SpaceTypeOK
    <2>2. heap' = heap
      BY <1>2, <2>1 DEF AS!SpaceTypeOK
    <2>3. QED
      BY <2>2 DEF AS!SpaceTypeOK
  <1>3. QED
    BY <1>1, <1>2

(* Every step of the framework keeps it well typed.                        *)
LEMMA IntTypeStep == IntTypeOK /\ [IntNext]_intVars => IntTypeOK'
  <1> SUFFICES ASSUME RegTypeOK, RestTypeOK, [IntNext]_intVars
               PROVE  RegTypeOK' /\ RestTypeOK'
    BY DEF IntTypeOK, RestTypeOK
  <1>0. RegTypeOK'
    BY TypeArgs, RegistryStep, TypeStep
  <1> SUFFICES RestTypeOK'
    BY <1>0
  <1>a. /\ TL!TLTypeOK /\ AS!SpaceTypeOK
        /\ pc \in [Threads -> PCs] /\ arg \in [Threads -> ArgRec]
    BY DEF RestTypeOK
  <1>1. ASSUME NEW t \in Threads, NEW s \in ScopeIDs \cup {EmptyID},
               \/ StartCreate(t, s) \/ StartQuery(t, s)
               \/ \E delta \in Deltas : StartPropagate(t, s, delta)
        PROVE  RestTypeOK'
    <2>1. PICK r \in ArgRec, w \in PCs :
            /\ Goto(t, w) /\ arg' = [arg EXCEPT ![t] = r]
            /\ UNCHANGED <<variables, nEquations, atoms, heap, links,
                           tensorStore, boundaries>>
      BY <1>1, NewArgType, EmptyMaps DEF StartCreate, StartQuery, StartPropagate, PCs
    <2>2. QED
      BY <1>a, <2>1, GotoType DEF RestTypeOK, TL!TLTypeOK, AS!SpaceTypeOK
  <1>2. ASSUME NEW t \in Threads, CreateVariable(t)
        PROVE  RestTypeOK'
    <2>1. variables' \subseteq ScopeIDs
      BY <1>a, <1>2 DEF CreateVariable, TL!RegisterVariable, TL!TLTypeOK
    <2>2. PICK w \in PCs : Goto(t, w)
      BY <1>2 DEF CreateVariable, PCs
    <2>3. QED
      BY <1>a, <1>2, <2>1, <2>2, GotoType
         DEF CreateVariable, TL!RegisterVariable, RestTypeOK, TL!TLTypeOK, AS!SpaceTypeOK
  <1>3. ASSUME NEW t \in Threads, CreateScope(t) \/ PropagateHypermind(t)
        PROVE  RestTypeOK'
    <2>1. PICK w \in PCs : Goto(t, w)
      BY <1>3 DEF CreateScope, PropagateHypermind, PCs
    <2>2. QED
      BY <1>a, <1>3, <2>1, GotoType
         DEF CreateScope, PropagateHypermind, RestTypeOK, TL!TLTypeOK, AS!SpaceTypeOK
  <1>4. ASSUME NEW t \in Threads, CreateAtom(t)
        PROVE  RestTypeOK'
    <2>1. arg[t].scope \in ScopeIDs
      BY <1>4 DEF CreateAtom, AS!AddAtom
    <2>2. AS!SpaceTypeOK'
      BY <1>a, <1>4, <2>1, AddAtomType DEF CreateAtom
    <2>3. QED
      BY <1>a, <1>4, <2>2, GotoType DEF CreateAtom, RestTypeOK, TL!TLTypeOK, PCs
  <1>5. ASSUME NEW t \in Threads, CreateTensor(t)
        PROVE  RestTypeOK'
    <2>1. arg[t].scope \in ScopeIDs
      BY <1>5 DEF CreateTensor, AS!AttachTensor, AS!GetAtom
    <2>2. AS!SpaceTypeOK'
      BY <1>a, <1>5, <2>1, AttachTensorType DEF CreateTensor
    <2>3. QED
      BY <1>a, <1>5, <2>2, GotoType DEF CreateTensor, RestTypeOK, TL!TLTypeOK, PCs
  <1>6. ASSUME NEW t \in Threads, PropagateGetAtom(t)
        PROVE  RestTypeOK'
    <2>1. PICK w \in PCs : Goto(t, w)
      BY <1>6 DEF PropagateGetAtom, PCs
    <2>2. arg' \in [Threads -> ArgRec]
      <3>1. CASE arg' = arg
        BY <1>a, <3>1
      <3>2. CASE AS!GetAtom(arg[t].scope) # Absent
                 /\ arg' = [arg EXCEPT ![t].ptr = atoms[arg[t].scope]]
        <4>1. atoms[arg[t].scope] \in 0..MaxAtoms
          BY <1>a, <3>2, IntegrationAssumption DEF AS!GetAtom, AS!SpaceTypeOK
        <4>2. QED
          BY <1>a, <3>2, <4>1, ArgFieldType
      <3>3. QED
        BY <1>6, <3>1, <3>2 DEF PropagateGetAtom
    <2>3. QED
      BY <1>a, <1>6, <2>1, <2>2, GotoType
         DEF PropagateGetAtom, RestTypeOK, TL!TLTypeOK, AS!SpaceTypeOK
  <1>7. ASSUME NEW t \in Threads, PropagateWrite(t)
        PROVE  RestTypeOK'
    <2>1. arg[t].delta \in Deltas
      BY <1>a DEF ArgRec
    <2>2. heap' \in Seq(AS!AtomRec) /\ Len(heap') = Len(heap)
      BY <1>a, <1>7, <2>1, WriteType DEF PropagateWrite
    <2>3. AS!SpaceTypeOK'
      BY <1>a, <1>7, <2>2 DEF PropagateWrite, AS!SpaceTypeOK
    <2>4. QED
      BY <1>a, <1>7, <2>3, GotoType DEF PropagateWrite, RestTypeOK, TL!TLTypeOK, PCs
  <1>8. ASSUME NEW t \in Threads,
               QueryVariable(t) \/ QueryHypermind(t) \/ QueryAtom(t)
        PROVE  RestTypeOK'
    <2>1. PICK p \in Parts, found \in BOOLEAN, w \in PCs :
            /\ arg' = [arg EXCEPT ![t].found = IF found THEN @ \cup {p} ELSE @]
            /\ Goto(t, w)
            /\ UNCHANGED <<variables, nEquations, atoms, heap, links,
                           tensorStore, boundaries>>
      BY <1>8 DEF QueryVariable, QueryHypermind, QueryAtom, QueryRead, Parts, PCs
    <2>2. (IF found THEN arg[t].found \cup {p} ELSE arg[t].found) \in SUBSET Parts
      BY <1>a DEF ArgRec
    <2>3. arg' \in [Threads -> ArgRec]
      BY <1>a, <2>1, <2>2, ArgFieldType
    <2>4. QED
      BY <1>a, <2>1, <2>3, GotoType DEF RestTypeOK, TL!TLTypeOK, AS!SpaceTypeOK
  <1>9. ASSUME NEW t \in Threads, NEW b \in BoundaryIDs,
               NEW members \in AS!MemberLists, DefineDomainBoundary(t, b, members)
        PROVE  RestTypeOK'
    BY <1>a, <1>9, DefineBoundaryType
       DEF DefineDomainBoundary, RestTypeOK, TL!TLTypeOK
  <1>10. CASE UNCHANGED intVars
    BY <1>a, <1>10 DEF intVars, RestTypeOK, TL!TLTypeOK, AS!SpaceTypeOK
  <1>11. QED
    BY <1>1, <1>2, <1>3, <1>4, <1>5, <1>6, <1>7, <1>8, <1>9, <1>10 DEF IntNext

(* The initial state is well typed.                                        *)
LEMMA IntTypeInit == IntInit => IntTypeOK
  <1> SUFFICES ASSUME IntInit PROVE IntTypeOK
    OBVIOUS
  <1>1. RegTypeOK
    BY BaseAssumption DEF IntInit, RegInit, RegTypeOK, Times, RetKinds
  <1>2. NewArg(EmptyID, << >>) \in ArgRec
    BY NewArgType, EmptyMaps
  <1>3. RestTypeOK
    BY <1>2, IntegrationAssumption
       DEF IntInit, TL!TLInit, AS!SpaceInit, RestTypeOK, TL!TLTypeOK,
           AS!SpaceTypeOK, PCs
  <1>4. QED
    BY <1>1, <1>3, TypeSplit

(* For every value of the constants, the framework is well typed in every  *)
(* reachable state (the invariant IntTypeOK the run int_concurrent        *)
(* checks), whatever the number of goroutines and their interleaving.      *)
THEOREM IntTypeCorrect == IntSpec => []IntTypeOK
  BY IntTypeInit, IntTypeStep, PTL DEF IntSpec

CreatingAt(at, s) == {t \in Threads : pc[t] = at /\ arg[t].scope = s}

(* The program points of CreateBoundaryScope after its variable exists.    *)
CbsPCs == {"cbs_scope", "cbs_atom", "cbs_tensor"}

(* Two IDs of the space never share an Atom struct: AddAtom always stores  *)
(* a fresh one.                                                            *)
AtomsDistinct ==
  \A a, b \in AS!Present : a # b => atoms[a] # atoms[b]

(* A goroutine inside CreateBoundaryScope has added the parts before its   *)
(* program point.                                                          *)
CreateOK(t) ==
  /\ pc[t] \in CbsPCs => arg[t].scope \in variables
  /\ pc[t] \in {"cbs_atom", "cbs_tensor"} => arg[t].scope \in Registered
  /\ pc[t] = "cbs_tensor" => arg[t].scope \in AS!Present

CreateInv ==
  /\ \A t \in Threads : CreateOK(t)
  /\ Registered \subseteq variables
  /\ AS!Present \subseteq Registered
  /\ \A s \in variables \ Registered : CreatingAt("cbs_scope", s) # {}
  /\ \A s \in Registered \ AS!Present : CreatingAt("cbs_atom", s) # {}
  /\ \A s \in AS!Present :
       AS!GetTensor(s) = "ok" \/ CreatingAt("cbs_tensor", s) # {}

(* The parts QueryScope has read when it is at pc p.                       *)
ReadSoFar(p) ==
  CASE p = "qs_var"   -> {}
    [] p = "qs_scope" -> {"var"}
    [] p = "qs_atom"  -> {"var", "scope"}
    [] OTHER          -> Parts

(* Only a QueryScope, running or returned, has a non-empty seen; one that  *)
(* saw all three parts still sees them and has found what it has read.     *)
QueryOK(t) ==
  /\ pc[t] \notin {"qs_var", "qs_scope", "qs_atom", "idle"} => arg[t].seen = {}
  /\ arg[t].seen = Parts =>
       /\ Holding(arg[t].scope) = Parts
       /\ arg[t].found = ReadSoFar(pc[t])

QueryInv == \A t \in Threads : QueryOK(t)

IntInv == IntTypeOK /\ AtomsDistinct /\ CreateInv /\ QueryInv

-----------------------------------------------------------------------------
(* A scope is held by all three parts exactly when it is a variable, a     *)
(* registered scope and a present atom.                                    *)
LEMMA HoldingAll ==
  ASSUME NEW s
  PROVE  Holding(s) = Parts <=>
           s \in variables /\ s \in Registered /\ s \in AS!Present
  BY DEF Holding, Parts, TL!Evaluate, Lookup, Registered, AS!GetAtom, AS!Present

(* RegisterScope adds its ID to the registered scopes and removes none.    *)
LEMMA RegisterAdds ==
  ASSUME RegTypeOK, NEW id \in ScopeIDs, NEW st \in StateMaps,
         RegisterScope(id, st)
  PROVE  Registered' = Registered \cup {id}
  <1>1. PICK c \in Now : \E u \in NowAfter(c) :
          scopes' = [scopes EXCEPT ![id] = [state |-> st, created |-> c, updated |-> u]]
    BY DEF RegisterScope
  <1>2. PICK u \in NowAfter(c) :
          scopes' = [scopes EXCEPT ![id] = [state |-> st, created |-> c, updated |-> u]]
    BY <1>1
  <1>3. [state |-> st, created |-> c, updated |-> u] \in ScopeRec
    BY <1>2, NowInTimes DEF ScopeRec, RegTypeOK
  <1>4. scopes'[id] # Absent
    BY <1>2, <1>3, AbsentAssumption DEF RegTypeOK
  <1>5. \A s \in ScopeIDs \ {id} : scopes'[s] = scopes[s]
    BY <1>2 DEF RegTypeOK
  <1>6. QED
    BY <1>4, <1>5 DEF Registered

(* PropagateState changes a registered scope and registers none.           *)
LEMMA PropagateKeeps ==
  ASSUME RegTypeOK, NEW id, NEW delta \in Deltas, PropagateState(id, delta)
  PROVE  Registered' = Registered
  <1>1. id \in ScopeIDs /\ scopes[id] \in ScopeRec
    BY AbsentAssumption DEF PropagateState, Lookup, RegTypeOK
  <1>2. PICK u \in Now :
          scopes' = [scopes EXCEPT ![id].state = Merge(@, delta), ![id].updated = u]
    BY DEF PropagateState
  <1>3. scopes[id].state \in StateMaps
    BY <1>1 DEF ScopeRec
  <1>4. scopes'[id] \in ScopeRec
    BY <1>1, <1>2, <1>3, MergeType, NowInTimes DEF ScopeRec, RegTypeOK
  <1>5. scopes'[id] # Absent /\ scopes[id] # Absent
    BY <1>1, <1>4, AbsentAssumption
  <1>6. \A s \in ScopeIDs \ {id} : scopes'[s] = scopes[s]
    BY <1>2 DEF RegTypeOK
  <1>7. QED
    BY <1>1, <1>5, <1>6 DEF Registered

(* AddAtom makes its ID present, at a fresh pointer past the end of the    *)
(* heap, and leaves every other ID's pointer and every existing struct.    *)
LEMMA AddAtomAdds ==
  ASSUME AS!SpaceTypeOK, NEW id, NEW attrs, NEW tid, AS!AddAtom(id, attrs, tid)
  PROVE  /\ AS!Present' = AS!Present \cup {id}
         /\ atoms'[id] = Len(heap) + 1
         /\ \A a \in AS!Present : a # id => atoms'[a] = atoms[a]
         /\ \A p \in 1..Len(heap) : heap'[p] = heap[p]
  <1>1. Len(heap) + 1 \in Nat /\ Len(heap) + 1 # Absent
    BY IntegrationAssumption DEF AS!SpaceTypeOK
  <1>2. atoms'[id] = Len(heap) + 1 /\ \A a \in ScopeIDs \ {id} : atoms'[a] = atoms[a]
    BY DEF AS!AddAtom, AS!SpaceTypeOK
  <1>3. \A p \in 1..Len(heap) : heap'[p] = heap[p]
    BY AppendProperties DEF AS!AddAtom, AS!SpaceTypeOK
  <1>4. QED
    BY <1>1, <1>2, <1>3 DEF AS!AddAtom, AS!Present

(* No step of the framework removes a variable, a scope or an atom.        *)
LEMMA Grows ==
  ASSUME IntTypeOK, [IntNext]_intVars
  PROVE  /\ variables \subseteq variables'
         /\ Registered \subseteq Registered'
         /\ AS!Present \subseteq AS!Present'
  <1>1. Registered \subseteq Registered'
    <2>1. [RegNext]_regVars
      BY RegistryStep, TypeArgs, TypeSplit
    <2>2. RegTypeOK
      BY DEF IntTypeOK
    <2>3. ASSUME NEW id \in ScopeIDs, NEW st \in StateMaps, RegisterScope(id, st)
          PROVE  Registered \subseteq Registered'
      BY <2>2, <2>3, RegisterAdds
    <2>4. ASSUME NEW id, NEW delta \in Deltas, PropagateState(id, delta)
          PROVE  Registered \subseteq Registered'
      BY <2>2, <2>4, PropagateKeeps
    <2>5. CASE UNCHANGED scopes
      BY <2>5 DEF Registered
    <2>6. QED
      BY <2>1, <2>3, <2>4, <2>5 DEF RegNext, regVars,
         RegisterScopeRejected, PropagateStateNotFound
  <1>2. AS!Present \subseteq AS!Present'
    <2>1. CASE \E t \in Threads : CreateAtom(t)
      BY <2>1, AddAtomAdds DEF CreateAtom, IntTypeOK
    <2>2. CASE ~\E t \in Threads : CreateAtom(t)
      BY <2>2 DEF IntNext, intVars, AS!Present, StartCreate, StartPropagate,
         StartQuery, CreateVariable, CreateScope, CreateTensor, AS!AttachTensor,
         PropagateHypermind, PropagateGetAtom, PropagateWrite, QueryVariable,
         QueryHypermind, QueryAtom, QueryRead, DefineDomainBoundary,
         AS!DefineBoundary
    <2>3. QED
      BY <2>1, <2>2
  <1>3. variables \subseteq variables'
    BY DEF IntNext, intVars, StartCreate, StartPropagate, StartQuery,
       CreateVariable, TL!RegisterVariable, CreateScope, CreateAtom,
       CreateTensor, PropagateHypermind, PropagateGetAtom, PropagateWrite,
       QueryVariable, QueryHypermind, QueryAtom, QueryRead, DefineDomainBoundary
  <1>4. QED
    BY <1>1, <1>2, <1>3

(* A scope held by all three parts stays so.                               *)
LEMMA HoldingGrows ==
  ASSUME IntTypeOK, [IntNext]_intVars, NEW s, Holding(s) = Parts
  PROVE  Holding(s)' = Parts
  <1>1. s \in variables /\ s \in Registered /\ s \in AS!Present
    BY HoldingAll
  <1>2. s \in variables' /\ s \in Registered' /\ s \in AS!Present'
    BY <1>1, Grows
  <1>3. QED
    BY <1>2 DEF Holding, Parts, TL!Evaluate, Lookup, Registered, AS!GetAtom, AS!Present

(* Only CreateAtom changes the atom map of the space.                       *)
LEMMA AtomsFrame ==
  ASSUME [IntNext]_intVars, ~\E t \in Threads : CreateAtom(t)
  PROVE  UNCHANGED atoms
  BY DEF IntNext, intVars, StartCreate, StartPropagate, StartQuery,
     CreateVariable, CreateScope, CreateTensor, AS!AttachTensor,
     PropagateHypermind, PropagateGetAtom, PropagateWrite, QueryVariable,
     QueryHypermind, QueryAtom, QueryRead, DefineDomainBoundary, AS!DefineBoundary

(* AtomsDistinct is inductive: AddAtom's pointer is past every stored one. *)
LEMMA AtomsDistinctStep ==
  ASSUME IntTypeOK, AtomsDistinct, [IntNext]_intVars
  PROVE  AtomsDistinct'
  <1>1. CASE \E t \in Threads : CreateAtom(t)
    <2>1. PICK t \in Threads : CreateAtom(t)
      BY <1>1
    <2> DEFINE s == arg[t].scope
    <2>2. AS!SpaceTypeOK
      BY DEF IntTypeOK
    <2>3. /\ AS!Present' = AS!Present \cup {s}
          /\ atoms'[s] = Len(heap) + 1
          /\ \A a \in AS!Present : a # s => atoms'[a] = atoms[a]
      BY <2>1, <2>2, AddAtomAdds DEF CreateAtom
    <2>4. \A a \in AS!Present : atoms[a] \in 1..Len(heap)
      BY <2>2 DEF AS!SpaceTypeOK, AS!Present
    <2>5. QED
      BY <2>3, <2>4 DEF AtomsDistinct
  <1>2. CASE ~\E t \in Threads : CreateAtom(t)
    BY <1>2, AtomsFrame DEF AtomsDistinct, AS!Present
  <1>3. QED
    BY <1>1, <1>2

(* How the goroutines at a program point x on scope s change when one      *)
(* goroutine t moves from a point other than x: none leaves, and none      *)
(* joins unless t moves to x.                                              *)
LEMMA CreatingFrame ==
  ASSUME pc \in [Threads -> PCs], NEW t \in Threads, NEW w, Goto(t, w),
         \A u \in Threads \ {t} : arg'[u] = arg[u],
         NEW x, NEW s, x # pc[t]
  PROVE  /\ CreatingAt(x, s) \subseteq CreatingAt(x, s)'
         /\ x # w => CreatingAt(x, s)' = CreatingAt(x, s)
  BY DEF CreatingAt, Goto

(* A step of a goroutine outside CreateBoundaryScope's last three points,  *)
(* which keeps the variables, scopes and atoms and every atom's tensor,   *)
(* keeps CreateInv.                                                        *)
LEMMA CreateFrame ==
  ASSUME IntTypeOK, CreateInv, NEW t \in Threads, NEW w, Goto(t, w),
         pc[t] \notin CbsPCs, w \notin CbsPCs,
         \A u \in Threads \ {t} : arg'[u] = arg[u],
         variables' = variables, Registered' = Registered,
         AS!Present' = AS!Present,
         \A s \in AS!Present : AS!GetTensor(s)' = AS!GetTensor(s)
  PROVE  CreateInv'
  <1>0. pc \in [Threads -> PCs]
    BY DEF IntTypeOK
  <1>1. \A x \in CbsPCs : \A s : CreatingAt(x, s)' = CreatingAt(x, s)
    BY <1>0, CreatingFrame
  <1>2. \A u \in Threads : CreateOK(u)'
    BY <1>0 DEF CreateOK, CreateInv, Goto, CbsPCs
  <1>3. QED
    BY <1>1, <1>2 DEF CreateInv, CbsPCs

(* PropagateWrite changes an atom's Attributes and never its tensor.      *)
LEMMA WriteKeepsTensor ==
  ASSUME AS!SpaceTypeOK, NEW p, NEW delta,
         heap' = [heap EXCEPT ![p].attrs = Merge(@, delta)],
         UNCHANGED <<atoms, tensorStore>>
  PROVE  \A s \in AS!Present : AS!GetTensor(s)' = AS!GetTensor(s)
  <1>1. \A q \in 1..Len(heap) : heap'[q].tensorID = heap[q].tensorID
    BY DEF AS!SpaceTypeOK, AS!AtomRec
  <1>2. \A s \in AS!Present : atoms[s] \in 1..Len(heap)
    BY DEF AS!SpaceTypeOK, AS!Present
  <1>3. SUFFICES ASSUME NEW s \in AS!Present
                 PROVE  AS!GetTensor(s)' = AS!GetTensor(s)
    OBVIOUS
  <1>4. s \in ScopeIDs /\ atoms[s] \in 1..Len(heap) /\ atoms[s] # Absent
    BY <1>2 DEF AS!Present
  <1>5. heap'[atoms[s]].tensorID = heap[atoms[s]].tensorID
    BY <1>1, <1>4
  <1>6. atoms' = atoms /\ tensorStore' = tensorStore
    OBVIOUS
  <1>7. QED
    BY <1>4, <1>5, <1>6 DEF AS!GetTensor, AS!GetAtom

(* CreateVariable keeps CreateInv: a new variable has its goroutine at    *)
(* the RegisterScope call.                                                 *)
LEMMA CreateVariableStep ==
  ASSUME IntTypeOK, CreateInv, NEW t \in Threads, CreateVariable(t)
  PROVE  CreateInv'
  <1>0. pc \in [Threads -> PCs] /\ pc[t] = "cbs_var" /\ arg' = arg
        /\ UNCHANGED <<scopes, atoms, heap, tensorStore>>
    BY DEF IntTypeOK, CreateVariable
  <1>1. \A u \in Threads \ {t} : arg'[u] = arg[u]
    BY <1>0
  <1>2. Registered' = Registered /\ AS!Present' = AS!Present
        /\ \A s \in AS!Present : AS!GetTensor(s)' = AS!GetTensor(s)
    BY <1>0 DEF Registered, AS!Present, AS!GetTensor, AS!GetAtom
  <1>3. CASE arg[t].scope = EmptyID /\ Goto(t, "idle") /\ UNCHANGED variables
    BY <1>0, <1>1, <1>2, <1>3, CreateFrame DEF CbsPCs
  <1>4. CASE TL!RegisterVariable(arg[t].scope) /\ Goto(t, "cbs_scope")
    <2> DEFINE s == arg[t].scope
    <2>1. variables' = variables \cup {s}
      BY <1>4 DEF TL!RegisterVariable
    <2>2. \A x \in {"cbs_atom", "cbs_tensor"} : \A s2 :
            CreatingAt(x, s2)' = CreatingAt(x, s2)
      BY <1>0, <1>1, <1>4, CreatingFrame
    <2>3. \A s2 : CreatingAt("cbs_scope", s2) \subseteq CreatingAt("cbs_scope", s2)'
      BY <1>0, <1>1, <1>4, CreatingFrame
    <2>4. t \in CreatingAt("cbs_scope", s)'
      BY <1>0, <1>4 DEF CreatingAt, Goto
    <2>5. \A u \in Threads : CreateOK(u)'
      BY <1>0, <1>2, <1>4, <2>1 DEF CreateOK, CreateInv, Goto, CbsPCs
    <2>6. ASSUME NEW s2 \in variables' \ Registered'
          PROVE  CreatingAt("cbs_scope", s2)' # {}
      <3>1. CASE s2 = s
        BY <1>0, <2>4, <3>1
      <3>2. CASE s2 # s
        <4>1. s2 \in variables \ Registered
          BY <1>2, <2>1, <3>2
        <4>2. CreatingAt("cbs_scope", s2) # {}
          BY <4>1 DEF CreateInv
        <4>3. CreatingAt("cbs_scope", s2) \subseteq CreatingAt("cbs_scope", s2)'
          BY <2>3
        <4>4. QED
          BY <4>2, <4>3
      <3>3. QED
        BY <3>1, <3>2
    <2>7. QED
      BY <1>2, <2>1, <2>2, <2>5, <2>6 DEF CreateInv
  <1>5. QED
    BY <1>3, <1>4 DEF CreateVariable

(* CreateScope keeps CreateInv: the new scope's goroutine moves to AddAtom *)
(* and its variable exists already.                                        *)
LEMMA CreateScopeStep ==
  ASSUME IntTypeOK, CreateInv, NEW t \in Threads, CreateScope(t)
  PROVE  CreateInv'
  <1> DEFINE s == arg[t].scope
  <1>0. /\ pc \in [Threads -> PCs] /\ pc[t] = "cbs_scope" /\ Goto(t, "cbs_atom")
        /\ arg' = arg /\ variables' = variables
        /\ UNCHANGED <<atoms, heap, tensorStore>>
    BY DEF IntTypeOK, CreateScope
  <1>1. s \in ScopeIDs /\ s \in variables
    BY <1>0 DEF CreateScope, RegisterScope, CreateInv, CreateOK, CbsPCs
  <1>2. Registered' = Registered \cup {s}
    BY <1>1, EmptyMaps, RegisterAdds DEF CreateScope, IntTypeOK
  <1>3. AS!Present' = AS!Present
        /\ \A s2 \in AS!Present : AS!GetTensor(s2)' = AS!GetTensor(s2)
    BY <1>0 DEF AS!Present, AS!GetTensor, AS!GetAtom
  <1>4. \A u \in Threads \ {t} : arg'[u] = arg[u]
    BY <1>0
  <1>5. \A s2 : CreatingAt("cbs_tensor", s2)' = CreatingAt("cbs_tensor", s2)
    BY <1>0, <1>4, CreatingFrame
  <1>6. \A s2 : CreatingAt("cbs_atom", s2) \subseteq CreatingAt("cbs_atom", s2)'
    BY <1>0, <1>4, CreatingFrame
  <1>7. t \in CreatingAt("cbs_atom", s)'
    BY <1>0 DEF CreatingAt, Goto
  <1>8. \A s2 : s2 # s =>
          CreatingAt("cbs_scope", s2) \subseteq CreatingAt("cbs_scope", s2)'
    BY <1>0 DEF CreatingAt, Goto
  <1>9. \A u \in Threads : CreateOK(u)'
    BY <1>0, <1>1, <1>2, <1>3 DEF CreateOK, CreateInv, Goto, CbsPCs
  <1>10. ASSUME NEW s2 \in variables' \ Registered'
         PROVE  CreatingAt("cbs_scope", s2)' # {}
    <2>1. s2 # s /\ s2 \in variables \ Registered
      BY <1>0, <1>2
    <2>2. CreatingAt("cbs_scope", s2) # {}
      BY <2>1 DEF CreateInv
    <2>3. QED
      BY <1>8, <2>1, <2>2
  <1>11. ASSUME NEW s2 \in Registered' \ AS!Present'
         PROVE  CreatingAt("cbs_atom", s2)' # {}
    <2>1. CASE s2 = s
      BY <1>0, <1>7, <2>1
    <2>2. CASE s2 # s
      <3>1. s2 \in Registered \ AS!Present
        BY <1>2, <1>3, <2>2
      <3>2. CreatingAt("cbs_atom", s2) # {}
        BY <3>1 DEF CreateInv
      <3>3. QED
        BY <1>6, <3>2
    <2>3. QED
      BY <2>1, <2>2
  <1>12. QED
    BY <1>0, <1>1, <1>2, <1>3, <1>5, <1>9, <1>10, <1>11 DEF CreateInv

(* CreateAtom keeps CreateInv: the new atom's goroutine moves to           *)
(* AttachTensor, and the fresh struct leaves every other atom's tensor.    *)
LEMMA CreateAtomStep ==
  ASSUME IntTypeOK, CreateInv, NEW t \in Threads, CreateAtom(t)
  PROVE  CreateInv'
  <1> DEFINE s == arg[t].scope
  <1>0. /\ pc \in [Threads -> PCs] /\ pc[t] = "cbs_atom" /\ Goto(t, "cbs_tensor")
        /\ arg' = arg /\ variables' = variables /\ scopes' = scopes
        /\ tensorStore' = tensorStore /\ AS!SpaceTypeOK
    BY DEF IntTypeOK, CreateAtom, AS!AddAtom
  <1>1. s \in ScopeIDs /\ s \in variables /\ s \in Registered
    BY <1>0 DEF CreateAtom, AS!AddAtom, CreateInv, CreateOK, CbsPCs
  <1>2. /\ AS!Present' = AS!Present \cup {s}
        /\ \A a \in AS!Present : a # s => atoms'[a] = atoms[a]
        /\ \A p \in 1..Len(heap) : heap'[p] = heap[p]
    BY <1>0, AddAtomAdds DEF CreateAtom
  <1>3. Registered' = Registered
    BY <1>0 DEF Registered
  <1>4. ASSUME NEW s2 \in AS!Present, s2 # s
        PROVE  AS!GetTensor(s2)' = AS!GetTensor(s2)
    <2>1. s2 \in ScopeIDs /\ atoms[s2] \in 1..Len(heap) /\ atoms[s2] # Absent
      BY <1>0 DEF AS!Present, AS!SpaceTypeOK
    <2>2. atoms'[s2] = atoms[s2] /\ heap'[atoms[s2]] = heap[atoms[s2]]
      BY <1>2, <1>4, <2>1
    <2>3. QED
      BY <1>0, <2>1, <2>2 DEF AS!GetTensor, AS!GetAtom
  <1>5. \A u \in Threads \ {t} : arg'[u] = arg[u]
    BY <1>0
  <1>6. \A s2 : CreatingAt("cbs_scope", s2)' = CreatingAt("cbs_scope", s2)
    BY <1>0, <1>5, CreatingFrame
  <1>7. \A s2 : CreatingAt("cbs_tensor", s2) \subseteq CreatingAt("cbs_tensor", s2)'
    BY <1>0, <1>5, CreatingFrame
  <1>8. t \in CreatingAt("cbs_tensor", s)'
    BY <1>0 DEF CreatingAt, Goto
  <1>9. \A s2 : s2 # s =>
          CreatingAt("cbs_atom", s2) \subseteq CreatingAt("cbs_atom", s2)'
    BY <1>0 DEF CreatingAt, Goto
  <1>10. \A u \in Threads : CreateOK(u)'
    BY <1>0, <1>1, <1>2, <1>3 DEF CreateOK, CreateInv, Goto, CbsPCs
  <1>11. ASSUME NEW s2 \in Registered' \ AS!Present'
         PROVE  CreatingAt("cbs_atom", s2)' # {}
    <2>1. s2 # s /\ s2 \in Registered \ AS!Present
      BY <1>2, <1>3
    <2>2. CreatingAt("cbs_atom", s2) # {}
      BY <2>1 DEF CreateInv
    <2>3. QED
      BY <1>9, <2>1, <2>2
  <1>12. ASSUME NEW s2 \in AS!Present'
         PROVE  AS!GetTensor(s2)' = "ok" \/ CreatingAt("cbs_tensor", s2)' # {}
    <2>1. CASE s2 = s
      BY <1>0, <1>8, <2>1
    <2>2. CASE s2 # s
      <3>1. s2 \in AS!Present
        BY <1>2, <2>2
      <3>2. AS!GetTensor(s2) = "ok" \/ CreatingAt("cbs_tensor", s2) # {}
        BY <3>1 DEF CreateInv
      <3>3. QED
        BY <1>4, <1>7, <2>2, <3>1, <3>2
    <2>3. QED
      BY <2>1, <2>2
  <1>13. QED
    BY <1>0, <1>1, <1>2, <1>3, <1>6, <1>10, <1>11, <1>12 DEF CreateInv

(* CreateTensor keeps CreateInv: AttachTensor gives its own atom a stored  *)
(* tensor and, the structs being distinct, touches no other atom.          *)
LEMMA CreateTensorStep ==
  ASSUME IntTypeOK, AtomsDistinct, CreateInv, NEW t \in Threads, CreateTensor(t)
  PROVE  CreateInv'
  <1> DEFINE s == arg[t].scope
  <1>0. /\ pc \in [Threads -> PCs] /\ pc[t] = "cbs_tensor" /\ Goto(t, "idle")
        /\ arg' = arg /\ variables' = variables /\ scopes' = scopes
        /\ atoms' = atoms /\ AS!SpaceTypeOK
        /\ heap' = [heap EXCEPT ![atoms[s]].tensorID = s]
        /\ tensorStore' = tensorStore \cup {s}
    BY DEF IntTypeOK, CreateTensor, AS!AttachTensor
  <1>1. s \in AS!Present /\ s \in ScopeIDs /\ atoms[s] \in 1..Len(heap)
    BY <1>0 DEF CreateInv, CreateOK, AS!Present, AS!SpaceTypeOK
  <1>2. Registered' = Registered /\ AS!Present' = AS!Present
    BY <1>0 DEF Registered, AS!Present
  <1>3. AS!GetTensor(s)' = "ok"
    <2>1. heap'[atoms[s]].tensorID = s /\ s # EmptyID
      BY <1>0, <1>1, BaseAssumption DEF AS!SpaceTypeOK
    <2>2. QED
      BY <1>0, <1>1, <2>1 DEF AS!GetTensor, AS!GetAtom, AS!Present
  <1>4. ASSUME NEW s2 \in AS!Present, s2 # s, AS!GetTensor(s2) = "ok"
        PROVE  AS!GetTensor(s2)' = "ok"
    <2>1. s2 \in ScopeIDs /\ atoms[s2] \in 1..Len(heap) /\ atoms[s2] # atoms[s]
      BY <1>0, <1>1, <1>4 DEF AS!Present, AS!SpaceTypeOK, AtomsDistinct
    <2>2. heap'[atoms[s2]] = heap[atoms[s2]]
      BY <1>0, <2>1
    <2>3. QED
      BY <1>0, <1>4, <2>1, <2>2 DEF AS!GetTensor, AS!GetAtom, AS!Present
  <1>5. \A u \in Threads \ {t} : arg'[u] = arg[u]
    BY <1>0
  <1>6. \A x \in {"cbs_scope", "cbs_atom"} : \A s2 :
          CreatingAt(x, s2)' = CreatingAt(x, s2)
    BY <1>0, <1>5, CreatingFrame
  <1>7. \A s2 : s2 # s =>
          CreatingAt("cbs_tensor", s2) \subseteq CreatingAt("cbs_tensor", s2)'
    BY <1>0 DEF CreatingAt, Goto
  <1>8. \A u \in Threads : CreateOK(u)'
    BY <1>0, <1>2 DEF CreateOK, CreateInv, Goto, CbsPCs
  <1>9. ASSUME NEW s2 \in AS!Present'
        PROVE  AS!GetTensor(s2)' = "ok" \/ CreatingAt("cbs_tensor", s2)' # {}
    <2>1. CASE s2 = s
      BY <1>0, <1>3, <2>1
    <2>2. CASE s2 # s
      <3>1. s2 \in AS!Present
        BY <1>2
      <3>2. AS!GetTensor(s2) = "ok" \/ CreatingAt("cbs_tensor", s2) # {}
        BY <3>1 DEF CreateInv
      <3>3. QED
        BY <1>4, <1>7, <2>2, <3>1, <3>2
    <2>3. QED
      BY <2>1, <2>2
  <1>10. QED
    BY <1>0, <1>2, <1>6, <1>8, <1>9 DEF CreateInv

(* CreateInv is inductive, given the type and AtomsDistinct: the steps   *)
(* of PropagateState, QueryScope and DefineDomainBoundary leave every part *)
(* of every scope and every atom's tensor as they are.                     *)
LEMMA CreateStep ==
  ASSUME IntTypeOK, AtomsDistinct, CreateInv, [IntNext]_intVars
  PROVE  CreateInv'
  <1>0. pc \in [Threads -> PCs] /\ arg \in [Threads -> ArgRec] /\ RegTypeOK
        /\ AS!SpaceTypeOK
    BY DEF IntTypeOK
  <1>a. ASSUME UNCHANGED <<variables, scopes, atoms, heap, tensorStore>>
        PROVE  /\ variables' = variables /\ Registered' = Registered
               /\ AS!Present' = AS!Present
               /\ \A s \in AS!Present : AS!GetTensor(s)' = AS!GetTensor(s)
    BY <1>a DEF Registered, AS!Present, AS!GetTensor, AS!GetAtom
  <1>1. ASSUME NEW t \in Threads, NEW s \in ScopeIDs \cup {EmptyID},
               \/ StartCreate(t, s) \/ StartQuery(t, s)
               \/ \E delta \in Deltas : StartPropagate(t, s, delta)
        PROVE  CreateInv'
    <2>1. PICK w \in {"cbs_var", "qs_var", "ps_hm"} :
            /\ pc[t] = "idle" /\ Goto(t, w)
            /\ \E r : arg' = [arg EXCEPT ![t] = r]
            /\ UNCHANGED <<variables, scopes, atoms, heap, tensorStore>>
      BY <1>1 DEF StartCreate, StartQuery, StartPropagate, Idle
    <2>2. \A u \in Threads \ {t} : arg'[u] = arg[u]
      BY <1>0, <2>1
    <2>3. QED
      BY <2>1, <2>2, <1>a, CreateFrame DEF CbsPCs
  <1>2. ASSUME NEW t \in Threads, CreateVariable(t) PROVE CreateInv'
    BY <1>2, CreateVariableStep
  <1>3. ASSUME NEW t \in Threads, CreateScope(t) PROVE CreateInv'
    BY <1>3, CreateScopeStep
  <1>4. ASSUME NEW t \in Threads, CreateAtom(t) PROVE CreateInv'
    BY <1>4, CreateAtomStep
  <1>5. ASSUME NEW t \in Threads, CreateTensor(t) PROVE CreateInv'
    BY <1>5, CreateTensorStep
  <1>6. ASSUME NEW t \in Threads, PropagateHypermind(t) PROVE CreateInv'
    <2>1. PICK w \in {"idle", "ps_get"} :
            /\ pc[t] = "ps_hm" /\ Goto(t, w) /\ arg' = arg
            /\ UNCHANGED <<variables, atoms, heap, tensorStore>>
      BY <1>6 DEF PropagateHypermind
    <2>2. Registered' = Registered
      <3>1. CASE PropagateStateNotFound(arg[t].scope)
        BY <3>1 DEF PropagateStateNotFound, Registered
      <3>2. CASE PropagateState(arg[t].scope, arg[t].delta)
        BY <1>0, <3>2, PropagateKeeps DEF ArgRec
      <3>3. QED
        BY <1>6, <3>1, <3>2 DEF PropagateHypermind
    <2>3. /\ AS!Present' = AS!Present
          /\ \A s \in AS!Present : AS!GetTensor(s)' = AS!GetTensor(s)
      BY <2>1 DEF AS!Present, AS!GetTensor, AS!GetAtom
    <2>4. QED
      BY <2>1, <2>2, <2>3, CreateFrame DEF CbsPCs
  <1>7. ASSUME NEW t \in Threads, PropagateGetAtom(t) PROVE CreateInv'
    <2>1. PICK w \in {"idle", "ps_write"} :
            /\ pc[t] = "ps_get" /\ Goto(t, w)
            /\ UNCHANGED <<variables, scopes, atoms, heap, tensorStore>>
      BY <1>7 DEF PropagateGetAtom
    <2>2. \A u \in Threads \ {t} : arg'[u] = arg[u]
      BY <1>0, <1>7 DEF PropagateGetAtom
    <2>3. QED
      BY <2>1, <2>2, <1>a, CreateFrame DEF CbsPCs
  <1>8. ASSUME NEW t \in Threads, PropagateWrite(t) PROVE CreateInv'
    <2>1. /\ pc[t] = "ps_write" /\ Goto(t, "idle") /\ arg' = arg
          /\ UNCHANGED <<variables, scopes, atoms, tensorStore>>
          /\ heap' = [heap EXCEPT ![arg[t].ptr].attrs = Merge(@, arg[t].delta)]
      BY <1>8 DEF PropagateWrite
    <2>2. \A s \in AS!Present : AS!GetTensor(s)' = AS!GetTensor(s)
      BY <1>0, <2>1, WriteKeepsTensor
    <2>3. Registered' = Registered /\ AS!Present' = AS!Present
      BY <2>1 DEF Registered, AS!Present
    <2>4. QED
      BY <2>1, <2>2, <2>3, CreateFrame DEF CbsPCs
  <1>9. ASSUME NEW t \in Threads,
               QueryVariable(t) \/ QueryHypermind(t) \/ QueryAtom(t)
        PROVE  CreateInv'
    <2>1. PICK w \in {"qs_scope", "qs_atom", "idle"} :
            /\ pc[t] \in {"qs_var", "qs_scope", "qs_atom"} /\ Goto(t, w)
            /\ arg' = [arg EXCEPT ![t].found = arg'[t].found]
            /\ UNCHANGED <<variables, scopes, atoms, heap, tensorStore>>
      BY <1>9, <1>0 DEF QueryVariable, QueryHypermind, QueryAtom, QueryRead
    <2>2. \A u \in Threads \ {t} : arg'[u] = arg[u]
      BY <1>0, <2>1
    <2>3. QED
      BY <2>1, <2>2, <1>a, CreateFrame DEF CbsPCs
  <1>10. ASSUME NEW t \in Threads, NEW b \in BoundaryIDs,
                NEW members \in AS!MemberLists, DefineDomainBoundary(t, b, members)
         PROVE  CreateInv'
    <2>1. /\ pc[t] = "idle" /\ Goto(t, "idle") /\ arg' = arg
          /\ UNCHANGED <<variables, scopes, atoms, heap, tensorStore>>
      BY <1>0, <1>10 DEF DefineDomainBoundary, AS!DefineBoundary, Idle, Goto
    <2>2. QED
      BY <2>1, <1>a, CreateFrame DEF CbsPCs
  <1>11. CASE UNCHANGED intVars
    BY <1>11 DEF intVars, CreateInv, CreateOK, CreatingAt, Registered,
       AS!Present, AS!GetTensor, AS!GetAtom
  <1>12. QED
    BY <1>1, <1>2, <1>3, <1>4, <1>5, <1>6, <1>7, <1>8, <1>9, <1>10, <1>11
       DEF IntNext

(* A goroutine that does not move keeps QueryOK: the parts it saw are     *)
(* still there.                                                            *)
LEMMA QueryOKKept ==
  ASSUME IntTypeOK, [IntNext]_intVars, NEW u \in Threads, QueryOK(u),
         pc'[u] = pc[u], arg'[u] = arg[u]
  PROVE  QueryOK(u)'
  <1>1. arg[u].seen = Parts => Holding(arg[u].scope)' = Parts
    BY HoldingGrows DEF QueryOK
  <1>2. QED
    BY <1>1 DEF QueryOK

(* A step of one goroutine that leaves its seen empty keeps QueryInv.     *)
LEMMA SeenEmptyStep ==
  ASSUME IntTypeOK, QueryInv, [IntNext]_intVars, NEW t \in Threads,
         arg'[t].seen = {},
         \A u \in Threads \ {t} : pc'[u] = pc[u] /\ arg'[u] = arg[u]
  PROVE  QueryInv'
  <1> SUFFICES ASSUME NEW u \in Threads PROVE QueryOK(u)'
    BY DEF QueryInv
  <1>1. CASE u = t
    BY <1>1 DEF QueryOK, Parts
  <1>2. CASE u # t
    BY <1>2, QueryOKKept DEF QueryInv
  <1>3. QED
    BY <1>1, <1>2

(* One of QueryScope's three reads keeps QueryInv when a part the scope    *)
(* holds is always found, and the read adds its part to those read so far. *)
LEMMA QueryReadStep ==
  ASSUME IntTypeOK, QueryInv, [IntNext]_intVars, NEW t \in Threads,
         NEW cur \in {"qs_var", "qs_scope", "qs_atom"}, NEW p, NEW b,
         NEW next \in {"qs_scope", "qs_atom", "idle"},
         pc[t] = cur, QueryRead(t, p, b, next),
         ReadSoFar(next) = ReadSoFar(cur) \cup {p},
         Holding(arg[t].scope) = Parts => b
  PROVE  QueryInv'
  <1> SUFFICES ASSUME NEW u \in Threads PROVE QueryOK(u)'
    BY DEF QueryInv
  <1>0. /\ arg \in [Threads -> ArgRec] /\ pc \in [Threads -> PCs]
        /\ arg' = [arg EXCEPT ![t].found = IF b THEN @ \cup {p} ELSE @]
        /\ pc' = [pc EXCEPT ![t] = next]
    BY DEF IntTypeOK, QueryRead, Goto
  <1>1. CASE u # t
    BY <1>0, <1>1, QueryOKKept DEF QueryInv
  <1>2. CASE u = t
    <2>1. /\ arg'[t].seen = arg[t].seen /\ arg'[t].scope = arg[t].scope
          /\ pc'[t] = next
      BY <1>0
    <2>2. ASSUME arg[t].seen = Parts
          PROVE  Holding(arg[t].scope)' = Parts /\ arg'[t].found = ReadSoFar(next)
      <3>1. Holding(arg[t].scope) = Parts /\ arg[t].found = ReadSoFar(cur)
        BY <2>2 DEF QueryInv, QueryOK
      <3>2. \A x : Holding(x) = Parts => Holding(x)' = Parts
        BY HoldingGrows
      <3>3. Holding(arg[t].scope)' = Parts
        BY <2>1, <3>1, <3>2
      <3>4. arg'[t].found = arg[t].found \cup {p}
        BY <1>0, <3>1
      <3>5. QED
        BY <3>1, <3>3, <3>4
    <2>3. QED
      BY <1>2, <2>1, <2>2 DEF QueryOK
  <1>3. QED
    BY <1>1, <1>2

(* QueryInv is inductive: a query records what it saw at its start, no     *)
(* part it saw goes away, and each read finds its part.                    *)
LEMMA QueryStep ==
  ASSUME IntTypeOK, QueryInv, [IntNext]_intVars
  PROVE  QueryInv'
  <1>0. pc \in [Threads -> PCs] /\ arg \in [Threads -> ArgRec]
    BY DEF IntTypeOK
  <1>1. ASSUME NEW t \in Threads, NEW s \in ScopeIDs \cup {EmptyID},
               \/ StartCreate(t, s)
               \/ \E delta \in Deltas : StartPropagate(t, s, delta)
        PROVE  QueryInv'
    <2>1. PICK delta \in Deltas :
            /\ Goto(t, pc'[t]) /\ arg' = [arg EXCEPT ![t] = NewArg(s, delta)]
      BY <1>1, EmptyMaps DEF StartCreate, StartPropagate, Goto
    <2>2. arg'[t].seen = {}
      BY <1>0, <2>1 DEF NewArg
    <2>3. QED
      BY <1>0, <2>1, <2>2, SeenEmptyStep DEF Goto
  <1>2. ASSUME NEW t \in Threads, NEW s \in ScopeIDs \cup {EmptyID}, StartQuery(t, s)
        PROVE  QueryInv'
    <2> SUFFICES ASSUME NEW u \in Threads PROVE QueryOK(u)'
      BY DEF QueryInv
    <2>0. /\ pc' = [pc EXCEPT ![t] = "qs_var"]
          /\ arg' = [arg EXCEPT ![t] = [NewArg(s, << >>) EXCEPT !.seen = Holding(s)]]
      BY <1>2 DEF StartQuery, Goto
    <2>1. CASE u # t
      BY <1>0, <2>0, <2>1, QueryOKKept DEF QueryInv
    <2>2. CASE u = t
      <3>1. /\ arg'[t].seen = Holding(s) /\ arg'[t].scope = s
            /\ arg'[t].found = {} /\ pc'[t] = "qs_var"
        BY <1>0, <2>0 DEF NewArg
      <3>2. Holding(s) = Parts => Holding(s)' = Parts
        BY HoldingGrows
      <3>3. QED
        BY <2>2, <3>1, <3>2 DEF QueryOK, ReadSoFar
    <2>3. QED
      BY <2>1, <2>2
  <1>3. ASSUME NEW t \in Threads,
               \/ CreateVariable(t) \/ CreateScope(t) \/ CreateAtom(t)
               \/ CreateTensor(t) \/ PropagateHypermind(t) \/ PropagateWrite(t)
        PROVE  QueryInv'
    <2>1. PICK w : /\ pc[t] \in {"cbs_var", "cbs_scope", "cbs_atom",
                                  "cbs_tensor", "ps_hm", "ps_write"}
                   /\ Goto(t, w) /\ arg' = arg
      BY <1>3 DEF CreateVariable, CreateScope, CreateAtom, CreateTensor,
         PropagateHypermind, PropagateWrite
    <2>2. \A u \in Threads \ {t} : pc'[u] = pc[u] /\ arg'[u] = arg[u]
      BY <1>0, <2>1 DEF Goto
    <2>3. arg'[t].seen = {}
      BY <2>1 DEF QueryInv, QueryOK
    <2>4. QED
      BY <2>2, <2>3, SeenEmptyStep
  <1>10. ASSUME NEW t \in Threads, PropagateGetAtom(t) PROVE QueryInv'
    <2>1. PICK w : /\ pc[t] = "ps_get" /\ Goto(t, w)
                   /\ \/ arg' = arg
                      \/ arg' = [arg EXCEPT ![t].ptr = atoms[arg[t].scope]]
      BY <1>10 DEF PropagateGetAtom
    <2>2. \A u \in Threads \ {t} : pc'[u] = pc[u] /\ arg'[u] = arg[u]
      BY <1>0, <2>1 DEF Goto
    <2>3. arg[t].seen = {}
      BY <2>1 DEF QueryInv, QueryOK
    <2>4. arg'[t].seen = {}
      <3>1. arg[t] \in ArgRec
        BY <1>0
      <3>2. CASE arg' = arg
        BY <2>3, <3>2
      <3>3. CASE arg' = [arg EXCEPT ![t].ptr = atoms[arg[t].scope]]
        <4>1. arg'[t] = [arg[t] EXCEPT !.ptr = atoms[arg[t].scope]]
          BY <1>0, <3>3
        <4>2. QED
          BY <2>3, <3>1, <4>1 DEF ArgRec
      <3>4. QED
        BY <2>1, <3>2, <3>3
    <2>5. QED
      BY <2>2, <2>4, SeenEmptyStep
  <1>4. ASSUME NEW t \in Threads, QueryVariable(t) PROVE QueryInv'
    <2>1. Holding(arg[t].scope) = Parts => TL!Evaluate(arg[t].scope)
      BY HoldingAll DEF TL!Evaluate
    <2>2. QED
      BY <1>4, <2>1, QueryReadStep DEF QueryVariable, ReadSoFar
  <1>5. ASSUME NEW t \in Threads, QueryHypermind(t) PROVE QueryInv'
    <2>1. Holding(arg[t].scope) = Parts => Lookup(arg[t].scope) # Absent
      BY HoldingAll DEF Lookup, Registered
    <2>2. QED
      BY <1>5, <2>1, QueryReadStep DEF QueryHypermind, ReadSoFar
  <1>6. ASSUME NEW t \in Threads, QueryAtom(t) PROVE QueryInv'
    <2>1. Holding(arg[t].scope) = Parts => AS!GetAtom(arg[t].scope) # Absent
      BY HoldingAll DEF AS!GetAtom, AS!Present
    <2>2. ReadSoFar("idle") = ReadSoFar("qs_atom") \cup {"atom"}
      BY DEF ReadSoFar, Parts
    <2>3. QED
      BY <1>6, <2>1, <2>2, QueryReadStep DEF QueryAtom
  <1>7. ASSUME NEW t \in Threads, NEW b \in BoundaryIDs,
               NEW members \in AS!MemberLists, DefineDomainBoundary(t, b, members)
        PROVE  QueryInv'
    BY <1>7, QueryOKKept DEF DefineDomainBoundary, QueryInv
  <1>8. CASE UNCHANGED intVars
    BY <1>8, QueryOKKept DEF intVars, QueryInv
  <1>9. QED
    BY <1>1, <1>2, <1>3, <1>4, <1>5, <1>6, <1>7, <1>8, <1>10 DEF IntNext

(* IntInv holds initially: nothing exists and every goroutine is idle.     *)
LEMMA IntInvInit == IntInit => IntInv
  <1> SUFFICES ASSUME IntInit PROVE IntInv
    OBVIOUS
  <1>1. IntTypeOK
    BY IntTypeInit
  <1>2. variables = {} /\ Registered = {} /\ AS!Present = {}
    BY DEF IntInit, TL!TLInit, RegInit, Registered, AS!SpaceInit, AS!Present
  <1>3. \A t \in Threads : pc[t] = "idle" /\ arg[t].seen = {}
    BY DEF IntInit, NewArg
  <1>4. QED
    BY <1>1, <1>2, <1>3 DEF IntInv, AtomsDistinct, CreateInv, CreateOK, CbsPCs,
       QueryInv, QueryOK, Parts

(* Every step of the framework keeps IntInv.                               *)
LEMMA IntInvStep == IntInv /\ [IntNext]_intVars => IntInv'
  <1> SUFFICES ASSUME IntInv, [IntNext]_intVars PROVE IntInv'
    OBVIOUS
  <1>1. IntTypeOK /\ AtomsDistinct /\ CreateInv /\ QueryInv
    BY DEF IntInv
  <1>2. IntTypeOK'
    BY <1>1, IntTypeStep
  <1>3. AtomsDistinct'
    BY <1>1, AtomsDistinctStep
  <1>4. CreateInv'
    BY <1>1, CreateStep
  <1>5. QueryInv'
    BY <1>1, QueryStep
  <1>6. QED
    BY <1>2, <1>3, <1>4, <1>5 DEF IntInv

(* Once every call of CreateBoundaryScope has returned, every scope it     *)
(* created is a TensorLogic variable, a hypermind scope and an atom with   *)
(* its tensor attached (CreatedScopeComplete, which the run int_concurrent *)
(* checks), for any number of goroutines interleaving their calls.  It     *)
(* follows from IntInv, because with every goroutine idle no scope can     *)
(* have a goroutine about to add a missing part.                           *)
THEOREM CreatedScopeCompleteHolds == IntSpec => []CreatedScopeComplete
  <1>1. IntInv => CreatedScopeComplete
    <2> SUFFICES ASSUME IntInv, Quiescent
                 PROVE  /\ variables = Registered
                        /\ Registered = AS!Present
                        /\ \A s \in AS!Present : AS!GetTensor(s) = "ok"
      BY DEF CreatedScopeComplete
    <2>1. \A x \in CbsPCs : \A s : CreatingAt(x, s) = {}
      BY DEF Quiescent, Idle, CreatingAt, CbsPCs
    <2>2. QED
      BY <2>1 DEF IntInv, CreateInv, CbsPCs
  <1>2. QED
    BY <1>1, IntInvInit, IntInvStep, PTL DEF IntSpec

(* A QueryScope that started while its scope was held by all three parts  *)
(* returns all three, however the creations and propagations of other      *)
(* goroutines interleave with its three reads (QueryAfterCreateComplete,  *)
(* which the run int_concurrent checks): no call ever removes a part.      *)
THEOREM QueryComplete == IntSpec => []QueryAfterCreateComplete
  <1>1. IntInv => QueryAfterCreateComplete
    <2> SUFFICES ASSUME IntInv, NEW t \in Threads, Idle(t), arg[t].seen = Parts
                 PROVE  arg[t].found = Parts
      BY DEF QueryAfterCreateComplete
    <2>1. arg[t].found = ReadSoFar(pc[t])
      BY DEF IntInv, QueryInv, QueryOK
    <2>2. QED
      BY <2>1 DEF Idle, ReadSoFar
  <1>2. QED
    BY <1>1, IntInvInit, IntInvStep, PTL DEF IntSpec

=============================================================================
