------------------------ MODULE IntegrationSeqProofs ------------------------
(***************************************************************************)
(* Proof of ScopeAtomAgree for a program with one goroutine.  The run      *)
(* int_agree shows that two goroutines break it: PropagateState writes the *)
(* registry and the atom in two steps with no common lock.  With one       *)
(* goroutine the two copies of a scope's State differ only while its own   *)
(* call is between the two writes, and SeqAgree says how they differ      *)
(* then:                                                                   *)
(*   - CreateBoundaryScope between RegisterScope and AddAtom: the scope's  *)
(*     State is empty, the atom is the one of an earlier creation;         *)
(*   - PropagateState after the registry's merge: the State is the atom's  *)
(*     attributes merged with the delta, and after GetAtom the goroutine's *)
(*     pointer is the atom's.                                              *)
(* AtomsDistinct is needed again: the write through the pointer must not   *)
(* reach the struct of another ID.                                         *)
(***************************************************************************)
EXTENDS IntegrationInvProofs

(* The registry's State of scope s equals the Attributes of its atom.      *)
Agree(s) == scopes[s].state = heap[atoms[s]].attrs

(* The program points between the two writes of a call.                   *)
SplitPCs == {"cbs_atom", "ps_get", "ps_write"}

SeqAgree(t) ==
  /\ pc[t] = "cbs_atom" =>
       /\ arg[t].scope \in Registered
       /\ scopes[arg[t].scope].state = EmptyMap
  /\ pc[t] \in {"ps_get", "ps_write"} => arg[t].scope \in Registered
  /\ pc[t] = "ps_get" /\ arg[t].scope \in AS!Present =>
       scopes[arg[t].scope].state =
         Merge(heap[atoms[arg[t].scope]].attrs, arg[t].delta)
  /\ pc[t] = "ps_write" =>
       /\ arg[t].scope \in AS!Present
       /\ atoms[arg[t].scope] = arg[t].ptr
       /\ scopes[arg[t].scope].state = Merge(heap[arg[t].ptr].attrs, arg[t].delta)
  /\ \A s \in Registered \cap AS!Present :
       \/ Agree(s)
       \/ s = arg[t].scope /\ pc[t] \in SplitPCs

SeqInv(t) == IntTypeOK /\ AtomsDistinct /\ SeqAgree(t)

-----------------------------------------------------------------------------
(* A step of the goroutine that neither starts nor ends a split, adds no   *)
(* scope or atom and changes no agreeing pair keeps SeqAgree.              *)
LEMMA AgreeFrame ==
  ASSUME NEW t, SeqAgree(t), pc[t] \notin SplitPCs, pc'[t] \notin SplitPCs,
         Registered' = Registered, AS!Present' = AS!Present,
         \A s \in Registered \cap AS!Present : Agree(s) => Agree(s)'
  PROVE  SeqAgree(t)'
  <1>1. \A s \in Registered \cap AS!Present : Agree(s)
    BY DEF SeqAgree, SplitPCs
  <1>2. QED
    BY <1>1 DEF SeqAgree, SplitPCs

(* The facts of the type invariant the agreement proof uses.               *)
LEMMA AgreeTypes ==
  ASSUME IntTypeOK
  PROVE  /\ \A s \in Registered : scopes[s] \in ScopeRec
         /\ \A s \in AS!Present : s \in ScopeIDs /\ atoms[s] \in 1..Len(heap)
         /\ heap \in Seq(AS!AtomRec)
         /\ pc \in [Threads -> PCs] /\ arg \in [Threads -> ArgRec]
  BY AbsentAssumption DEF IntTypeOK, RegTypeOK, Registered, AS!SpaceTypeOK,
     AS!Present

(* CreateScope starts a split: the scope's State is now empty.             *)
LEMMA CreateScopeAgree ==
  ASSUME IntTypeOK, NEW t \in Threads, SeqAgree(t), CreateScope(t)
  PROVE  SeqAgree(t)'
  <1> DEFINE sc == arg[t].scope
  <1>0. /\ pc[t] = "cbs_scope" /\ pc'[t] = "cbs_atom" /\ arg' = arg
        /\ UNCHANGED <<atoms, heap>> /\ sc \in ScopeIDs
    BY AgreeTypes DEF CreateScope, Goto, RegisterScope
  <1>1. PICK c \in Now : \E u \in NowAfter(c) :
          scopes' = [scopes EXCEPT ![sc] = [state |-> EmptyMap, created |-> c, updated |-> u]]
    BY DEF CreateScope, RegisterScope
  <1>2. scopes'[sc].state = EmptyMap /\ \A s \in ScopeIDs \ {sc} : scopes'[s] = scopes[s]
    BY <1>0, <1>1 DEF IntTypeOK, RegTypeOK
  <1>3. Registered' = Registered \cup {sc}
    BY <1>0, EmptyMaps, RegisterAdds DEF CreateScope, IntTypeOK
  <1>4. \A s \in Registered \cap AS!Present : s # sc => Agree(s)
    BY <1>0 DEF SeqAgree, SplitPCs
  <1>5. \A s \in Registered' \cap AS!Present' : s # sc => Agree(s)'
    BY <1>0, <1>2, <1>3, <1>4 DEF Agree, AS!Present
  <1>6. QED
    BY <1>0, <1>2, <1>3, <1>5 DEF SeqAgree, SplitPCs

(* CreateAtom ends that split: the fresh atom's Attributes are empty too,  *)
(* and no other atom moves.                                                *)
LEMMA CreateAtomAgree ==
  ASSUME IntTypeOK, NEW t \in Threads, SeqAgree(t), CreateAtom(t)
  PROVE  SeqAgree(t)'
  <1> DEFINE sc == arg[t].scope
  <1>0. /\ pc[t] = "cbs_atom" /\ pc'[t] = "cbs_tensor" /\ arg' = arg
        /\ scopes' = scopes /\ AS!SpaceTypeOK
        /\ heap' = Append(heap, [attrs |-> EmptyMap, tensorID |-> EmptyID])
    BY DEF CreateAtom, Goto, AS!AddAtom, IntTypeOK
  <1>1. /\ AS!Present' = AS!Present \cup {sc}
        /\ atoms'[sc] = Len(heap) + 1
        /\ \A a \in AS!Present : a # sc => atoms'[a] = atoms[a]
        /\ \A p \in 1..Len(heap) : heap'[p] = heap[p]
    BY <1>0, AddAtomAdds DEF CreateAtom
  <1>2. heap'[Len(heap) + 1].attrs = EmptyMap
    BY <1>0, AppendProperties DEF AS!SpaceTypeOK
  <1>3. sc \in Registered /\ scopes[sc].state = EmptyMap
    BY <1>0 DEF SeqAgree
  <1>4. Agree(sc)'
    BY <1>0, <1>1, <1>2, <1>3 DEF Agree
  <1>5. ASSUME NEW s \in Registered \cap AS!Present, s # sc
        PROVE  Agree(s)'
    <2>1. Agree(s) /\ atoms[s] \in 1..Len(heap)
      BY <1>0, <1>5, AgreeTypes DEF SeqAgree, SplitPCs
    <2>2. s \in AS!Present
      BY <1>5
    <2>3. atoms'[s] = atoms[s] /\ heap'[atoms[s]] = heap[atoms[s]]
      BY <1>1, <1>5, <2>1, <2>2
    <2>4. QED
      BY <1>0, <2>1, <2>3 DEF Agree
  <1>6. Registered' = Registered
    BY <1>0 DEF Registered
  <1>7. QED
    BY <1>0, <1>1, <1>4, <1>5, <1>6 DEF SeqAgree, SplitPCs

(* CreateTensor changes a tensor ID, never Attributes.                    *)
LEMMA CreateTensorAgree ==
  ASSUME IntTypeOK, NEW t \in Threads, SeqAgree(t), CreateTensor(t)
  PROVE  SeqAgree(t)'
  <1> DEFINE sc == arg[t].scope
  <1>0. /\ pc[t] = "cbs_tensor" /\ pc'[t] = "idle"
        /\ UNCHANGED <<scopes, atoms>>
        /\ heap' = [heap EXCEPT ![atoms[sc]].tensorID = sc]
    BY AgreeTypes DEF CreateTensor, Goto, AS!AttachTensor
  <1>1. \A p \in 1..Len(heap) : heap'[p].attrs = heap[p].attrs
    BY <1>0, AgreeTypes
  <1>2. \A s \in Registered \cap AS!Present : Agree(s) => Agree(s)'
    BY <1>0, <1>1, AgreeTypes DEF Agree
  <1>3. Registered' = Registered /\ AS!Present' = AS!Present
    BY <1>0 DEF Registered, AS!Present
  <1>4. QED
    BY <1>0, <1>2, <1>3, AgreeFrame DEF SplitPCs

(* PropagateState's merge into the registry starts a split, in which the   *)
(* State is the atom's Attributes merged with the delta.                   *)
LEMMA PropagateHypermindAgree ==
  ASSUME IntTypeOK, NEW t \in Threads, SeqAgree(t), PropagateHypermind(t)
  PROVE  SeqAgree(t)'
  <1> DEFINE sc == arg[t].scope
  <1>0. /\ pc[t] = "ps_hm" /\ arg' = arg /\ UNCHANGED <<atoms, heap>>
        /\ AS!Present' = AS!Present
        /\ arg[t] \in ArgRec
    BY AgreeTypes DEF PropagateHypermind, AS!Present
  <1>1. CASE PropagateStateNotFound(sc) /\ Goto(t, "idle")
    <2>1. pc'[t] = "idle" /\ scopes' = scopes
      BY <1>1, AgreeTypes DEF Goto, PropagateStateNotFound
    <2>2. QED
      BY <1>0, <2>1, AgreeFrame DEF SplitPCs, Agree, Registered
  <1>2. CASE PropagateState(sc, arg[t].delta) /\ Goto(t, "ps_get")
    <2>1. pc'[t] = "ps_get"
      BY <1>2, AgreeTypes DEF Goto
    <2>2. sc \in Registered /\ scopes[sc] \in ScopeRec
      BY <1>2, AgreeTypes DEF PropagateState, Lookup, Registered
    <2>3. PICK u \in Now :
            scopes' = [scopes EXCEPT ![sc].state = Merge(@, arg[t].delta),
                                     ![sc].updated = u]
      BY <1>2 DEF PropagateState
    <2>4. /\ scopes'[sc].state = Merge(scopes[sc].state, arg[t].delta)
          /\ \A s \in ScopeIDs \ {sc} : scopes'[s] = scopes[s]
      BY <2>2, <2>3, AgreeTypes DEF Registered, IntTypeOK, RegTypeOK
    <2>5. Registered' = Registered
      BY <1>0, <1>2, PropagateKeeps DEF IntTypeOK, ArgRec
    <2>6. sc \in AS!Present => scopes[sc].state = heap[atoms[sc]].attrs
      BY <1>0, <2>2 DEF SeqAgree, SplitPCs, Agree
    <2>7. \A s \in Registered \cap AS!Present : s # sc => Agree(s)'
      BY <1>0, <2>4, <2>5 DEF SeqAgree, SplitPCs, Agree, Registered
    <2>8. QED
      BY <1>0, <2>1, <2>2, <2>4, <2>5, <2>6, <2>7 DEF SeqAgree, SplitPCs
  <1>3. QED
    BY <1>1, <1>2 DEF PropagateHypermind

(* GetAtom either ends the call, when there is no atom to disagree with,  *)
(* or takes the pointer to the atom the State was merged from.             *)
LEMMA PropagateGetAtomAgree ==
  ASSUME IntTypeOK, NEW t \in Threads, SeqAgree(t), PropagateGetAtom(t)
  PROVE  SeqAgree(t)'
  <1> DEFINE sc == arg[t].scope
  <1>0. /\ pc[t] = "ps_get" /\ UNCHANGED <<scopes, atoms, heap>>
        /\ Registered' = Registered /\ AS!Present' = AS!Present
        /\ arg[t] \in ArgRec
    BY AgreeTypes DEF PropagateGetAtom, Registered, AS!Present
  <1>1. CASE AS!GetAtom(sc) = Absent /\ Goto(t, "idle") /\ UNCHANGED arg
    <2>1. sc \notin AS!Present /\ pc'[t] = "idle"
      BY <1>1, AgreeTypes DEF AS!GetAtom, AS!Present, Goto
    <2>2. \A s \in Registered \cap AS!Present : Agree(s)
      BY <1>0, <2>1 DEF SeqAgree, SplitPCs
    <2>3. QED
      BY <1>0, <1>1, <2>1, <2>2 DEF SeqAgree, SplitPCs, Agree
  <1>2. CASE /\ AS!GetAtom(sc) # Absent /\ Goto(t, "ps_write")
             /\ arg' = [arg EXCEPT ![t].ptr = atoms[sc]]
    <2>1. sc \in AS!Present /\ pc'[t] = "ps_write"
      BY <1>2, AgreeTypes DEF AS!GetAtom, AS!Present, Goto
    <2>2. /\ arg'[t].scope = sc /\ arg'[t].delta = arg[t].delta
          /\ arg'[t].ptr = atoms[sc]
      BY <1>0, <1>2, AgreeTypes DEF ArgRec
    <2>3. sc \in Registered
          /\ scopes[sc].state = Merge(heap[atoms[sc]].attrs, arg[t].delta)
      BY <1>0, <2>1 DEF SeqAgree
    <2>4. \A s \in Registered \cap AS!Present : s # sc => Agree(s)
      BY <1>0 DEF SeqAgree, SplitPCs
    <2>5. QED
      BY <1>0, <2>1, <2>2, <2>3, <2>4 DEF SeqAgree, SplitPCs, Agree
  <1>3. QED
    BY <1>1, <1>2 DEF PropagateGetAtom

(* The write through the pointer ends the split: the atom's Attributes    *)
(* get the same merge as the State, and no other atom shares the struct.  *)
LEMMA PropagateWriteAgree ==
  ASSUME IntTypeOK, AtomsDistinct, NEW t \in Threads, SeqAgree(t),
         PropagateWrite(t)
  PROVE  SeqAgree(t)'
  <1> DEFINE sc == arg[t].scope
             p == arg[t].ptr
  <1>0. /\ pc[t] = "ps_write" /\ pc'[t] = "idle" /\ arg' = arg
        /\ UNCHANGED <<scopes, atoms>>
        /\ heap' = [heap EXCEPT ![p].attrs = Merge(@, arg[t].delta)]
    BY AgreeTypes DEF PropagateWrite, Goto
  <1>1. /\ sc \in AS!Present /\ sc \in Registered /\ atoms[sc] = p
        /\ scopes[sc].state = Merge(heap[p].attrs, arg[t].delta)
    BY <1>0 DEF SeqAgree
  <1>2. p \in 1..Len(heap) /\ heap[p] \in AS!AtomRec
    BY <1>1, AgreeTypes, LenProperties
  <1>3. heap'[p].attrs = Merge(heap[p].attrs, arg[t].delta)
    BY <1>0, <1>2, AgreeTypes DEF AS!AtomRec
  <1>4. Agree(sc)'
    BY <1>0, <1>1, <1>3 DEF Agree
  <1>5. ASSUME NEW s \in Registered \cap AS!Present, s # sc
        PROVE  Agree(s)'
    <2>1. Agree(s) /\ atoms[s] \in 1..Len(heap) /\ atoms[s] # p
      BY <1>0, <1>1, <1>5, AgreeTypes DEF SeqAgree, SplitPCs, AtomsDistinct
    <2>2. heap'[atoms[s]] = heap[atoms[s]]
      BY <1>0, <2>1
    <2>3. QED
      BY <1>0, <2>1, <2>2 DEF Agree
  <1>6. Registered' = Registered /\ AS!Present' = AS!Present
    BY <1>0 DEF Registered, AS!Present
  <1>7. QED
    BY <1>0, <1>4, <1>5, <1>6 DEF SeqAgree, SplitPCs

(* With one goroutine, every step of the framework keeps SeqInv.           *)
LEMMA SeqInvStep ==
  ASSUME NEW t0, Threads = {t0}
  PROVE  SeqInv(t0) /\ [IntNext]_intVars => SeqInv(t0)'
  <1> SUFFICES ASSUME SeqInv(t0), [IntNext]_intVars PROVE SeqInv(t0)'
    OBVIOUS
  <1>0. IntTypeOK /\ AtomsDistinct /\ SeqAgree(t0)
        /\ pc \in [Threads -> PCs]
    BY DEF SeqInv, IntTypeOK
  <1>1. IntTypeOK' /\ AtomsDistinct'
    BY <1>0, IntTypeStep, AtomsDistinctStep
  <1>a. ASSUME UNCHANGED <<scopes, atoms, heap>>
        PROVE  /\ Registered' = Registered /\ AS!Present' = AS!Present
               /\ \A s : Agree(s) => Agree(s)'
    BY <1>a DEF Registered, AS!Present, Agree
  <1>2. ASSUME NEW s \in ScopeIDs \cup {EmptyID},
               \/ StartCreate(t0, s) \/ StartQuery(t0, s)
               \/ \E delta \in Deltas : StartPropagate(t0, s, delta)
        PROVE  SeqAgree(t0)'
    <2>1. pc[t0] = "idle" /\ pc'[t0] \in {"cbs_var", "qs_var", "ps_hm"}
          /\ UNCHANGED <<scopes, atoms, heap>>
      BY <1>0, <1>2 DEF StartCreate, StartQuery, StartPropagate, Idle, Goto
    <2>2. QED
      BY <1>0, <2>1, <1>a, AgreeFrame DEF SplitPCs
  <1>3. ASSUME CreateVariable(t0) PROVE SeqAgree(t0)'
    <2>1. pc[t0] = "cbs_var" /\ pc'[t0] \in {"idle", "cbs_scope"}
          /\ UNCHANGED <<scopes, atoms, heap>>
      BY <1>0, <1>3 DEF CreateVariable, Goto
    <2>2. QED
      BY <1>0, <2>1, <1>a, AgreeFrame DEF SplitPCs
  <1>4. ASSUME \/ QueryVariable(t0) \/ QueryHypermind(t0) \/ QueryAtom(t0)
        PROVE  SeqAgree(t0)'
    <2>1. pc[t0] \in {"qs_var", "qs_scope", "qs_atom"}
          /\ pc'[t0] \in {"qs_scope", "qs_atom", "idle"}
          /\ UNCHANGED <<scopes, atoms, heap>>
      BY <1>0, <1>4 DEF QueryVariable, QueryHypermind, QueryAtom, QueryRead, Goto
    <2>2. QED
      BY <1>0, <2>1, <1>a, AgreeFrame DEF SplitPCs
  <1>5. ASSUME NEW b \in BoundaryIDs, NEW members \in AS!MemberLists,
               DefineDomainBoundary(t0, b, members)
        PROVE  SeqAgree(t0)'
    <2>1. pc[t0] = "idle" /\ pc'[t0] = "idle" /\ UNCHANGED <<scopes, atoms, heap>>
      BY <1>5 DEF DefineDomainBoundary, AS!DefineBoundary, Idle
    <2>2. QED
      BY <1>0, <2>1, <1>a, AgreeFrame DEF SplitPCs
  <1>6. ASSUME UNCHANGED intVars PROVE SeqAgree(t0)'
    BY <1>0, <1>6 DEF intVars, SeqAgree, Agree, Registered, AS!Present
  <1>7. ASSUME NEW t \in Threads,
               \/ CreateScope(t) \/ CreateAtom(t) \/ CreateTensor(t)
               \/ PropagateHypermind(t) \/ PropagateGetAtom(t) \/ PropagateWrite(t)
        PROVE  SeqAgree(t0)'
    <2>1. t = t0
      OBVIOUS
    <2>2. QED
      BY <1>0, <1>7, <2>1, CreateScopeAgree, CreateAtomAgree, CreateTensorAgree,
         PropagateHypermindAgree, PropagateGetAtomAgree, PropagateWriteAgree
  <1>8. SeqAgree(t0)'
    <2>1. \A t \in Threads : t = t0
      OBVIOUS
    <2>2. QED
      BY <1>2, <1>3, <1>4, <1>5, <1>6, <1>7, <2>1 DEF IntNext
  <1>9. QED
    BY <1>1, <1>8 DEF SeqInv

(* With a single goroutine calling the framework, as in the repository's   *)
(* tests, whenever no call is in progress every scope's State in the       *)
(* hypermind registry equals the Attributes of the atom stored under its   *)
(* ID (ScopeAtomAgree, which the run int_sequential checks): the two       *)
(* writes of PropagateState and of CreateBoundaryScope always come in      *)
(* pairs.  The run int_agree shows that with two goroutines it fails.      *)
THEOREM SequentialScopeAtomAgree ==
  ASSUME NEW t0, Threads = {t0}
  PROVE  IntSpec => []ScopeAtomAgree
  <1>1. IntInit => SeqInv(t0)
    <2> SUFFICES ASSUME IntInit PROVE SeqInv(t0)
      OBVIOUS
    <2>1. IntTypeOK /\ AtomsDistinct
      BY IntInvInit DEF IntInv
    <2>2. Registered = {} /\ pc[t0] = "idle"
      BY DEF IntInit, RegInit, Registered
    <2>3. QED
      BY <2>1, <2>2 DEF SeqInv, SeqAgree, SplitPCs
  <1>2. SeqInv(t0) => ScopeAtomAgree
    BY DEF SeqInv, SeqAgree, SplitPCs, Agree, ScopeAtomAgree, Quiescent, Idle
  <1>3. SeqInv(t0) /\ [IntNext]_intVars => SeqInv(t0)'
    BY SeqInvStep
  <1>4. QED
    BY <1>1, <1>2, <1>3, PTL DEF IntSpec

=============================================================================
