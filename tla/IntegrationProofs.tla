------------------------- MODULE IntegrationProofs -------------------------
(***************************************************************************)
(* Proofs about the unified framework for every value of the constants.    *)
(* The framework drives the registry only through CreateScope (a           *)
(* RegisterScope of an empty State) and PropagateHypermind (a              *)
(* PropagateState), and no other step touches m.scopes, so every step of   *)
(* the framework is a step of the registry or leaves it alone: the         *)
(* registry's invariants carry over, and its State maps implement the      *)
(* scope store with the empty map as the only initial State.  The one fact *)
(* about the goroutines this needs is CallArgsOK: the scope and the delta  *)
(* of every call in progress are ones a caller can pass.                   *)
(***************************************************************************)
EXTENDS Integration, ScopeRegistryProofs, TLAPS

(* The arguments of every goroutine's call: a scope ID or "", and a delta. *)
CallArgsOK ==
  /\ DOMAIN arg = Threads
  /\ \A t \in Threads : /\ {"scope", "delta"} \subseteq DOMAIN arg[t]
                        /\ arg[t].scope \in ScopeIDs \cup {EmptyID}
                        /\ arg[t].delta \in Deltas

(* The arguments NewArg builds are ones a caller can pass.                 *)
LEMMA NewArgOK ==
  ASSUME NEW s \in ScopeIDs \cup {EmptyID}, NEW delta \in Deltas
  PROVE  /\ {"scope", "delta"} \subseteq DOMAIN NewArg(s, delta)
         /\ NewArg(s, delta).scope = s /\ NewArg(s, delta).delta = delta
         /\ {"scope", "delta"} \subseteq DOMAIN [NewArg(s, delta) EXCEPT !.seen = Holding(s)]
         /\ [NewArg(s, delta) EXCEPT !.seen = Holding(s)].scope = s
         /\ [NewArg(s, delta) EXCEPT !.seen = Holding(s)].delta = delta
  BY DEF NewArg

(* The empty map is a delta (a nil State) and a State map.                 *)
LEMMA EmptyMaps == << >> \in Deltas /\ EmptyMap \in StateMaps
  <1>1. << >> \in [{} -> Vals]
    OBVIOUS
  <1>2. QED
    BY <1>1 DEF Deltas, EmptyMap, StateMaps

(* A step of a goroutine that writes one field other than scope and delta  *)
(* into its own arguments keeps CallArgsOK.                                *)
LEMMA FieldWriteOK ==
  ASSUME CallArgsOK, NEW t \in Threads, NEW f \in {"ptr", "found"}, NEW v,
         arg' = [arg EXCEPT ![t] = [@ EXCEPT ![f] = v]]
  PROVE  CallArgsOK'
  BY DEF CallArgsOK

(* Starting a call keeps CallArgsOK.                                       *)
LEMMA StartOK ==
  ASSUME CallArgsOK, NEW t \in Threads, NEW r,
         {"scope", "delta"} \subseteq DOMAIN r,
         r.scope \in ScopeIDs \cup {EmptyID}, r.delta \in Deltas,
         arg' = [arg EXCEPT ![t] = r]
  PROVE  CallArgsOK'
  BY DEF CallArgsOK

(* Every step keeps the arguments of the calls in progress well formed.    *)
LEMMA ArgsStep == CallArgsOK /\ [IntNext]_intVars => CallArgsOK'
  <1> SUFFICES ASSUME CallArgsOK, [IntNext]_intVars PROVE CallArgsOK'
    OBVIOUS
  <1>1. ASSUME NEW t \in Threads, NEW s \in ScopeIDs \cup {EmptyID},
               StartCreate(t, s) \/ StartQuery(t, s)
        PROVE  CallArgsOK'
    <2>1. CASE StartCreate(t, s)
      <3>1. arg' = [arg EXCEPT ![t] = NewArg(s, << >>)]
        BY <2>1 DEF StartCreate
      <3>2. /\ {"scope", "delta"} \subseteq DOMAIN NewArg(s, << >>)
            /\ NewArg(s, << >>).scope \in ScopeIDs \cup {EmptyID}
            /\ NewArg(s, << >>).delta \in Deltas
        BY NewArgOK, EmptyMaps
      <3>3. QED
        BY <3>1, <3>2, StartOK
    <2>2. CASE StartQuery(t, s)
      <3> DEFINE r == [NewArg(s, << >>) EXCEPT !.seen = Holding(s)]
      <3>1. arg' = [arg EXCEPT ![t] = r]
        BY <2>2 DEF StartQuery
      <3>2. /\ {"scope", "delta"} \subseteq DOMAIN r
            /\ r.scope \in ScopeIDs \cup {EmptyID}
            /\ r.delta \in Deltas
        BY NewArgOK, EmptyMaps
      <3>3. QED
        BY <3>1, <3>2, StartOK
    <2>3. QED
      BY <1>1, <2>1, <2>2
  <1>2. ASSUME NEW t \in Threads, NEW s \in ScopeIDs \cup {EmptyID},
               NEW delta \in Deltas, StartPropagate(t, s, delta)
        PROVE  CallArgsOK'
    BY <1>2, NewArgOK, StartOK DEF StartPropagate
  <1>3. ASSUME NEW t \in Threads, PropagateGetAtom(t)
        PROVE  CallArgsOK'
    <2>1. CASE arg' = arg
      BY <2>1 DEF CallArgsOK
    <2>2. CASE arg' = [arg EXCEPT ![t].ptr = atoms[arg[t].scope]]
      BY <2>2, FieldWriteOK
    <2>3. QED
      BY <1>3, <2>1, <2>2 DEF PropagateGetAtom
  <1>4. ASSUME NEW t \in Threads,
               QueryVariable(t) \/ QueryHypermind(t) \/ QueryAtom(t)
        PROVE  CallArgsOK'
    <2>1. PICK p \in Parts, found \in BOOLEAN :
            arg' = [arg EXCEPT ![t].found = IF found THEN @ \cup {p} ELSE @]
      BY <1>4 DEF QueryVariable, QueryHypermind, QueryAtom, QueryRead, Parts
    <2>2. QED
      BY <2>1, FieldWriteOK
  <1>5. ASSUME NEW t \in Threads,
               \/ CreateVariable(t) \/ CreateScope(t) \/ CreateAtom(t)
               \/ CreateTensor(t) \/ PropagateHypermind(t) \/ PropagateWrite(t)
               \/ \E b \in BoundaryIDs, members \in AS!MemberLists :
                    DefineDomainBoundary(t, b, members)
        PROVE  CallArgsOK'
    <2>1. arg' = arg
      BY <1>5 DEF CreateVariable, CreateScope, CreateAtom, CreateTensor,
                  PropagateHypermind, PropagateWrite, DefineDomainBoundary
    <2>2. QED
      BY <2>1 DEF CallArgsOK
  <1>6. CASE UNCHANGED intVars
    BY <1>6 DEF intVars, CallArgsOK
  <1>7. QED
    BY <1>1, <1>2, <1>3, <1>4, <1>5, <1>6 DEF IntNext

(* The steps of the framework other than CreateScope and                   *)
(* PropagateHypermind.                                                     *)
OtherStep(t) ==
  \/ \E s \in ScopeIDs \cup {EmptyID} :
       \/ StartCreate(t, s)
       \/ \E delta \in Deltas : StartPropagate(t, s, delta)
       \/ StartQuery(t, s)
  \/ CreateVariable(t) \/ CreateAtom(t) \/ CreateTensor(t)
  \/ PropagateGetAtom(t) \/ PropagateWrite(t)
  \/ QueryVariable(t) \/ QueryHypermind(t) \/ QueryAtom(t)
  \/ \E b \in BoundaryIDs, members \in AS!MemberLists :
       DefineDomainBoundary(t, b, members)

(* None of them touches the registry.                                      *)
LEMMA OtherStepKeepsRegistry ==
  ASSUME NEW t \in Threads, OtherStep(t)
  PROVE  UNCHANGED regVars
  BY DEF OtherStep, StartCreate, StartPropagate, StartQuery, CreateVariable,
         CreateAtom, CreateTensor, PropagateGetAtom, PropagateWrite,
         QueryVariable, QueryHypermind, QueryAtom, QueryRead,
         DefineDomainBoundary, regVars

(* Every step of the framework is a step of the registry or leaves it      *)
(* alone: CreateScope is a RegisterScope of an empty State, and            *)
(* PropagateHypermind a PropagateState of the call's scope and delta.      *)
LEMMA RegistryStep == CallArgsOK /\ [IntNext]_intVars => [RegNext]_regVars
  <1> SUFFICES ASSUME CallArgsOK, [IntNext]_intVars PROVE [RegNext]_regVars
    OBVIOUS
  <1>1. ASSUME NEW t \in Threads, CreateScope(t)
        PROVE  RegNext
    <2>1. arg[t].scope \in ScopeIDs /\ RegisterScope(arg[t].scope, EmptyMap)
      BY <1>1 DEF CreateScope, RegisterScope
    <2>2. QED
      BY <2>1, EmptyMaps DEF RegNext
  <1>2. ASSUME NEW t \in Threads, PropagateHypermind(t)
        PROVE  RegNext
    <2>1. arg[t].scope \in ScopeIDs \cup {EmptyID} /\ arg[t].delta \in Deltas
      BY DEF CallArgsOK
    <2>2. QED
      BY <1>2, <2>1 DEF PropagateHypermind, RegNext
  <1>3. ASSUME NEW t \in Threads, OtherStep(t)
        PROVE  UNCHANGED regVars
    BY <1>3, OtherStepKeepsRegistry
  <1>4. CASE UNCHANGED intVars
    BY <1>4 DEF intVars, regVars
  <1>5. QED
    BY <1>1, <1>2, <1>3, <1>4 DEF IntNext, OtherStep

(* The registry invariant of ScopeRegistryProofs, with the arguments.     *)
IntRegInv == RegInv /\ CallArgsOK

LEMMA IntRegInvStep == IntRegInv /\ [IntNext]_intVars => IntRegInv'
  BY RegistryStep, ArgsStep, InvStep DEF IntRegInv

LEMMA IntRegInvInit == IntInit => IntRegInv
  <1> SUFFICES ASSUME IntInit PROVE IntRegInv
    OBVIOUS
  <1>1. RegInv
    BY BaseAssumption
       DEF IntInit, RegInit, RegInv, RegTypeOK, Times, RetKinds,
           UpdatedNotBeforeCreated, StampsBounded, Registered
  <1>2. CallArgsOK
    BY NewArgOK, EmptyMaps, BaseAssumption DEF IntInit, CallArgsOK
  <1>3. QED
    BY <1>1, <1>2 DEF IntRegInv

(* For every value of the constants, however the goroutines of the         *)
(* framework interleave, no scope's UpdatedAt is earlier than its          *)
(* CreatedAt: the registry's own argument, applied to the framework.       *)
THEOREM IntStampsOrdered == IntSpec => []UpdatedNotBeforeCreated
  <1>1. IntRegInv => UpdatedNotBeforeCreated
    BY DEF IntRegInv, RegInv
  <1>2. QED
    BY <1>1, IntRegInvInit, IntRegInvStep, PTL DEF IntSpec

(* A RegisterScope of State st maps to the store's Register(id, st).       *)
LEMMA RegisterRefines ==
  ASSUME RegTypeOK, NEW id \in ScopeIDs, NEW st \in StateMaps,
         RegisterScope(id, st)
  PROVE  Store!Register(id, st)
  <1>1. PICK c \in Now : \E u \in NowAfter(c) :
          scopes' = [scopes EXCEPT ![id] = [state |-> st, created |-> c, updated |-> u]]
    BY DEF RegisterScope
  <1>2. PICK u \in NowAfter(c) :
          scopes' = [scopes EXCEPT ![id] = [state |-> st, created |-> c, updated |-> u]]
    BY <1>1
  <1>3. [state |-> st, created |-> c, updated |-> u] \in ScopeRec
    BY <1>2, NowInTimes DEF ScopeRec, RegTypeOK
  <1>4. scopes'[id] # Absent /\ scopes'[id].state = st
    BY <1>2, <1>3, AbsentAssumption DEF RegTypeOK
  <1>5. \A s \in ScopeIDs \ {id} : scopes'[s] = scopes[s]
    BY <1>2 DEF RegTypeOK
  <1>6. QED
    BY <1>4, <1>5 DEF Store!Register, StoreView

(* A PropagateState maps to the store's Update(id, delta).                 *)
LEMMA PropagateRefines ==
  ASSUME RegTypeOK, NEW id, NEW delta \in Deltas, PropagateState(id, delta)
  PROVE  /\ id \in ScopeIDs
         /\ Store!Update(id, delta)
  <1>1. id \in ScopeIDs /\ scopes[id] \in ScopeRec
    BY AbsentAssumption DEF PropagateState, Lookup, RegTypeOK
  <1>2. PICK u \in Now :
          scopes' = [scopes EXCEPT ![id].state = Merge(@, delta), ![id].updated = u]
    BY DEF PropagateState
  <1>3. scopes[id].state \in StateMaps /\ scopes[id].state # Absent
    BY <1>1, AbsentAssumption DEF ScopeRec
  <1>4. scopes'[id] \in ScopeRec /\ scopes'[id].state = Merge(scopes[id].state, delta)
    BY <1>1, <1>2, <1>3, MergeType, NowInTimes DEF ScopeRec, RegTypeOK
  <1>5. scopes'[id] # Absent
    BY <1>4, AbsentAssumption
  <1>6. \A s \in ScopeIDs \ {id} : scopes'[s] = scopes[s]
    BY <1>2 DEF RegTypeOK
  <1>7. StoreView[id] = scopes[id].state
    BY <1>1, <1>3, AbsentAssumption DEF StoreView
  <1>8. QED
    BY <1>1, <1>3, <1>4, <1>5, <1>6, <1>7 DEF Store!Update, StoreView, Merge

(* Every step of the framework is a step of the scope store or leaves the  *)
(* State maps alone.                                                       *)
LEMMA StoreStep ==
  IntRegInv /\ [IntNext]_intVars => [Store!StoreNext]_StoreView
  <1> SUFFICES ASSUME IntRegInv, [IntNext]_intVars
               PROVE  [Store!StoreNext]_StoreView
    OBVIOUS
  <1>0. RegTypeOK /\ CallArgsOK
    BY DEF IntRegInv, RegInv
  <1>1. ASSUME NEW t \in Threads, CreateScope(t)
        PROVE  Store!StoreNext
    <2>1. arg[t].scope \in ScopeIDs /\ RegisterScope(arg[t].scope, EmptyMap)
      BY <1>1 DEF CreateScope, RegisterScope
    <2>2. Store!Register(arg[t].scope, EmptyMap)
      BY <1>0, <2>1, EmptyMaps, RegisterRefines
    <2>3. QED
      BY <2>1, <2>2 DEF Store!StoreNext
  <1>2. ASSUME NEW t \in Threads, PropagateHypermind(t)
        PROVE  [Store!StoreNext]_StoreView
    <2>1. arg[t].delta \in Deltas
      BY <1>0 DEF CallArgsOK
    <2>2. CASE PropagateStateNotFound(arg[t].scope)
      BY <2>2 DEF PropagateStateNotFound, StoreView
    <2>3. CASE PropagateState(arg[t].scope, arg[t].delta)
      <3>1. arg[t].scope \in ScopeIDs /\ Store!Update(arg[t].scope, arg[t].delta)
        BY <1>0, <2>1, <2>3, PropagateRefines
      <3>2. arg[t].delta \in Store!StoreDeltas
        BY <2>1 DEF Deltas, Store!StoreDeltas
      <3>3. QED
        BY <3>1, <3>2 DEF Store!StoreNext
    <2>4. QED
      BY <1>2, <2>2, <2>3 DEF PropagateHypermind
  <1>3. ASSUME NEW t \in Threads, OtherStep(t)
        PROVE  UNCHANGED StoreView
    BY <1>3, OtherStepKeepsRegistry DEF regVars, StoreView
  <1>4. CASE UNCHANGED intVars
    BY <1>4 DEF intVars, StoreView
  <1>5. QED
    BY <1>1, <1>2, <1>3, <1>4 DEF IntNext, OtherStep

(* For every value of the constants, the registry as the unified framework *)
(* drives it implements the scope store (the property StoreRefinement the  *)
(* run int_concurrent checks): the initial registry is the empty store,    *)
(* and each step of any goroutine registers an empty State, merges a delta *)
(* into an existing scope's State, or leaves every State alone.            *)
THEOREM IntRefinesStore == IntSpec => StoreRefinement
  <1>1. IntInit => Store!StoreInit
    BY DEF IntInit, RegInit, Store!StoreInit, StoreView
  <1>2. IntRegInv /\ [IntNext]_intVars => IntRegInv' /\ [Store!StoreNext]_StoreView
    BY IntRegInvStep, StoreStep
  <1>3. QED
    BY <1>1, <1>2, IntRegInvInit, PTL DEF IntSpec, StoreRefinement, Store!StoreSpec
=============================================================================
