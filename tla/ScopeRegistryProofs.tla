------------------------- MODULE ScopeRegistryProofs -------------------------
(***************************************************************************)
(* Proofs about the scope registry for every value of the constants:       *)
(* RegisterScope and PropagateState keep every record well typed, and      *)
(* UpdatedAt is never earlier than CreatedAt.  The second needs            *)
(* StampsBounded: a step reads time.Now() no earlier than the clock, so    *)
(* it must be known that no stored stamp is later than the clock.          *)
(***************************************************************************)
EXTENDS ScopeRegistry, TLAPS

(* time.Now() readings stay in Times and never go back.                    *)
LEMMA NowInTimes ==
  ASSUME clock \in Times
  PROVE  /\ \A t \in Now : t \in Times /\ clock <= t
         /\ \A t \in Times : \A u \in NowAfter(t) : u \in Times /\ t <= u
  BY BaseAssumption DEF Now, NowAfter, Times

(* Merging a delta into a State map gives a State map.                     *)
LEMMA MergeType ==
  ASSUME NEW st \in StateMaps, NEW delta \in Deltas
  PROVE  Merge(st, delta) \in StateMaps
  <1>1. PICK D \in SUBSET Keys : delta \in [D -> Vals]
    BY DEF Deltas
  <1>2. \A k \in Keys : (IF k \in DOMAIN delta THEN delta[k] ELSE st[k])
                          \in Vals \cup {Unset}
    BY <1>1 DEF StateMaps
  <1>3. QED
    BY <1>2 DEF Merge, StateMaps

(* Every step of the registry keeps it well typed.                         *)
LEMMA TypeStep == RegTypeOK /\ [RegNext]_regVars => RegTypeOK'
  <1> SUFFICES ASSUME RegTypeOK, [RegNext]_regVars PROVE RegTypeOK'
    OBVIOUS
  <1> USE DEF RegTypeOK
  <1>1. ASSUME NEW ref \in {NilRef, EmptyID}, RegisterScopeRejected(ref)
        PROVE RegTypeOK'
    BY <1>1 DEF RegisterScopeRejected, RetKinds
  <1>2. ASSUME NEW id \in ScopeIDs, NEW st \in StateMaps, RegisterScope(id, st)
        PROVE RegTypeOK'
    <2>0. PICK c \in Now :
            \E u \in NowAfter(c) :
              /\ scopes' = [scopes EXCEPT ![id] =
                              [state |-> st, created |-> c, updated |-> u]]
              /\ clock' = u
      BY <1>2 DEF RegisterScope
    <2>1. PICK u \in NowAfter(c) :
            /\ scopes' = [scopes EXCEPT ![id] =
                            [state |-> st, created |-> c, updated |-> u]]
            /\ clock' = u
      BY <2>0
    <2>2. c \in Times /\ u \in Times
      BY <2>1, NowInTimes
    <2>3. QED
      BY <1>2, <2>1, <2>2 DEF RegisterScope, ScopeRec, RetKinds
  <1>3. ASSUME NEW id \in ScopeIDs \cup {EmptyID}, PropagateStateNotFound(id)
        PROVE RegTypeOK'
    BY <1>3 DEF PropagateStateNotFound, RetKinds
  <1>4. ASSUME NEW id \in ScopeIDs \cup {EmptyID}, NEW delta \in Deltas,
               PropagateState(id, delta)
        PROVE RegTypeOK'
    <2>1. id \in ScopeIDs /\ scopes[id] \in ScopeRec
      BY <1>4, BaseAssumption DEF PropagateState, Lookup
    <2>2. PICK u \in Now :
            /\ scopes' = [scopes EXCEPT ![id].state = Merge(@, delta),
                                        ![id].updated = u]
            /\ clock' = u
      BY <1>4 DEF PropagateState
    <2>3. u \in Times
      BY <2>2, NowInTimes
    <2>4. Merge(scopes[id].state, delta) \in StateMaps
      BY <2>1, MergeType DEF ScopeRec
    <2>5. QED
      BY <1>4, <2>1, <2>2, <2>3, <2>4 DEF PropagateState, ScopeRec, RetKinds
  <1>5. CASE UNCHANGED regVars
    BY <1>5 DEF regVars
  <1>6. QED
    BY <1>1, <1>2, <1>3, <1>4, <1>5 DEF RegNext

(* The registry is well typed in every reachable state.                    *)
THEOREM RegTypeCorrect == RegSpec => []RegTypeOK
  <1>1. RegInit => RegTypeOK
    BY BaseAssumption DEF RegInit, RegTypeOK, Times, RetKinds
  <1>2. QED
    BY <1>1, TypeStep, PTL DEF RegSpec

(* In a well-typed state the stamps of a registered scope and the clock  *)
(* are naturals.                                                           *)
LEMMA StampsNat ==
  ASSUME RegTypeOK
  PROVE  /\ clock \in Nat
         /\ \A s \in Registered : /\ scopes[s] \in ScopeRec
                                  /\ scopes[s].created \in Nat
                                  /\ scopes[s].updated \in Nat
  BY BaseAssumption DEF RegTypeOK, Registered, ScopeRec, Times

(* Every step keeps RegInv: the time a step reads is no earlier than the   *)
(* clock, which no stored stamp exceeds.                                   *)
LEMMA InvStep == RegInv /\ [RegNext]_regVars => RegInv'
  <1> SUFFICES ASSUME RegInv, [RegNext]_regVars PROVE RegInv'
    OBVIOUS
  <1>0. RegTypeOK /\ RegTypeOK'
    BY TypeStep DEF RegInv
  <1>a. /\ clock \in Nat /\ clock' \in Nat
        /\ \A s \in Registered : /\ scopes[s] \in ScopeRec
                                 /\ scopes[s].created \in Nat
                                 /\ scopes[s].updated \in Nat
    <2>1. clock \in Nat /\ \A s \in Registered : /\ scopes[s] \in ScopeRec
                                                /\ scopes[s].created \in Nat
                                                /\ scopes[s].updated \in Nat
      BY <1>0, StampsNat
    <2>2. clock' \in Nat
      BY <1>0, BaseAssumption DEF RegTypeOK, Times
    <2>3. QED
      BY <2>1, <2>2
  <1>b. \A s \in Registered : /\ scopes[s].created <= scopes[s].updated
                              /\ scopes[s].updated <= clock
    BY DEF RegInv, UpdatedNotBeforeCreated, StampsBounded
  <1>c. SUFFICES \A s \in Registered' : /\ scopes'[s].created <= scopes'[s].updated
                                        /\ scopes'[s].updated <= clock'
    BY <1>0 DEF RegInv, UpdatedNotBeforeCreated, StampsBounded
  <1>1. ASSUME NEW ref \in {NilRef, EmptyID}, RegisterScopeRejected(ref)
        PROVE <1>c!1
    BY <1>1, <1>b DEF RegisterScopeRejected, Registered
  <1>2. ASSUME NEW id \in ScopeIDs, NEW st \in StateMaps, RegisterScope(id, st)
        PROVE <1>c!1
    <2>0. PICK c \in Now :
            \E u \in NowAfter(c) :
              /\ scopes' = [scopes EXCEPT ![id] =
                              [state |-> st, created |-> c, updated |-> u]]
              /\ clock' = u
      BY <1>2 DEF RegisterScope
    <2>1. PICK u \in NowAfter(c) :
            /\ scopes' = [scopes EXCEPT ![id] =
                            [state |-> st, created |-> c, updated |-> u]]
            /\ clock' = u
      BY <2>0
    <2>2. c \in Times /\ u \in Times /\ clock <= c /\ c <= u
      BY <2>1, <1>0, NowInTimes DEF RegTypeOK
    <2> SUFFICES ASSUME NEW s \in Registered'
                 PROVE  scopes'[s].created <= scopes'[s].updated
                        /\ scopes'[s].updated <= clock'
      OBVIOUS
    <2>3. CASE s = id
      BY <2>1, <2>2, <2>3, <1>0 DEF RegTypeOK, Times
    <2>4. CASE s # id
      <3>1. scopes'[s] = scopes[s] /\ s \in Registered
        BY <2>1, <2>4, <1>0 DEF RegTypeOK, Registered
      <3>2. QED
        BY <3>1, <2>1, <2>2, <1>a, <1>b DEF Times
    <2>5. QED
      BY <2>3, <2>4
  <1>3. ASSUME NEW id \in ScopeIDs \cup {EmptyID}, PropagateStateNotFound(id)
        PROVE <1>c!1
    BY <1>3, <1>b DEF PropagateStateNotFound, Registered
  <1>4. ASSUME NEW id \in ScopeIDs \cup {EmptyID}, NEW delta \in Deltas,
               PropagateState(id, delta)
        PROVE <1>c!1
    <2>1. id \in Registered
      BY <1>4, BaseAssumption DEF PropagateState, Lookup, Registered
    <2>2. PICK u \in Now :
            /\ scopes' = [scopes EXCEPT ![id].state = Merge(@, delta),
                                        ![id].updated = u]
            /\ clock' = u
      BY <1>4 DEF PropagateState
    <2>3. u \in Times /\ clock <= u
      BY <2>2, <1>0, NowInTimes DEF RegTypeOK
    <2> SUFFICES ASSUME NEW s \in Registered'
                 PROVE  scopes'[s].created <= scopes'[s].updated
                        /\ scopes'[s].updated <= clock'
      OBVIOUS
    <2>4. CASE s = id
      <3>1. scopes'[id].created = scopes[id].created /\ scopes'[id].updated = u
        BY <2>1, <2>2, <1>a, <1>0 DEF RegTypeOK, ScopeRec
      <3>2. QED
        BY <3>1, <2>1, <2>2, <2>3, <2>4, <1>a, <1>b DEF Times
    <2>5. CASE s # id
      <3>1. scopes'[s] = scopes[s] /\ s \in Registered
        BY <2>2, <2>5, <1>0 DEF RegTypeOK, Registered
      <3>2. QED
        BY <3>1, <2>2, <2>3, <1>a, <1>b DEF Times
    <2>6. QED
      BY <2>4, <2>5
  <1>5. CASE UNCHANGED regVars
    BY <1>5, <1>b DEF regVars, Registered
  <1>6. QED
    BY <1>1, <1>2, <1>3, <1>4, <1>5 DEF RegNext

(* For every value of the constants, a scope's UpdatedAt is never earlier  *)
(* than its CreatedAt (the property the run reg_stamps checks).            *)
THEOREM RegStampsOrdered == RegSpec => []UpdatedNotBeforeCreated
  <1>1. RegInit => RegInv
    BY BaseAssumption
       DEF RegInit, RegInv, RegTypeOK, Times, RetKinds,
           UpdatedNotBeforeCreated, StampsBounded, Registered
  <1>2. RegInv => UpdatedNotBeforeCreated
    BY DEF RegInv
  <1>3. QED
    BY <1>1, <1>2, InvStep, PTL DEF RegSpec
=============================================================================
