--------------------------- MODULE ScopeRegistry ---------------------------
(***************************************************************************)
(* The scope registry of the hypermind multi-scope architecture            *)
(* (src/internal/hypermind/hypermind.go): the map                          *)
(* MultiScopeArchitecture.scopes from scope ID to DistributedScope, with   *)
(* the operations RegisterScope and PropagateState.  Each operation runs   *)
(* entirely under m.mu, so it is one atomic step here.  GetScope only      *)
(* reads and is the operator Lookup.                                       *)
(*                                                                         *)
(* Data kept: the State map and the two timestamps.  ParentID, Type and    *)
(* the Peers snapshot are stored verbatim and never read by the code, so   *)
(* they are left out.                                                      *)
(***************************************************************************)
EXTENDS HypermindBase

CONSTANTS
  Keys,       \* keys of a scope's State map
  Vals,       \* values stored under those keys
  Unset       \* no value under a key of State

ASSUME ScopeAssumption == Unset \notin Vals

VARIABLE
  scopes      \* m.scopes: scope ID -> DistributedScope or Absent

regVars == <<scopes, clock, ret>>

(* A State map: nil and the empty map both read as every key Unset.        *)
StateMaps == [Keys -> Vals \cup {Unset}]

(* A delta argument of PropagateState: a map over some of the keys.        *)
Deltas == UNION {[D -> Vals] : D \in SUBSET Keys}

ScopeRec == [state : StateMaps, created : Times, updated : Times]

(* GetScope(scopeID): the stored scope, or Absent ("scope not found").     *)
Lookup(id) == IF id \in ScopeIDs THEN scopes[id] ELSE Absent

Registered == {s \in ScopeIDs : scopes[s] # Absent}

(* Absent (a nil pointer) is no scope record and no State map.             *)
ASSUME AbsentAssumption == Absent \notin ScopeRec \cup StateMaps

RegInit ==
  /\ scopes = [s \in ScopeIDs |-> Absent]
  /\ clock = 0
  /\ ret = "ok"

(* RegisterScope with a nil scope or an empty ID: rejected before m.mu.    *)
RegisterScopeRejected(ref) ==
  /\ ref \in {NilRef, EmptyID}
  /\ ret' = "InvalidParameter"
  /\ UNCHANGED <<scopes, clock>>

(* Mutant of RegisterScope: UpdatedAt stamped before CreatedAt.           *)
RegisterScopeSwappedStamps(id, st) ==
  /\ id \in ScopeIDs
  /\ \E u \in Now :
       \E c \in NowAfter(u) :
         /\ scopes' = [scopes EXCEPT ![id] =
                         [state |-> st, created |-> c, updated |-> u]]
         /\ clock' = c
  /\ ret' = "ok"

(* RegisterScope(scope): two reads of time.Now() for CreatedAt and         *)
(* UpdatedAt, a nil State replaced by an empty map (st is the caller's     *)
(* State), then an upsert of the record under its ID.                      *)
RegisterScope(id, st) ==
  /\ id \in ScopeIDs
  /\ \E c \in Now :
       \E u \in NowAfter(c) :
         /\ scopes' = [scopes EXCEPT ![id] =
                         [state |-> st, created |-> c, updated |-> u]]
         /\ clock' = u
  /\ ret' = "ok"

(* PropagateState(scopeID, state) on an unknown scope: "scope not found",  *)
(* reported with the InvalidParameter kind.                                *)
PropagateStateNotFound(id) ==
  /\ Lookup(id) = Absent
  /\ ret' = "InvalidParameter"
  /\ UNCHANGED <<scopes, clock>>

(* Mutant of Merge: the keys the delta does not name are cleared.         *)
MergeClearOthers(st, delta) ==
  [k \in Keys |-> IF k \in DOMAIN delta THEN delta[k] ELSE Unset]

(* The loop `for k, v := range state { scope.State[k] = v }`.              *)
Merge(st, delta) ==
  [k \in Keys |-> IF k \in DOMAIN delta THEN delta[k] ELSE st[k]]

(* Mutant of PropagateState: State replaced by the delta, not merged.      *)
PropagateStateReplace(id, delta) ==
  /\ Lookup(id) # Absent
  /\ \E u \in Now :
       /\ scopes' = [scopes EXCEPT ![id].state = delta, ![id].updated = u]
       /\ clock' = u
  /\ ret' = "ok"

(* PropagateState(scopeID, state): merge the delta into State, refresh     *)
(* UpdatedAt, then call propagateToPeers, which returns nil.               *)
PropagateState(id, delta) ==
  /\ Lookup(id) # Absent
  /\ \E u \in Now :
       /\ scopes' = [scopes EXCEPT ![id].state = Merge(@, delta),
                                   ![id].updated = u]
       /\ clock' = u
  /\ ret' = "ok"

RegNext ==
  \/ \E ref \in {NilRef, EmptyID} : RegisterScopeRejected(ref)
  \/ \E id \in ScopeIDs, st \in StateMaps : RegisterScope(id, st)
  \/ \E id \in ScopeIDs \cup {EmptyID} :
       \/ PropagateStateNotFound(id)
       \/ \E delta \in Deltas : PropagateState(id, delta)

RegSpec == RegInit /\ [][RegNext]_regVars

-----------------------------------------------------------------------------
(* Every component of the registry has its type.                           *)
RegTypeOK ==
  /\ scopes \in [ScopeIDs -> ScopeRec \cup {Absent}]
  /\ clock \in Times
  /\ ret \in RetKinds

(* A scope's UpdatedAt is never earlier than its CreatedAt, whatever       *)
(* sequence of re-registrations and PropagateState calls it went through:  *)
(* RegisterScope reads CreatedAt before UpdatedAt and PropagateState only  *)
(* moves UpdatedAt forward, because time.Now() never goes back.            *)
UpdatedNotBeforeCreated ==
  \A s \in Registered : scopes[s].created <= scopes[s].updated

(* The strengthening of UpdatedNotBeforeCreated that is inductive: no      *)
(* stored timestamp is later than the last time.Now() reading.             *)
StampsBounded ==
  \A s \in Registered : scopes[s].updated <= clock

(* Spec section 8: right after RegisterScope, CreatedAt and UpdatedAt are   *)
(* equal.  The code stamps them with two separate calls of time.Now().     *)
RegisterStampsEqual ==
  [][\A id \in ScopeIDs, st \in StateMaps :
       RegisterScope(id, st) => scopes'[id].created = scopes'[id].updated]_regVars

RegInv == RegTypeOK /\ UpdatedNotBeforeCreated /\ StampsBounded

(* Spec section 8: PropagateState on a registered scope makes UpdatedAt     *)
(* strictly increase.  The code stamps it with time.Now(), which can       *)
(* return the time it returned before.                                     *)
PropagateStrictlyIncreases ==
  [][\A id \in ScopeIDs, delta \in Deltas :
       PropagateState(id, delta) => scopes'[id].updated > scopes[id].updated]_regVars

-----------------------------------------------------------------------------
(* The State maps of the registry, seen as the abstract scope store.       *)
StoreView ==
  [s \in ScopeIDs |-> IF scopes[s] = Absent THEN Absent ELSE scopes[s].state]
=============================================================================
