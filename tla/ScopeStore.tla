----------------------------- MODULE ScopeStore -----------------------------
(***************************************************************************)
(* What the scope registry of hypermind.go promises its callers, with the  *)
(* timestamps and the error results abstracted away: a map from scope ID   *)
(* to a State map in which RegisterScope is an upsert that installs the    *)
(* caller's State and PropagateState merges a delta key by key into the    *)
(* State of an existing scope.  InitialStates are the States the callers   *)
(* of RegisterScope pass, so a State is one of them followed by merges.    *)
(* Calls that fail change nothing: they are stuttering steps here.         *)
(***************************************************************************)
CONSTANTS
  ScopeIDs,   \* non-empty scope identifiers
  Keys,       \* keys of a State map
  Vals,       \* values stored under them
  Unset,      \* no value under a key
  Absent,     \* no scope under an ID
  InitialStates  \* the State maps the callers of RegisterScope pass

VARIABLE
  store       \* scope ID -> State map, or Absent

StoreDeltas == UNION {[D -> Vals] : D \in SUBSET Keys}

StoreInit == store = [s \in ScopeIDs |-> Absent]

(* RegisterScope: the scope's State becomes st, one of the States its      *)
(* callers pass, whether or not the scope existed.                         *)
Register(id, st) ==
  store' = [store EXCEPT ![id] = st]

(* PropagateState: the keys of delta take its values, the others keep      *)
(* theirs; only an existing scope is updated.                              *)
Update(id, delta) ==
  /\ store[id] # Absent
  /\ store' = [store EXCEPT ![id] =
                 [k \in Keys |-> IF k \in DOMAIN delta THEN delta[k] ELSE @[k]]]

StoreNext ==
  \E id \in ScopeIDs :
    \/ \E st \in InitialStates : Register(id, st)
    \/ \E delta \in StoreDeltas : Update(id, delta)

StoreSpec == StoreInit /\ [][StoreNext]_store
=============================================================================
