--------------------------- MODULE HypermindBase ---------------------------
(***************************************************************************)
(* What the two halves of MultiScopeArchitecture                           *)
(* (src/internal/hypermind/hypermind.go) share: scope identifiers, which   *)
(* are keys of m.scopes and of the DHT, the sentinels for an empty or nil  *)
(* argument, the reading of time.Now(), and the error an operation         *)
(* returns.                                                                *)
(*                                                                         *)
(* time.Now() is the variable clock: a read returns a time no earlier than *)
(* the previous read, possibly the same one (the clock may be coarse), and *)
(* never later than MaxClock, the bound of a run.                          *)
(***************************************************************************)
EXTENDS Naturals

CONSTANTS
  ScopeIDs,   \* non-empty scope identifiers
  EmptyID,    \* the empty string "" given as an identifier
  NilRef,     \* a nil pointer argument
  Absent,     \* no record under an identifier
  MaxClock    \* last value time.Now() may return in a run

ASSUME BaseAssumption ==
  /\ EmptyID \notin ScopeIDs /\ NilRef \notin ScopeIDs /\ EmptyID # NilRef
  /\ MaxClock \in Nat

VARIABLES
  clock,      \* the last value returned by time.Now()
  ret         \* the error kind the last operation returned

Times == 0..MaxClock

RetKinds == {"ok", "InvalidParameter"}

(* The values one call of time.Now() can return.                           *)
Now == {t \in clock..(clock + 1) : t <= MaxClock}

(* The values a call of time.Now() made right after one that returned t    *)
(* can return.                                                             *)
NowAfter(t) == {u \in t..(t + 1) : u <= MaxClock}
=============================================================================
