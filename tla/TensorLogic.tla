---------------------------- MODULE TensorLogic ----------------------------
(***************************************************************************)
(* The tensor logic framework (src/unnamed/part_001, package tensorlogic): *)
(* Framework.Variables, a map from a variable's name to the Variable, and  *)
(* Framework.Equations, a slice, with RegisterVariable and DefineEquation. *)
(* Framework has no lock: a call is one step only when no other goroutine  *)
(* uses the framework; Integration models the unguarded write.  Evaluate   *)
(* only reads; Project and Join build a new Variable from their arguments  *)
(* and touch no state.  A Variable's Indices, Shape, Data and Type are     *)
(* never read by code that changes state, so a variable is its name, and   *)
(* an equation is only counted.                                            *)
(***************************************************************************)
EXTENDS Naturals

CONSTANTS
  VarNames,      \* non-empty variable names
  MaxEquations   \* longest Equations slice a run builds

VARIABLES
  variables,     \* the names Framework.Variables holds
  nEquations     \* len(Framework.Equations)

tlVars == <<variables, nEquations>>

TLInit ==
  /\ variables = {}
  /\ nEquations = 0

(* Evaluate(varName): found, or "variable not found".                      *)
Evaluate(name) == name \in variables

(* RegisterVariable(v): a nil variable or an empty name is rejected;       *)
(* else Variables[v.Name] = v, replacing any earlier one.                  *)
RegisterVariable(name) ==
  /\ name \in VarNames
  /\ variables' = variables \cup {name}
  /\ UNCHANGED nEquations

(* DefineEquation(eq): a nil equation is rejected; else it is appended.    *)
DefineEquation ==
  /\ nEquations < MaxEquations
  /\ nEquations' = nEquations + 1
  /\ UNCHANGED variables

TLNext ==
  \/ \E name \in VarNames : RegisterVariable(name)
  \/ DefineEquation

TLSpec == TLInit /\ [][TLNext]_tlVars

(* Every component of the framework has its type.                          *)
TLTypeOK ==
  /\ variables \in SUBSET VarNames
  /\ nEquations \in 0..MaxEquations
=============================================================================
