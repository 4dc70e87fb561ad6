----------------------------- MODULE MCWrapped -----------------------------
(***************************************************************************)
(* The three wrappers for TLC, one of them in each behaviour.              *)
(***************************************************************************)
EXTENDS TbbHash, TbbLRU, HhvmLRU

VARIABLE wrapper

vars == <<callVars, tbbHashVars, tbbLRUVars, hhvmVars, wrapper>>

Init ==
  /\ InitCalls /\ TbbHashInit /\ TbbLRUInit /\ HhvmInit
  /\ wrapper \in {"TbbHash", "TbbLRU", "HhvmLRU"}

Next ==
  /\ \/ wrapper = "TbbHash" /\ TbbHashNext /\ UNCHANGED <<tbbLRUVars, hhvmVars>>
     \/ wrapper = "TbbLRU" /\ TbbLRUNext /\ UNCHANGED <<tbbHashVars, hhvmVars>>
     \/ wrapper = "HhvmLRU" /\ HhvmNext /\ UNCHANGED <<tbbHashVars, tbbLRUVars>>
  /\ UNCHANGED wrapper

Spec == Init /\ [][Next]_vars
=============================================================================
