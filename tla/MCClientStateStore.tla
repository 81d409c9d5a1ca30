------------------------ MODULE MCClientStateStore -------------------------
(***************************************************************************)
(* Small instances of ClientStateStore.                                    *)
(***************************************************************************)
EXTENDS ClientStateStore, TLC

\* Handles are interchangeable, and so are bindings and states of ordinary size.
StoreSymmetry ==
  Permutations(Handle) \cup Permutations(Binding) \cup Permutations(State \ OversizedStates)
=============================================================================
