-------------------------- MODULE MCRelayHandles ---------------------------
(***************************************************************************)
(* Small instances of RelayHandles: one mailbox of one owner, requests     *)
(* with the few deadlines that matter.                                     *)
(***************************************************************************)
EXTENDS RelayHandles, MCRelay

HandleSymmetry == Permutations(Handle)

\* Registrations that a caller makes in the first second only.
MCEarlyRegistrations == {r \in MCRegistrations : r.valid_until = 1}

\* Fetches with one deadline.
MCFewFetches == {r \in MCFetches : r.valid_until = 2}
=============================================================================
