---------------------------- MODULE MCOlmClient ----------------------------
(***************************************************************************)
(* Small instances of OlmClient.                                           *)
(***************************************************************************)
EXTENDS OlmClient, TLC

ClientSymmetry == Permutations(Client) \cup Permutations(Conversation)
=============================================================================
