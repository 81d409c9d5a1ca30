---------------------------- MODULE MCMessenger ----------------------------
(***************************************************************************)
(* Small instances of Messenger. The two clients differ in who writes,     *)
(* restarts or closes, so they are not interchangeable.                    *)
(***************************************************************************)
EXTENDS Messenger
=============================================================================
