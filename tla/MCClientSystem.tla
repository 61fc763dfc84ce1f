---------------------------- MODULE MCClientSystem ----------------------------
(* ClientSystem on a few nodes. *)
EXTENDS ClientSystem
===============================================================================
