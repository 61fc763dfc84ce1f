----------------------------- MODULE MCFrpcClient -----------------------------
(* FrpcClient on two or three nodes. *)
EXTENDS FrpcClient
===============================================================================
