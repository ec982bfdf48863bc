---------------------------- MODULE MCRpcClient -----------------------------
(* An instance of RpcClient for TLC: a tick of 100 ms, delays cut short.        *)
EXTENDS RpcClient
=============================================================================
