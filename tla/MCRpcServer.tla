---------------------------- MODULE MCRpcServer ----------------------------
(* A session of a few messages about one document for RpcServer. *)
EXTENDS RpcServer

CONSTANT u1

MCSuffix == [u \in Uris |-> "ipmt"]
=============================================================================
