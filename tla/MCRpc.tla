------------------------------- MODULE MCRpc -------------------------------
(* Instances of RpcServer small enough for TLC. *)
EXTENDS RpcServer, TLC

\* The same method asked for by two clients, and a handler that does not wait
ThreeRequests == {[client |-> 1, method |-> "Update"], [client |-> 2, method |-> "Update"],
                  [client |-> 1, method |-> "local"]}
=============================================================================
