---- MODULE MCRpcClient ----
EXTENDS RpcRate
====
