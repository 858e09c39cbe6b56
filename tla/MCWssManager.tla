---- MODULE MCWssManager ----
EXTENDS WssManager
====
