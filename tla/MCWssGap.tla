---- MODULE MCWssGap ----
EXTENDS WssGap
====
