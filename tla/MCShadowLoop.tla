---------------------------- MODULE MCShadowLoop ----------------------------
EXTENDS ShadowLoop, TLC

CONSTANTS t1, t2, t3, p1, p2, p3, p4, p5

\* One route of two pools, and a token watched for the one pool it has.
OneRoute == t1 :> {p1, p2} @@ t2 :> {p3}

TwoRoutes == t1 :> {p1, p2} @@ t2 :> {p3, p4} @@ t3 :> {p5}

Alike == Permutations({p1, p2})
=============================================================================
