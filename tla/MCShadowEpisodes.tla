-------------------------- MODULE MCShadowEpisodes --------------------------
EXTENDS ShadowEpisodes, TLC

CONSTANTS t1, p1, p2

OneRoute == t1 :> {p1, p2}
=============================================================================
