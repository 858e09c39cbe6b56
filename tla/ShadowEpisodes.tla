--------------------------- MODULE ShadowEpisodes ---------------------------
(***************************************************************************)
(* The shadow loop watched by an observer that counts the local probes of  *)
(* the episode each circuit is in.                                         *)
(***************************************************************************)
EXTENDS ShadowLoop

VARIABLE localTried

EpisodesInit == Init /\ localTried = [c \in Circuits |-> 0]

\* The count starts again when the episode is over, and stops at 2.
LocalTried(c) ==
  IF ~episodes'[c].open THEN 0
  ELSE IF pc' = "local" /\ pc # "local" /\ c = probed THEN Smaller(localTried[c] + 1, 2)
  ELSE localTried[c]

EpisodesNext == Next /\ localTried' = [c \in Circuits |-> LocalTried(c)]

EpisodesSpec == EpisodesInit /\ [][EpisodesNext]_<<vars, localTried>>

-----------------------------------------------------------------------------
\* The comment above the local probe in shadow.ts: "local probe (real
\* programs) at most once per episode".
LocalProbeOncePerEpisode == \A c \in Circuits : localTried[c] <= 1
=============================================================================
