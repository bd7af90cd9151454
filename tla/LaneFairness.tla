----------------------------- MODULE LaneFairness -----------------------------
(***************************************************************************)
(* How long a consumer of several lanes may pass over a lane that has a    *)
(* message for it.  A history variable counts, per consumer and lane, the  *)
(* messages taken from other lanes while this one had a message waiting.   *)
(***************************************************************************)
EXTENDS FastRing

VARIABLE bypassed   \* bypassed[c][l]: taken elsewhere since l has a message

fairVars == <<vars, bypassed>>

InitFair == Init /\ bypassed = [c \in Consumers |-> [l \in Lanes |-> 0]]

\* Only release() takes a message.
Took(c) == cpc[c] = "read" /\ cpc'[c] # "read"

NextFair ==
  /\ Next
  /\ bypassed' = [c \in Consumers |->
       IF ~Took(c) THEN bypassed[c]
       ELSE [l \in Lanes |->
               IF l = active_lane[c] \/ consumed[c][l] = published[l] THEN 0
               ELSE bypassed[c][l] + 1]]

FairSpec == /\ InitFair /\ [][NextFair]_fairVars
            /\ \A c \in Consumers : WF_vars(Consumer(c))

\* A lane with a message waiting is passed over by at most LaneBatch messages of
\* each other lane, however busy those are: kLaneBatch and next_lane_ keep one
\* producer from holding a consumer, although remaining_lane_batch_ is carried
\* along when the scan leaves an empty lane.
BoundedBypass ==
  \A c \in Consumers, l \in Lanes :
    bypassed[c][l] <= (ProducerCount - 1) * LaneBatch
=============================================================================
