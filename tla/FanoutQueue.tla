----------------------------- MODULE FanoutQueue -----------------------------
(***************************************************************************)
(* What a fixed-topology channel promises: every producer lane is a FIFO   *)
(* log, every consumer receives every message of every lane exactly once   *)
(* and in the lane's order, and a lane never runs more than Cap messages   *)
(* ahead of its slowest consumer.  FastRing implements this specification. *)
(***************************************************************************)
EXTENDS Naturals, Sequences

CONSTANTS Lanes,      \* producer lanes
          Consumers,  \* fan-out consumers
          Cap         \* messages a lane may be ahead of its slowest consumer

VARIABLES sent,       \* sent[l]: the messages published on lane l
          delivered   \* delivered[c][l]: what c received from lane l

vars == <<sent, delivered>>

Init == /\ sent = [l \in Lanes |-> <<>>]
        /\ delivered = [c \in Consumers |-> [l \in Lanes |-> <<>>]]

\* The n-th message of a lane is named n.
Publish(l) ==
  /\ \A c \in Consumers : Len(sent[l]) < Len(delivered[c][l]) + Cap
  /\ sent' = [sent EXCEPT ![l] = Append(@, Len(@) + 1)]
  /\ UNCHANGED delivered

Deliver(c, l) ==
  /\ Len(delivered[c][l]) < Len(sent[l])
  /\ delivered' = [delivered EXCEPT
                     ![c][l] = Append(@, sent[l][Len(@) + 1])]
  /\ UNCHANGED sent

Next == \/ \E l \in Lanes : Publish(l)
        \/ \E c \in Consumers, l \in Lanes : Deliver(c, l)

SafeSpec == Init /\ [][Next]_vars

\* Consumers keep polling; producers publish when they like.
Spec == SafeSpec /\ \A c \in Consumers, l \in Lanes : WF_vars(Deliver(c, l))
=============================================================================
