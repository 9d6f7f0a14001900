---------------------------- MODULE MCCommunity ----------------------------
(* FollowGraph and Moderation on small instances: two fans of one owner;    *)
(* a thing with two texts, one reporter and two moderators.  The two parts  *)
(* share no variable, so each behaviour is one part's: the other stays in   *)
(* its initial state.                                                       *)
EXTENDS FollowGraph, Moderation

CONSTANTS a1, a2, b, t1, t2, m1, m2
MCUsers == {a1, a2, b}
MCPairs == {<<a1, b>>, <<a2, b>>}

VARIABLE part

MCInit ==
  /\ Init /\ ModInit /\ part \in {"follow", "moderation"}
  /\ part = "follow" => thing.kind = "post"
  /\ part = "moderation" => \A u \in Users : profile[u] = "none"

(* Moderators are interchangeable, and so are texts: the second begins      *)
(* only beside the first, or after it.                                      *)
InOrder ==
  /\ moderator[m1] = Away /\ moderator[m2] = Away => moderator'[m2] = Away
  /\ submit[t1] = "none" => submit'[t2] = "none"

MCNext ==
  /\ \/ part = "follow" /\ Next /\ UNCHANGED modVars
     \/ part = "moderation" /\ ModNext /\ InOrder /\ UNCHANGED vars
  /\ UNCHANGED part

MCSpec ==
  /\ MCInit /\ [][MCNext]_<<vars, modVars, part>>
  /\ part = "follow" => Fairness

(* The type invariant: both parts'.                                         *)
CommunityTypeOK == TypeOK /\ ModTypeOK
=============================================================================
