-------------------------- MODULE CommunityProofs --------------------------
(***************************************************************************)
(* The follow graph, for any accounts, pairs and number of requests in     *)
(* flight, and moderation, for any texts, reporters and moderators: each of *)
(* its own specification, and both side by side as MCCommunity checks them. *)
(***************************************************************************)
EXTENDS MCCommunity, TLAPS

-----------------------------------------------------------------------------
(* The follow graph.                                                       *)

(* Types are kept.                                                          *)
LEMMA AgedType ==
  ASSUME NEW o \in Op, NEW R \in SUBSET Pairs, NEW F \in SUBSET Pairs, requests' = R, follows' = F
  PROVE  /\ Aged(o) \in Op
         /\ Aged(o).op = o.op
         /\ o.op \in {"resolved", "follow", "accept"} => Aged(o).pair = o.pair
         /\ o.op \notin {"accept", "leave"} => Aged(o) = o
         /\ o.op = "accept" => Aged(o).already = o.already
         /\ o.op = "leave" => /\ Aged(o).user = o.user
                              /\ Aged(o).rows = o.rows \cap R
                              /\ Aged(o).edges = o.edges \cap F
<1>1. CASE o.op = "accept"
  <2>1. o \in [op : {"accept"}, pair : Pairs, already : BOOLEAN, rows : SUBSET Pairs]
    BY <1>1 DEF Op, Idle
  <2>2. Aged(o) = [o EXCEPT !.rows = @ \cap R]
    BY <1>1 DEF Aged
  <2> QED BY <1>1, <2>1, <2>2 DEF Op
<1>2. CASE o.op = "leave"
  <2>1. o \in [op : {"leave"}, user : Users, rows : SUBSET Pairs, edges : SUBSET Pairs]
    BY <1>2 DEF Op, Idle
  <2>2. Aged(o) = [o EXCEPT !.rows = @ \cap R, !.edges = @ \cap F]
    BY <1>2 DEF Aged
  <2> QED BY <1>2, <2>1, <2>2 DEF Op
<1>3. CASE o.op \notin {"accept", "leave"}
  BY <1>3 DEF Aged
<1> QED BY <1>1, <1>2, <1>3

SweepsOwn ==
  \A c \in Slots : run[c].op = "honour" =>
    run[c].pending \subseteq To(run[c].user) /\ run[c].skip \subseteq run[c].pending
RunTyped == run \in [Slots -> Op] /\ admitted \subseteq Pairs /\ crossed \subseteq Pairs /\ SweepsOwn

LEMMA GotoType ==
  ASSUME TypeOK, follows' \in SUBSET Pairs, requests' \in SUBSET Pairs,
         NEW c \in Slots, NEW o \in Op, Goto(c, o),
         o.op = "honour" => o.pending \subseteq To(o.user) /\ o.skip \subseteq o.pending
  PROVE  RunTyped'
<1>1. \A d \in Slots : /\ Aged(run[d]) \in Op /\ Aged(run[d]).op = run[d].op
                       /\ run[d].op = "honour" => Aged(run[d]) = run[d]
  BY AgedType DEF TypeOK
<1>2. run' \in [Slots -> Op]
  BY <1>1 DEF Goto
<1>3. admitted' \subseteq Pairs /\ crossed' \subseteq Pairs
  BY DEF Goto, Remember
<1>4. SweepsOwn'
  <2> SUFFICES ASSUME NEW d \in Slots, run'[d].op = "honour"
               PROVE  run'[d].pending \subseteq To(run'[d].user) /\ run'[d].skip \subseteq run'[d].pending
    BY DEF SweepsOwn, To
  <2>1. CASE d = c
    BY <2>1 DEF Goto
  <2>2. CASE d # c
    <3>1. run'[d] = Aged(run[d])
      BY <2>2 DEF Goto
    <3>2. run'[d] = run[d] /\ run[d].op = "honour"
      BY <1>1, <3>1
    <3> QED BY <3>2 DEF TypeOK
  <2> QED BY <2>1, <2>2
<1> QED BY <1>2, <1>3, <1>4 DEF RunTyped

LEMMA AtOnceType ==
  ASSUME TypeOK, follows' \in SUBSET Pairs, requests' \in SUBSET Pairs, AtOnce
  PROVE  RunTyped'
<1>1. \A d \in Slots : /\ Aged(run[d]) \in Op /\ Aged(run[d]).op = run[d].op
                       /\ run[d].op = "honour" => Aged(run[d]) = run[d]
  BY AgedType DEF TypeOK
<1>2. run' \in [Slots -> Op] /\ \A d \in Slots : run'[d] = Aged(run[d])
  BY <1>1 DEF AtOnce
<1>3. admitted' \subseteq Pairs /\ crossed' \subseteq Pairs
  BY DEF AtOnce, Remember
<1>4. SweepsOwn'
  BY <1>1, <1>2 DEF SweepsOwn, To, TypeOK
<1> QED BY <1>2, <1>3, <1>4 DEF RunTyped

LEMMA IdleOp == Idle \in Op /\ Idle.op = "idle"
  BY DEF Idle, Op

(* What a request in flight holds, by what it is doing.                     *)
LEMMA Shapes ==
  ASSUME TypeOK, NEW c \in Slots
  PROVE  /\ run[c].op \in {"resolved", "follow"} =>
              run[c] \in [op : {"resolved", "follow"}, pair : Pairs, private : BOOLEAN]
         /\ run[c].op = "accept" =>
              run[c] \in [op : {"accept"}, pair : Pairs, already : BOOLEAN, rows : SUBSET Pairs]
         /\ run[c].op = "upsert" =>
              run[c] \in [op : {"upsert"}, user : Users, was : Privacy \cup {"none"}, want : Privacy]
         /\ run[c].op = "sweep" => run[c] \in [op : {"sweep"}, user : Users, open : BOOLEAN]
         /\ run[c].op = "honour" =>
              run[c] \in [op : {"honour"}, user : Users, open : BOOLEAN,
                          pending : SUBSET Pairs, skip : SUBSET Pairs]
         /\ run[c].op = "leave" =>
              run[c] \in [op : {"leave"}, user : Users, rows : SUBSET Pairs, edges : SUBSET Pairs]
  BY DEF TypeOK, Op, Idle

LEMMA InitType == Init => TypeOK
<1> SUFFICES ASSUME Init PROVE TypeOK
  OBVIOUS
<1>1. run \in [Slots -> Op] /\ \A c \in Slots : run[c].op = "idle"
  BY IdleOp DEF Init
<1> QED BY <1>1 DEF Init, TypeOK, Privacy

LEMMA StepType == TypeOK /\ [Next]_vars => TypeOK'
<1> SUFFICES ASSUME TypeOK, [Next]_vars PROVE TypeOK'
  OBVIOUS
<1> DEFINE Graph == profile' \in [Users -> Privacy \cup {"none"}]
                    /\ follows' \in SUBSET Pairs /\ requests' \in SUBSET Pairs
<1>0. ASSUME Graph, RunTyped' PROVE TypeOK'
  BY <1>0 DEF TypeOK, RunTyped, SweepsOwn
<1>1. ASSUME NEW c \in Slots, NEW p \in Pairs, Resolve(c, p) PROVE TypeOK'
  <2>1. Graph
    BY <1>1 DEF Resolve, NoWrite, TypeOK
  <2>2. [op |-> "resolved", pair |-> p, private |-> profile[p[2]] = "private"] \in Op
    BY DEF Op
  <2> QED BY <1>0, <1>1, <2>1, <2>2, GotoType DEF Resolve
<1>2. ASSUME NEW c \in Slots, Relate(c) PROVE TypeOK'
  <2>1. Graph
    BY <1>2 DEF Relate, NoWrite, TypeOK
  <2>2. [run[c] EXCEPT !.op = "follow"] \in Op /\ [run[c] EXCEPT !.op = "follow"].op = "follow"
    BY <1>2, Shapes DEF Relate, Op
  <2> QED BY <1>0, <1>2, <2>1, <2>2, IdleOp, GotoType DEF Relate
<1>3. ASSUME NEW c \in Slots, Follow(c) PROVE TypeOK'
  <2>1. Graph
    BY <1>3, Shapes DEF Follow, InsertEdge, TypeOK
  <2> QED BY <1>0, <1>3, <2>1, IdleOp, GotoType DEF Follow
<1>4. ASSUME NEW c \in Slots, NEW p \in Pairs, LoadRequest(c, p) PROVE TypeOK'
  <2>1. Graph
    BY <1>4 DEF LoadRequest, NoWrite, TypeOK
  <2>2. [op |-> "accept", pair |-> p, already |-> p \in follows, rows |-> {p}] \in Op
    BY DEF Op
  <2> QED BY <1>0, <1>4, <2>1, <2>2, GotoType DEF LoadRequest
<1>5. ASSUME NEW c \in Slots, Accept(c) PROVE TypeOK'
  <2>1. Graph
    BY <1>5, Shapes DEF Accept, TypeOK
  <2> QED BY <1>0, <1>5, <2>1, IdleOp, GotoType DEF Accept
<1>6. ASSUME NEW c \in Slots, NEW u \in Users, OpenInbox(c, u) PROVE TypeOK'
  <2>1. Graph
    BY <1>6 DEF OpenInbox, NoWrite, TypeOK
  <2>2. [op |-> "sweep", user |-> u, open |-> profile[u] = "public"] \in Op
    BY DEF Op
  <2> QED BY <1>0, <1>6, <2>1, <2>2, GotoType DEF OpenInbox
<1>7. ASSUME NEW c \in Slots, ReadPending(c) PROVE TypeOK'
  <2> DEFINE u == run[c].user
             pending == requests \cap To(u)
             o == [op |-> "honour", user |-> u, open |-> run[c].open,
                   pending |-> pending, skip |-> Skipped(u, pending)]
  <2>1. Graph
    BY <1>7 DEF ReadPending, NoWrite, TypeOK
  <2>2. Skipped(u, pending) \subseteq pending /\ pending \subseteq To(u) /\ pending \subseteq Pairs
    BY DEF Skipped, TypeOK
  <2>3. o \in Op /\ o.op = "honour" /\ o.pending \subseteq To(o.user) /\ o.skip \subseteq o.pending
    BY <1>7, <2>2, Shapes DEF ReadPending, Op
  <2>4. Goto(c, IF pending = {} THEN Idle ELSE o)
    BY <1>7 DEF ReadPending
  <2> HIDE DEF o, pending
  <2> QED BY <1>0, <2>1, <2>3, <2>4, IdleOp, GotoType
<1>8. ASSUME NEW c \in Slots, Honour(c) PROVE TypeOK'
  <2>1. Graph
    BY <1>8, Shapes DEF Honour, Swept, Added, TypeOK
  <2> QED BY <1>0, <1>8, <2>1, IdleOp, GotoType DEF Honour
<1>9. ASSUME NEW c \in Slots, NEW u \in Users, LoadProfile(c, u) PROVE TypeOK'
  <2>1. Graph
    BY <1>9 DEF LoadProfile, NoWrite, TypeOK
  <2>2. PICK want \in Privacy : Goto(c, [op |-> "upsert", user |-> u, was |-> profile[u], want |-> want])
    BY <1>9 DEF LoadProfile, Privacy
  <2>3. [op |-> "upsert", user |-> u, was |-> profile[u], want |-> want] \in Op
    BY DEF Op, TypeOK
  <2> QED BY <1>0, <2>1, <2>2, <2>3, GotoType
<1>10. ASSUME NEW c \in Slots, SaveProfile(c) PROVE TypeOK'
  <2>1. run[c] \in [op : {"upsert"}, user : Users, was : Privacy \cup {"none"}, want : Privacy]
    BY <1>10, Shapes DEF SaveProfile
  <2>2. Graph
    BY <1>10, <2>1 DEF SaveProfile, TypeOK
  <2>3. [op |-> "sweep", user |-> run[c].user, open |-> TRUE] \in Op
    BY <2>1 DEF Op
  <2> QED BY <1>0, <1>10, <2>2, <2>3, IdleOp, GotoType DEF SaveProfile
<1>11. ASSUME NEW c \in Slots, NEW u \in Users, Sever(c, u) PROVE TypeOK'
  <2>1. Graph
    BY <1>11 DEF Sever, NoWrite, TypeOK
  <2>2. [op |-> "leave", user |-> u,
         rows |-> requests \cap Severed(u), edges |-> follows \cap Severed(u)] \in Op
    BY DEF Op, TypeOK
  <2> QED BY <1>0, <1>11, <2>1, <2>2, GotoType DEF Sever
<1>12. ASSUME NEW c \in Slots, Leave(c) PROVE TypeOK'
  <2>1. Graph
    BY <1>12, Shapes DEF Leave, TypeOK
  <2> QED BY <1>0, <1>12, <2>1, IdleOp, GotoType DEF Leave
<1>13. ASSUME NEW p \in Pairs, Unfollow(p) \/ RemoveFollower(p) \/ Decline(p) PROVE TypeOK'
  <2>1. Graph /\ AtOnce
    BY <1>13 DEF Unfollow, RemoveFollower, Decline, TypeOK
  <2> QED BY <1>0, <2>1, AtOnceType
<1>14. CASE UNCHANGED vars
  BY <1>14 DEF vars, TypeOK, To
<1> QED BY <1>1, <1>2, <1>3, <1>4, <1>5, <1>6, <1>7, <1>8, <1>9, <1>10, <1>11, <1>12, <1>13, <1>14
  DEF Next, Continue

(* TypeOK holds of every behaviour.                                         *)
THEOREM FollowTypes == Spec => []TypeOK
  BY InitType, StepType, PTL DEF Spec

----------------------------------------------------------------------------
(* What one step does to the graph, whichever action it is.                 *)
Typed == TypeOK /\ TypeOK'

(* A request that the step is not of goes on as it was.                     *)
Same(d) ==
  /\ run'[d].op = run[d].op
  /\ run[d].op \in {"resolved", "follow", "accept"} => run'[d].pair = run[d].pair
  /\ run[d].op \notin {"accept", "leave"} => run'[d] = run[d]
  /\ run[d].op = "accept" => run'[d].rows \subseteq run[d].rows
  /\ run[d].op = "leave" => /\ run'[d].user = run[d].user
                            /\ run'[d].rows = run[d].rows \cap requests'
                            /\ run'[d].edges = run[d].edges \cap follows'

LEMMA AgedSame ==
  ASSUME Typed, NEW d \in Slots, run'[d] = Aged(run[d])
  PROVE  Same(d)
<1>1. run[d] \in Op /\ requests' \in SUBSET Pairs /\ follows' \in SUBSET Pairs
  BY DEF Typed, TypeOK
<1>2. run[d].op = "accept" => Aged(run[d]).rows = run[d].rows \cap requests'
  BY Shapes DEF Typed, Aged
<1> QED BY <1>1, <1>2, AgedType DEF Same

LEMMA Others ==
  ASSUME Typed, NEW c \in Slots, NEW o, Goto(c, o)
  PROVE  run'[c] = o /\ \A d \in Slots : d # c => Same(d)
<1>1. run'[c] = o /\ \A d \in Slots : d # c => run'[d] = Aged(run[d])
  BY DEF Goto
<1> QED BY <1>1, AgedSame

LEMMA All ==
  ASSUME Typed, AtOnce
  PROVE  \A d \in Slots : Same(d)
  BY AgedSame DEF AtOnce

LEMMA SameWriting ==
  ASSUME NEW d \in Slots, NEW p \in Pairs, Same(d)
  PROVE  Writing(d, p)' <=> Writing(d, p)
  BY DEF Same, Writing

(* How one request's slot may change in a step.                             *)
Begins(d) ==
  /\ NoWrite
  /\ \/ /\ run'[d].op = "resolved" /\ run'[d].pair \in Pairs /\ Claimed(run'[d].pair[2])
        /\ run'[d].private = (profile[run'[d].pair[2]] = "private")
     \/ /\ run[d].op = "resolved" /\ Claimed(run[d].pair[1])
        /\ run'[d].op = "follow" /\ run'[d].pair = run[d].pair /\ run'[d].private = run[d].private
     \/ run'[d].op = "accept" /\ run'[d].pair \in requests /\ run'[d].rows = {run'[d].pair}
     \/ /\ run[d].op = "sweep" /\ run'[d].op = "honour"
        /\ run'[d].user = run[d].user /\ run'[d].open = run[d].open
        /\ run'[d].pending \subseteq requests
     \/ run'[d].op = "upsert"
     \/ /\ run'[d].op = "leave"
        /\ run'[d].rows = requests \cap Touching(run'[d].user)
        /\ run'[d].edges = follows \cap Touching(run'[d].user)
Ends(d) ==
  \/ run'[d].op = "idle"
  \/ run'[d].op = "sweep" /\ run'[d].open
Moves(d) == Same(d) \/ Begins(d) \/ Ends(d)

(* What a step may write.                                                   *)
Inserts(c, p) == Writing(c, p) /\ run[c].op # "resolved" /\ ~(run[c].op = "follow" /\ run[c].private)
Asks(c, p) == Writing(c, p) /\ run[c].op = "follow" /\ run[c].private /\ run'[c].op = "idle"
Grows ==
  /\ \A p \in follows' \ follows : \E c \in Slots : Inserts(c, p)
  /\ \A p \in requests' \ requests : \E c \in Slots : Asks(c, p)
Leaves(c) ==
  /\ run[c].op = "leave"
  /\ follows' = follows \ run[c].edges /\ requests' = requests \ run[c].rows
  /\ profile' = [profile EXCEPT ![run[c].user] = "none"]
KeepsClaims == \A u \in Users : Claimed(u) => Claimed(u)'
Effect ==
  /\ Remember
  /\ \A d \in Slots : Moves(d)
  /\ Grows
  /\ KeepsClaims \/ \E c \in Slots : Leaves(c)

LEMMA MoveOne ==
  ASSUME Typed, NEW c \in Slots, NEW o, Goto(c, o), Begins(c) \/ Ends(c)
  PROVE  Remember /\ \A d \in Slots : Moves(d)
<1>1. Remember
  BY DEF Goto
<1>2. \A d \in Slots : d # c => Same(d)
  BY Others
<1> QED BY <1>1, <1>2 DEF Moves

LEMMA Untouched == NoWrite => Grows /\ KeepsClaims
  BY DEF NoWrite, Grows, KeepsClaims, Claimed

LEMMA StepEffect ==
  ASSUME Typed, Next
  PROVE  Effect
<1>0. ASSUME NEW c \in Slots, NEW o, Goto(c, o), NoWrite, Begins(c) \/ Ends(c)
      PROVE  Effect
  BY <1>0, MoveOne, Untouched DEF Effect
<1>1. ASSUME NEW c \in Slots, NEW p \in Pairs, Resolve(c, p) PROVE Effect
  <2>1. run'[c] = [op |-> "resolved", pair |-> p, private |-> profile[p[2]] = "private"]
    BY <1>1, Others DEF Resolve
  <2>2. run'[c].op = "resolved" /\ run'[c].pair = p /\ run'[c].private = (profile[p[2]] = "private")
    BY <2>1
  <2> QED BY <1>0, <1>1, <2>2 DEF Resolve, Begins
<1>2. ASSUME NEW c \in Slots, Relate(c) PROVE Effect
  <2> DEFINE o == IF Claimed(run[c].pair[1]) /\ ~Related(run[c].pair)
                  THEN [run[c] EXCEPT !.op = "follow"] ELSE Idle
  <2>1. run'[c] = o /\ Goto(c, o) /\ NoWrite /\ run[c].op = "resolved"
    BY <1>2, Others DEF Relate
  <2>2. run[c] \in [op : {"resolved", "follow"}, pair : Pairs, private : BOOLEAN]
    BY <2>1, Shapes DEF Typed
  <2>3. Begins(c) \/ Ends(c)
    BY <2>1, <2>2, IdleOp DEF Begins, Ends
  <2> HIDE DEF o
  <2> QED BY <1>0, <2>1, <2>3
<1>3. ASSUME NEW c \in Slots, Follow(c) PROVE Effect
  <2>1. Ends(c)
    BY <1>3, Others, IdleOp DEF Follow, Ends
  <2>2. run[c].private \in BOOLEAN /\ run[c].op = "follow"
    BY <1>3, Shapes DEF Follow, Typed
  <2>i. run'[c].op = "idle"
    BY <1>3, Others, IdleOp DEF Follow
  <2>3. Grows /\ KeepsClaims
    BY <1>3, <2>i, <2>2 DEF Follow, InsertEdge, Grows, Inserts, Asks, Writing, KeepsClaims, Claimed
  <2> QED BY <1>3, <2>1, <2>3, MoveOne DEF Follow, Effect
<1>4. ASSUME NEW c \in Slots, NEW p \in Pairs, LoadRequest(c, p) PROVE Effect
  <2>1. run'[c] = [op |-> "accept", pair |-> p, already |-> p \in follows, rows |-> {p}]
    BY <1>4, Others DEF LoadRequest
  <2>2. run'[c].op = "accept" /\ run'[c].pair = p /\ run'[c].rows = {p}
    BY <2>1
  <2> QED BY <1>0, <1>4, <2>2 DEF LoadRequest, Begins
<1>5. ASSUME NEW c \in Slots, Accept(c) PROVE Effect
  <2>1. Ends(c)
    BY <1>5, Others, IdleOp DEF Accept, Ends
  <2>2. Grows /\ KeepsClaims
    BY <1>5 DEF Accept, Grows, Inserts, Asks, Writing, KeepsClaims, Claimed
  <2> QED BY <1>5, <2>1, <2>2, MoveOne DEF Accept, Effect
<1>6. ASSUME NEW c \in Slots, NEW u \in Users, OpenInbox(c, u) PROVE Effect
  <2>1. run'[c] = [op |-> "sweep", user |-> u, open |-> TRUE]
    BY <1>6, Others DEF OpenInbox, Healable
  <2> QED BY <1>0, <1>6, <2>1 DEF OpenInbox, Ends
<1>7. ASSUME NEW c \in Slots, ReadPending(c) PROVE Effect
  <2> DEFINE u == run[c].user
             pending == requests \cap To(u)
             h == [op |-> "honour", user |-> u, open |-> run[c].open,
                   pending |-> pending, skip |-> Skipped(u, pending)]
             o == IF pending = {} THEN Idle ELSE h
  <2>1. run'[c] = o /\ Goto(c, o) /\ NoWrite /\ run[c].op = "sweep"
    BY <1>7, Others DEF ReadPending
  <2>2. CASE pending = {}
    <3>1. run'[c] = Idle
      BY <2>1, <2>2
    <3>2. Ends(c)
      BY <3>1, IdleOp DEF Ends
    <3> HIDE DEF o
    <3> QED BY <1>0, <2>1, <3>2
  <2>3. CASE pending # {}
    <3>1. run'[c] = h
      BY <2>1, <2>3
    <3>3. /\ run'[c].op = "honour" /\ run'[c].user = run[c].user /\ run'[c].open = run[c].open
          /\ run'[c].pending = pending /\ run'[c].skip = Skipped(u, pending)
      BY <3>1
    <3> HIDE DEF o, h
    <3>4. pending \subseteq requests
      OBVIOUS
    <3> HIDE DEF pending, u
    <3>5. Begins(c)
      BY <2>1, <3>3, <3>4 DEF Begins
    <3> QED BY <1>0, <2>1, <3>5
  <2> QED BY <2>2, <2>3
<1>8. ASSUME NEW c \in Slots, Honour(c) PROVE Effect
  <2>1. Ends(c)
    BY <1>8, Others, IdleOp DEF Honour, Ends
  <2>2. Grows /\ KeepsClaims
    BY <1>8 DEF Honour, Swept, Added, Grows, Inserts, Asks, Writing, KeepsClaims, Claimed
  <2> QED BY <1>8, <2>1, <2>2, MoveOne DEF Honour, Effect
<1>9. ASSUME NEW c \in Slots, NEW u \in Users, LoadProfile(c, u) PROVE Effect
  <2>1. PICK want : Goto(c, [op |-> "upsert", user |-> u, was |-> profile[u], want |-> want])
    BY <1>9 DEF LoadProfile
  <2>2. run'[c].op = "upsert"
    BY <2>1, Others
  <2>3. NoWrite /\ Begins(c)
    BY <1>9, <2>2 DEF LoadProfile, Begins
  <2> QED BY <1>0, <2>1, <2>3
<1>10. ASSUME NEW c \in Slots, SaveProfile(c) PROVE Effect
  <2> DEFINE o == IF Saves(run[c]) /\ GoesPublic(run[c])
                  THEN [op |-> "sweep", user |-> run[c].user, open |-> TRUE] ELSE Idle
  <2>1. run[c] \in [op : {"upsert"}, user : Users, was : Privacy \cup {"none"}, want : Privacy]
    BY <1>10, Shapes DEF SaveProfile, Typed
  <2>2. run'[c] = o /\ Goto(c, o)
    BY <1>10, Others DEF SaveProfile
  <2>3. Ends(c)
    BY <2>1, <2>2, IdleOp DEF Ends
  <2>4. Grows
    BY <1>10 DEF SaveProfile, Grows
  <2>5. KeepsClaims
    BY <1>10, <2>1 DEF SaveProfile, KeepsClaims, Claimed, Typed, TypeOK, Privacy
  <2> HIDE DEF o
  <2> QED BY <2>2, <2>3, <2>4, <2>5, MoveOne DEF Effect
<1>11. ASSUME NEW c \in Slots, NEW u \in Users, Sever(c, u) PROVE Effect
  <2>1. run'[c] = [op |-> "leave", user |-> u, rows |-> requests \cap Touching(u),
                   edges |-> follows \cap Touching(u)]
    BY <1>11, Others DEF Sever, Severed
  <2>2. /\ run'[c].op = "leave" /\ run'[c].user = u
        /\ run'[c].rows = requests \cap Touching(u) /\ run'[c].edges = follows \cap Touching(u)
    BY <2>1
  <2> QED BY <1>0, <1>11, <2>2 DEF Sever, Begins
<1>12. ASSUME NEW c \in Slots, Leave(c) PROVE Effect
  <2>1. Ends(c)
    BY <1>12, Others, IdleOp DEF Leave, Ends
  <2>2. Grows /\ Leaves(c)
    BY <1>12 DEF Leave, Grows, Leaves
  <2> QED BY <1>12, <2>1, <2>2, MoveOne DEF Leave, Effect
<1>13. ASSUME NEW p \in Pairs, Unfollow(p) \/ RemoveFollower(p) \/ Decline(p) PROVE Effect
  <2>1. AtOnce /\ profile' = profile /\ follows' \subseteq follows /\ requests' \subseteq requests
    BY <1>13 DEF Unfollow, RemoveFollower, Decline
  <2>2. Remember /\ \A d \in Slots : Moves(d)
    BY <2>1, All DEF AtOnce, Moves
  <2> QED BY <2>1, <2>2 DEF Effect, Grows, KeepsClaims, Claimed
<1> QED BY <1>1, <1>2, <1>3, <1>4, <1>5, <1>6, <1>7, <1>8, <1>9, <1>10, <1>11, <1>12, <1>13
  DEF Next, Continue

(* How a request comes to be writing a pair.                                *)
Starts(d, p) ==
  /\ NoWrite
  /\ \/ Claimed(p[2]) /\ run'[d].op = "resolved" /\ (~run'[d].private => profile[p[2]] = "public")
     \/ p \in requests /\ run'[d].op = "accept" /\ run'[d].pair = p
     \/ p \in requests /\ run'[d].op = "honour" /\ run'[d].user = p[2]
GoesOn(d, p) ==
  /\ Writing(d, p)
  /\ \/ Same(d)
     \/ /\ run[d].op = "resolved" /\ run'[d].op = "follow"
        /\ run'[d].private = run[d].private /\ NoWrite /\ Claimed(p[1])

LEMMA WriterStarts ==
  ASSUME Typed, NEW d \in Slots, NEW p \in Pairs, Moves(d), Writing(d, p)'
  PROVE  GoesOn(d, p) \/ Starts(d, p)
<1>1. CASE Same(d)
  BY <1>1, SameWriting DEF GoesOn
<1>2. CASE Ends(d)
  BY <1>2 DEF Ends, Writing
<1>3. CASE Begins(d)
  <2>1. NoWrite
    BY <1>3 DEF Begins
  <2>2. CASE run'[d].op = "resolved"
    <3>1. Claimed(p[2]) /\ run'[d].private = (profile[p[2]] = "private")
      BY <1>3, <2>2 DEF Begins, Writing
    <3>2. profile[p[2]] \in {"none", "public", "private"}
      BY PairsOfUsers DEF Typed, TypeOK, Privacy
    <3> QED BY <2>1, <2>2, <3>1, <3>2 DEF Starts, Claimed
  <2>3. CASE run'[d].op = "follow"
    <3>1. /\ run[d].op = "resolved" /\ Claimed(run[d].pair[1])
          /\ run'[d].pair = run[d].pair /\ run'[d].private = run[d].private
      BY <1>3, <2>3 DEF Begins
    <3>2. run[d].pair = p
      BY <2>3, <3>1 DEF Writing
    <3> QED BY <2>1, <2>3, <3>1, <3>2 DEF GoesOn, Writing
  <2>4. CASE run'[d].op = "accept"
    BY <1>3, <2>1, <2>4 DEF Begins, Starts, Writing
  <2>5. CASE run'[d].op = "honour"
    <3>1. p \in run'[d].pending
      BY <2>5 DEF Writing
    <3>2. run'[d].pending \subseteq requests
      BY <1>3, <2>5 DEF Begins
    <3>3. run'[d].pending \subseteq To(run'[d].user)
      BY <2>5 DEF Typed, TypeOK, To
    <3> QED BY <2>1, <2>5, <3>1, <3>2, <3>3 DEF Starts, To
  <2> QED BY <2>2, <2>3, <2>4, <2>5 DEF Writing
<1> QED BY <1>1, <1>2, <1>3 DEF Moves

(* What a request that is deleting an account has got hold of.              *)
LEMMA LeaverStarts ==
  ASSUME Typed, NEW d \in Slots, Moves(d), run'[d].op = "leave"
  PROVE  \/ run[d].op = "leave" /\ Same(d)
         \/ /\ NoWrite
            /\ run'[d].rows = requests \cap Touching(run'[d].user)
            /\ run'[d].edges = follows \cap Touching(run'[d].user)
<1>1. CASE Same(d)
  BY <1>1 DEF Same
<1>2. CASE Ends(d)
  BY <1>2 DEF Ends
<1>3. CASE Begins(d)
  BY <1>3 DEF Begins
<1> QED BY <1>1, <1>2, <1>3 DEF Moves

(* A pair nobody forgot about keeps its history.                            *)
LEMMA Remembered ==
  ASSUME Remember, NEW p \in Pairs, Live(p)'
  PROVE  /\ p \notin crossed' => p \notin crossed /\ ~Crossing(p)'
         /\ Welcome(p)' => p \in admitted'
         /\ p \in admitted /\ Claimed(p[2])' => p \in admitted'
  BY DEF Remember

LEMMA WritingLives ==
  ASSUME NEW d \in Slots, NEW p \in Pairs
  PROVE  (Writing(d, p) => Live(p)) /\ (Writing(d, p)' => Live(p)')
  BY DEF Live

----------------------------------------------------------------------------
(* The graph of claimed handles: whoever is leaving has got hold of every   *)
(* edge and ask of theirs, but for the pairs that crossed.                  *)
WritersClaimed ==
  \A c \in Slots : \A p \in Pairs \ crossed :
    Writing(c, p) => Claimed(p[2]) /\ (run[c].op # "resolved" => Claimed(p[1]))
LeaversHold ==
  \A c \in Slots : run[c].op = "leave" =>
    \A p \in Touching(run[c].user) \ crossed :
      (p \in follows => p \in run[c].edges) /\ (p \in requests => p \in run[c].rows)
CrossingKnown == \A p \in Pairs : Crossing(p) => p \in crossed
ClaimInv == OnlyClaimed /\ WritersClaimed /\ LeaversHold /\ CrossingKnown

LEMMA InitClaims == Init => ClaimInv
<1> SUFFICES ASSUME Init PROVE ClaimInv
  OBVIOUS
<1>1. \A c \in Slots : run[c].op = "idle"
  BY IdleOp DEF Init
<1>2. follows = {} /\ requests = {}
  BY DEF Init
<1> QED BY <1>1, <1>2 DEF ClaimInv, OnlyClaimed, WritersClaimed, LeaversHold, CrossingKnown,
           Crossing, Writing

LEMMA PairEnds == \A p \in Pairs : p[1] \in Users /\ p[2] \in Users
  BY PairsOfUsers

(* Unless it crossed, a pair that is written lies between claimed handles   *)
(* after the step too.                                                      *)
LEMMA StillClaimed ==
  ASSUME Typed, ClaimInv, Effect, NEW p \in Pairs \ crossed, NEW u \in {p[1], p[2]}, Claimed(u),
         p \in follows' \/ p \in requests' \/ \E d \in Slots : Writing(d, p)
  PROVE  Claimed(u)'
<1> SUFFICES ASSUME ~Claimed(u)' PROVE FALSE
  OBVIOUS
<1>1. u \in Users
  BY PairEnds
<1>2. PICK c \in Slots : Leaves(c)
  BY <1>1 DEF Effect, KeepsClaims
<1>3. run[c].user = u
  BY <1>1, <1>2 DEF Leaves, Claimed, Typed, TypeOK
<1>4. p \in Touching(run[c].user)
  BY <1>3 DEF Touching
<1>5. CASE \E d \in Slots : Writing(d, p)
  BY <1>2, <1>4, <1>5 DEF Leaves, Crossing, ClaimInv, CrossingKnown
<1>6. CASE p \in follows' \/ p \in requests'
  <2>1. p \in follows \/ p \in requests
    BY <1>2, <1>6 DEF Leaves
  <2>2. (p \in follows => p \notin follows') /\ (p \in requests => p \notin requests')
    BY <1>2, <1>4 DEF Leaves, ClaimInv, LeaversHold
  <2>3. (p \in follows' => p \in follows) /\ (p \in requests' => p \in requests)
    BY <1>2 DEF Leaves
  <2> QED BY <1>6, <2>2, <2>3
<1> QED BY <1>5, <1>6

LEMMA StepClaims ==
  ASSUME Typed, ClaimInv, Effect
  PROVE  ClaimInv'
<1>1. OnlyClaimed'
  <2> SUFFICES ASSUME NEW p \in Pairs, p \in follows' \cup requests', p \notin crossed'
               PROVE  Claimed(p[1])' /\ Claimed(p[2])'
    BY DEF OnlyClaimed, Typed, TypeOK
  <2>1. p \notin crossed
    BY Remembered DEF Effect, Live
  <2>2. p \in follows \cup requests \/ \E c \in Slots : Writing(c, p) /\ run[c].op # "resolved"
    BY DEF Effect, Grows, Inserts, Asks
  <2>3. Claimed(p[1]) /\ Claimed(p[2])
    BY <2>1, <2>2 DEF ClaimInv, OnlyClaimed, WritersClaimed
  <2> QED BY <2>1, <2>3, StillClaimed
<1>2. WritersClaimed'
  <2> SUFFICES ASSUME NEW d \in Slots, NEW p \in Pairs, p \notin crossed', Writing(d, p)'
               PROVE  Claimed(p[2])' /\ (run'[d].op # "resolved" => Claimed(p[1])')
    BY DEF WritersClaimed
  <2>1. p \notin crossed
    BY Remembered, WritingLives DEF Effect
  <2>2. GoesOn(d, p) \/ Starts(d, p)
    BY WriterStarts DEF Effect
  <2>3. CASE GoesOn(d, p)
    <3>1. Writing(d, p) /\ (run[d].op # "resolved" => run[d].op = run'[d].op \/ Claimed(p[1]))
      BY <2>3 DEF GoesOn, Same
    <3>2. Claimed(p[2]) /\ (run'[d].op # "resolved" => Claimed(p[1]))
      BY <2>1, <2>3, <3>1 DEF ClaimInv, WritersClaimed, GoesOn, Same
    <3> QED BY <2>1, <3>1, <3>2, StillClaimed
  <2>4. CASE Starts(d, p)
    <3>1. \A u : Claimed(u) => Claimed(u)'
      BY <2>4 DEF Starts, NoWrite, Claimed
    <3> QED BY <2>1, <2>4, <3>1 DEF Starts, ClaimInv, OnlyClaimed
  <2> QED BY <2>2, <2>3, <2>4
<1>3. LeaversHold'
  <2> SUFFICES ASSUME NEW d \in Slots, run'[d].op = "leave", NEW p \in Pairs,
                      p \in Touching(run'[d].user), p \notin crossed',
                      p \in follows' \/ p \in requests'
               PROVE  (p \in follows' => p \in run'[d].edges) /\ (p \in requests' => p \in run'[d].rows)
    BY DEF LeaversHold, Touching
  <2>1. p \notin crossed
    BY Remembered DEF Effect, Live
  <2>2. CASE run[d].op = "leave" /\ Same(d)
    <3>1. p \in Touching(run[d].user)
      BY <2>2 DEF Same
    <3>2. \A c \in Slots : ~Writing(c, p)
      BY <2>1, <2>2, <3>1 DEF ClaimInv, CrossingKnown, Crossing
    <3>3. (p \in follows' => p \in follows) /\ (p \in requests' => p \in requests)
      BY <3>2 DEF Effect, Grows, Inserts, Asks
    <3> QED BY <2>1, <2>2, <3>1, <3>3 DEF Same, ClaimInv, LeaversHold
  <2>3. CASE ~(run[d].op = "leave" /\ Same(d))
    BY <2>3, LeaverStarts DEF Effect, NoWrite
  <2> QED BY <2>2, <2>3
<1>4. CrossingKnown'
  <2> SUFFICES ASSUME NEW p \in Pairs, Crossing(p)' PROVE p \in crossed'
    BY DEF CrossingKnown
  <2>1. Live(p)'
    BY DEF Crossing, Live
  <2> QED BY <2>1, Remembered DEF Effect
<1> QED BY <1>1, <1>2, <1>3, <1>4 DEF ClaimInv

LEMMA ClaimKept == TypeOK /\ TypeOK' /\ ClaimInv /\ [Next]_vars => ClaimInv'
<1> SUFFICES ASSUME TypeOK, TypeOK', ClaimInv, [Next]_vars PROVE ClaimInv'
  OBVIOUS
<1>1. CASE Next
  BY <1>1, StepEffect, StepClaims DEF Typed
<1>2. CASE UNCHANGED vars
  BY <1>2 DEF vars, ClaimInv, OnlyClaimed, WritersClaimed, LeaversHold, CrossingKnown,
    Crossing, Writing, Claimed
<1> QED BY <1>1, <1>2

(* OnlyClaimed holds of every behaviour: no edge and no ask outlives a      *)
(* member who leaves, unless it was being written while they left.          *)
THEOREM ClaimedOnly == Spec => []OnlyClaimed
<1>1. ClaimInv => OnlyClaimed
  BY DEF ClaimInv
<1> QED BY <1>1, ClaimKept, InitClaims, FollowTypes, PTL DEF Spec

----------------------------------------------------------------------------
(* Consent: besides the edges, whatever is about to become one is admitted. *)
SweepsOpen == \A c \in Slots : run[c].op \in {"sweep", "honour"} => run[c].open
EdgesAdmitted == \A p \in follows \ crossed : p \in admitted
WritersAdmitted ==
  \A c \in Slots : \A p \in Pairs \ crossed :
    Writing(c, p) /\ ~(run[c].op \in {"resolved", "follow"} /\ run[c].private) => p \in admitted
AdmitInv == SweepsOpen /\ EdgesAdmitted /\ WritersAdmitted

LEMMA InitAdmits == Init => AdmitInv
<1> SUFFICES ASSUME Init PROVE AdmitInv
  OBVIOUS
<1>1. follows = {} /\ \A c \in Slots : run[c].op = "idle"
  BY IdleOp DEF Init
<1> QED BY <1>1 DEF AdmitInv, SweepsOpen, EdgesAdmitted, WritersAdmitted, Writing

LEMMA StepAdmits ==
  ASSUME Typed, AdmitInv, ClaimInv', Effect
  PROVE  AdmitInv'
<1>1. SweepsOpen'
  BY DEF SweepsOpen, AdmitInv, Effect, Moves, Same, Begins, Ends
<1>2. EdgesAdmitted'
  <2> SUFFICES ASSUME NEW p \in Pairs, p \in follows', p \notin crossed' PROVE p \in admitted'
    BY DEF EdgesAdmitted, Typed, TypeOK
  <2>1. Live(p)' /\ p \notin crossed
    BY Remembered DEF Effect, Live
  <2>2. p \in follows \/ \E c \in Slots : Inserts(c, p)
    BY DEF Effect, Grows
  <2>3. p \in admitted
    BY <2>1, <2>2 DEF AdmitInv, EdgesAdmitted, WritersAdmitted, Inserts
  <2>4. Claimed(p[2])'
    BY DEF ClaimInv, OnlyClaimed
  <2> QED BY <2>1, <2>3, <2>4, Remembered DEF Effect
<1>3. WritersAdmitted'
  <2> SUFFICES ASSUME NEW d \in Slots, NEW p \in Pairs, p \notin crossed', Writing(d, p)',
                      ~(run'[d].op \in {"resolved", "follow"} /\ run'[d].private)
               PROVE  p \in admitted'
    BY DEF WritersAdmitted
  <2>1. Live(p)' /\ p \notin crossed
    BY Remembered, WritingLives DEF Effect
  <2>2. GoesOn(d, p) \/ Starts(d, p)
    BY WriterStarts DEF Effect
  <2>3. CASE GoesOn(d, p)
    <3>1. Writing(d, p) /\ ~(run[d].op \in {"resolved", "follow"} /\ run[d].private)
      BY <2>3 DEF GoesOn, Same
    <3>2. p \in admitted
      BY <2>1, <3>1 DEF AdmitInv, WritersAdmitted
    <3>3. Claimed(p[2])'
      BY DEF ClaimInv, WritersClaimed
    <3> QED BY <2>1, <3>2, <3>3, Remembered DEF Effect
  <2>4. CASE Starts(d, p)
    <3>1. Welcome(p)'
      <4>1. CASE run'[d].op = "resolved"
        BY <2>4, <4>1 DEF Starts, NoWrite, Welcome
      <4>2. CASE run'[d].op = "accept" /\ run'[d].pair = p
        BY <4>2 DEF Welcome
      <4>3. CASE run'[d].op = "honour" /\ run'[d].user = p[2]
        BY <1>1, <4>3 DEF Welcome, SweepsOpen
      <4> QED BY <2>4, <4>1, <4>2, <4>3 DEF Starts
    <3> QED BY <2>1, <3>1, Remembered DEF Effect
  <2> QED BY <2>2, <2>3, <2>4
<1> QED BY <1>1, <1>2, <1>3 DEF AdmitInv

LEMMA AdmitKept == TypeOK /\ TypeOK' /\ ClaimInv' /\ AdmitInv /\ [Next]_vars => AdmitInv'
<1> SUFFICES ASSUME TypeOK, TypeOK', ClaimInv', AdmitInv, [Next]_vars PROVE AdmitInv'
  OBVIOUS
<1>1. CASE Next
  BY <1>1, StepEffect, StepAdmits DEF Typed
<1>2. CASE UNCHANGED vars
  BY <1>2 DEF vars, AdmitInv, SweepsOpen, EdgesAdmitted, WritersAdmitted, Writing
<1> QED BY <1>1, <1>2

(* Consent holds of every behaviour: a private account is viewed only by    *)
(* those its owner let in since it joined, and by pairs that crossed.       *)
THEOREM PrivateIsPrivate == Spec => []Consent
<1>1. TypeOK /\ AdmitInv => Consent
  BY DEF AdmitInv, EdgesAdmitted, Consent, CanView
<1> QED BY <1>1, ClaimKept, InitClaims, InitAdmits, AdmitKept, FollowTypes, PTL DEF Spec

----------------------------------------------------------------------------
(* What an accepted ask may delete is its own row.                          *)
RowsOwn == \A c \in Slots : run[c].op = "accept" => run[c].rows \subseteq {run[c].pair}

LEMMA InitRows == Init => RowsOwn
<1> SUFFICES ASSUME Init PROVE RowsOwn
  OBVIOUS
<1>1. \A c \in Slots : run[c].op = "idle"
  BY IdleOp DEF Init
<1> QED BY <1>1 DEF RowsOwn

LEMMA RowsKept == TypeOK /\ TypeOK' /\ RowsOwn /\ [Next]_vars => RowsOwn'
<1> SUFFICES ASSUME TypeOK, TypeOK', RowsOwn, [Next]_vars PROVE RowsOwn'
  OBVIOUS
<1>1. CASE Next
  <2>1. \A d \in Slots : Moves(d)
    BY <1>1, StepEffect DEF Typed, Effect
  <2>2. ASSUME NEW d \in Slots, run'[d].op = "accept"
        PROVE  run'[d].rows \subseteq {run'[d].pair}
    <3>1. CASE Same(d)
      BY <2>2, <3>1 DEF Same, RowsOwn
    <3>2. CASE Begins(d) \/ Ends(d)
      BY <2>2, <3>2 DEF Begins, Ends
    <3> QED BY <2>1, <3>1, <3>2 DEF Moves
  <2> QED BY <2>2 DEF RowsOwn
<1>2. CASE UNCHANGED vars
  BY <1>2 DEF vars, RowsOwn
<1> QED BY <1>1, <1>2

(* The reasons for which an ask may go, as AskNotForgotten lists them.      *)
Reason(p) ==
  \/ Unfollow(p) \/ Decline(p)
  \/ \E c \in Slots : Leave(c) \/ (run[c].op = "accept" /\ run[c].already /\ Accept(c))
  \/ \E c \in Slots : run[c].op = "honour" /\ Honour(c)
                     /\ p \notin run[c].pending \ run[c].skip

LEMMA StepReason ==
  ASSUME TypeOK, RowsOwn, Next, NEW p \in requests \ (requests' \cup follows')
  PROVE  Reason(p)
<1>1. ASSUME NEW c \in Slots, Accept(c) PROVE Reason(p)
  <2>1. CASE run[c].already
    BY <1>1, <2>1 DEF Accept, Reason
  <2>2. CASE ~run[c].already
    BY <1>1, <2>2 DEF Accept, RowsOwn
  <2> QED BY <2>1, <2>2
<1>2. ASSUME NEW c \in Slots, Honour(c) PROVE Reason(p)
  <2>1. p \notin run[c].pending \ run[c].skip
    BY <1>2 DEF Honour, Swept, Added
  <2> QED BY <1>2, <2>1 DEF Honour, Reason
<1>3. ASSUME NEW c \in Slots, Follow(c) PROVE Reason(p)
  BY <1>3 DEF Follow, InsertEdge
<1>4. ASSUME NEW c \in Slots, Leave(c) PROVE Reason(p)
  BY <1>4 DEF Reason
<1>5. ASSUME NEW q \in Pairs, Unfollow(q) \/ Decline(q) PROVE Reason(p)
  <2>1. p = q
    BY <1>5 DEF Unfollow, Decline
  <2> QED BY <1>5, <2>1 DEF Reason
<1>6. ASSUME requests' = requests PROVE Reason(p)
  BY <1>6
<1>7. ASSUME NEW c \in Slots, Relate(c) \/ ReadPending(c) \/ SaveProfile(c) PROVE Reason(p)
  BY <1>6, <1>7 DEF Relate, ReadPending, SaveProfile, NoWrite
<1>8. ASSUME NEW c \in Slots, NEW q \in Pairs, Resolve(c, q) \/ LoadRequest(c, q) PROVE Reason(p)
  BY <1>6, <1>8 DEF Resolve, LoadRequest, NoWrite
<1>9. ASSUME NEW c \in Slots, NEW u \in Users, OpenInbox(c, u) \/ LoadProfile(c, u) \/ Sever(c, u)
      PROVE  Reason(p)
  BY <1>6, <1>9 DEF OpenInbox, LoadProfile, Sever, NoWrite
<1>10. ASSUME NEW q \in Pairs, RemoveFollower(q) PROVE Reason(p)
  BY <1>6, <1>10 DEF RemoveFollower
<1> QED BY <1>1, <1>2, <1>3, <1>4, <1>5, <1>7, <1>8, <1>9, <1>10 DEF Next, Continue

(* AskNotForgotten holds of every behaviour: the system never drops an ask. *)
THEOREM AsksAreKept == Spec => AskNotForgotten
<1>1. TypeOK /\ RowsOwn /\ [Next]_vars =>
        [\A p \in requests \ (requests' \cup follows') :
           \/ Unfollow(p) \/ Decline(p)
           \/ \E c \in Slots : Leave(c) \/ (run[c].op = "accept" /\ run[c].already /\ Accept(c))
           \/ \E c \in Slots : run[c].op = "honour" /\ Honour(c)
                              /\ p \notin run[c].pending \ run[c].skip]_vars
  BY StepReason DEF Reason
<1> QED BY <1>1, InitRows, RowsKept, FollowTypes, PTL DEF Spec, AskNotForgotten

(* Requests that read the owner as private before it went public, and may   *)
(* still put an ask into its inbox.                                         *)
AskersOf(u) ==
  {c \in Slots : run[c].op \in {"resolved", "follow"} /\ run[c].private /\ run[c].pair[2] = u}

AsksRunOut ==
  [][\A u \in Users : profile[u] = "public" =>
       /\ AskersOf(u)' \subseteq AskersOf(u)
       /\ \A p \in (requests' \ requests) \cap To(u) :
            \E c \in AskersOf(u) \ AskersOf(u)' : run[c].pair = p]_vars

(* The inbox of an account that stays public fills no more: nobody new sets *)
(* out to ask, and each ask that still arrives spends one of the requests   *)
(* that were on their way when the account went public.                     *)
THEOREM InboxFillsNoMore == Spec => AsksRunOut
<1>1. TypeOK /\ TypeOK' /\ [Next]_vars =>
        [\A u \in Users : profile[u] = "public" =>
           /\ AskersOf(u)' \subseteq AskersOf(u)
           /\ \A p \in (requests' \ requests) \cap To(u) :
                \E c \in AskersOf(u) \ AskersOf(u)' : run[c].pair = p]_vars
  <2> SUFFICES ASSUME Typed, Next, NEW u \in Users, profile[u] = "public"
               PROVE  /\ AskersOf(u)' \subseteq AskersOf(u)
                      /\ \A p \in (requests' \ requests) \cap To(u) :
                           \E c \in AskersOf(u) \ AskersOf(u)' : run[c].pair = p
    BY DEF Typed
  <2>1. Effect
    BY StepEffect
  <2>2. ASSUME NEW c \in AskersOf(u)'
        PROVE  c \in AskersOf(u)
    <3>1. /\ c \in Slots /\ run'[c].op \in {"resolved", "follow"}
          /\ run'[c].private /\ run'[c].pair[2] = u
      BY <2>2 DEF AskersOf
    <3>2. Moves(c)
      BY <2>1, <3>1 DEF Effect
    <3>3. CASE Same(c)
      BY <3>1, <3>3 DEF Same, AskersOf
    <3>4. CASE Begins(c)
      BY <3>1, <3>4 DEF Begins, AskersOf
    <3> QED
      BY <3>1, <3>2, <3>3, <3>4 DEF Moves, Ends
  <2>3. ASSUME NEW p \in (requests' \ requests) \cap To(u)
        PROVE  \E c \in AskersOf(u) \ AskersOf(u)' : run[c].pair = p
    <3>1. PICK c \in Slots : Asks(c, p)
      BY <2>1, <2>3 DEF Effect, Grows
    <3>2. run[c].op = "follow" /\ run[c].private /\ run[c].pair = p /\ run'[c].op = "idle"
      BY <3>1 DEF Asks, Writing
    <3>3. p[2] = u
      BY <2>3 DEF To
    <3>4. c \in AskersOf(u) /\ c \notin AskersOf(u)'
      BY <3>2, <3>3 DEF AskersOf
    <3> QED
      BY <3>2, <3>4
  <2> QED
    BY <2>2, <2>3
<1> QED
  BY <1>1, FollowTypes, PTL DEF Spec, AsksRunOut

----------------------------------------------------------------------------
(* Moderation.                                                             *)

LEMMA Closing ==
  ASSUME ModTypeOK, NEW m \in Moderators, moderator[m].at = "close"
  PROVE  /\ moderator[m].case \in Cases /\ moderator[m].siblings \subseteq Cases
         /\ moderator[m].seen \in {"open", "dismissed", "removed", "blocked"}
         /\ moderator[m].outcome \in {"dismissed", "removed"}
BY DEF ModTypeOK, Moderating, Away

LEMMA Paging ==
  ASSUME ModTypeOK, NEW m \in Moderators, moderator[m].at = "page"
  PROVE  moderator[m].cases \subseteq Cases
BY DEF ModTypeOK, Moderating, Away

(* What a decision writes: the outcome over the cases it settles.           *)
Settled(m) ==
  moderator[m].siblings \cup
    (IF moderator[m].outcome # Column(moderator[m].seen) \/ kase[moderator[m].case].status = "blocked"
     THEN {moderator[m].case} ELSE {})

LEMMA ClosingWrites ==
  ASSUME ModTypeOK, NEW m \in Moderators, Close(m)
  PROVE  /\ kase' \in [Cases -> Case]
         /\ \A k \in Cases : k \notin Settled(m) => kase'[k] = kase[k]
         /\ \A k \in Settled(m) : k \in Cases /\ kase'[k].status = moderator[m].outcome
         /\ moderator[m].at = "close" /\ moderator' = [moderator EXCEPT ![m] = Away]
<1>1. moderator[m].at = "close"
  BY DEF Close
<1>2. kase' = [k \in Cases |-> IF k \in Settled(m) THEN [kase[k] EXCEPT !.status = moderator[m].outcome]
                               ELSE kase[k]]
  BY DEF Close, Settled
<1>3. \A k \in Settled(m) : k \in Cases
  BY <1>1, Closing DEF Settled
<1>4. \A k \in Cases : kase[k] \in Case
  BY DEF ModTypeOK
<1>5. \A k \in Cases : /\ [kase[k] EXCEPT !.status = moderator[m].outcome] \in Case
                       /\ [kase[k] EXCEPT !.status = moderator[m].outcome].status = moderator[m].outcome
  BY <1>1, <1>4, Closing DEF Case
<1>6. moderator' = [moderator EXCEPT ![m] = Away]
  BY DEF Close, Becomes
<1>7. kase' \in [Cases -> Case]
  BY <1>2, <1>4, <1>5
<1>8. \A k \in Settled(m) : kase'[k].status = moderator[m].outcome
  BY <1>2, <1>3, <1>5
<1>9. \A k \in Cases : k \notin Settled(m) => kase'[k] = kase[k]
  BY <1>2
<1> QED BY <1>1, <1>3, <1>6, <1>7, <1>8, <1>9

(* A case a moderator has before him has been filed, and is filed only once *)
(* (a text is submitted once, a member reports once): it does not open again*)
(* between the page, the decision and its commit.                           *)
Filed == {"open", "dismissed", "removed", "blocked"}
FiledInv ==
  /\ ModTypeOK
  /\ \A t \in Texts : submit[t] # "done" => kase[t] = NoCase
  /\ \A p \in Reporters : report[p] # NoText => kase[p] = NoCase
  /\ \A m \in Moderators : moderator[m].at = "page" =>
       \A k \in moderator[m].cases : kase[k].status \in Filed
  /\ \A m \in Moderators : moderator[m].at = "close" =>
       /\ kase[moderator[m].case].status \in Filed
       /\ \A k \in moderator[m].siblings : kase[k].status \in Filed
       /\ kase[moderator[m].case].status = "open" => moderator[m].seen = "open"

FiledStays ==
  \A k \in Cases : kase[k].status \in Filed =>
    kase'[k].status \in Filed /\ (kase'[k].status = "open" => kase[k].status = "open")

LEMMA FiledStep == FiledInv /\ [ModNext]_modVars => FiledInv' /\ FiledStays
<1> SUFFICES ASSUME FiledInv, [ModNext]_modVars PROVE FiledInv' /\ FiledStays
  OBVIOUS
<1>t. /\ thing \in Thing /\ submit \in [Texts -> {"none", "screen", "write", "done"}]
      /\ verdict \in [Texts -> {"none", "allow", "review", "block"}]
      /\ kase \in [Cases -> Case] /\ report \in [Reporters -> MaybeText]
      /\ moderator \in [Moderators -> Moderating]
      /\ looked \subseteq MaybeText /\ late \subseteq Cases
      /\ takenDown \in BOOLEAN /\ redecided \in BOOLEAN
  BY DEF FiledInv, ModTypeOK
<1>s. Texts \subseteq Cases /\ Reporters \subseteq Cases /\ Texts \subseteq MaybeText /\ NoText \in MaybeText
      /\ Texts \cap Reporters = {} /\ NoText \notin Texts
  BY CaseKeys DEF Cases, MaybeText
<1>c. \A about \in MaybeText : [status |-> "open", about |-> about] \in Case
                               /\ [status |-> "blocked", about |-> about] \in Case
  BY DEF Case
<1>n. NoCase.status = "none"
  BY DEF NoCase
<1>k. ASSUME ModTypeOK', FiledStays, UNCHANGED moderator,
             \A t \in Texts : submit'[t] # "done" => kase'[t] = NoCase,
             \A p \in Reporters : report'[p] # NoText => kase'[p] = NoCase
      PROVE FiledInv'
  <2>1. \A m \in Moderators : moderator[m].at = "page" =>
          \A k \in moderator[m].cases : k \in Cases /\ kase'[k].status \in Filed
    BY <1>k, <1>t, Paging DEF FiledInv, FiledStays
  <2>2. \A m \in Moderators : moderator[m].at = "close" =>
          moderator[m].case \in Cases /\ moderator[m].siblings \subseteq Cases
    BY Closing DEF FiledInv
  <2>3. \A m \in Moderators : moderator[m].at = "close" =>
          /\ kase'[moderator[m].case].status \in Filed
          /\ \A k \in moderator[m].siblings : kase'[k].status \in Filed
          /\ kase'[moderator[m].case].status = "open" => moderator[m].seen = "open"
    BY <1>k, <2>2 DEF FiledInv, FiledStays
  <2> QED BY <1>k, <2>1, <2>3 DEF FiledInv
<1>0. ASSUME kase' = kase PROVE FiledStays
  BY <1>0 DEF FiledStays
<1>1. ASSUME NEW t \in Texts, Submit(t) \/ Abandon(t) PROVE FiledInv' /\ FiledStays
  <2>1. ModTypeOK'
    BY <1>1, <1>t DEF Submit, Abandon, ModTypeOK
  <2>2. /\ UNCHANGED <<kase, report, moderator>>
        /\ \A u \in Texts : submit'[u] # "done" => submit[u] # "done"
    BY <1>1, <1>t DEF Submit, Abandon
  <2> QED BY <2>1, <2>2, <1>0, <1>k DEF FiledInv
<1>f. ASSUME NEW k \in Cases, kase[k] = NoCase, NEW filed, kase' = [kase EXCEPT ![k] = filed]
      PROVE FiledStays /\ \A j \in Cases \ {k} : kase'[j] = kase[j]
  BY <1>f, <1>n, <1>t DEF FiledStays, Filed
<1>2. ASSUME NEW t \in Texts, NEW says \in {"allow", "review", "block"}, Screen(t, says)
      PROVE FiledInv' /\ FiledStays
  <2>1. kase' \in [Cases -> Case] /\ submit' \in [Texts -> {"none", "screen", "write", "done"}]
    <3>1. t \in Cases /\ [status |-> "blocked", about |-> t] \in Case
      BY <1>s, <1>c
    <3>2. kase' = kase \/ kase' = [kase EXCEPT ![t] = [status |-> "blocked", about |-> t]]
      BY <1>2 DEF Screen
    <3>3. kase' \in [Cases -> Case]
      BY <3>1, <3>2, <1>t
    <3>4. submit' = [submit EXCEPT ![t] = "done"] \/ submit' = [submit EXCEPT ![t] = "write"]
      BY <1>2 DEF Screen
    <3> QED BY <3>3, <3>4, <1>t
  <2>2. ModTypeOK'
    BY <1>2, <1>t, <2>1 DEF Screen, ModTypeOK
  <2>3. kase[t] = NoCase /\ UNCHANGED <<report, moderator>>
    BY <1>2 DEF Screen, FiledInv
  <2>4. CASE says = "block"
    <3>1. /\ \/ kase' = kase
             \/ kase' = [kase EXCEPT ![t] = [status |-> "blocked", about |-> t]]
          /\ submit' = [submit EXCEPT ![t] = "done"]
      BY <1>2, <2>4 DEF Screen
    <3>2. FiledStays /\ \A j \in Cases \ {t} : kase'[j] = kase[j]
      BY <3>1, <2>3, <1>0, <1>f, <1>s
    <3>3. \A u \in Texts : submit'[u] # "done" => u # t /\ submit[u] # "done"
      BY <3>1, <1>t
    <3>4. \A p \in Reporters : p \in Cases \ {t}
      BY <1>s
    <3>5. \A u \in Texts : submit'[u] # "done" => kase'[u] = NoCase
      BY <3>2, <3>3, <1>s DEF FiledInv
    <3>6. \A p \in Reporters : report'[p] # NoText => kase'[p] = NoCase
      BY <3>2, <3>4, <2>3 DEF FiledInv
    <3> QED BY <1>k, <2>2, <2>3, <3>2, <3>5, <3>6
  <2>5. CASE says # "block"
    <3>1. kase' = kase /\ \A u \in Texts : submit'[u] # "done" => submit[u] # "done"
      BY <1>2, <2>5, <1>t DEF Screen
    <3> QED BY <2>2, <2>3, <3>1, <1>0, <1>k DEF FiledInv
  <2> QED BY <2>4, <2>5
<1>3. ASSUME NEW t \in Texts, Write(t) PROVE FiledInv' /\ FiledStays
  <2>1. kase' \in [Cases -> Case] /\ late' \subseteq Cases
    <3>1. t \in Cases /\ [status |-> "open", about |-> t] \in Case
      BY <1>s, <1>c
    <3>2. kase' = kase \/ kase' = [kase EXCEPT ![t] = [status |-> "open", about |-> t]]
      BY <1>3 DEF Write
    <3>3. late' = late \/ late' = late \cup {t}
      BY <1>3 DEF Write, LateIfRemoving
    <3> QED BY <3>1, <3>2, <3>3, <1>t
  <2>2. thing' \in Thing
    BY <1>3, <1>t, <1>s DEF Write, Thing
  <2>3. ModTypeOK'
    BY <1>3, <1>t, <2>1, <2>2 DEF Write, ModTypeOK
  <2>4. kase[t] = NoCase /\ UNCHANGED <<report, moderator>>
    BY <1>3 DEF Write, FiledInv
  <2>5. \A u \in Texts : submit'[u] # "done" => u # t /\ submit[u] # "done"
    BY <1>3, <1>t DEF Write
  <2>6. FiledStays /\ \A j \in Cases \ {t} : kase'[j] = kase[j]
    <3>1. CASE Files(t)
      BY <1>3, <2>4, <3>1, <1>f, <1>s DEF Write
    <3>2. CASE ~Files(t)
      BY <1>3, <3>2, <1>0 DEF Write
    <3> QED BY <3>1, <3>2
  <2>7. \A u \in Texts : submit'[u] # "done" => kase'[u] = NoCase
    BY <2>5, <2>6, <1>s DEF FiledInv
  <2>8. \A p \in Reporters : p \in Cases \ {t}
    BY <1>s
  <2>9. \A p \in Reporters : report'[p] # NoText => kase'[p] = NoCase
    BY <2>4, <2>6, <2>8 DEF FiledInv
  <2> QED BY <1>k, <2>3, <2>4, <2>6, <2>7, <2>9
<1>4. CASE Delete
  <2>1. ModTypeOK'
    BY <1>4, <1>t DEF Delete, ModTypeOK, Thing
  <2> QED BY <1>4, <2>1, <1>0, <1>k DEF Delete, FiledInv
<1>5. ASSUME NEW p \in Reporters, StartReport(p) PROVE FiledInv' /\ FiledStays
  <2>1. thing.text \in MaybeText
    BY <1>t DEF Thing
  <2>2. ModTypeOK'
    BY <1>5, <1>t, <2>1 DEF StartReport, ModTypeOK
  <2>3. \A q \in Reporters : report'[q] # NoText => q = p \/ report[q] # NoText
    BY <1>5, <1>t DEF StartReport
  <2> QED BY <1>5, <2>2, <2>3, <1>0, <1>k DEF StartReport, FiledInv
<1>6. ASSUME NEW p \in Reporters, FileReport(p) PROVE FiledInv' /\ FiledStays
  <2>1. kase' \in [Cases -> Case] /\ late' \subseteq Cases
    BY <1>6, <1>t, <1>s, <1>c DEF FileReport, LateIfRemoving
  <2>2. ModTypeOK'
    BY <1>6, <1>t, <1>s, <2>1 DEF FileReport, ModTypeOK
  <2>3. kase[p] = NoCase /\ UNCHANGED <<submit, moderator>>
    BY <1>6 DEF FileReport, FiledInv
  <2>4. FiledStays /\ \A j \in Cases \ {p} : kase'[j] = kase[j]
    BY <1>6, <2>3, <1>f, <1>s DEF FileReport
  <2>5. \A q \in Reporters : report'[q] # NoText => q # p /\ report[q] # NoText
    BY <1>6, <1>t DEF FileReport
  <2>6. \A t \in Texts : t \in Cases \ {p}
    BY <1>s
  <2>7. \A t \in Texts : submit'[t] # "done" => kase'[t] = NoCase
    BY <2>3, <2>4, <2>6 DEF FiledInv
  <2>8. \A q \in Reporters : report'[q] # NoText => kase'[q] = NoCase
    BY <2>4, <2>5, <1>s DEF FiledInv
  <2> QED BY <1>k, <2>2, <2>3, <2>4, <2>7, <2>8
<1>m. ASSUME ModTypeOK', UNCHANGED <<kase, submit, report>>, NEW m \in Moderators, NEW next,
             moderator' = [moderator EXCEPT ![m] = next],
             next.at = "page" => \A k \in next.cases : kase[k].status \in Filed,
             next.at = "close" =>
               /\ kase[next.case].status \in Filed
               /\ \A k \in next.siblings : kase[k].status \in Filed
               /\ kase[next.case].status = "open" => next.seen = "open"
      PROVE FiledInv' /\ FiledStays
  <2>1. moderator'[m] = next /\ \A n \in Moderators \ {m} : moderator'[n] = moderator[n]
    BY <1>m, <1>t
  <2>2. \A n \in Moderators : moderator'[n].at = "page" =>
          \A k \in moderator'[n].cases : kase'[k].status \in Filed
    BY <1>m, <2>1 DEF FiledInv
  <2>3. \A n \in Moderators : moderator'[n].at = "close" =>
          /\ kase'[moderator'[n].case].status \in Filed
          /\ \A k \in moderator'[n].siblings : kase'[k].status \in Filed
          /\ kase'[moderator'[n].case].status = "open" => moderator'[n].seen = "open"
    BY <1>m, <2>1 DEF FiledInv
  <2> QED BY <1>m, <1>0, <2>2, <2>3 DEF FiledInv
<1>7. ASSUME NEW m \in Moderators, NEW status \in Filed, Look(m, status)
      PROVE FiledInv' /\ FiledStays
  <2> DEFINE page == {k \in Cases : kase[k].status = status}
  <2>1. [at |-> "page", cases |-> page] \in Moderating
    BY DEF Moderating
  <2>2. \A k \in Cases : kase[k].about \in MaybeText
    BY <1>t DEF Case
  <2>3. looked' \subseteq MaybeText
    BY <1>7, <1>t, <2>2 DEF Look
  <2>4. moderator' = [moderator EXCEPT ![m] = [at |-> "page", cases |-> page]]
    BY <1>7 DEF Look, Becomes
  <2>5. ModTypeOK'
    BY <1>7, <1>t, <2>1, <2>3, <2>4 DEF Look, ModTypeOK
  <2>6. \A k \in page : kase[k].status \in Filed
    OBVIOUS
  <2> HIDE DEF page
  <2> QED BY <1>7, <1>m, <2>4, <2>5, <2>6 DEF Look
<1>8. ASSUME NEW m \in Moderators, NEW k \in Cases, NEW outcome \in {"dismissed", "removed"},
             Decide(m, k, outcome)
      PROVE FiledInv' /\ FiledStays
  <2> DEFINE next == [at |-> "close", case |-> k, seen |-> kase[k].status, outcome |-> outcome,
                      siblings |-> Siblings(k)]
  <2>1. kase[k].status \in Filed
    BY <1>8 DEF Decide, FiledInv
  <2>2. Siblings(k) \subseteq Cases /\ \A j \in Siblings(k) : kase[j].status \in Filed
    BY DEF Siblings, Open, Filed
  <2>3. next \in Moderating
    BY <2>1, <2>2 DEF Moderating, Filed
  <2>4. moderator' = [moderator EXCEPT ![m] = next]
    BY <1>8 DEF Decide, Becomes
  <2>5. ModTypeOK'
    BY <1>8, <1>t, <2>3, <2>4 DEF Decide, ModTypeOK
  <2>6. /\ next.at = "close" /\ next.case = k /\ next.siblings = Siblings(k)
        /\ next.seen = kase[k].status
    OBVIOUS
  <2> HIDE DEF next
  <2> QED BY <1>8, <1>m, <2>1, <2>2, <2>4, <2>5, <2>6 DEF Decide
<1>9. ASSUME NEW m \in Moderators, Close(m) PROVE FiledInv' /\ FiledStays
  <2>1. /\ kase' \in [Cases -> Case]
        /\ \A k \in Cases : k \notin Settled(m) => kase'[k] = kase[k]
        /\ \A k \in Settled(m) : k \in Cases /\ kase'[k].status = moderator[m].outcome
        /\ moderator[m].at = "close" /\ moderator' = [moderator EXCEPT ![m] = Away]
    BY <1>9, ClosingWrites DEF FiledInv
  <2>2. moderator[m].outcome \in {"dismissed", "removed"}
    BY <2>1, Closing DEF FiledInv
  <2>3. thing' \in Thing /\ takenDown' \in BOOLEAN /\ redecided' \in BOOLEAN /\ Away \in Moderating
    BY <1>9, <1>t DEF Close, Thing, Moderating
  <2>4. ModTypeOK'
    BY <1>9, <1>t, <2>1, <2>3 DEF Close, ModTypeOK
  <2>5. FiledStays
    BY <2>1, <2>2 DEF FiledStays, Filed
  <2>6. \A k \in Cases : kase[k] = NoCase => kase'[k] = NoCase
    <3>1. \A k \in Settled(m) : kase[k].status \in Filed
      BY <2>1 DEF Settled, FiledInv
    <3> QED BY <3>1, <2>1, <1>n DEF Filed
  <2>7. UNCHANGED <<submit, report>>
    BY <1>9 DEF Close
  <2>8. \A n \in Moderators : moderator'[n].at # "away" => moderator'[n] = moderator[n]
    BY <2>1, <1>t DEF Away
  <2>9. \A n \in Moderators : moderator'[n].at = "page" =>
          \A k \in moderator'[n].cases : kase'[k].status \in Filed
    <3>1. \A n \in Moderators : moderator[n].at = "page" => moderator[n].cases \subseteq Cases
      BY Paging DEF FiledInv
    <3> QED BY <3>1, <2>5, <2>8 DEF FiledInv, FiledStays
  <2>10. \A n \in Moderators : moderator'[n].at = "close" =>
          /\ kase'[moderator'[n].case].status \in Filed
          /\ \A k \in moderator'[n].siblings : kase'[k].status \in Filed
          /\ kase'[moderator'[n].case].status = "open" => moderator'[n].seen = "open"
    <3>1. \A n \in Moderators : moderator[n].at = "close" =>
            moderator[n].case \in Cases /\ moderator[n].siblings \subseteq Cases
      BY Closing DEF FiledInv
    <3> QED BY <3>1, <2>5, <2>8 DEF FiledInv, FiledStays
  <2> QED BY <2>4, <2>5, <2>6, <2>7, <2>9, <2>10, <1>s DEF FiledInv
<1>10. ASSUME NEW m \in Moderators, GoAway(m) PROVE FiledInv' /\ FiledStays
  <2>1. Away \in Moderating /\ Away.at = "away"
    BY DEF Moderating, Away
  <2>2. ModTypeOK'
    BY <1>10, <1>t, <2>1 DEF GoAway, Becomes, ModTypeOK
  <2> QED BY <1>10, <1>m, <2>1, <2>2 DEF GoAway, Becomes
<1>11. CASE UNCHANGED modVars
  BY <1>11 DEF modVars, FiledInv, ModTypeOK, FiledStays
<1> QED BY <1>1, <1>2, <1>3, <1>4, <1>5, <1>6, <1>7, <1>8, <1>9, <1>10, <1>11 DEF ModNext, Filed

LEMMA FiledInitial == ModInit => FiledInv
<1> SUFFICES ASSUME ModInit PROVE FiledInv
  OBVIOUS
<1>1. NoCase \in Case /\ Away \in Moderating /\ NoText \in MaybeText /\ Away.at = "away"
  BY DEF NoCase, Case, MaybeText, Away, Moderating
<1>2. thing \in Thing
  BY DEF ModInit, Thing, MaybeText
<1>3. ModTypeOK
  BY <1>1, <1>2 DEF ModInit, ModTypeOK
<1>4. \A m \in Moderators : moderator[m].at = "away"
  BY <1>1 DEF ModInit
<1>5. \A t \in Texts : kase[t] = NoCase
  BY DEF ModInit, Cases
<1>6. \A p \in Reporters : report[p] = NoText
  BY DEF ModInit
<1> QED BY <1>3, <1>4, <1>5, <1>6 DEF FiledInv

(* The thing, its cases and what moderators do with them stay well typed.   *)
THEOREM ModerationTypes == ModSpec => []ModTypeOK
<1>1. FiledInv => ModTypeOK
  BY DEF FiledInv
<1> QED BY <1>1, FiledInitial, FiledStep, PTL DEF ModSpec

----------------------------------------------------------------------------
(* A text waiting to be written was not refused; the text shown is done     *)
(* with; and a thing with a case that says removed is gone.                 *)
ShownInv ==
  /\ \A t \in Texts : submit[t] = "write" => verdict[t] \in {"allow", "review"}
  /\ thing.state = "up" =>
       /\ thing.text \in Texts /\ submit[thing.text] = "done"
       /\ verdict[thing.text] \in {"allow", "review"}
       /\ verdict[thing.text] = "review" => kase[thing.text].status \in {"open", "dismissed"}
  /\ \A k \in Cases : kase[k].status = "removed" => thing.state = "gone"

LEMMA ShownStep == FiledInv /\ ShownInv /\ [ModNext]_modVars => ShownInv'
<1> SUFFICES ASSUME FiledInv, ShownInv, [ModNext]_modVars PROVE ShownInv'
  OBVIOUS
<1>t. /\ thing \in Thing /\ submit \in [Texts -> {"none", "screen", "write", "done"}]
      /\ verdict \in [Texts -> {"none", "allow", "review", "block"}]
      /\ kase \in [Cases -> Case]
  BY DEF FiledInv, ModTypeOK
<1>s. Texts \subseteq Cases /\ Reporters \subseteq Cases /\ Texts \cap Reporters = {}
  BY CaseKeys DEF Cases
<1>1. ASSUME NEW t \in Texts, Submit(t) \/ Abandon(t) PROVE ShownInv'
  <2>1. /\ UNCHANGED <<thing, verdict, kase>>
        /\ \A u \in Texts : submit'[u] = "write" => submit[u] = "write"
        /\ \A u \in Texts : submit[u] = "done" => submit'[u] = "done"
    BY <1>1, <1>t DEF Submit, Abandon
  <2> QED BY <2>1 DEF ShownInv
<1>2. ASSUME NEW t \in Texts, NEW says \in {"allow", "review", "block"}, Screen(t, says)
      PROVE ShownInv'
  <2>1. /\ submit[t] = "screen" /\ thing' = thing
        /\ \A u \in Texts \ {t} : submit'[u] = submit[u] /\ verdict'[u] = verdict[u] /\ kase'[u] = kase[u]
    BY <1>2, <1>t, <1>s DEF Screen
  <2>2. submit'[t] = "write" => verdict'[t] \in {"allow", "review"}
    BY <1>2, <1>t DEF Screen
  <2>3. thing.state = "up" => thing.text \in Texts \ {t}
    BY <2>1 DEF ShownInv
  <2>4. \A k \in Cases : kase'[k].status = "removed" => kase[k].status = "removed"
    BY <1>2, <1>t, <1>s DEF Screen
  <2> QED BY <2>1, <2>2, <2>3, <2>4 DEF ShownInv
<1>3. ASSUME NEW t \in Texts, Write(t) PROVE ShownInv'
  <2>1. /\ thing'.text = t /\ verdict' = verdict /\ submit' = [submit EXCEPT ![t] = "done"]
        /\ thing'.state = (IF thing.state = "none" THEN "up" ELSE thing.state)
    BY <1>3, <1>t DEF Write, Thing
  <2>2. \A u \in Texts : submit'[u] = "write" => submit[u] = "write"
    BY <2>1, <1>t
  <2>3. submit'[t] = "done" /\ verdict[t] \in {"allow", "review"}
    BY <1>3, <2>1, <1>t DEF Write, ShownInv
  <2>4. verdict[t] = "review" => kase'[t].status = "open"
    BY <1>3, <1>t, <1>s DEF Write, Files
  <2>5. \A k \in Cases : kase'[k].status = "removed" => kase[k].status = "removed"
    BY <1>3, <1>t, <1>s DEF Write
  <2>6. thing.state = "gone" => thing'.state = "gone"
    BY <2>1
  <2>7. \A k \in Cases : kase'[k].status = "removed" => thing'.state = "gone"
    BY <2>5, <2>6 DEF ShownInv
  <2>8. \A u \in Texts : submit'[u] = "write" => verdict'[u] \in {"allow", "review"}
    BY <2>1, <2>2 DEF ShownInv
  <2> QED BY <2>1, <2>3, <2>4, <2>7, <2>8 DEF ShownInv
<1>4. CASE Delete
  <2>1. thing'.state = "gone" /\ UNCHANGED <<submit, verdict, kase>>
    BY <1>4, <1>t DEF Delete, Thing
  <2> QED BY <2>1 DEF ShownInv
<1>5. ASSUME NEW p \in Reporters, StartReport(p) PROVE ShownInv'
  BY <1>5 DEF StartReport, ShownInv
<1>6. ASSUME NEW p \in Reporters, FileReport(p) PROVE ShownInv'
  <2>1. UNCHANGED <<thing, submit, verdict>> /\ \A u \in Texts : kase'[u] = kase[u]
    BY <1>6, <1>t, <1>s DEF FileReport
  <2>2. \A k \in Cases : kase'[k].status = "removed" => kase[k].status = "removed"
    BY <1>6, <1>t, <1>s DEF FileReport
  <2> QED BY <2>1, <2>2 DEF ShownInv
<1>7. ASSUME NEW m \in Moderators, Close(m) PROVE ShownInv'
  <2>1. /\ \A k \in Cases : k \notin Settled(m) => kase'[k] = kase[k]
        /\ \A k \in Settled(m) : kase'[k].status = moderator[m].outcome
        /\ moderator[m].outcome \in {"dismissed", "removed"}
    BY <1>7, ClosingWrites, Closing DEF FiledInv
  <2>2. UNCHANGED <<submit, verdict>> /\ thing'.text = thing.text
        /\ thing'.state = (IF moderator[m].outcome = "removed" THEN "gone" ELSE thing.state)
    BY <1>7, <1>t DEF Close, Thing
  <2>3. CASE moderator[m].outcome = "removed"
    BY <2>2, <2>3 DEF ShownInv
  <2>4. CASE moderator[m].outcome = "dismissed"
    <3>1. \A k \in Cases : kase'[k] = kase[k] \/ kase'[k].status = "dismissed"
      BY <2>1, <2>4
    <3>2. \A k \in Cases : kase'[k].status = "removed" => kase[k].status = "removed"
      BY <3>1
    <3>3. thing'.state = thing.state
      BY <2>2, <2>4
    <3>4. thing.state = "up" /\ verdict[thing.text] = "review" =>
            kase'[thing.text].status \in {"open", "dismissed"}
      BY <3>1, <1>s DEF ShownInv
    <3> QED BY <2>2, <3>2, <3>3, <3>4 DEF ShownInv
  <2> QED BY <2>1, <2>3, <2>4
<1>8. ASSUME UNCHANGED <<thing, submit, verdict, kase>> PROVE ShownInv'
  BY <1>8 DEF ShownInv
<1> QED BY <1>1, <1>2, <1>3, <1>4, <1>5, <1>6, <1>7, <1>8
        DEF ModNext, Look, Decide, GoAway, modVars

(* ShownTextIsAnswered, for any number of texts, reporters and moderators:  *)
(* what is on show passed the screening, and a doubtful text has its case.  *)
THEOREM ShownAnswered == ModSpec => []ShownTextIsAnswered
<1>1. ModInit => FiledInv /\ ShownInv
  <2>1. ModInit => ShownInv
    BY DEF ModInit, ShownInv, NoCase
  <2> QED BY <2>1, FiledInitial
<1>2. FiledInv /\ ShownInv /\ [ModNext]_modVars => FiledInv' /\ ShownInv'
  BY FiledStep, ShownStep
<1>3. ShownInv => ShownTextIsAnswered
  BY DEF ShownInv, ShownTextIsAnswered
<1> QED BY <1>1, <1>2, <1>3, PTL DEF ModSpec

----------------------------------------------------------------------------
(* A case open beside a removal was filed late or is one it has listed.     *)
Listed(m) == moderator[m].siblings \cup {moderator[m].case}

QueueInv ==
  /\ \A m \in Moderators : moderator[m].at = "close" /\ moderator[m].outcome = "removed" =>
       Open \subseteq late \cup Listed(m)
  /\ TakedownClosesQueue

LEMMA QueueStep == FiledInv /\ QueueInv /\ [ModNext]_modVars => QueueInv'
<1> SUFFICES ASSUME FiledInv, QueueInv, [ModNext]_modVars PROVE QueueInv'
  OBVIOUS
<1>t. /\ kase \in [Cases -> Case] /\ moderator \in [Moderators -> Moderating]
      /\ takenDown \in BOOLEAN /\ redecided \in BOOLEAN
  BY DEF FiledInv, ModTypeOK
<1>s. Texts \subseteq Cases /\ Reporters \subseteq Cases
  BY DEF Cases
<1>n. NoCase.status = "none"
  BY DEF NoCase
<1>k. ASSUME NEW k \in Cases, NEW about, kase[k] = NoCase,
             kase' = [kase EXCEPT ![k] = [status |-> "open", about |-> about]],
             LateIfRemoving(k), UNCHANGED <<moderator, takenDown, redecided>>
      PROVE QueueInv'
  <2>1. Open' = Open \cup {k}
    BY <1>k, <1>t DEF Open
  <2>2. \A m \in Moderators : Listed(m)' = Listed(m)
    BY <1>k DEF Listed
  <2>3. late \subseteq late' /\ (Removing => k \in late')
    BY <1>k DEF LateIfRemoving
  <2>4. \A m \in Moderators : moderator[m].at = "close" /\ moderator[m].outcome = "removed" =>
          Open' \subseteq late' \cup Listed(m)
    BY <2>1, <2>3 DEF QueueInv, Removing
  <2>5. takenDown => Open' \subseteq late'
    BY <2>1, <2>3 DEF QueueInv, TakedownClosesQueue, Removing
  <2>6. takenDown => (\E j \in Cases : kase'[j].status = "removed") \/ redecided
    <3>1. \A j \in Cases : kase[j].status = "removed" => kase'[j].status = "removed"
      BY <1>k, <1>n, <1>t
    <3> QED BY <3>1 DEF QueueInv, TakedownClosesQueue
  <2> QED BY <1>k, <2>2, <2>4, <2>5, <2>6 DEF QueueInv, TakedownClosesQueue
<1>0. ASSUME Open' \subseteq Open, UNCHANGED <<late, takenDown, redecided>>,
             \A j \in Cases : kase[j].status = "removed" => kase'[j].status = "removed",
             \A m \in Moderators : moderator'[m].at = "close" => moderator'[m] = moderator[m]
      PROVE QueueInv'
  <2>1. \A m \in Moderators : moderator'[m] = moderator[m] => Listed(m)' = Listed(m)
    BY DEF Listed
  <2>2. \A m \in Moderators : moderator'[m].at = "close" /\ moderator'[m].outcome = "removed" =>
          Open' \subseteq late' \cup Listed(m)'
    BY <1>0, <2>1 DEF QueueInv
  <2>3. TakedownClosesQueue'
    BY <1>0 DEF QueueInv, TakedownClosesQueue
  <2> QED BY <2>2, <2>3 DEF QueueInv
<1>1. ASSUME NEW t \in Texts, NEW says \in {"allow", "review", "block"}, Screen(t, says)
      PROVE QueueInv'
  <2>1. kase[t] = NoCase /\ UNCHANGED <<moderator, takenDown, late, redecided>>
    BY <1>1 DEF Screen, FiledInv
  <2>2. \A j \in Cases : kase'[j] = kase[j] \/ (j = t /\ kase'[j].status = "blocked")
    BY <1>1, <1>t, <1>s DEF Screen
  <2>3. Open' \subseteq Open
    BY <2>2 DEF Open
  <2>4. \A j \in Cases : kase[j].status = "removed" => kase'[j].status = "removed"
    BY <2>1, <2>2, <1>n
  <2> QED BY <1>0, <2>1, <2>3, <2>4
<1>2. ASSUME NEW t \in Texts, Write(t) PROVE QueueInv'
  <2>1. kase[t] = NoCase /\ UNCHANGED <<moderator, takenDown, redecided>>
    BY <1>2 DEF Write, FiledInv
  <2>2. CASE Files(t)
    BY <1>2, <1>k, <1>s, <2>1, <2>2 DEF Write
  <2>3. CASE ~Files(t)
    <3>1. UNCHANGED <<kase, late>>
      BY <1>2, <2>3 DEF Write
    <3>2. Open' = Open
      BY <3>1 DEF Open
    <3> QED BY <1>0, <2>1, <3>1, <3>2
  <2> QED BY <2>2, <2>3
<1>3. ASSUME NEW p \in Reporters, FileReport(p) PROVE QueueInv'
  <2>1. kase[p] = NoCase /\ UNCHANGED <<moderator, takenDown, redecided>>
    BY <1>3 DEF FileReport, FiledInv
  <2> QED BY <1>3, <1>k, <1>s, <2>1 DEF FileReport
<1>4. ASSUME NEW m \in Moderators, NEW k \in Cases, NEW outcome \in {"dismissed", "removed"},
             Decide(m, k, outcome)
      PROVE QueueInv'
  <2>1. /\ UNCHANGED <<kase, late, takenDown, redecided>>
        /\ moderator' = [moderator EXCEPT ![m] =
             [at |-> "close", case |-> k, seen |-> kase[k].status, outcome |-> outcome,
              siblings |-> Siblings(k)]]
    BY <1>4 DEF Decide, Becomes
  <2>2. Open' = Open
    BY <2>1 DEF Open
  <2>3. /\ moderator'[m].case = k /\ moderator'[m].seen = kase[k].status
        /\ moderator'[m].outcome = outcome /\ moderator'[m].siblings = Siblings(k)
    BY <2>1, <1>t
  <2>4. outcome = "removed" => Open \subseteq Listed(m)'
    BY <2>3 DEF Listed, Siblings
  <2>5. \A n \in Moderators \ {m} : moderator'[n] = moderator[n] /\ Listed(n)' = Listed(n)
    BY <2>1, <1>t DEF Listed
  <2>6. \A n \in Moderators : moderator'[n].at = "close" /\ moderator'[n].outcome = "removed" =>
          Open' \subseteq late' \cup Listed(n)'
    BY <2>1, <2>2, <2>3, <2>4, <2>5 DEF QueueInv
  <2>7. TakedownClosesQueue'
    BY <2>1, <2>2 DEF QueueInv, TakedownClosesQueue
  <2> QED BY <2>6, <2>7 DEF QueueInv
<1>5. ASSUME NEW m \in Moderators, Close(m) PROVE QueueInv'
  <2>1. /\ \A k \in Cases : k \notin Settled(m) => kase'[k] = kase[k]
        /\ \A k \in Settled(m) : k \in Cases /\ kase'[k].status = moderator[m].outcome
        /\ moderator[m].at = "close" /\ moderator' = [moderator EXCEPT ![m] = Away]
        /\ moderator[m].outcome \in {"dismissed", "removed"}
    BY <1>5, ClosingWrites, Closing DEF FiledInv
  <2>2. /\ takenDown' = (takenDown \/ moderator[m].outcome = "removed") /\ late' = late
        /\ redecided' = (redecided \/ ~(moderator[m].siblings \cup {moderator[m].case} \subseteq Undecided))
    BY <1>5 DEF Close
  <2>c. moderator[m].case \in Cases /\ moderator[m].siblings \subseteq Cases
    BY <2>1, Closing DEF FiledInv
  <2>o. moderator[m].case \in Open => moderator[m].case \in Settled(m)
    <3>1. moderator[m].case \in Open => moderator[m].seen = "open"
      BY <2>1 DEF FiledInv, Open
    <3> QED BY <2>1, <3>1 DEF Settled, Column
  <2>3. Open' \subseteq Open \ Settled(m) /\ Open' \subseteq Open \ Listed(m)
    <3>1. Open' \subseteq Open \ Settled(m)
      BY <2>1 DEF Open
    <3> QED BY <3>1, <2>o DEF Listed, Settled
  <2>4. \A n \in Moderators : moderator'[n].at = "close" => moderator'[n] = moderator[n]
    BY <2>1, <1>t DEF Away
  <2>5. \A n \in Moderators : moderator'[n] = moderator[n] => Listed(n)' = Listed(n)
    BY DEF Listed
  <2>6. \A n \in Moderators : moderator'[n].at = "close" /\ moderator'[n].outcome = "removed" =>
          Open' \subseteq late' \cup Listed(n)'
    BY <2>2, <2>3, <2>4, <2>5 DEF QueueInv
  <2>7. takenDown' => Open' \subseteq late'
    BY <2>1, <2>2, <2>3 DEF QueueInv, TakedownClosesQueue
  <2>8. ASSUME takenDown', ~redecided' PROVE \E k \in Cases : kase'[k].status = "removed"
    <3>1. moderator[m].case \in Undecided /\ moderator[m].siblings \subseteq Undecided /\ ~redecided
      BY <2>2, <2>8
    <3>2. Settled(m) \subseteq Undecided
      BY <3>1 DEF Settled
    <3>3. CASE moderator[m].outcome = "removed"
      <4>1. moderator[m].case \in Settled(m)
        <5>1. CASE kase[moderator[m].case].status = "blocked"
          BY <5>1 DEF Settled
        <5>2. CASE kase[moderator[m].case].status = "open"
          BY <2>c, <2>o, <5>2 DEF Open
        <5> QED BY <3>1, <5>1, <5>2 DEF Undecided
      <4> QED BY <2>1, <3>3, <4>1
    <3>4. CASE moderator[m].outcome # "removed"
      <4>1. PICK k \in Cases : kase[k].status = "removed"
        BY <2>2, <2>8, <3>1, <3>4 DEF QueueInv, TakedownClosesQueue
      <4>2. k \notin Settled(m)
        BY <3>2, <4>1 DEF Undecided
      <4> QED BY <2>1, <4>1, <4>2
    <3> QED BY <3>3, <3>4
  <2> QED BY <2>6, <2>7, <2>8 DEF QueueInv, TakedownClosesQueue
<1>6. ASSUME NEW m \in Moderators, GoAway(m) \/ \E status \in Filed : Look(m, status)
      PROVE QueueInv'
  <2>1. /\ UNCHANGED <<kase, late, takenDown, redecided>>
        /\ \E next : moderator' = [moderator EXCEPT ![m] = next] /\ next.at # "close"
    BY <1>6 DEF GoAway, Look, Becomes, Away
  <2>2. Open' = Open
    BY <2>1 DEF Open
  <2>3. \A n \in Moderators : moderator'[n].at = "close" => moderator'[n] = moderator[n]
    BY <2>1, <1>t
  <2> QED BY <1>0, <2>1, <2>2, <2>3
<1>7. ASSUME UNCHANGED <<kase, moderator, takenDown, late, redecided>> PROVE QueueInv'
  BY <1>7, <1>0 DEF Open
<1> QED BY <1>1, <1>2, <1>3, <1>4, <1>5, <1>6, <1>7
        DEF ModNext, Submit, Abandon, Delete, StartReport, modVars, Filed

(* TakedownClosesQueue, for any number of texts, reporters and moderators:  *)
(* a case open after a removal was filed late, and the removal stays on     *)
(* record unless a later decision was written over it.                      *)
THEOREM TakedownCloses == ModSpec => []TakedownClosesQueue
<1>1. ModInit => FiledInv /\ QueueInv
  <2>1. ModInit => QueueInv
    BY DEF ModInit, QueueInv, TakedownClosesQueue, Away
  <2> QED BY <2>1, FiledInitial
<1>2. FiledInv /\ QueueInv /\ [ModNext]_modVars => FiledInv' /\ QueueInv'
  BY FiledStep, QueueStep
<1>3. QueueInv => TakedownClosesQueue
  BY DEF QueueInv
<1> QED BY <1>1, <1>2, <1>3, PTL DEF ModSpec

-----------------------------------------------------------------------------
(* Both side by side.                                                       *)

LEMMA PartsStep == [MCNext]_<<vars, modVars, part>> => [Next]_vars /\ [ModNext]_modVars
BY DEF MCNext

(* The composition implements both specifications, so that what is proved   *)
(* of the follow graph and of moderation holds of the two together.         *)
THEOREM EachCommunityPart == MCSpec => Spec /\ ModSpec
<1>1. MCInit => Init /\ ModInit
  BY DEF MCInit
<1> QED
  BY <1>1, PartsStep, PTL DEF MCSpec, Spec, ModSpec

(* The follow graph and moderation keep their types side by side.           *)
THEOREM CommunityTypes == MCSpec => []CommunityTypeOK
<1>1. TypeOK /\ ModTypeOK => CommunityTypeOK
  BY DEF CommunityTypeOK
<1> QED
  BY <1>1, EachCommunityPart, FollowTypes, ModerationTypes, PTL
=============================================================================
