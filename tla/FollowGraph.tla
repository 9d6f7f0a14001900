---------------------------- MODULE FollowGraph ----------------------------
(***************************************************************************)
(* The community's follow graph (social/services/graph.py, profiles.py):   *)
(* follow edges, pending requests to private accounts, and the profiles    *)
(* whose owners turn private, turn public, leave and come back.  A request *)
(* of the API reads in several statements and commits once, and the        *)
(* members' requests interleave between them.  autoflush is off: a unique  *)
(* key is checked at the commit, and the transaction that loses is undone. *)
(* Left out: bans and account deletion, self-follows, notifications, what  *)
(* a profile says, and what moderation refuses.                            *)
(***************************************************************************)
EXTENDS Naturals

CONSTANTS
  Users,  \* accounts
  Pairs,  \* <<follower, followee>>: who tries to follow whom
  Slots   \* API requests in flight at once

ASSUME PairsOfUsers == Pairs \subseteq {p \in Users \X Users : p[1] # p[2]}

VARIABLES
  profile,  \* social_profiles: unclaimed, or the account's privacy
  follows,  \* social_follows
  requests, \* social_follow_requests
  run,      \* what each request in flight holds between two statements
  admitted, \* history: pairs whose owner said yes to them, or was public, or ran a
            \*   sweep begun in public, while the ask, the edge or the follow was there
  crossed   \* history: pairs that were being written while one of the two was leaving

vars == <<profile, follows, requests, run, admitted, crossed>>

Privacy == {"public", "private"}
Owners == {p[2] : p \in Pairs}
To(u) == {p \in Pairs : p[2] = u}
Touching(u) == {p \in Pairs : u \in {p[1], p[2]}}
Claimed(u) == profile[u] # "none"

Idle == [op |-> "idle"]
Op ==
  {Idle}
  \cup [op : {"resolved", "follow"}, pair : Pairs, private : BOOLEAN]
  \cup [op : {"accept"}, pair : Pairs, already : BOOLEAN, rows : SUBSET Pairs]
  \cup [op : {"upsert"}, user : Users, was : Privacy \cup {"none"}, want : Privacy]
  \cup [op : {"sweep"}, user : Users, open : BOOLEAN]
  \cup [op : {"honour"}, user : Users, open : BOOLEAN, pending : SUBSET Pairs, skip : SUBSET Pairs]
  \cup [op : {"leave"}, user : Users, rows : SUBSET Pairs, edges : SUBSET Pairs]

Init ==
  /\ profile \in [Users -> {"none", "public"}]
  /\ follows = {} /\ requests = {}
  /\ run = [c \in Slots |-> Idle]
  /\ admitted = {} /\ crossed = {}

----------------------------------------------------------------------------
(* Whose collection and posts the follower of the pair may see.             *)
CanView(p) == profile[p[2]] = "public" \/ (Claimed(p[2]) /\ p \in follows)

(* Some request in flight may still insert the edge or the ask.             *)
Writing(c, p) ==
  \/ run[c].op \in {"resolved", "follow", "accept"} /\ run[c].pair = p
  \/ run[c].op = "honour" /\ p \in run[c].pending \ run[c].skip
Live(p) == p \in follows \cup requests \/ \E c \in Slots : Writing(c, p)

Welcome(p) ==
  \/ profile[p[2]] = "public"
  \/ \E c \in Slots : run[c].op \in {"sweep", "honour"} /\ run[c].user = p[2] /\ run[c].open
  \/ \E c \in Slots : run[c].op = "accept" /\ run[c].pair = p
Crossing(p) ==
  \E c, d \in Slots : run[c].op = "leave" /\ p \in Touching(run[c].user) /\ Writing(d, p)

(* An owner who leaves takes back what it had said.                         *)
Remember ==
  /\ admitted' = {p \in Pairs : Live(p)' /\ (Welcome(p)' \/ (p \in admitted /\ Claimed(p[2])'))}
  /\ crossed' = {p \in Pairs : Live(p)' /\ (p \in crossed \/ Crossing(p)')}

(* A row that a request had loaded or deleted by its key, and that is gone, *)
(* is not the row a later ask or follow inserts.                            *)
Aged(o) ==
  CASE o.op = "accept" -> [o EXCEPT !.rows = @ \cap requests']
    [] o.op = "leave" -> [o EXCEPT !.rows = @ \cap requests', !.edges = @ \cap follows']
    [] OTHER -> o
Goto(c, o) ==
  /\ run' = [d \in Slots |-> IF d = c THEN o ELSE Aged(run[d])]
  /\ Remember
AtOnce ==
  /\ run' = [d \in Slots |-> Aged(run[d])]
  /\ Remember

NoWrite == UNCHANGED <<profile, follows, requests>>

----------------------------------------------------------------------------
(* follow: the target's profile, then the viewer's own and the relationship,*)
(* then one insert.                                                         *)
Resolve(c, p) ==
  /\ run[c] = Idle /\ Claimed(p[2])
  /\ NoWrite
  /\ Goto(c, [op |-> "resolved", pair |-> p, private |-> profile[p[2]] = "private"])

Related(p) == p \in follows \cup requests
Relate(c) ==
  /\ run[c].op = "resolved"
  /\ NoWrite
  /\ Goto(c, IF Claimed(run[c].pair[1]) /\ ~Related(run[c].pair)
             THEN [run[c] EXCEPT !.op = "follow"] ELSE Idle)

InsertEdge(p, private) ==
  /\ follows' = IF private THEN follows ELSE follows \cup {p}
  /\ requests' = IF private THEN requests \cup {p} ELSE requests
Follow(c) ==
  /\ run[c].op = "follow"
  /\ InsertEdge(run[c].pair, run[c].private)
  /\ profile' = profile
  /\ Goto(c, Idle)

Unfollow(p) ==
  /\ Claimed(p[2]) /\ Related(p)
  /\ follows' = follows \ {p} /\ requests' = requests \ {p}
  /\ profile' = profile
  /\ AtOnce

RemoveFollower(p) ==
  /\ Claimed(p[1]) /\ p \in follows
  /\ follows' = follows \ {p}
  /\ UNCHANGED <<profile, requests>>
  /\ AtOnce

----------------------------------------------------------------------------
(* The owner answers one ask.                                               *)
LoadRequest(c, p) ==
  /\ run[c] = Idle /\ p \in requests
  /\ NoWrite
  /\ Goto(c, [op |-> "accept", pair |-> p, already |-> p \in follows, rows |-> {p}])

(* The edge is inserted unless it had been seen; if it has come up since,   *)
(* the insert's key conflicts and the request stays too.                    *)
Accept(c) ==
  LET r == run[c] IN
  /\ r.op = "accept"
  /\ IF ~r.already /\ r.pair \in follows
     THEN UNCHANGED <<follows, requests>>
     ELSE /\ follows' = IF r.already THEN follows ELSE follows \cup {r.pair}
          /\ requests' = requests \ r.rows
  /\ profile' = profile
  /\ Goto(c, Idle)

Decline(p) ==
  /\ p \in requests
  /\ requests' = requests \ {p}
  /\ UNCHANGED <<profile, follows>>
  /\ AtOnce

----------------------------------------------------------------------------
(* apply_pending_requests, from /social/me and the inbox: the privacy it    *)
(* goes by is the one first read in its session.  `open` is a history: the  *)
(* account was public when the sweep began.                                 *)
HealableClaimed(u) == Claimed(u)
Healable(u) == profile[u] = "public"
OpenInbox(c, u) ==
  /\ run[c] = Idle /\ Healable(u)
  /\ NoWrite
  /\ Goto(c, [op |-> "sweep", user |-> u, open |-> profile[u] = "public"])

SkippedFollowers(u, pending) == {p \in To(u) : ~Claimed(p[1]) \/ p \in follows}
Skipped(u, pending) == {p \in pending : ~Claimed(p[1]) \/ p \in follows}
ReadPending(c) ==
  LET u == run[c].user
      pending == requests \cap To(u) IN
  /\ run[c].op = "sweep"
  /\ NoWrite
  /\ Goto(c, IF pending = {} THEN Idle
             ELSE [op |-> "honour", user |-> u, open |-> run[c].open,
                   pending |-> pending, skip |-> Skipped(u, pending)])

Added(r) == r.pending \ r.skip

(* Every request to the owner goes, those the sweep has not seen too; a     *)
(* conflict on any of the edges undoes all of it.                           *)
SweptOnConflict(u, adds) ==
  /\ follows' = IF adds \cap follows # {} THEN follows ELSE follows \cup adds
  /\ requests' = requests \ To(u)
SweptApplied(u, adds) ==
  IF adds \cap follows # {}
  THEN UNCHANGED <<follows, requests>>
  ELSE follows' = follows \cup adds /\ requests' = requests \ adds
Swept(u, adds) ==
  IF adds \cap follows # {}
  THEN UNCHANGED <<follows, requests>>
  ELSE follows' = follows \cup adds /\ requests' = requests \ To(u)
Honour(c) ==
  /\ run[c].op = "honour"
  /\ Swept(run[c].user, Added(run[c]))
  /\ profile' = profile
  /\ Goto(c, Idle)

----------------------------------------------------------------------------
(* upsert_me: claim a handle or change its privacy.  Privacy nobody can     *)
(* follow across is not told apart.                                         *)
LoadProfile(c, u) ==
  /\ run[c] = Idle
  /\ NoWrite
  /\ \E want \in IF u \in Owners THEN Privacy ELSE {"public"} :
       Goto(c, [op |-> "upsert", user |-> u, was |-> profile[u], want |-> want])

(* An insert finds the row another request made, an update finds it gone:   *)
(* both raise.  A value that is the one read is not written.                *)
Saves(r) == (r.was = "none") = ~Claimed(r.user)
GoesPublic(r) == r.was = "private" /\ r.want = "public"
SaveProfile(c) ==
  LET r == run[c] IN
  /\ r.op = "upsert"
  /\ profile' = IF Saves(r) /\ r.was # r.want THEN [profile EXCEPT ![r.user] = r.want] ELSE profile
  /\ UNCHANGED <<follows, requests>>
  /\ Goto(c, IF Saves(r) /\ GoesPublic(r)
             THEN [op |-> "sweep", user |-> r.user, open |-> TRUE] ELSE Idle)

(* deactivate: the rows its deletes find go when it commits.                *)
SeveredOneWay(u) == To(u)
Severed(u) == Touching(u)
Sever(c, u) ==
  /\ run[c] = Idle /\ Claimed(u)
  /\ NoWrite
  /\ Goto(c, [op |-> "leave", user |-> u,
              rows |-> requests \cap Severed(u), edges |-> follows \cap Severed(u)])
Leave(c) ==
  /\ run[c].op = "leave"
  /\ follows' = follows \ run[c].edges /\ requests' = requests \ run[c].rows
  /\ profile' = [profile EXCEPT ![run[c].user] = "none"]
  /\ Goto(c, Idle)

----------------------------------------------------------------------------
Continue(c) ==
  Relate(c) \/ Follow(c) \/ Accept(c) \/ ReadPending(c) \/ Honour(c) \/ SaveProfile(c) \/ Leave(c)

Next ==
  \/ \E c \in Slots : Continue(c)
  \/ \E c \in Slots, p \in Pairs : Resolve(c, p) \/ LoadRequest(c, p)
  \/ \E c \in Slots, u \in Users : OpenInbox(c, u) \/ LoadProfile(c, u) \/ Sever(c, u)
  \/ \E p \in Pairs : Unfollow(p) \/ RemoveFollower(p) \/ Decline(p)

(* Requests run to their end, and owners keep opening the app.              *)
Fairness ==
  /\ \A c \in Slots : WF_vars(Continue(c))
  /\ \A u \in Owners : SF_vars(\E c \in Slots : OpenInbox(c, u))
Spec == Init /\ [][Next]_vars
FairSpec == Spec /\ Fairness

----------------------------------------------------------------------------
(* Types: a sweep holds asks of its owner only, and what it skips is part   *)
(* of what it read.                                                         *)
TypeOK ==
  /\ profile \in [Users -> Privacy \cup {"none"}]
  /\ follows \subseteq Pairs /\ requests \subseteq Pairs
  /\ run \in [Slots -> Op]
  /\ admitted \subseteq Pairs /\ crossed \subseteq Pairs
  /\ \A c \in Slots : run[c].op = "honour" =>
       run[c].pending \subseteq To(run[c].user) /\ run[c].skip \subseteq run[c].pending

(* A private account is seen by nobody its owner has not let in: whoever it *)
(* can be viewed by was accepted, or asked or followed while it was public  *)
(* (or while a sweep begun in public still ran), since the owner joined.  A *)
(* follower removed or gone needs a new yes.                                *)
Consent ==
  \A p \in Pairs : profile[p[2]] = "private" /\ CanView(p) => p \in admitted \cup crossed

(* The graph holds claimed handles only, whoever leaves and rejoins, except *)
(* for an edge or ask that was being written while one of the two left.     *)
OnlyClaimed ==
  \A p \in (follows \cup requests) \ crossed : Claimed(p[1]) /\ Claimed(p[2])

(* An ask is never dropped by the system: it goes because the two decided   *)
(* so or one of them left, because it became a follow, or because the sweep *)
(* that deleted it had not read it or had read it as one to skip.           *)
AskNotForgotten ==
  [][\A p \in requests \ (requests' \cup follows') :
       \/ Unfollow(p) \/ Decline(p)
       \/ \E c \in Slots : Leave(c) \/ (run[c].op = "accept" /\ run[c].already /\ Accept(c))
       \/ \E c \in Slots : run[c].op = "honour" /\ Honour(c)
                          /\ p \notin run[c].pending \ run[c].skip]_vars

(* The inbox of an account that stays public ends up empty for good.        *)
InboxClears ==
  \A u \in Owners : <>[](profile[u] = "public") => <>[](requests \cap To(u) = {})
=============================================================================
