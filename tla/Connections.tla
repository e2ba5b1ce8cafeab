----------------------------- MODULE Connections -----------------------------
(***************************************************************************)
(* ConnectionService, ProfileService and DiscoveryService: who follows,    *)
(* befriends and blocks whom (social_connections), the counters in the     *)
(* profiles, and the activity log in MongoDB.                              *)
(***************************************************************************)
EXTENDS Calls, FiniteSets, Integers

VARIABLES
  links,    \* the SocialConnection row each request has inserted
  profiles, \* the UserProfile of each user: its three counters
  activity  \* the requests in the activity log

linkVars == <<links, profiles, activity>>

LinkStatuses == {"PENDING", "ACCEPTED", "REJECTED", "ACTIVE"}
LinkRows == [status : LinkStatuses]
Counters == [followers : Int, following : Int, friends : Int]

ConnectionOps == {"toggleFollow", "sendFriendRequest", "respondFriendRequest", "toggleBlock",
                  "getFollowing", "getFollowers", "getFriends", "getPendingRequests"}
ProfileOps == {"getMyProfile", "updateProfile", "getUserProfile"}
DiscoveryOps == {"getSuggestions"}
LinkLabels == {"blocked?", "unfollow", "link", "drop", "followers", "following", "log",
               "answer", "friend", "other_friend", "profile", "candidates"}

Kind(l) ==
  CASE Op(l) = "toggleFollow" -> "FOLLOW"
    [] Op(l) = "sendFriendRequest" -> "FRIEND"
    [] Op(l) = "toggleBlock" -> "BLOCK"
    [] OTHER -> "NONE"

\* The rows of a kind from one user to another.
Linked(kind, u, v) ==
  {l \in Requests : links[l] # NONE /\ Kind(l) = kind /\ By(l) = u /\ To(l) = v}

Follows(u, v) == Linked("FOLLOW", u, v) # {}
Blocks(u, v) == Linked("BLOCK", u, v) # {}
IsFriend(u, v) ==
  \E l \in Linked("FRIEND", u, v) \cup Linked("FRIEND", v, u) : links[l].status = "ACCEPTED"

FollowersOf(u) == {l \in Requests : links[l] # NONE /\ Kind(l) = "FOLLOW" /\ To(l) = u}
FollowedBy(u) == {l \in Requests : links[l] # NONE /\ Kind(l) = "FOLLOW" /\ By(l) = u}
FriendsOf(u) == {l \in Requests : /\ links[l] # NONE /\ Kind(l) = "FRIEND"
                                  /\ links[l].status = "ACCEPTED"
                                  /\ u \in {By(l), To(l)}}

\* A profile is made when its user first asks for it.
HasProfile(u) == \E r \in Requests : Made(r) /\ Op(r) = "getMyProfile" /\ By(r) = u

\* One link of each kind from one user to another; a friend request that is
\* made beforehand has been answered as its argument says.
LinksInit ==
  /\ links = [l \in Requests |->
       IF ~Made(l) \/ Kind(l) = "NONE" THEN NONE
       ELSE [status |-> IF Kind(l) = "FRIEND" THEN Arg(l) ELSE "ACTIVE"]]
  /\ profiles = [u \in People |->
       IF HasProfile(u)
       THEN [followers |-> Cardinality(FollowersOf(u)),
             following |-> Cardinality(FollowedBy(u)),
             friends |-> Cardinality(FriendsOf(u))]
       ELSE NONE]
  /\ activity = {}

----------------------------------------------------------------------------
(* toggleFollow, sendFriendRequest, toggleBlock *)

FindLink(r) ==
  /\ pc[r] = "idle" /\ Kind(r) # "NONE" /\ By(r) # To(r)
  /\ \/ /\ Kind(r) # "FRIEND"
        /\ \E l \in Linked(Kind(r), By(r), To(r)) : Reads(r, l, links[l])
        /\ Goto(r, "drop")
     \/ /\ Linked(Kind(r), By(r), To(r)) = {}
        /\ Goto(r, IF Kind(r) = "BLOCK" THEN "unfollow" ELSE "blocked?")
        /\ UNCHANGED locals
  /\ UNCHANGED linkVars

\* Mutation: the blocks of the caller are looked up, not the ones against him.
CheckOwnBlock(r) ==
  /\ pc[r] = "blocked?"
  /\ ~Blocks(By(r), To(r))
  /\ Goto(r, "link")
  /\ UNCHANGED <<linkVars, locals>>

CheckBlock(r) ==
  /\ pc[r] = "blocked?"
  /\ ~Blocks(To(r), By(r))
  /\ Goto(r, "link")
  /\ UNCHANGED <<linkVars, locals>>

\* A block removes the follow of the blocker; no counter follows it.
Unfollow(r) ==
  /\ pc[r] = "unfollow"
  /\ links' = [l \in Requests |->
       IF l \in Linked("FOLLOW", By(r), To(r)) THEN NONE ELSE links[l]]
  /\ Goto(r, "link")
  /\ UNCHANGED <<profiles, activity, locals>>

\* The unique index of requester, addressee and type.
Link(r) ==
  /\ pc[r] = "link"
  /\ Linked(Kind(r), By(r), To(r)) = {}
  /\ links' = [links EXCEPT ![r] =
       [status |-> IF Kind(r) = "FRIEND" THEN "PENDING" ELSE "ACTIVE"]]
  /\ Goto(r, CASE Kind(r) = "FOLLOW" -> "followers"
               [] Kind(r) = "FRIEND" -> "log"
               [] OTHER -> "ok")
  /\ UNCHANGED <<profiles, activity, locals>>

Drop(r) ==
  /\ pc[r] = "drop"
  /\ links' = [links EXCEPT ![target[r]] = NONE]
  /\ Writes(r, links[target[r]])
  /\ Goto(r, IF Kind(r) = "FOLLOW" THEN "followers" ELSE "ok")
  /\ UNCHANGED <<profiles, activity>>

\* increment and decrement are one UPDATE; without a profile it changes no row.
Counted(u, counter, n) ==
  IF profiles[u] = NONE THEN profiles
  ELSE [profiles EXCEPT ![u][counter] = @ + n]

Sign(r) == IF target[r] = NONE THEN 1 ELSE -1

CountFollower(r) ==
  /\ pc[r] = "followers"
  /\ profiles' = Counted(To(r), "followers", Sign(r))
  /\ Goto(r, "following")
  /\ UNCHANGED <<links, activity, locals>>

CountFollowing(r) ==
  /\ pc[r] = "following"
  /\ profiles' = Counted(By(r), "following", Sign(r))
  /\ Goto(r, IF target[r] = NONE THEN "log" ELSE "ok")
  /\ UNCHANGED <<links, activity, locals>>

Log(r) ==
  /\ pc[r] = "log"
  /\ activity' = activity \cup {r}
  /\ Goto(r, "ok")
  /\ UNCHANGED <<links, profiles, locals>>

----------------------------------------------------------------------------
(* respondFriendRequest *)

FindRequest(r) ==
  /\ pc[r] = "idle" /\ Op(r) = "respondFriendRequest"
  /\ \E l \in {On(r)} :
       /\ links[l] # NONE /\ links[l].status = "PENDING"
       /\ Kind(l) = "FRIEND" /\ To(l) = By(r)
       /\ Reads(r, l, links[l])
  /\ Goto(r, "answer")
  /\ UNCHANGED linkVars

Answer(r) ==
  /\ pc[r] = "answer"
  /\ links' = [links EXCEPT ![target[r]] = [status |-> Arg(r)]]
  /\ Writes(r, links[target[r]])
  /\ Goto(r, IF Arg(r) = "ACCEPTED" THEN "friend" ELSE "ok")
  /\ UNCHANGED <<profiles, activity>>

\* Mutation: the requester is counted twice, who accepted not at all.
CountFriendTwice(r) ==
  /\ pc[r] \in {"friend", "other_friend"}
  /\ profiles' = Counted(By(target[r]), "friends", 1)
  /\ Goto(r, IF pc[r] = "friend" THEN "other_friend" ELSE "ok")
  /\ UNCHANGED <<links, activity, locals>>

CountFriend(r) ==
  /\ pc[r] \in {"friend", "other_friend"}
  /\ profiles' = Counted(IF pc[r] = "friend" THEN By(target[r]) ELSE By(r), "friends", 1)
  /\ Goto(r, IF pc[r] = "friend" THEN "other_friend" ELSE "ok")
  /\ UNCHANGED <<links, activity, locals>>

----------------------------------------------------------------------------
(* ProfileService and DiscoveryService *)

FindProfile(r) ==
  /\ pc[r] = "idle" /\ Op(r) \in {"updateProfile", "getMyProfile"}
  /\ Reads(r, NONE, profiles[By(r)])
  /\ Goto(r, IF Op(r) = "getMyProfile" /\ profiles[By(r)] # NONE THEN "ok" ELSE "profile")
  /\ UNCHANGED linkVars

\* One profile per user; the counters are saved with the rest.
SaveProfile(r) ==
  /\ pc[r] = "profile"
  /\ seen[r] = NONE => profiles[By(r)] = NONE
  /\ profiles' = [profiles EXCEPT ![By(r)] =
       IF seen[r] = NONE THEN [followers |-> 0, following |-> 0, friends |-> 0] ELSE seen[r]]
  /\ Writes(r, profiles[By(r)])
  /\ Goto(r, "ok")
  /\ UNCHANGED <<links, activity>>

\* A log entry that fails is ignored.
GetUserProfile(r) ==
  /\ pc[r] = "idle" /\ Op(r) = "getUserProfile"
  /\ profiles[To(r)] # NONE
  /\ activity' \in {activity, IF By(r) = To(r) THEN activity ELSE activity \cup {r}}
  /\ Goto(r, "ok")
  /\ UNCHANGED <<links, profiles, locals>>

\* Everybody a link ties to the user, both ways, is left out ...
FindTies(r) ==
  /\ pc[r] = "idle" /\ Op(r) = "getSuggestions"
  /\ Sees(r, {By(r)} \cup {u \in People : \E l \in Requests :
       links[l] # NONE /\ {u, By(r)} = {By(l), To(l)}})
  /\ Goto(r, "candidates")
  /\ UNCHANGED linkVars

\* ... of the answer, here again in todo.
Suggest(r) ==
  /\ pc[r] = "candidates"
  /\ Sees(r, {u \in People \ todo[r] : profiles[u] # NONE})
  /\ Goto(r, "ok")
  /\ UNCHANGED linkVars

ConnectionStep(r) ==
  \/ FindLink(r) \/ CheckBlock(r) \/ Unfollow(r) \/ Link(r) \/ Drop(r)
  \/ CountFollower(r) \/ CountFollowing(r) \/ Log(r)
  \/ FindRequest(r) \/ Answer(r) \/ CountFriend(r)
  \/ FindProfile(r) \/ SaveProfile(r) \/ GetUserProfile(r)
  \/ FindTies(r) \/ Suggest(r)
=============================================================================
