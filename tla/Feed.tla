-------------------------------- MODULE Feed ---------------------------------
(***************************************************************************)
(* What a viewer is shown: getPostById, NewsfeedService and the feed of a  *)
(* hashtag of TrendingService.  Each reads connections and posts in awaits *)
(* of their own; pages, ranking and counting of topics are left out.       *)
(***************************************************************************)
EXTENDS Posts

VARIABLES
  listed, \* the rows a request has still to decide on
  shown   \* the rows it answers with

feedVars == <<listed, shown>>

NewsfeedOps == {"getNewsfeed"}
TrendingOps == {"getTrendingTopics", "listPostsForHashtag"}
FeedOps == NewsfeedOps \cup {"getPostById", "listPostsForHashtag"}
FeedLabels == {"tie?", "attach", "viewed", "feed_posts", "tag_posts", "tag_each"}
Ties == [friends : SUBSET People, following : SUBSET People]

FeedInit ==
  /\ listed = [r \in Requests |-> {}]
  /\ shown = [r \in Requests |-> {}]

Show(r, P) == shown' = [shown EXCEPT ![r] = P] /\ UNCHANGED listed

\* The connection that a privacy asks for.
Tied(r, p) ==
  \/ Privacy(p) = "FRIENDS" /\ IsFriend(By(r), By(p))
  \/ Privacy(p) = "FOLLOWERS" /\ Follows(By(r), By(p))

FindPostById(r) ==
  /\ pc[r] = "idle" /\ Op(r) = "getPostById"
  /\ Live(On(r))
  /\ \/ /\ By(r) = By(On(r)) \/ Privacy(On(r)) = "PUBLIC"
        /\ Goto(r, "attach")
     \/ /\ By(r) # By(On(r)) /\ Privacy(On(r)) \in {"FRIENDS", "FOLLOWERS"}
        /\ Goto(r, "tie?")
  /\ UNCHANGED <<feedVars, locals>>

CheckTie(r) ==
  /\ pc[r] = "tie?"
  /\ Tied(r, On(r))
  /\ Goto(r, "attach")
  /\ UNCHANGED <<feedVars, locals>>

\* Media, tags and their profiles, which only read.
Attach(r) ==
  /\ pc[r] = "attach"
  /\ Show(r, {On(r)})
  /\ Goto(r, "viewed")
  /\ UNCHANGED <<posts, locals>>

\* The increment is not awaited, and its failure is ignored.
CountView(r) ==
  /\ pc[r] = "viewed"
  /\ posts' \in {posts, Bump(posts, On(r), "views", 1)}
  /\ Goto(r, "ok")
  /\ UNCHANGED <<feedVars, locals>>

\* Mutation: a friend request is enough.
FindRequested(r) ==
  /\ pc[r] = "idle" /\ Op(r) = "getNewsfeed"
  /\ Reads(r, NONE,
       [friends |-> {u \in People : Linked("FRIEND", u, By(r)) \cup Linked("FRIEND", By(r), u) # {}},
        following |-> {u \in People : Follows(By(r), u)}])
  /\ Goto(r, "feed_posts")
  /\ UNCHANGED feedVars

FindConnections(r) ==
  /\ pc[r] = "idle" /\ Op(r) = "getNewsfeed"
  /\ Reads(r, NONE, [friends |-> {u \in People : IsFriend(By(r), u)},
                     following |-> {u \in People : Follows(By(r), u)}])
  /\ Goto(r, "feed_posts")
  /\ UNCHANGED feedVars

InNewsfeed(r, p) ==
  /\ Live(p)
  /\ By(p) \in {By(r)} \cup seen[r].friends \cup seen[r].following
  /\ \/ By(p) = By(r)
     \/ Privacy(p) = "PUBLIC"
     \/ Privacy(p) = "FRIENDS" /\ By(p) \in seen[r].friends
     \/ Privacy(p) = "FOLLOWERS" /\ By(p) \in seen[r].following

FindFeedPosts(r) ==
  /\ pc[r] = "feed_posts"
  /\ Show(r, {p \in Requests : InNewsfeed(r, p)})
  /\ Goto(r, "ok")
  /\ UNCHANGED locals

FindTagged(r) ==
  /\ pc[r] = "idle" /\ Op(r) = "listPostsForHashtag"
  /\ listed' = [listed EXCEPT ![r] = {p \in Requests : docs[p].hashtags > 0}]
  /\ Goto(r, "tag_posts")
  /\ UNCHANGED <<shown, locals>>

IsEligible(p) == Live(p) /\ posts[p].approval \in {"NONE", "APPROVED"}

FindTagPosts(r) ==
  /\ pc[r] = "tag_posts"
  /\ listed' = [listed EXCEPT ![r] = {p \in @ : IsEligible(p)}]
  /\ Goto(r, "tag_each")
  /\ UNCHANGED <<shown, locals>>

ViewerMaySeePost(r, p) == By(p) = By(r) \/ Privacy(p) = "PUBLIC" \/ Tied(r, p)

CheckEach(r) ==
  /\ pc[r] = "tag_each" /\ listed[r] # {}
  /\ \E p \in listed[r] :
       /\ listed' = [listed EXCEPT ![r] = @ \ {p}]
       /\ shown' = [shown EXCEPT ![r] = IF ViewerMaySeePost(r, p) THEN @ \cup {p} ELSE @]
  /\ Goto(r, "tag_each")
  /\ UNCHANGED locals

EndHashtagFeed(r) ==
  /\ pc[r] = "tag_each" /\ listed[r] = {}
  /\ Goto(r, "ok")
  /\ UNCHANGED <<feedVars, locals>>

FeedStep(r) ==
  \/ /\ \/ FindPostById(r) \/ CheckTie(r) \/ FindConnections(r) \/ FindFeedPosts(r)
        \/ FindTagged(r) \/ FindTagPosts(r) \/ CheckEach(r) \/ EndHashtagFeed(r)
     /\ UNCHANGED posts
  \/ Attach(r) \/ CountView(r)
=============================================================================
