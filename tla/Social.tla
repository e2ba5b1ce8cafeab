------------------------------- MODULE Social --------------------------------
(***************************************************************************)
(* The social module: connections, notices, posts, feeds, groups and       *)
(* conversations, which read and write each other's tables.  What one      *)
(* await reads is old at the next; the properties say what holds all the   *)
(* same, and what does as long as no row was overwritten that had changed  *)
(* since it was read (stale).                                              *)
(***************************************************************************)
EXTENDS Lists

vars == <<callVars, linkVars, noticeVars, contentVars, feedVars, groupVars, talkVars>>

Ops == ConnectionOps \cup ProfileOps \cup DiscoveryOps \cup NoticeOps \cup ContentOps \cup NewsfeedOps \cup TrendingOps \cup GroupOps \cup TalkOps
       \cup {"none"}
Labels == {"idle", "ok", "failed"} \cup LinkLabels \cup NoticeLabels \cup ContentLabels
          \cup FeedLabels \cup GroupLabels \cup TalkLabels \cup ListLabels
Args == Privacies \cup Approvals \cup LinkStatuses \cup GroupRoles
        \cup {"LIKE", "LOVE", "OPEN", "PRIVATE", "MODERATED"}
Calls == [op : Ops, by : People, on : Requests \cup {NONE}, at : Requests \cup {NONE},
          to : SUBSET People, arg : Args, made : BOOLEAN]

\* What may have been done beforehand: rows inserted.
Inserting == {"none", "getMyProfile", "toggleFollow", "sendFriendRequest", "toggleBlock",
              "createStory", "createComment", "toggleReaction", "createGroup", "joinGroup",
              "sendMessage"} \cup PostMakers \cup TalkMakers

Rows == LinkRows \cup Counters \cup PostRows \cup CommentRows \cup ReactionRows
        \cup StoryRows \cup Ties \cup GroupRows \cup MemberRows \cup TalkRows
        \cup PartRows \cup MessageRows

\* The operations whose route or body names a row, those that name a user, and
\* the arguments each takes.
OfRow == MemberOps \cup ReviewOps \cup PartOps \cup
  {"respondFriendRequest", "getPostById", "deletePost", "repost", "createComment",
   "getCommentsByPost", "getReplies", "deleteComment", "toggleReaction", "getReactions",
   "viewStory", "deleteStory", "markNoticeRead", "getGroup", "joinGroup", "listMembers",
   "createGroupPost", "listGroupPosts", "addGroupMembers", "getConversation", "sendMessage",
   "listMessages", "deleteMessage"}
OfUser == (MemberOps \ {"leaveGroup"}) \cup (PartOps \ {"markRead"}) \cup
  {"toggleFollow", "sendFriendRequest", "toggleBlock", "getUserProfile",
   "getActiveStoriesByAuthor", "createDirectConversation"}
ArgsOf(op, made) ==
  CASE op = "respondFriendRequest" -> {"ACCEPTED", "REJECTED"}
    [] op = "toggleReaction" -> {"LIKE", "LOVE"}
    [] op = "updateMemberRole" -> GroupRoles
    [] op = "updateParticipantRole" -> {"MEMBER", "ADMIN", "OWNER"}
    [] op = "sendFriendRequest" /\ made -> {"PENDING", "ACCEPTED", "REJECTED"}
    [] op = "joinGroup" /\ made -> GroupRoles \cup {"PENDING"}
    [] op = "createGroupPost" /\ made -> Approvals
    [] OTHER -> Args

\* What rows made beforehand refer to is made beforehand.
Grounded(plan) ==
  \A r \in {q \in Requests : plan[q].made} : LET on == plan[plan[r].on] IN
    /\ plan[r].op \in {"joinGroup", "createGroupPost"} => on.made /\ on.op = "createGroup"
    /\ plan[r].op = "toggleReaction" => on.made /\ on.op \in PostMakers \cup {"createComment"}
    /\ plan[r].op = "createComment" => on.made /\ on.op \in PostMakers
    /\ plan[r].op = "createComment" /\ plan[r].at # NONE =>
         LET parent == plan[plan[r].at] IN
         parent.made /\ parent.op = "createComment" /\ parent.on = plan[r].on

ASSUME SocialAssumption ==
  /\ Plans \subseteq [Requests -> Calls]
  /\ \A plan \in Plans : Grounded(plan)
  /\ \A plan \in Plans : \A r \in Requests :
       /\ plan[r].made => plan[r].op \in Inserting
       /\ plan[r].op \in OfRow => plan[r].on \in Requests
       /\ plan[r].op \in OfUser => \E u \in People : plan[r].to = {u}
       /\ plan[r].arg \in ArgsOf(plan[r].op, plan[r].made)
       /\ plan[r].op \in {"toggleFollow", "sendFriendRequest", "toggleBlock"} /\ plan[r].made =>
            plan[r].by \notin plan[r].to
       /\ plan[r].op = "createGroupConversation" /\ plan[r].made =>
            Cardinality({plan[r].by} \cup plan[r].to) <= MaxMembers
  /\ IsFiniteSet(Requests) /\ IsFiniteSet(People)
  /\ NONE \notin Requests \cup People \cup Rows
  /\ MaxMembers \in Nat /\ MaxMembers >= 2

TypeOK ==
  /\ call \in Plans
  /\ pc \in [Requests -> Labels]
  /\ target \in [Requests -> Requests \cup People \cup {NONE}]
  /\ seen \in [Requests -> Rows \cup {NONE}]
  /\ todo \in [Requests -> SUBSET People]
  /\ stale \subseteq Requests
  /\ before \in [Requests -> SUBSET Requests]
  /\ links \in [Requests -> LinkRows \cup {NONE}]
  /\ profiles \in [People -> Counters \cup {NONE}]
  /\ activity \subseteq Requests
  /\ notices \subseteq People \X Requests
  /\ unread \subseteq notices
  /\ posts \in [Requests -> PostRows \cup {NONE}]
  /\ comments \in [Requests -> CommentRows \cup {NONE}]
  /\ reactions \in [Requests -> ReactionRows \cup {NONE}]
  /\ stories \in [Requests -> StoryRows \cup {NONE}]
  /\ docs \in [Requests -> Documents]
  /\ listed \in [Requests -> SUBSET Requests]
  /\ shown \in [Requests -> SUBSET Requests]
  /\ groups \in [Requests -> GroupRows \cup {NONE}]
  /\ members \in [Requests -> MemberRows \cup {NONE}]
  /\ talks \in [Requests -> TalkRows \cup {NONE}]
  /\ parts \in [Requests \X People -> PartRows \cup {NONE}]
  /\ messages \in [Requests -> MessageRows \cup {NONE}]

Init ==
  /\ CallsInit
  /\ LinksInit
  /\ NoticesInit
  /\ ContentInit
  /\ FeedInit
  /\ GroupsInit
  /\ TalksInit

Step(r) ==
  \/ /\ ConnectionStep(r)
     /\ UNCHANGED <<noticeVars, contentVars, feedVars, groupVars, talkVars>>
  \/ /\ NoticeStep(r)
     /\ UNCHANGED <<linkVars, contentVars, feedVars, groupVars, talkVars>>
  \/ /\ ContentStep(r)
     /\ UNCHANGED <<linkVars, noticeVars, feedVars, groupVars, talkVars>>
  \/ /\ FeedStep(r)
     /\ UNCHANGED <<linkVars, noticeVars, comments, reactions, stories, docs, groupVars, talkVars>>
  \/ /\ MembershipStep(r)
     /\ UNCHANGED <<linkVars, noticeVars, contentVars, feedVars, talkVars>>
  \/ /\ GroupPostStep(r)
     /\ UNCHANGED <<linkVars, noticeVars, comments, reactions, stories, docs, talkVars>>
  \/ /\ MessagingStep(r)
     /\ UNCHANGED <<linkVars, noticeVars, contentVars, feedVars, groupVars>>
  \/ /\ ListMessages(r)
     /\ UNCHANGED <<linkVars, noticeVars, contentVars, groupVars>>
  \/ /\ ListStep(r)
     /\ UNCHANGED <<linkVars, noticeVars, contentVars, groupVars, talkVars>>
  \/ /\ Fails(r)
     /\ UNCHANGED <<linkVars, noticeVars, contentVars, feedVars, groupVars, talkVars>>

Next == \E r \in {q \in Requests : ~Ended(q)} : Step(r) /\ UNCHANGED call

Spec == Init /\ [][Next]_vars

----------------------------------------------------------------------------
\* Blocking is effective for what begins afterwards: while a block that was
\* acknowledged before a request began is in place, the request does not make
\* the blocked user follow or befriend the blocker, does not open a direct
\* conversation between the two, and does not suggest either to the other.
BlocksRespected ==
  \A b, r \in Requests :
    (b \in before[r] /\ Kind(b) = "BLOCK" /\ links[b] # NONE) =>
      /\ (Kind(r) \in {"FOLLOW", "FRIEND"} /\ By(r) = To(b) /\ To(r) = By(b)) => links[r] = NONE
      /\ (Op(r) = "createDirectConversation" /\ Founders(r) = {By(b), To(b)}) => talks[r] = NONE
      /\ \A u, v \in {By(b), To(b)} :
           (Op(r) = "getSuggestions" /\ pc[r] = "ok" /\ By(r) = u) => v \notin todo[r]

\* When all calls have ended well and none has overwritten a change it had not
\* seen, the counters of a profile are the numbers of its rows, however the
\* calls were interleaved.  toggleBlock removes a follow and counts nothing, so
\* that a plan with a block of somebody followed is not one of these; and a
\* profile that is made late starts at zero, whatever rows its user has by then.
TiesCounted ==
  (AllWell /\ stale = {} /\ \A b \in Requests : Op(b) = "toggleBlock" => pc[b] = "idle") =>
    \A u \in {v \in People : HasProfile(v)} :
      profiles[u] = [followers |-> Cardinality(FollowersOf(u)),
                     following |-> Cardinality(FollowedBy(u)),
                     friends |-> Cardinality(FriendsOf(u))]

Deletes(c) == {d \in Requests : Op(d) = "deleteComment" /\ On(d) = c /\ pc[d] = "ok"}

\* Likewise for posts and comments: likes are the reactions, comments and
\* replies the ones that are not deleted, and a post is in the hashtag index at
\* most once.  A comment that is deleted twice is counted down twice.
ReactionsCounted ==
  (AllWell /\ stale = {} /\ \A c \in Requests : Cardinality(Deletes(c)) <= 1) =>
    /\ \A p \in Requests : posts[p] # NONE =>
         /\ posts[p].likes = Cardinality(LikesOf(p))
         /\ posts[p].comments = Cardinality(CommentsOf(p))
         /\ docs[p].hashtags <= 1
    /\ \A c \in Requests : comments[c] # NONE =>
         /\ comments[c].likes = Cardinality(LikesOf(c))
         /\ comments[c].replies = Cardinality(RepliesTo(c))

\* Likewise for groups: members counts the active memberships, posts the
\* approved posts.
MembersCounted ==
  (AllWell /\ stale = {}) =>
    \A g \in Requests : groups[g] # NONE =>
      /\ groups[g].members = Cardinality(ActiveMembers(g))
      /\ groups[g].posts = Cardinality(ApprovedPosts(g))

\* Who has been removed from a group stays banned, whatever he and the
\* moderators call, but for a call that read the row before the ban and saved
\* it afterwards.
BansKept ==
  \A r \in Requests :
    (Op(r) = "removeMember" /\ pc[r] = "ok") =>
      \/ \E m \in Membership(On(r), To(r)) : members[m].status = "BANNED"
      \/ \E s \in stale : Op(s) \in MemberOps /\ On(s) = On(r) /\ Subject(s) = To(r)

\* What was deleted, and who was removed from a conversation, stays so, but for
\* a call that read the row before: a review of the post, a markRead or a
\* change of role; or a call that adds the user again.
RemovalsKept ==
  \A r \in Requests : pc[r] = "ok" =>
    /\ (Op(r) = "deletePost" /\ \A s \in stale : On(s) # On(r)) => ~Live(On(r))
    /\ (Op(r) = "deleteStory") => stories[On(r)].deleted
    /\ (Op(r) = "deleteMessage") => messages[On(r)].deleted
    /\ (Op(r) = "removeParticipant" /\ IsActive(On(r), To(r))) =>
         \E s \in Requests \ {r} : /\ On(s) = On(r)
                                   /\ \/ s \in stale
                                      \/ Op(s) = "addGroupMembers" /\ To(r) \in call[s].to

Additions(c) == {r \in Requests : Op(r) = "addGroupMembers" /\ On(r) = c /\ pc[r] # "idle"}
Newcomers(r) == call[r].to \ {By(r)}
AddedBeside(r) ==
  UNION {Newcomers(s) : s \in {q \in Additions(On(r)) : Overlap(q, r)}}
Restored(c) ==
  {PartOf(s)[2] : s \in {q \in stale : /\ On(q) = c
                                       /\ Op(q) \in {"markRead", "updateParticipantRole"}}}

\* A conversation exceeds its limit by nobody but those whom additions ask for
\* that overlap with one and the same addition, the last that has counted, and
\* those who had left and whom a markRead or a change of role has restored,
\* having read the row before.
LimitExplained ==
  \A c \in Requests :
    \/ Cardinality(ActiveIn(c) \ Restored(c)) <= MaxMembers
    \/ \E r \in Additions(c) :
         Cardinality(ActiveIn(c) \ (Restored(c) \cup AddedBeside(r))) <= MaxMembers

\* No feed shows a user a post that its privacy withholds from him: what is
\* shown is his own or public, or his friend's (unless a second answer to the
\* friend request has overwritten the first), or of somebody he follows or has
\* stopped following while the feed was made.
FeedsRespectPrivacy ==
  \A r \in Requests : Op(r) \in FeedOps => \A p \in shown[r] :
    \/ By(p) = By(r)
    \/ Privacy(p) = "PUBLIC"
    \/ /\ Privacy(p) = "FRIENDS"
       /\ \/ IsFriend(By(r), By(p))
          \/ \E s \in stale : Op(s) = "respondFriendRequest"
    \/ /\ Privacy(p) = "FOLLOWERS"
       /\ \/ Follows(By(r), By(p))
          \/ \E s \in Requests : /\ Kind(s) \in {"FOLLOW", "BLOCK"}
                                 /\ By(s) = By(r) /\ To(s) = By(p) /\ pc[s] # "idle"
                                 /\ s \notin before[r]
=============================================================================
