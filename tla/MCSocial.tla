------------------------------ MODULE MCSocial -------------------------------
(***************************************************************************)
(* Four users.  Each plan has up to four calls made beforehand, m1 to m4,  *)
(* and up to four that come together, r1 to r4.                            *)
(***************************************************************************)
EXTENDS Social, TLC

CONSTANTS m1, m2, m3, m4, r1, r2, r3, r4, a, b, c, d

MCRequests == {m1, m2, m3, m4, r1, r2, r3, r4}
MCPeople == {a, b, c, d}

Call(op, u, x, to, arg) ==
  [op |-> op, by |-> u, on |-> x, at |-> NONE, to |-> to, arg |-> arg, made |-> FALSE]
Had(op, u, x, to, arg) == [Call(op, u, x, to, arg) EXCEPT !.made = TRUE]
With(op, u, v) == Call(op, u, NONE, {v}, "NONE") \* about a user
On1(op, u, x) == Call(op, u, x, {}, "NONE")      \* about a row
In(op, u, x, v) == Call(op, u, x, {v}, "NONE")   \* about a user in a group

None == Call("none", a, NONE, {}, "NONE")
Profile(u) == Had("getMyProfile", u, NONE, {}, "NONE")
Following(u, v) == Had("toggleFollow", u, NONE, {v}, "NONE")
Requested(u, v) == Had("sendFriendRequest", u, NONE, {v}, "PENDING")
Post(u, privacy) == Had("createPost", u, NONE, {}, privacy)
Reply(u, p, x, to) == [Call("createComment", u, p, to, "NONE") EXCEPT !.at = x]
Replied(u, p, x) == [Reply(u, p, x, {}) EXCEPT !.made = TRUE]
Respond(u, x, arg) == Call("respondFriendRequest", u, x, {}, arg)
React1(u, x, type) == Call("toggleReaction", u, x, {}, type)
Group(u, kind) == Had("createGroup", u, NONE, {}, kind)
Joined(u, g, role) == Had("joinGroup", u, g, {}, role)
Create(u) == Call("createGroup", u, NONE, {}, "OPEN")

Plan(p1, p2, p3, p4, c1, c2, c3, c4) ==
  m1 :> p1 @@ m2 :> p2 @@ m3 :> p3 @@ m4 :> p4 @@ r1 :> c1 @@ r2 :> c2 @@ r3 :> c3 @@ r4 :> c4

ConnectionPlans == {
  Plan(Profile(a), Profile(b), None, None, With("toggleFollow", a, b),
       With("toggleFollow", a, b), With("toggleFollow", b, a), None),
  Plan(Profile(a), Profile(b), Following(a, b), None, With("toggleBlock", a, b),
       With("toggleFollow", b, a), With("sendFriendRequest", b, a), With("getSuggestions", b, a)),
  Plan(Profile(a), Profile(b), Requested(a, b), None, Respond(b, m3, "ACCEPTED"),
       Respond(b, m3, "REJECTED"), On1("updateProfile", a, NONE), With("getUserProfile", a, b)),
  Plan(Profile(a), Had("toggleBlock", a, NONE, {b}, "NONE"), None, None,
       With("toggleBlock", a, b), With("createDirectConversation", b, a),
       On1("getMyProfile", c, NONE), On1("updateProfile", c, NONE))}

PostPlans == {
  Plan(Post(a, "PUBLIC"), None, None, None, React1(b, m1, "LIKE"), React1(b, m1, "LOVE"),
       React1(c, m1, "LIKE"), None),
  Plan(Post(a, "PUBLIC"), Had("toggleReaction", b, m1, {}, "LIKE"), None, None,
       React1(b, m1, "LIKE"), React1(b, m1, "LOVE"), On1("deletePost", a, m1), None),
  Plan(Post(a, "PUBLIC"), None, None, None, On1("repost", c, m1), On1("repost", b, m1),
       On1("deletePost", a, m1), None),
  Plan(Post(a, "PUBLIC"), Had("createComment", b, m1, {}, "NONE"), None, None,
       Reply(c, m1, m2, {a}), On1("deleteComment", b, m2),
       React1(c, m2, "LIKE"), Reply(b, m1, r1, {})),
  Plan(Post(a, "PUBLIC"), Had("createComment", b, m1, {}, "NONE"), None, None,
       On1("deleteComment", b, m2), On1("deleteComment", b, m2), React1(c, m2, "LIKE"), None),
  Plan(Post(a, "PUBLIC"), Had("createComment", b, m1, {}, "NONE"),
       Replied(c, m1, m2), None,
       On1("deleteComment", c, m3), React1(c, m3, "LOVE"), On1("getPostById", b, m1), None),
  Plan(None, None, None, None, Call("createPost", a, NONE, {b}, "PUBLIC"),
       On1("createComment", b, r1), On1("markNoticeRead", a, r2), On1("markAllRead", a, NONE)),
  Plan(Had("createStory", a, NONE, {}, "NONE"), None, None, None, On1("viewStory", b, m1),
       On1("deleteStory", a, m1), On1("cleanupExpiredStories", a, NONE),
       On1("createStory", b, NONE))}

FeedPlans == {
  Plan(Post(a, "FRIENDS"), Requested(b, a), None, None, Respond(a, m2, "ACCEPTED"),
       On1("getNewsfeed", b, NONE), On1("getPostById", b, m1), On1("listPostsForHashtag", b, NONE)),
  Plan(Post(a, "FOLLOWERS"), Following(b, a), Post(a, "ONLY_ME"), None, With("toggleFollow", b, a),
       On1("getNewsfeed", b, NONE), On1("getPostById", b, m1), On1("listPostsForHashtag", b, NONE))}

GroupPlans == {
  Plan(Group(a, "PRIVATE"), Joined(b, m1, "PENDING"), None, None, In("approveMember", a, m1, b),
       In("removeMember", a, m1, b), On1("leaveGroup", b, m1), On1("joinGroup", b, m1)),
  Plan(Group(a, "OPEN"), Joined(b, m1, "MODERATOR"), None, None, On1("joinGroup", c, m1),
       In("removeMember", b, m1, c), On1("leaveGroup", c, m1), On1("joinGroup", c, m1)),
  Plan(Group(a, "OPEN"), Joined(b, m1, "MEMBER"), None, None,
       Call("updateMemberRole", a, m1, {b}, "ADMIN"), On1("leaveGroup", b, m1),
       In("removeMember", b, m1, b), Create(c)),
  Plan(Group(a, "PRIVATE"), None, None, None, On1("joinGroup", b, m1),
       In("approveMember", a, m1, b), Create(c), None),
  Plan(None, None, None, None, Create(a), On1("joinGroup", a, r1), On1("joinGroup", b, r1),
       On1("leaveGroup", a, r1)),
  Plan(Group(a, "MODERATED"), Joined(b, m1, "MODERATOR"), Joined(c, m1, "MEMBER"),
       Had("createGroupPost", c, m1, {}, "PENDING"), On1("approveGroupPost", a, m4),
       On1("approveGroupPost", b, m4), On1("deletePost", c, m4), None),
  Plan(Group(a, "MODERATED"), Joined(b, m1, "MODERATOR"), Joined(c, m1, "MEMBER"),
       Had("createGroupPost", c, m1, {}, "PENDING"), On1("approveGroupPost", a, m4),
       On1("rejectGroupPost", b, m4), None, None),
  Plan(Group(a, "MODERATED"), Joined(b, m1, "MEMBER"), None, None, On1("createGroupPost", b, m1),
       On1("approveGroupPost", a, r1), On1("listGroupPosts", b, m1), In("removeMember", a, m1, b)),
  Plan(Group(a, "OPEN"), Joined(b, m1, "MEMBER"), None, None, On1("createGroupPost", b, m1),
       On1("createGroupPost", a, m1), On1("listGroupPosts", a, m1), None)}

Talk(u, to, arg) == Had("createGroupConversation", u, NONE, to, arg)

TalkPlans == {
  Plan(None, None, None, None, With("createDirectConversation", a, b),
       With("createDirectConversation", b, a), On1("sendMessage", a, r1), With("toggleBlock", a, b)),
  Plan(Talk(a, {b}, "NONE"), None, None, None, In("addGroupMembers", a, m1, c),
       In("addGroupMembers", a, m1, d), In("removeParticipant", a, m1, b), On1("markRead", b, m1)),
  Plan(Talk(a, {b}, "ADMIN"), None, None, None, In("removeParticipant", a, m1, b),
       In("addGroupMembers", a, m1, b), Call("updateParticipantRole", a, m1, {b}, "ADMIN"), None),
  Plan(Talk(a, {b}, "ADMIN"), None, None, None, In("removeParticipant", b, m1, b),
       In("addGroupMembers", a, m1, b), In("addGroupMembers", a, m1, b), None),
  Plan(Talk(a, {b, c}, "ADMIN"), None, None, None, In("removeParticipant", b, m1, c),
       Call("addGroupMembers", b, m1, {b, d}, "NONE"), None, None),
  Plan(Talk(a, {b}, "NONE"), Had("sendMessage", a, m1, {}, "NONE"), None, None,
       On1("deleteMessage", a, m2), On1("deleteMessage", a, m2), On1("listMessages", b, m1),
       On1("sendMessage", b, m1)),
  Plan(None, None, None, None, Call("createGroupConversation", a, NONE, {b, c}, "NONE"),
       With("toggleBlock", b, a), In("addGroupMembers", a, r1, d), On1("markRead", b, r1))}

ListPlans == {
  Plan(Following(a, b), Requested(c, b), None, None, On1("getFollowing", a, NONE),
       On1("getFollowers", b, NONE), On1("getPendingRequests", b, NONE), With("toggleFollow", a, b)),
  Plan(Post(a, "PUBLIC"), Had("createComment", b, m1, {}, "NONE"),
       Replied(c, m1, m2), Had("toggleReaction", b, m1, {}, "LIKE"),
       On1("getCommentsByPost", b, m1), On1("getReplies", b, m2), On1("getReactions", b, m1),
       On1("deleteComment", c, m3)),
  Plan(Group(a, "PRIVATE"), Joined(b, m1, "PENDING"), Talk(a, {b}, "NONE"), None,
       On1("listMembers", a, m1), On1("getGroup", b, m1), On1("listConversations", b, NONE),
       In("removeParticipant", a, m3, b)),
  Plan(Had("createStory", a, NONE, {}, "NONE"), Talk(a, {b}, "NONE"), None, None,
       With("getActiveStoriesByAuthor", b, a), On1("getConversation", b, m2),
       On1("getTrendingTopics", b, NONE), On1("listGroups", b, NONE)),
  Plan(Post(a, "PUBLIC"), None, None, None, On1("createComment", b, m1),
       On1("listNotices", a, NONE), On1("getUnreadCount", a, NONE), On1("getFriends", a, NONE))}

MCPlans == ConnectionPlans \cup PostPlans \cup FeedPlans \cup GroupPlans \cup TalkPlans
           \cup ListPlans
=============================================================================
