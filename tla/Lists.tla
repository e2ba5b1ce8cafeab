-------------------------------- MODULE Lists --------------------------------
(***************************************************************************)
(* The routes of the social module that only read: each answers with the   *)
(* rows that one query selects, after the checks that come before it.      *)
(* Pages, sorting and the columns of the answer are left out.              *)
(***************************************************************************)
EXTENDS Messaging

ListLabels == {"conversations"}

getPendingRequests(r) ==
  {l \in Requests : /\ links[l] # NONE /\ links[l].status = "PENDING"
                    /\ Kind(l) = "FRIEND" /\ To(l) = By(r)}

\* The query asks for parent_comment_id: null, which TypeORM ignores in a where.
getCommentsByPost(r) == CommentsOf(On(r))
getReplies(r) == RepliesTo(On(r))
getReactions(r) == LikesOf(On(r))

\* Stories that have expired are listed until the job deletes them.
getActiveStoriesByAuthor(r) ==
  {s \in Requests : stories[s] # NONE /\ ~stories[s].deleted /\ By(s) = To(r)}

listNotices(r) == {x \in Requests : <<By(r), x>> \in notices}
getUnreadCount(r) == {x \in Requests : <<By(r), x>> \in unread}
listGroups == {g \in Requests : groups[g] # NONE}
getTrendingTopics == {p \in Requests : docs[p].hashtags > 0}

Selected(r) ==
  CASE Op(r) = "getFollowing" -> FollowedBy(By(r))
    [] Op(r) = "getFollowers" -> FollowersOf(By(r))
    [] Op(r) = "getFriends" -> FriendsOf(By(r))
    [] Op(r) = "getPendingRequests" -> getPendingRequests(r)
    [] Op(r) = "getCommentsByPost" -> getCommentsByPost(r)
    [] Op(r) = "getReplies" -> getReplies(r)
    [] Op(r) = "getReactions" -> getReactions(r)
    [] Op(r) = "getActiveStoriesByAuthor" -> getActiveStoriesByAuthor(r)
    [] Op(r) = "listNotices" -> listNotices(r)
    [] Op(r) = "getUnreadCount" -> getUnreadCount(r)
    [] Op(r) = "listGroups" -> listGroups
    [] OTHER -> getTrendingTopics

Selections == {
  "getFollowing", "getFollowers", "getFriends", "getPendingRequests", "getCommentsByPost",
  "getReplies", "getReactions", "getActiveStoriesByAuthor", "listNotices", "getUnreadCount",
  "listGroups", "getTrendingTopics"}

List(r) ==
  /\ pc[r] = "idle" /\ Op(r) \in Selections
  /\ Show(r, Selected(r))
  /\ Goto(r, "ok")
  /\ UNCHANGED locals

GetGroup(r) ==
  /\ pc[r] = "idle" /\ Op(r) = "getGroup"
  /\ groups[On(r)] # NONE
  /\ Show(r, {On(r)} \cup Membership(On(r), By(r)))
  /\ Goto(r, "ok")
  /\ UNCHANGED locals

\* After assertActiveMember, whatever the status of the members listed.
ListMembers(r) ==
  /\ pc[r] = "members"
  /\ Show(r, {m \in Requests : members[m] # NONE /\ GroupOf(m) = On(r)})
  /\ Goto(r, "ok")
  /\ UNCHANGED locals

GetConversation(r) ==
  /\ pc[r] = "idle" /\ Op(r) = "getConversation"
  /\ IsActive(On(r), By(r)) /\ talks[On(r)] # NONE
  /\ Show(r, {On(r)})
  /\ Goto(r, "ok")
  /\ UNCHANGED locals

FindMemberships(r) ==
  /\ pc[r] = "idle" /\ Op(r) = "listConversations"
  /\ listed' = [listed EXCEPT ![r] = {c \in Requests : IsActive(c, By(r))}]
  /\ Goto(r, "conversations")
  /\ UNCHANGED <<shown, locals>>

\* getConversation of each: one that was left meanwhile makes the list fail.
ListConversations(r) ==
  /\ pc[r] = "conversations"
  /\ \A c \in listed[r] : IsActive(c, By(r))
  /\ Show(r, {c \in listed[r] : talks[c] # NONE})
  /\ Goto(r, "ok")
  /\ UNCHANGED locals

ListStep(r) ==
  \/ List(r) \/ GetGroup(r) \/ ListMembers(r)
  \/ GetConversation(r) \/ FindMemberships(r) \/ ListConversations(r)
=============================================================================
