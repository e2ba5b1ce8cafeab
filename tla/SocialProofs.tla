----------------------------- MODULE SocialProofs -----------------------------
(***************************************************************************)
(* What the social module promises, for any number of users and of calls:  *)
(* bans, blocks, privacy, the types of all tables, removals and the limit  *)
(* of a conversation.  Each proof goes through every step of the module,   *)
(* since a user may be in the middle of any of its calls.                  *)
(***************************************************************************)
EXTENDS Social, FiniteSetTheorems, TLAPS

----------------------------------------------------------------------------
\* What the routes and the bodies of the calls name.
LEMMA CallsTyped ==
  ASSUME call \in Plans
  PROVE  /\ \A r \in Requests :
              /\ Op(r) \in Ops /\ By(r) \in People /\ call[r].to \subseteq People
              /\ On(r) \in Requests \cup {NONE} /\ Place(r) \in Requests \cup {NONE}
              /\ Made(r) \in BOOLEAN
              /\ Made(r) => Op(r) \in Inserting
              /\ Op(r) \in OfRow => On(r) \in Requests
              /\ Arg(r) \in ArgsOf(Op(r), Made(r))
         /\ \A r \in Requests : Op(r) \in OfUser => call[r].to = {To(r)} /\ To(r) \in People
  <1>1. call \in [Requests -> Calls]
    BY SocialAssumption
  <1>2. \A r \in Requests : Op(r) \in OfUser => call[r].to = {To(r)} /\ To(r) \in People
    <2> SUFFICES ASSUME NEW r \in Requests, Op(r) \in OfUser
                 PROVE  call[r].to = {To(r)} /\ To(r) \in People
      OBVIOUS
    <2>1. PICK u \in People : call[r].to = {u}
      BY SocialAssumption DEF Op
    <2>2. QED
      BY <2>1 DEF To
  <1>3. QED
    BY <1>1, <1>2, SocialAssumption DEF Calls, Op, By, On, Place, Arg, Made

----------------------------------------------------------------------------
(* Bans *)

\* Where a removal passes, and the labels before a write to members.
Removing == {"idle", "member", "member_row", "count_member", "ok", "failed"}
Entering == {"slug", "group", "owner", "join", "member_row"}

LocalsTyped ==
  /\ DOMAIN pc = Requests
  /\ DOMAIN target = Requests
  /\ DOMAIN seen = Requests

MembersTyped ==
  /\ DOMAIN members = Requests
  /\ \A m \in Requests : members[m] # NONE => members[m] \in MemberRows

\* Each call is where its operation leads.
OnTheWay ==
  \A r \in Requests :
    /\ Op(r) = "removeMember" => pc[r] \in Removing
    /\ pc[r] \in {"slug", "group", "owner"} => Op(r) = "createGroup"
    /\ pc[r] = "join" => Op(r) = "joinGroup"

\* Who is about to save a membership has found one of the right user, with
\* the status that his operation asks for.
Found(r) ==
  /\ Op(r) \in MemberOps
  /\ target[r] \in Requests
  /\ GroupOf(target[r]) = On(r) /\ By(target[r]) = Subject(r)
  /\ seen[r] \in MemberRows /\ seen[r].status \in Wanted(r)

RowsFound == \A r \in Requests : pc[r] = "member_row" => Found(r)

Banned(r) == \E m \in Membership(On(r), To(r)) : members[m].status = "BANNED"
Overwritten(r) ==
  \E s \in stale \cap Requests : Op(s) \in MemberOps /\ On(s) = On(r) /\ Subject(s) = To(r)
Removed(r) == Op(r) = "removeMember" /\ pc[r] \in {"count_member", "ok"}

RemovedStay == \A r \in Requests : Removed(r) => Banned(r) \/ Overwritten(r)

IInv ==
  /\ call \in Plans
  /\ LocalsTyped
  /\ MembersTyped
  /\ OnTheWay
  /\ RowsFound
  /\ RemovedStay

\* A step of r that has nothing to do with memberships.
Own(r) ==
  /\ \A q \in Requests \ {r} : pc'[q] = pc[q] /\ target'[q] = target[q] /\ seen'[q] = seen[q]
  /\ stale \subseteq stale'
  /\ LocalsTyped'
Aside(r) ==
  /\ Own(r)
  /\ pc[r] \notin Removing \ {"idle"} \/ Op(r) # "removeMember"
  /\ pc[r] = "idle" => Op(r) # "removeMember"
  /\ pc'[r] \notin Entering

----------------------------------------------------------------------------
LEMMA ConnectionAside ==
  ASSUME LocalsTyped, OnTheWay, NEW r \in Requests, ConnectionStep(r)
  PROVE  Aside(r)
  <1> USE DEF Aside, Own, LocalsTyped, OnTheWay, Removing, Entering, Goto, Reads, Writes, Sees,
              locals
  <1>1. CASE FindLink(r)
    BY <1>1 DEF FindLink, Kind
  <1>2. CASE CheckBlock(r) \/ Link(r) \/ Drop(r) \/ Unfollow(r)
    BY <1>2 DEF CheckBlock, Link, Drop, Unfollow
  <1>3. CASE CountFollower(r) \/ CountFollowing(r) \/ Log(r)
    BY <1>3 DEF CountFollower, CountFollowing, Log
  <1>4. CASE FindRequest(r) \/ Answer(r) \/ CountFriend(r)
    BY <1>4 DEF FindRequest, Answer, CountFriend
  <1>5. CASE FindProfile(r) \/ SaveProfile(r) \/ GetUserProfile(r) \/ FindTies(r) \/ Suggest(r)
    BY <1>5 DEF FindProfile, SaveProfile, GetUserProfile, FindTies, Suggest
  <1>6. QED
    BY <1>1, <1>2, <1>3, <1>4, <1>5 DEF ConnectionStep

LEMMA NoticeAside ==
  ASSUME LocalsTyped, OnTheWay, NEW r \in Requests, NoticeStep(r)
  PROVE  Aside(r)
  <1> USE DEF Aside, Own, LocalsTyped, OnTheWay, Removing, Entering, Goto, Reads, Writes, Sees,
              locals
  <1>1. CASE Dispatch(r) \/ Dispatched(r) \/ FindNotice(r) \/ MarkRead(r) \/ MarkAllRead(r)
    BY <1>1 DEF Dispatch, Dispatched, FindNotice, MarkRead, MarkAllRead
  <1>2. QED
    BY <1>1 DEF NoticeStep

LEMMA ContentAside ==
  ASSUME LocalsTyped, OnTheWay, NEW r \in Requests, ContentStep(r)
  PROVE  Aside(r)
  <1> USE DEF Aside, Own, LocalsTyped, OnTheWay, Removing, Entering, Goto, Reads, Writes, Sees,
              locals
  <1>1. CASE InsertPost(r) \/ SaveMedia(r) \/ SaveTags(r) \/ Unindex(r) \/ Index(r)
    BY <1>1 DEF InsertPost, SaveMedia, SaveTags, Unindex, Index
  <1>2. CASE FindOwnPost(r) \/ DeletePost(r) \/ DeleteDocuments(r) \/ FindOriginal(r) \/ Repost(r)
    BY <1>2 DEF FindOwnPost, DeletePost, DeleteDocuments, FindOriginal, Repost
  <1>3. CASE FindPost(r) \/ InsertComment(r) \/ CountComment(r) \/ CountReply(r) \/ SaveMentions(r)
    BY <1>3 DEF FindPost, InsertComment, CountComment, CountReply, SaveMentions, IsComment,
       CommentCounted
  <1>4. CASE FindOwnComment(r) \/ DeleteComment(r) \/ UncountComment(r) \/ UncountReply(r)
    BY <1>4 DEF FindOwnComment, DeleteComment, UncountComment, UncountReply
  <1>5. CASE FindTarget(r) \/ FindReaction(r) \/ Unreact(r) \/ Rereact(r) \/ React(r) \/ CountLike(r) \/ FindOwner(r)
    BY <1>5 DEF FindTarget, FindReaction, Unreact, Rereact, React, CountLike, FindOwner
  <1>6. CASE CreateStory(r) \/ FindStory(r) \/ ViewStory(r) \/ DeleteStory(r) \/ CleanStories(r)
    BY <1>6 DEF CreateStory, FindStory, ViewStory, DeleteStory, CleanStories
  <1>7. QED
    BY <1>1, <1>2, <1>3, <1>4, <1>5, <1>6 DEF ContentStep

LEMMA FeedAside ==
  ASSUME LocalsTyped, OnTheWay, NEW r \in Requests, FeedStep(r)
  PROVE  Aside(r)
  <1> USE DEF Aside, Own, LocalsTyped, OnTheWay, Removing, Entering, Goto, Reads, Writes, Sees,
              locals
  <1>1. CASE FindPostById(r) \/ CheckTie(r) \/ FindConnections(r) \/ FindFeedPosts(r)
    BY <1>1 DEF FindPostById, CheckTie, FindConnections, FindFeedPosts
  <1>2. CASE FindTagged(r) \/ FindTagPosts(r) \/ CheckEach(r) \/ EndHashtagFeed(r)
    BY <1>2 DEF FindTagged, FindTagPosts, CheckEach, EndHashtagFeed
  <1>3. CASE Attach(r) \/ CountView(r)
    BY <1>3 DEF Attach, CountView
  <1>4. QED
    BY <1>1, <1>2, <1>3 DEF FeedStep

LEMMA GroupPostAside ==
  ASSUME LocalsTyped, OnTheWay, NEW r \in Requests, GroupPostStep(r)
  PROVE  Aside(r)
  <1> USE DEF Aside, Own, LocalsTyped, OnTheWay, Removing, Entering, Goto, Reads, Writes, Sees,
              locals
  <1>1. CASE InsertGroupPost(r) \/ CountPost(r) \/ FindPendingPost(r) \/ Review(r) \/ ListGroupPosts(r)
    BY <1>1 DEF InsertGroupPost, CountPost, FindPendingPost, Review, ListGroupPosts
  <1>2. QED
    BY <1>1 DEF GroupPostStep

LEMMA MessagingAside ==
  ASSUME LocalsTyped, OnTheWay, NEW r \in Requests, MessagingStep(r)
  PROVE  Aside(r)
  <1> USE DEF Aside, Own, LocalsTyped, OnTheWay, Removing, Entering, Goto, Reads, Writes, Sees,
              locals
  <1>1. CASE StartTalk(r)
    BY <1>1 DEF StartTalk, IsGroup
  <1>2. CASE CheckEachFounder(r) \/ FindPair(r) \/ InsertTalk(r) \/ InsertParticipants(r) \/ OpenTalk(r) \/ Publish(r)
    BY <1>2 DEF CheckEachFounder, FindPair, InsertTalk, InsertParticipants, OpenTalk, Publish
  <1>3. CASE AuthorizePart(r) \/ FindPart(r)
    BY <1>3 DEF AuthorizePart, FindPart, PartOps
  <1>4. CASE SavePart(r) \/ CountActive(r) \/ AddEach(r) \/ FindAdded(r) \/ SaveAdded(r)
    BY <1>4 DEF SavePart, CountActive, AddEach, FindAdded, SaveAdded
  <1>5. CASE FindTalk(r) \/ AssertActiveParticipant(r) \/ InsertMessage(r) \/ SaveLast(r) \/ DeleteMessage(r)
    BY <1>5 DEF FindTalk, AssertActiveParticipant, InsertMessage, SaveLast, DeleteMessage
  <1>6. QED
    BY <1>1, <1>2, <1>3, <1>4, <1>5 DEF MessagingStep

LEMMA ListAside ==
  ASSUME LocalsTyped, OnTheWay, NEW r \in Requests, ListMessages(r) \/ ListStep(r)
  PROVE  Aside(r)
  BY DEF Aside, Own, LocalsTyped, OnTheWay, Removing, Entering, Goto, locals, ListMessages,
     ListStep, List, Selections, GetGroup, ListMembers, GetConversation, FindMemberships,
     ListConversations

----------------------------------------------------------------------------
\* What a call asks for does not change.
LEMMA SameCalls ==
  ASSUME UNCHANGED call
  PROVE  \A q \in Requests : /\ Op(q)' = Op(q) /\ On(q)' = On(q) /\ By(q)' = By(q)
                             /\ To(q)' = To(q) /\ Arg(q)' = Arg(q)
                             /\ Subject(q)' = Subject(q) /\ GroupOf(q)' = GroupOf(q)
                             /\ Wanted(q)' = Wanted(q)
  BY DEF Op, On, By, To, Arg, Subject, GroupOf, Wanted

\* The rows of members that a step leaves alone stay memberships.
LEMMA SameMembership ==
  ASSUME UNCHANGED call, NEW g, NEW u, NEW m \in Membership(g, u), members'[m] = members[m]
  PROVE  m \in Membership(g, u)'
  BY SameCalls DEF Membership

LEMMA InitIInv == Init => IInv
  <1> SUFFICES ASSUME Init
               PROVE  IInv
    OBVIOUS
  <1> USE SocialAssumption DEF Init, CallsInit
  <1>1. /\ call \in Plans
        /\ LocalsTyped
        /\ \A r \in Requests : pc[r] = IF Made(r) THEN "ok" ELSE "idle"
    BY DEF LocalsTyped
  <1>2. \A r \in Requests : Made(r) => Op(r) \in Inserting
    BY DEF Made, Op
  <1>3. MembersTyped
    BY CallsTyped DEF MembersTyped, MemberRows, GroupsInit, GroupRoles, ArgsOf
  <1>4. OnTheWay /\ RowsFound
    BY <1>1 DEF OnTheWay, RowsFound, Removing
  <1>5. RemovedStay
    BY <1>1, <1>2 DEF RemovedStay, Removed, Inserting, PostMakers, TalkMakers
  <1>6. QED
    BY <1>1, <1>3, <1>4, <1>5 DEF IInv

\* A step of r on its own way that changes no membership.
LEMMA OnlyMoves ==
  ASSUME IInv, NEW r \in Requests, UNCHANGED <<call, members>>,
         Own(r), ~Removed(r)' \/ Removed(r),
         OnTheWay', pc'[r] # "member_row"
  PROVE  IInv'
  <1> USE SameCalls DEF IInv
  <1>1. (call \in Plans /\ MembersTyped /\ LocalsTyped)'
    BY DEF Own, MembersTyped
  <1>2. RowsFound'
    BY DEF RowsFound, Found, Own
  <1>3. RemovedStay'
    <2> SUFFICES ASSUME NEW q \in Requests, Removed(q)'
                 PROVE  Banned(q)' \/ Overwritten(q)'
      BY DEF RemovedStay
    <2>1. Removed(q)
      BY DEF Removed, Own
    <2>2. CASE Banned(q)
      BY <2>2, SameMembership DEF Banned
    <2>3. CASE Overwritten(q)
      BY <2>3 DEF Overwritten, Own
    <2>4. QED
      BY <2>1, <2>2, <2>3 DEF RemovedStay
  <1>4. QED
    BY <1>1, <1>2, <1>3

LEMMA AsideKeeps ==
  ASSUME IInv, NEW r \in Requests, Aside(r), UNCHANGED <<call, members>>
  PROVE  IInv'
  <1>1. OnTheWay'
    BY SameCalls DEF IInv, Aside, Own, OnTheWay, Removing, Entering
  <1>2. ~Removed(r)'
    BY SameCalls DEF IInv, Removed, Aside, Own, OnTheWay, Removing
  <1>3. QED
    BY <1>1, <1>2, OnlyMoves DEF Aside, Entering

----------------------------------------------------------------------------
\* A new row takes no key that another has.
LEMMA InsertKeeps ==
  ASSUME IInv, NEW r \in Requests, UNCHANGED call, Own(r),
         members[r] = NONE, NEW row \in MemberRows,
         members' = [members EXCEPT ![r] = row],
         Op(r) # "removeMember", pc'[r] \notin Entering
  PROVE  IInv'
  <1> USE SameCalls DEF IInv
  <1>1. (call \in Plans /\ MembersTyped /\ LocalsTyped)'
    BY DEF Own, MembersTyped
  <1>2. OnTheWay' /\ RowsFound'
    BY DEF OnTheWay, RowsFound, Found, Own, Entering
  <1>3. RemovedStay'
    <2> SUFFICES ASSUME NEW q \in Requests, Removed(q)'
                 PROVE  Banned(q)' \/ Overwritten(q)'
      BY DEF RemovedStay
    <2>1. Removed(q)
      BY DEF Removed, Own
    <2>2. CASE Banned(q)
      <3>1. PICK m \in Membership(On(q), To(q)) : members[m].status = "BANNED"
        BY <2>2 DEF Banned
      <3>2. m \in Requests /\ m # r
        BY <3>1 DEF Membership
      <3>3. members'[m] = members[m]
        BY <3>2 DEF MembersTyped
      <3>4. QED
        BY <3>1, <3>3, SameMembership DEF Banned
    <2>3. CASE Overwritten(q)
      BY <2>3 DEF Overwritten, Own
    <2>4. QED
      BY <2>1, <2>2, <2>3 DEF RemovedStay
  <1>4. QED
    BY <1>1, <1>2, <1>3

\* The heart of the matter: whoever saves a row that another request has
\* banned has either seen the ban, and then bans as well, or is stale.
LEMMA SaveKeeps ==
  ASSUME IInv, NEW r \in Requests, UNCHANGED call, SaveMember(r)
  PROVE  IInv'
  <1> USE SameCalls DEF IInv
  <1> DEFINE m == target[r]
  <1>1. Own(r) /\ Found(r) /\ pc[r] = "member_row" /\ pc'[r] \in {"count_member", "ok"}
    BY DEF SaveMember, Own, LocalsTyped, RowsFound, Goto, Writes
  <1>2. /\ m \in Requests /\ DOMAIN members = Requests
        /\ members' = [members EXCEPT ![m] = Changed(r)]
    BY <1>1 DEF Found, MembersTyped, SaveMember
  <1>3. Changed(r) # NONE => Changed(r) \in MemberRows
    <2>1. Op(r) = "updateMemberRole" => Arg(r) \in GroupRoles
      BY CallsTyped DEF ArgsOf
    <2>2. QED
      BY <1>1, <2>1 DEF Changed, Found, MemberRows
  <1>4. Op(r) = "removeMember" => Changed(r) # NONE /\ Changed(r).status = "BANNED"
    <2> SUFFICES ASSUME Op(r) = "removeMember"
                 PROVE  Changed(r) # NONE /\ Changed(r).status = "BANNED"
      OBVIOUS
    <2>1. Changed(r) \in MemberRows /\ Changed(r).status = "BANNED"
      BY <1>1 DEF Changed, Found, MemberRows
    <2>2. NONE \notin MemberRows
      BY SocialAssumption DEF Rows
    <2>3. QED
      BY <2>1, <2>2
  <1>5. (call \in Plans /\ MembersTyped /\ LocalsTyped)'
    BY <1>1, <1>2, <1>3 DEF Own, MembersTyped
  <1>6. OnTheWay' /\ RowsFound'
    BY <1>1 DEF OnTheWay, RowsFound, Found, Own, Removing, MemberOps
  <1>7. RemovedStay'
    <2> SUFFICES ASSUME NEW q \in Requests, Removed(q)'
                 PROVE  Banned(q)' \/ Overwritten(q)'
      BY DEF RemovedStay
    <2>1. CASE Op(r) = "removeMember" /\ On(r) = On(q) /\ To(r) = To(q)
      <3>1. m \in Membership(On(q), To(q))' /\ members'[m].status = "BANNED"
        BY <1>1, <1>2, <1>4, <2>1 DEF Membership, Found, Subject, MemberOps
      <3>2. QED
        BY <3>1 DEF Banned
    <2>2. CASE ~(Op(r) = "removeMember" /\ On(r) = On(q) /\ To(r) = To(q))
      <3>1. Removed(q)
        BY <1>1, <2>2 DEF Removed, Own
      <3>2. CASE Overwritten(q)
        BY <3>2, <1>1 DEF Overwritten, Own
      <3>3. CASE Banned(q)
        <4>1. PICK x \in Membership(On(q), To(q)) : members[x].status = "BANNED"
          BY <3>3 DEF Banned
        <4>2. CASE x # m
          <5>1. members'[x] = members[x]
            BY <1>2, <4>1, <4>2 DEF Membership
          <5>2. QED
            BY <4>1, <5>1, SameMembership DEF Banned
        <4>3. CASE x = m
          <5>1. On(r) = On(q) /\ Subject(r) = To(q) /\ Op(r) \in MemberOps
            BY <1>1, <4>1, <4>3 DEF Membership, Found
          <5>2. Op(r) # "removeMember"
            BY <2>2, <5>1 DEF Subject, MemberOps
          <5>3. seen[r].status # "BANNED"
            BY <1>1, <5>1, <5>2 DEF Found, Wanted, MemberOps
          <5>4. r \in stale'
            BY <4>1, <4>3, <5>3 DEF SaveMember, Writes
          <5>5. QED
            BY <5>1, <5>4 DEF Overwritten
        <4>4. QED
          BY <4>2, <4>3
      <3>4. QED
        BY <3>1, <3>2, <3>3 DEF RemovedStay
    <2>3. QED
      BY <2>1, <2>2
  <1>8. QED
    BY <1>5, <1>6, <1>7

LEMMA MembershipKeeps ==
  ASSUME IInv, NEW r \in Requests, UNCHANGED call, MembershipStep(r)
  PROVE  IInv'
  <1> USE SameCalls DEF IInv, Goto, locals, groupVars
  <1>1. CASE FindSlug(r) \/ InsertGroup(r) \/ JoinGroup(r)
    <2>1. Own(r) /\ pc'[r] # "member_row" /\ Op(r) # "removeMember" /\ UNCHANGED members
      BY <1>1 DEF FindSlug, InsertGroup, JoinGroup, Own, LocalsTyped, Reads, OnTheWay
    <2>2. OnTheWay'
      BY <1>1, <2>1 DEF FindSlug, InsertGroup, JoinGroup, OnTheWay, Own, LocalsTyped
    <2>3. QED
      BY <2>1, <2>2, OnlyMoves DEF Removed
  <1>2. CASE FindModerators(r)
    <2>1. Own(r) /\ pc'[r] \notin Entering /\ Op(r) # "removeMember" /\ UNCHANGED members
      BY <1>2 DEF FindModerators, Own, LocalsTyped, Sees, OnTheWay, Removing, Entering
    <2>2. OnTheWay'
      BY <2>1 DEF OnTheWay, Own, Entering
    <2>3. QED
      BY <2>1, <2>2, OnlyMoves DEF Removed, Entering
  <1>3. CASE Authorize(r)
    <2>1. Own(r) /\ pc'[r] \notin Entering \cup {"count_member", "ok"} /\ UNCHANGED members
      BY <1>3 DEF Authorize, Own, LocalsTyped, Reads, Entering, MemberOps, ReviewOps
    <2>2. Op(r) \in MemberOps => pc'[r] = "member"
      BY <1>3 DEF Authorize, LocalsTyped, MemberOps, ReviewOps
    <2>3. OnTheWay'
      BY <2>1, <2>2 DEF OnTheWay, Own, Entering, Removing, MemberOps
    <2>4. QED
      BY <2>1, <2>3, OnlyMoves DEF Removed, Entering
  <1>4. CASE CountMember(r)
    <2>1. Own(r) /\ pc'[r] \in {"notify", "ok"} /\ UNCHANGED members
      BY <1>4 DEF CountMember, Own, LocalsTyped, Sees
    <2>2. pc[r] = "count_member" /\ (pc'[r] = "notify" => Op(r) = "approveMember")
      BY <1>4 DEF CountMember, LocalsTyped
    <2>3. OnTheWay'
      BY <2>1, <2>2 DEF OnTheWay, Own, Removing
    <2>4. QED
      BY <2>1, <2>2, <2>3, OnlyMoves DEF Removed
  <1>5. CASE InsertOwner(r)
    <2>1. Own(r) /\ pc'[r] = "ok" /\ Op(r) = "createGroup"
      BY <1>5 DEF InsertOwner, Own, LocalsTyped, OnTheWay
    <2>2. members[r] = NONE
      BY <1>5, <2>1 DEF InsertOwner, Membership, GroupOf, ReviewOps
    <2>3. [role |-> "OWNER", status |-> "ACTIVE"] \in MemberRows
      BY DEF MemberRows, GroupRoles
    <2>4. members' = [members EXCEPT ![r] = [role |-> "OWNER", status |-> "ACTIVE"]]
      BY <1>5 DEF InsertOwner
    <2>5. QED
      BY <2>1, <2>2, <2>3, <2>4, InsertKeeps DEF Entering
  <1>6. CASE InsertMember(r)
    <2>1. Own(r) /\ pc'[r] \in {"count_member", "moderators"} /\ Op(r) = "joinGroup"
      BY <1>6 DEF InsertMember, Own, LocalsTyped, OnTheWay
    <2>2. members[r] = NONE
      BY <1>6, <2>1 DEF InsertMember, Membership, GroupOf, ReviewOps
    <2>3. [role |-> "MEMBER", status |-> JoinStatus(r)] \in MemberRows
      BY DEF MemberRows, GroupRoles, JoinStatus
    <2>4. members' = [members EXCEPT ![r] = [role |-> "MEMBER", status |-> JoinStatus(r)]]
      BY <1>6 DEF InsertMember
    <2>5. QED
      BY <2>1, <2>2, <2>3, <2>4, InsertKeeps DEF Entering
  <1>7. CASE FindMember(r)
    <2>1. Own(r) /\ pc'[r] = "member_row" /\ UNCHANGED members /\ Op(r) \in MemberOps
      BY <1>7 DEF FindMember, Own, LocalsTyped, Reads
    <2>2. PICK m \in Membership(On(r), Subject(r)) :
            members[m].status \in Wanted(r) /\ target'[r] = m /\ seen'[r] = members[m]
      BY <1>7 DEF FindMember, Reads, LocalsTyped
    <2>3. Found(r)'
      BY <2>1, <2>2 DEF Found, Membership, MembersTyped
    <2>4. (call \in Plans /\ MembersTyped /\ LocalsTyped)'
      BY <2>1 DEF Own, MembersTyped
    <2>5. OnTheWay' /\ RowsFound'
      BY <2>1, <2>3 DEF OnTheWay, RowsFound, Found, Own, Removing, MemberOps
    <2>6. RemovedStay'
      <3> SUFFICES ASSUME NEW q \in Requests, Removed(q)'
                   PROVE  Banned(q)' \/ Overwritten(q)'
        BY DEF RemovedStay
      <3>1. Removed(q)
        BY <2>1 DEF Removed, Own
      <3>2. CASE Banned(q)
        BY <3>2, <2>1, SameMembership DEF Banned
      <3>3. CASE Overwritten(q)
        BY <3>3, <2>1 DEF Overwritten, Own
      <3>4. QED
        BY <3>1, <3>2, <3>3 DEF RemovedStay
    <2>7. QED
      BY <2>4, <2>5, <2>6
  <1>8. QED
    BY <1>1, <1>2, <1>3, <1>4, <1>5, <1>6, <1>7, SaveKeeps DEF MembershipStep

LEMMA FailKeeps ==
  ASSUME IInv, NEW r \in Requests, Fails(r), UNCHANGED <<call, members>>
  PROVE  IInv'
  <1>1. Own(r) /\ pc'[r] = "failed"
    BY DEF IInv, Fails, Own, LocalsTyped, Goto, locals
  <1>2. OnTheWay'
    BY <1>1, SameCalls DEF IInv, OnTheWay, Own, Removing
  <1>3. QED
    BY <1>1, <1>2, OnlyMoves DEF Removed

LEMMA StepIInv == IInv /\ [Next]_vars => IInv'
  <1> SUFFICES ASSUME IInv, [Next]_vars
               PROVE  IInv'
    OBVIOUS
  <1>1. CASE UNCHANGED vars
    BY <1>1 DEF vars, callVars, locals, groupVars, IInv, LocalsTyped, MembersTyped, OnTheWay,
       RowsFound, Found, RemovedStay, Removed, Banned, Overwritten, Membership, GroupOf, Subject,
       Wanted, Op, On, By, To
  <1>2. CASE Next
    <2>1. PICK r \in Requests : Step(r) /\ UNCHANGED call
      BY <1>2 DEF Next
    <2>2. CASE MembershipStep(r)
      BY <2>1, <2>2, MembershipKeeps
    <2>3. CASE Fails(r) /\ UNCHANGED groupVars
      BY <2>1, <2>3, FailKeeps DEF groupVars
    <2>4. CASE Aside(r) /\ UNCHANGED members
      BY <2>1, <2>4, AsideKeeps
    <2>5. LocalsTyped /\ OnTheWay
      BY DEF IInv
    <2>6. GroupPostStep(r) => UNCHANGED members
      BY DEF GroupPostStep, InsertGroupPost, CountPost, FindPendingPost, Review, ListGroupPosts,
         groupVars
    <2>7. QED
      BY <2>1, <2>2, <2>3, <2>4, <2>5, <2>6, ConnectionAside, NoticeAside, ContentAside,
         FeedAside, GroupPostAside, MessagingAside, ListAside DEF Step, groupVars
  <1>3. QED
    BY <1>1, <1>2

----------------------------------------------------------------------------
\* GroupService, whatever else the social module does meanwhile: a removal
\* that was acknowledged holds, unless a call that had read the membership
\* before has saved it.
THEOREM BansStay == Spec => []BansKept
  <1>1. IInv => BansKept
    BY DEF IInv, RemovedStay, Removed, Banned, Overwritten, BansKept
  <1>2. QED
    BY <1>1, InitIInv, StepIInv, PTL DEF Spec

----------------------------------------------------------------------------
(* Blocks *)

\* A block that was in place when r began, and still is.
Against(b, r) == b \in before[r] /\ Kind(b) = "BLOCK" /\ links[b] # NONE
Pair(b) == {By(b), To(b)}

BlockTyped ==
  /\ DOMAIN pc = Requests
  /\ DOMAIN target = Requests
  /\ DOMAIN todo = Requests
  /\ DOMAIN before = Requests
  /\ DOMAIN links = Requests

\* What comes before has ended well, and who has not begun has no link.
Begun ==
  \A r \in Requests :
    /\ \A b \in before[r] : b \in Requests /\ pc[b] = "ok"
    /\ pc[r] = "idle" => before[r] = {} /\ links[r] = NONE

Answering(q, r) == pc[q] = "answer" /\ target[q] = r

\* What answers is a friend request that has begun; a block asks nobody, and
\* suggestions are made in two steps.
LinkPaths ==
  \A r \in Requests :
    /\ pc[r] = "answer" =>
         target[r] \in Requests /\ Kind(target[r]) = "FRIEND" /\ pc[target[r]] # "idle"
    /\ pc[r] = "unfollow" => Kind(r) = "BLOCK"
    /\ pc[r] = "candidates" => Op(r) = "getSuggestions"
    /\ Op(r) = "getSuggestions" => pc[r] \in {"idle", "candidates", "ok", "failed"}

NoTie(b, r) ==
  Kind(r) \in {"FOLLOW", "FRIEND"} /\ By(r) = To(b) /\ To(r) = By(b) =>
    links[r] = NONE /\ pc[r] # "link" /\ \A q \in Requests : ~Answering(q, r)
NoTalk(b, r) == Op(r) = "createDirectConversation" => Founders(r) # Pair(b)
NoHint(b, r) ==
  Op(r) = "getSuggestions" /\ By(r) \in Pair(b) =>
    /\ pc[r] = "candidates" => Pair(b) \cap People \subseteq todo[r]
    /\ pc[r] = "ok" => todo[r] \cap Pair(b) = {}

KeptApart ==
  \A b, r \in Requests : Against(b, r) => NoTie(b, r) /\ NoTalk(b, r) /\ NoHint(b, r)

BInv ==
  /\ call \in Plans
  /\ BlockTyped
  /\ Begun
  /\ LinkPaths
  /\ KeptApart

\* Any step of r, and one that has nothing to do with links.
Turn(r) ==
  /\ \A q \in Requests \ {r} : /\ pc'[q] = pc[q] /\ target'[q] = target[q]
                               /\ todo'[q] = todo[q] /\ before'[q] = before[q]
  /\ before'[r] = IF pc[r] = "idle" THEN {s \in Requests : pc[s] = "ok"} ELSE before[r]
  /\ DOMAIN pc' = Requests /\ DOMAIN target' = Requests
  /\ DOMAIN todo' = Requests /\ DOMAIN before' = Requests
Linking == {"unfollow", "link", "answer", "candidates"}
Apart(r) ==
  /\ Turn(r)
  /\ ~Ended(r)
  /\ pc[r] = "idle" => Op(r) \notin {"createDirectConversation", "getSuggestions"}
  /\ pc[r] # "candidates"
  /\ pc'[r] \notin Linking \cup {"idle"}

LEMMA NoticeApart ==
  ASSUME BlockTyped, NEW r \in Requests, NoticeStep(r)
  PROVE  Apart(r)
  <1> USE DEF Apart, Turn, Ended, BlockTyped, Linking, Goto, Reads, Writes, Sees, locals
  <1>1. CASE Dispatch(r) \/ Dispatched(r) \/ FindNotice(r) \/ MarkRead(r) \/ MarkAllRead(r)
    BY <1>1 DEF Dispatch, Dispatched, FindNotice, MarkRead, MarkAllRead
  <1>2. QED
    BY <1>1 DEF NoticeStep

LEMMA ContentApart ==
  ASSUME BlockTyped, NEW r \in Requests, ContentStep(r)
  PROVE  Apart(r)
  <1> USE DEF Apart, Turn, Ended, BlockTyped, Linking, Goto, Reads, Writes, Sees, locals
  <1>1. CASE InsertPost(r) \/ SaveMedia(r) \/ SaveTags(r) \/ Unindex(r) \/ Index(r)
    BY <1>1 DEF InsertPost, SaveMedia, SaveTags, Unindex, Index
  <1>2. CASE FindOwnPost(r) \/ DeletePost(r) \/ DeleteDocuments(r) \/ FindOriginal(r) \/
            Repost(r)
    BY <1>2 DEF FindOwnPost, DeletePost, DeleteDocuments, FindOriginal, Repost
  <1>3. CASE FindPost(r) \/ InsertComment(r) \/ CountComment(r) \/ CountReply(r) \/
            SaveMentions(r)
    BY <1>3 DEF FindPost, InsertComment, CountComment, CountReply, SaveMentions, IsComment,
       CommentCounted
  <1>4. CASE FindOwnComment(r) \/ DeleteComment(r) \/ UncountComment(r) \/ UncountReply(r)
    BY <1>4 DEF FindOwnComment, DeleteComment, UncountComment, UncountReply
  <1>5. CASE FindTarget(r) \/ FindReaction(r) \/ Unreact(r) \/ Rereact(r) \/ React(r) \/
            CountLike(r) \/ FindOwner(r)
    BY <1>5 DEF FindTarget, FindReaction, Unreact, Rereact, React, CountLike, FindOwner
  <1>6. CASE CreateStory(r) \/ FindStory(r) \/ ViewStory(r) \/ DeleteStory(r) \/
            CleanStories(r)
    BY <1>6 DEF CreateStory, FindStory, ViewStory, DeleteStory, CleanStories
  <1>7. QED
    BY <1>1, <1>2, <1>3, <1>4, <1>5, <1>6 DEF ContentStep

LEMMA FeedApart ==
  ASSUME BlockTyped, NEW r \in Requests, FeedStep(r)
  PROVE  Apart(r)
  <1> USE DEF Apart, Turn, Ended, BlockTyped, Linking, Goto, Reads, Writes, Sees, locals
  <1>1. CASE FindPostById(r) \/ CheckTie(r) \/ FindConnections(r) \/ FindFeedPosts(r)
    BY <1>1 DEF FindPostById, CheckTie, FindConnections, FindFeedPosts
  <1>2. CASE FindTagged(r) \/ FindTagPosts(r) \/ CheckEach(r) \/ EndHashtagFeed(r)
    BY <1>2 DEF FindTagged, FindTagPosts, CheckEach, EndHashtagFeed
  <1>3. CASE Attach(r) \/ CountView(r)
    BY <1>3 DEF Attach, CountView
  <1>4. QED
    BY <1>1, <1>2, <1>3 DEF FeedStep

LEMMA MembershipApart ==
  ASSUME BlockTyped, NEW r \in Requests, MembershipStep(r)
  PROVE  Apart(r)
  <1> USE DEF Apart, Turn, Ended, BlockTyped, Linking, Goto, Reads, Writes, Sees, locals
  <1>1. CASE FindSlug(r) \/ InsertGroup(r) \/ InsertOwner(r)
    BY <1>1 DEF FindSlug, InsertGroup, InsertOwner
  <1>2. CASE JoinGroup(r) \/ InsertMember(r) \/ FindModerators(r)
    BY <1>2 DEF JoinGroup, InsertMember, FindModerators
  <1>3. CASE Authorize(r)
    BY <1>3 DEF Authorize, MemberOps, ReviewOps
  <1>4. CASE FindMember(r) \/ SaveMember(r) \/ CountMember(r)
    BY <1>4 DEF FindMember, SaveMember, CountMember, MemberOps
  <1>5. QED
    BY <1>1, <1>2, <1>3, <1>4 DEF MembershipStep

LEMMA GroupPostApart ==
  ASSUME BlockTyped, NEW r \in Requests, GroupPostStep(r)
  PROVE  Apart(r)
  <1> USE DEF Apart, Turn, Ended, BlockTyped, Linking, Goto, Reads, Writes, Sees, locals
  <1>1. CASE InsertGroupPost(r) \/ CountPost(r) \/ FindPendingPost(r) \/ Review(r) \/
            ListGroupPosts(r)
    BY <1>1 DEF InsertGroupPost, CountPost, FindPendingPost, Review, ListGroupPosts
  <1>2. QED
    BY <1>1 DEF GroupPostStep

LEMMA MessagingApart ==
  ASSUME BlockTyped, NEW r \in Requests, MessagingStep(r)
  PROVE  Apart(r) \/ StartTalk(r)
  <1> USE DEF Apart, Turn, Ended, BlockTyped, Linking, Goto, Reads, Writes, Sees, locals
  <1>1. CASE CheckEachFounder(r) \/ FindPair(r) \/ InsertTalk(r)
             \/ InsertParticipants(r) \/ OpenTalk(r) \/ Publish(r)
    BY <1>1 DEF CheckEachFounder, FindPair, InsertTalk, InsertParticipants, OpenTalk, Publish
  <1>2. CASE AuthorizePart(r) \/ FindPart(r)
    BY <1>2 DEF AuthorizePart, FindPart, PartOps
  <1>3. CASE SavePart(r) \/ CountActive(r) \/ AddEach(r) \/ FindAdded(r) \/ SaveAdded(r)
    BY <1>3 DEF SavePart, CountActive, AddEach, FindAdded, SaveAdded
  <1>4. CASE FindTalk(r) \/ AssertActiveParticipant(r) \/ InsertMessage(r) \/ SaveLast(r)
             \/ DeleteMessage(r)
    BY <1>4 DEF FindTalk, AssertActiveParticipant, InsertMessage, SaveLast, DeleteMessage
  <1>5. QED
    BY <1>1, <1>2, <1>3, <1>4 DEF MessagingStep

LEMMA ListApart ==
  ASSUME BlockTyped, NEW r \in Requests, ListMessages(r) \/ ListStep(r)
  PROVE  Apart(r)
  BY DEF Apart, Turn, Ended, BlockTyped, Linking, Goto, locals, ListMessages, ListStep, List,
     Selections, GetGroup, ListMembers, GetConversation, FindMemberships, ListConversations

----------------------------------------------------------------------------
\* What a step of r may do to the links, and where it may lead.
Fades(r) ==
  /\ DOMAIN links' = Requests
  /\ \A q \in Requests : links'[q] # NONE =>
       links[q] # NONE \/ (q = r /\ pc[r] = "link") \/ Answering(r, q)
Leads(r) ==
  /\ pc[r] # "ok" /\ pc'[r] # "idle"
  /\ pc'[r] = "answer" => /\ target'[r] \in Requests /\ Kind(target'[r]) = "FRIEND"
                          /\ links[target'[r]] # NONE
  /\ pc'[r] = "unfollow" => Kind(r) = "BLOCK"
  /\ pc'[r] = "candidates" => Op(r) = "getSuggestions"
  /\ Op(r) = "getSuggestions" => pc'[r] \in {"candidates", "ok", "failed"}

\* b was in place when r began, or is when it begins now.
Facing(b, r) ==
  \/ Against(b, r)
  \/ pc[r] = "idle" /\ pc[b] = "ok" /\ Kind(b) = "BLOCK" /\ links[b] # NONE
Heeds(b, r) ==
  /\ Kind(r) \in {"FOLLOW", "FRIEND"} /\ By(r) = To(b) /\ To(r) = By(b) =>
       links'[r] = NONE /\ pc'[r] \notin {"link", "answer"}
  /\ NoTalk(b, r)
  /\ NoHint(b, r)'

LEMMA SameWords ==
  ASSUME UNCHANGED call
  PROVE  \A q \in Requests : /\ Op(q)' = Op(q) /\ Kind(q)' = Kind(q) /\ By(q)' = By(q)
                             /\ To(q)' = To(q) /\ Founders(q)' = Founders(q)
                             /\ Pair(q)' = Pair(q)
  BY DEF Op, Kind, By, To, Founders, Pair

LEMMA TurnKeeps ==
  ASSUME BInv, NEW r \in Requests, UNCHANGED call, Turn(r), Fades(r), Leads(r),
         \A b \in Requests : Facing(b, r) => Heeds(b, r)
  PROVE  BInv'
  <1> USE SameWords DEF BInv
  <1>1. (call \in Plans /\ BlockTyped)'
    BY DEF Turn, Fades, BlockTyped
  <1>2. Begun'
    BY DEF Begun, LinkPaths, Turn, Fades, Leads, Answering
  <1>3. LinkPaths'
    <2> SUFFICES ASSUME NEW q \in Requests
                 PROVE  /\ pc'[q] = "answer" => /\ target'[q] \in Requests
                                                /\ Kind(target'[q]) = "FRIEND"
                                                /\ pc'[target'[q]] # "idle"
                        /\ pc'[q] = "unfollow" => Kind(q) = "BLOCK"
                        /\ pc'[q] = "candidates" => Op(q) = "getSuggestions"
                        /\ Op(q) = "getSuggestions" =>
                             pc'[q] \in {"idle", "candidates", "ok", "failed"}
      BY DEF LinkPaths, Kind, Op
    <2>1. CASE q = r
      BY <2>1 DEF Leads, Turn, Begun
    <2>2. CASE q # r
      BY <2>2 DEF Turn, Leads, LinkPaths
    <2>3. QED
      BY <2>1, <2>2
  <1>4. KeptApart'
    <2> SUFFICES ASSUME NEW b \in Requests, NEW q \in Requests, Against(b, q)'
                 PROVE  NoTie(b, q)' /\ NoTalk(b, q)' /\ NoHint(b, q)'
      BY DEF KeptApart
    <2>1. links[b] # NONE
      BY DEF Against, Fades, Begun, LinkPaths, Turn, Leads, Answering
    <2>2. CASE q = r
      <3>1. Facing(b, r)
        BY <2>1, <2>2 DEF Against, Facing, Turn
      <3>2. Heeds(b, r)
        BY <3>1
      <3>3. \A x \in Requests \ {r} : ~Answering(x, r)' \/ ~(/\ Kind(r) \in {"FOLLOW", "FRIEND"}
                                                             /\ By(r) = To(b) /\ To(r) = By(b))
        BY <3>1 DEF Facing, KeptApart, NoTie, LinkPaths, Answering, Turn
      <3>4. QED
        BY <2>2, <3>2, <3>3 DEF Heeds, NoTie, NoTalk, Answering
    <2>3. CASE q # r
      <3>1. NoTie(b, q) /\ NoTalk(b, q) /\ NoHint(b, q)
        BY <2>1, <2>3 DEF Against, Turn, KeptApart
      <3>2. NoTie(b, q)'
        BY <2>3, <3>1 DEF NoTie, Answering, Turn, Fades, Leads
      <3>3. QED
        BY <2>3, <3>1, <3>2 DEF NoTalk, NoHint, Turn
    <2>4. QED
      BY <2>2, <2>3
  <1>5. QED
    BY <1>1, <1>2, <1>3, <1>4

LEMMA ApartKeeps ==
  ASSUME BInv, NEW r \in Requests, UNCHANGED call, Apart(r), DOMAIN links' = Requests,
         \A q \in Requests : links'[q] # NONE => links[q] # NONE
  PROVE  BInv'
  <1>1. Turn(r) /\ Fades(r) /\ Leads(r)
    BY DEF Apart, Fades, Leads, Ended, Linking, BInv, LinkPaths
  <1>2. ASSUME NEW b \in Requests, Facing(b, r)
        PROVE  Heeds(b, r)
    <2>1. Op(r) # "getSuggestions"
      BY DEF Apart, Ended, BInv, LinkPaths
    <2>2. NoTalk(b, r)
      BY <1>2 DEF Apart, Facing, BInv, KeptApart, NoTalk
    <2>3. Kind(r) \in {"FOLLOW", "FRIEND"} /\ By(r) = To(b) /\ To(r) = By(b) => links[r] = NONE
      BY <1>2 DEF Facing, BInv, KeptApart, NoTie, Begun
    <2>4. QED
      BY <2>1, <2>2, <2>3, SameWords DEF Heeds, NoHint, Apart, Linking
  <1>3. QED
    BY <1>1, <1>2, TurnKeeps

LEMMA ConnectionKeeps ==
  ASSUME BInv, NEW r \in Requests, UNCHANGED call, ConnectionStep(r)
  PROVE  BInv'
  <1> USE DEF Goto, Reads, Writes, Sees, locals, linkVars
  <1>0. BlockTyped /\ Begun /\ LinkPaths /\ KeptApart
    BY DEF BInv
  <1>1. CASE FindLink(r)
    <2>1. Turn(r) /\ Fades(r) /\ Leads(r) /\ pc[r] = "idle" /\ UNCHANGED links
      BY <1>0, <1>1 DEF FindLink, Turn, Fades, Leads, BlockTyped, Kind
    <2>2. pc'[r] \notin Linking \ {"unfollow"} /\ Kind(r) # "NONE"
      BY <1>0, <1>1 DEF FindLink, Linking, BlockTyped
    <2>3. Op(r) \notin {"createDirectConversation", "getSuggestions"}
      BY <2>2 DEF Kind
    <2>4. \A b \in Requests : Facing(b, r) => Heeds(b, r)
      BY <1>0, <2>1, <2>2, <2>3, SameWords DEF Heeds, NoTalk, NoHint, Begun, Linking
    <2>5. QED
      BY <2>1, <2>4, TurnKeeps
  <1>2. CASE CheckBlock(r)
    <2>1. /\ Turn(r) /\ Fades(r) /\ Leads(r)
          /\ pc[r] = "blocked?" /\ pc'[r] = "link" /\ UNCHANGED links
      BY <1>0, <1>2 DEF CheckBlock, Turn, Fades, Leads, BlockTyped, LinkPaths
    <2>2. Op(r) # "getSuggestions"
      BY <1>0, <2>1 DEF LinkPaths
    <2>3. ASSUME NEW b \in Requests, Facing(b, r)
          PROVE  Heeds(b, r)
      <3>1. Against(b, r)
        BY <2>1, <2>3 DEF Facing
      <3>2. ~(By(r) = To(b) /\ To(r) = By(b))
        BY <1>2, <3>1 DEF CheckBlock, Blocks, Linked, Against
      <3>3. QED
        BY <1>0, <2>2, <3>1, <3>2, SameWords DEF Heeds, KeptApart, NoHint
    <2>4. QED
      BY <2>1, <2>3, TurnKeeps
  <1>3. CASE Unfollow(r)
    <2>1. /\ Turn(r) /\ Fades(r) /\ Leads(r) /\ Kind(r) = "BLOCK"
          /\ pc[r] = "unfollow" /\ pc'[r] = "link"
      BY <1>0, <1>3 DEF Unfollow, Turn, Fades, Leads, BlockTyped, LinkPaths
    <2>2. Op(r) # "getSuggestions"
      BY <1>0, <2>1 DEF LinkPaths
    <2>3. \A b \in Requests : Facing(b, r) => Heeds(b, r)
      BY <1>0, <2>1, <2>2, SameWords DEF Facing, Heeds, KeptApart, NoHint
    <2>4. QED
      BY <2>1, <2>3, TurnKeeps
  <1>4. CASE Link(r)
    <2>1. /\ Turn(r) /\ Fades(r) /\ Leads(r)
          /\ pc[r] = "link" /\ pc'[r] \in {"followers", "log", "ok"}
      BY <1>0, <1>4 DEF Link, Turn, Fades, Leads, BlockTyped, LinkPaths
    <2>2. Op(r) # "getSuggestions"
      BY <1>0, <2>1 DEF LinkPaths
    <2>3. \A b \in Requests : Facing(b, r) => Heeds(b, r)
      BY <1>0, <2>1, <2>2, SameWords DEF Facing, Heeds, KeptApart, NoTie, NoHint
    <2>4. QED
      BY <2>1, <2>3, TurnKeeps
  <1>5. CASE Drop(r)
    <2>1. Apart(r) /\ DOMAIN links' = Requests
      BY <1>0, <1>5 DEF Drop, Apart, Turn, Ended, Linking, BlockTyped
    <2>2. \A q \in Requests : links'[q] # NONE => links[q] # NONE
      BY <1>0, <1>5 DEF Drop, BlockTyped
    <2>3. QED
      BY <2>1, <2>2, ApartKeeps
  <1>6. CASE CountFollower(r) \/ CountFollowing(r) \/ Log(r) \/ CountFriend(r)
             \/ FindProfile(r) \/ SaveProfile(r) \/ GetUserProfile(r)
    <2>1. Apart(r) /\ UNCHANGED links
      BY <1>0, <1>6 DEF CountFollower, CountFollowing, Log, CountFriend, FindProfile, SaveProfile,
         GetUserProfile, Apart, Turn, Ended, Linking, BlockTyped
    <2>2. QED
      BY <1>0, <2>1, ApartKeeps DEF BlockTyped
  <1>7. CASE FindRequest(r)
    <2>1. On(r) \in Requests
      BY <1>7, CallsTyped DEF FindRequest, BInv, OfRow
    <2>2. /\ Turn(r) /\ Fades(r) /\ Leads(r) /\ pc[r] = "idle" /\ UNCHANGED links
          /\ Op(r) = "respondFriendRequest"
      BY <1>0, <1>7, <2>1 DEF FindRequest, Turn, Fades, Leads, BlockTyped
    <2>3. Kind(r) = "NONE"
      BY <2>2 DEF Kind
    <2>4. \A b \in Requests : Facing(b, r) => Heeds(b, r)
      BY <2>2, <2>3, SameWords DEF Heeds, NoTalk, NoHint
    <2>5. QED
      BY <2>2, <2>4, TurnKeeps
  <1>8. CASE Answer(r)
    <2>1. /\ Turn(r) /\ Fades(r) /\ Leads(r)
          /\ pc[r] = "answer" /\ pc'[r] \in {"friend", "ok"}
          /\ \A q \in Requests : ~Answering(r, q) => links'[q] = links[q]
      BY <1>0, <1>8 DEF Answer, Turn, Fades, Leads, BlockTyped, LinkPaths, Answering
    <2>2. Op(r) # "getSuggestions"
      BY <1>0, <2>1 DEF LinkPaths
    <2>3. \A b \in Requests : Facing(b, r) => Heeds(b, r)
      BY <1>0, <2>1, <2>2, SameWords DEF Facing, Heeds, KeptApart, NoTie, NoHint
    <2>4. QED
      BY <2>1, <2>3, TurnKeeps
  <1>9. CASE FindTies(r)
    <2>1. /\ Turn(r) /\ Fades(r) /\ Leads(r) /\ pc[r] = "idle" /\ UNCHANGED links
          /\ Op(r) = "getSuggestions" /\ pc'[r] = "candidates"
          /\ todo'[r] = {By(r)} \cup {u \in People : \E l \in Requests :
                          links[l] # NONE /\ {u, By(r)} = {By(l), To(l)}}
      BY <1>0, <1>9 DEF FindTies, Turn, Fades, Leads, BlockTyped
    <2>2. Kind(r) = "NONE"
      BY <2>1 DEF Kind
    <2>3. ASSUME NEW b \in Requests, Facing(b, r)
          PROVE  Heeds(b, r)
      <3>1. links[b] # NONE
        BY <2>3 DEF Facing, Against
      <3>2. By(r) \in Pair(b) => Pair(b) \cap People \subseteq todo'[r]
        BY <2>1, <3>1 DEF Pair
      <3>3. QED
        BY <2>1, <2>2, <3>2, SameWords DEF Heeds, NoTalk, NoHint
    <2>4. QED
      BY <2>1, <2>3, TurnKeeps
  <1>10. CASE Suggest(r)
    <2>1. /\ Turn(r) /\ Fades(r) /\ Leads(r) /\ UNCHANGED links
          /\ pc[r] = "candidates" /\ pc'[r] = "ok" /\ Op(r) = "getSuggestions"
          /\ todo'[r] = {u \in People \ todo[r] : profiles[u] # NONE}
      BY <1>0, <1>10 DEF Suggest, Turn, Fades, Leads, BlockTyped, LinkPaths
    <2>2. Kind(r) = "NONE"
      BY <2>1 DEF Kind
    <2>3. ASSUME NEW b \in Requests, Facing(b, r)
          PROVE  Heeds(b, r)
      <3>1. By(r) \in Pair(b) => Pair(b) \cap People \subseteq todo[r]
        BY <1>0, <2>1, <2>3 DEF Facing, KeptApart, NoHint
      <3>2. QED
        BY <2>1, <2>2, <3>1, SameWords DEF Heeds, NoTalk, NoHint
    <2>4. QED
      BY <2>1, <2>3, TurnKeeps
  <1>11. QED
    BY <1>1, <1>2, <1>3, <1>4, <1>5, <1>6, <1>7, <1>8, <1>9, <1>10 DEF ConnectionStep

LEMMA StartKeeps ==
  ASSUME BInv, NEW r \in Requests, UNCHANGED <<call, links>>, StartTalk(r)
  PROVE  BInv'
  <1>1. /\ Turn(r) /\ pc[r] = "idle" /\ pc'[r] \in {"pair", "blocked_each"}
        /\ Op(r) \in {"createDirectConversation", "createGroupConversation"}
    BY DEF BInv, BlockTyped, StartTalk, IsGroup, Turn, Goto, Sees, locals
  <1>2. Fades(r) /\ Leads(r)
    BY <1>1 DEF BInv, BlockTyped, Fades, Leads
  <1>3. ASSUME NEW b \in Requests, Facing(b, r)
        PROVE  Heeds(b, r)
    <2>1. CASE Op(r) = "createDirectConversation"
      <3>1. By(r) # To(r) /\ ~Blocks(By(r), To(r)) /\ ~Blocks(To(r), By(r))
        BY <2>1 DEF StartTalk, IsGroup, IsBlocked
      <3>2. Founders(r) = {By(r), To(r)}
        <4>1. call[r].to = {To(r)}
          BY <2>1, CallsTyped DEF BInv, OfUser
        <4>2. QED
          BY <4>1 DEF Founders, To
      <3>3. links[b] # NONE /\ Kind(b) = "BLOCK"
        BY <1>3 DEF Facing, Against
      <3>4. Founders(r) # Pair(b)
        BY <3>1, <3>2, <3>3 DEF Pair, Blocks, Linked
      <3>5. QED
        BY <1>1, <2>1, <3>4, SameWords DEF Heeds, NoTalk, NoHint, Kind
    <2>2. CASE Op(r) = "createGroupConversation"
      BY <2>2, SameWords DEF Heeds, NoTalk, NoHint, Kind
    <2>3. QED
      BY <1>1, <2>1, <2>2
  <1>4. QED
    BY <1>1, <1>2, <1>3, TurnKeeps

LEMMA FailingKeeps ==
  ASSUME BInv, NEW r \in Requests, UNCHANGED <<call, links>>, Fails(r)
  PROVE  BInv'
  <1>1. Turn(r) /\ Fades(r) /\ Leads(r) /\ pc[r] # "idle" /\ pc'[r] = "failed"
    BY DEF BInv, BlockTyped, Fails, Turn, Fades, Leads, Ended, Goto, locals
  <1>2. \A b \in Requests : Facing(b, r) => Heeds(b, r)
    BY <1>1, SameWords DEF BInv, Facing, Heeds, KeptApart, NoTie, NoHint
  <1>3. QED
    BY <1>1, <1>2, TurnKeeps

LEMMA InitBInv == Init => BInv
  BY DEF Init, CallsInit, LinksInit, BInv, BlockTyped, Begun, LinkPaths, KeptApart, Against

LEMMA StepBInv == BInv /\ [Next]_vars => BInv'
  <1> SUFFICES ASSUME BInv, [Next]_vars
               PROVE  BInv'
    OBVIOUS
  <1>1. CASE UNCHANGED vars
    BY <1>1 DEF vars, callVars, locals, linkVars, BInv, BlockTyped, Begun, LinkPaths, KeptApart,
       Against, NoTie, NoTalk, NoHint, Answering, Pair, Founders, Kind, Op, By, To
  <1>2. CASE Next
    <2>1. PICK r \in Requests : Step(r) /\ UNCHANGED call
      BY <1>2 DEF Next
    <2>2. BlockTyped /\ DOMAIN links = Requests
      BY DEF BInv, BlockTyped
    <2>3. CASE ConnectionStep(r)
      BY <2>1, <2>3, ConnectionKeeps
    <2>4. CASE StartTalk(r) /\ UNCHANGED linkVars
      BY <2>1, <2>4, StartKeeps DEF linkVars
    <2>5. CASE Fails(r) /\ UNCHANGED linkVars
      BY <2>1, <2>5, FailingKeeps DEF linkVars
    <2>6. CASE Apart(r) /\ UNCHANGED linkVars
      BY <2>1, <2>2, <2>6, ApartKeeps DEF linkVars
    <2>7. QED
      BY <2>1, <2>2, <2>3, <2>4, <2>5, <2>6, NoticeApart, ContentApart, FeedApart,
         MembershipApart, GroupPostApart, MessagingApart, ListApart DEF Step
  <1>3. QED
    BY <1>1, <1>2

\* ConnectionService, MessagingService and DiscoveryService: what begins after
\* a block was acknowledged respects it, as long as it stands.
THEOREM BlocksHold == Spec => []BlocksRespected
  <1>1. BInv => BlocksRespected
    BY DEF BInv, KeptApart, Against, NoTie, NoTalk, NoHint, Pair, BlocksRespected
  <1>2. QED
    BY <1>1, InitBInv, StepBInv, PTL DEF Spec

----------------------------------------------------------------------------
(* Privacy *)

\* What a feed knows of a user when it shows his posts, unless it has changed
\* since: a second answer, or the end of a follow while the feed was made.
Befriended(r, u) ==
  IsFriend(By(r), u) \/ \E s \in stale : Op(s) = "respondFriendRequest"
Followed(r, u) ==
  \/ Follows(By(r), u)
  \/ \E s \in Requests : /\ Kind(s) \in {"FOLLOW", "BLOCK"} /\ By(s) = By(r) /\ To(s) = u
                         /\ pc[s] # "idle" /\ s \notin before[r]
Visible(r, p) ==
  \/ By(p) = By(r)
  \/ Privacy(p) = "PUBLIC"
  \/ Privacy(p) = "FRIENDS" /\ Befriended(r, By(p))
  \/ Privacy(p) = "FOLLOWERS" /\ Followed(r, By(p))

FeedWay == {"tie?", "attach", "viewed", "feed_posts", "tag_posts", "tag_each"}

FeedTyped == LocalsTyped /\ BlockTyped /\ DOMAIN shown = Requests

FeedPaths ==
  \A r \in Requests : Op(r) \in FeedOps => pc[r] \in FeedWay \cup {"idle", "ok", "failed"}

\* The link that is about to be dropped is one of the caller's kind, the one
\* about to be answered was read before it had been.
LinksFound ==
  \A r \in Requests :
    /\ pc[r] = "drop" => /\ Kind(r) \in {"FOLLOW", "BLOCK"} /\ target[r] \in Requests
                         /\ Kind(target[r]) = Kind(r)
                         /\ By(target[r]) = By(r) /\ To(target[r]) = To(r)
    /\ pc[r] = "answer" => Op(r) = "respondFriendRequest" /\ seen[r].status = "PENDING"

Justified(r) ==
  /\ \A p \in shown[r] : Visible(r, p)
  /\ pc[r] = "idle" => shown[r] = {}
  /\ pc[r] = "attach" => Visible(r, On(r))
  /\ pc[r] = "feed_posts" => /\ \A u \in seen[r].friends : Befriended(r, u)
                             /\ \A u \in seen[r].following : Followed(r, u)

FeedsJustified == \A r \in Requests : Op(r) \in FeedOps => Justified(r)

FInv == FeedTyped /\ FeedPaths /\ LinksFound /\ FeedsJustified

\* A step of r that shows no feed.
Ways(r) ==
  /\ Own(r) /\ Turn(r)
  /\ DOMAIN shown' = Requests /\ \A q \in Requests \ {r} : shown'[q] = shown[q]
Blind(r) ==
  /\ Ways(r)
  /\ Op(r) \notin FeedOps
  /\ pc'[r] \notin {"drop", "answer"}

LEMMA NoticeBlind ==
  ASSUME FeedTyped, FeedPaths, NEW r \in Requests, NoticeStep(r), UNCHANGED shown
  PROVE  Blind(r)
  <1> USE DEF Blind, Ways, Own, Turn, LocalsTyped, BlockTyped, FeedTyped, FeedPaths, FeedWay,
              FeedOps, NewsfeedOps, Goto, Reads, Writes, Sees, locals
  <1>1. CASE Dispatch(r) \/ Dispatched(r) \/ FindNotice(r) \/ MarkRead(r) \/ MarkAllRead(r)
    BY <1>1 DEF Dispatch, Dispatched, FindNotice, MarkRead, MarkAllRead
  <1>2. QED
    BY <1>1 DEF NoticeStep

LEMMA ContentBlind ==
  ASSUME FeedTyped, FeedPaths, NEW r \in Requests, ContentStep(r), UNCHANGED shown
  PROVE  Blind(r)
  <1> USE DEF Blind, Ways, Own, Turn, LocalsTyped, BlockTyped, FeedTyped, FeedPaths, FeedWay,
              FeedOps, NewsfeedOps, Goto, Reads, Writes, Sees, locals
  <1>1. CASE InsertPost(r) \/ SaveMedia(r) \/ SaveTags(r) \/ Unindex(r) \/ Index(r)
    BY <1>1 DEF InsertPost, SaveMedia, SaveTags, Unindex, Index
  <1>2. CASE FindOwnPost(r) \/ DeletePost(r) \/ DeleteDocuments(r) \/ FindOriginal(r) \/
            Repost(r)
    BY <1>2 DEF FindOwnPost, DeletePost, DeleteDocuments, FindOriginal, Repost
  <1>3. CASE FindPost(r) \/ InsertComment(r) \/ CountComment(r) \/ CountReply(r) \/
            SaveMentions(r)
    BY <1>3 DEF FindPost, InsertComment, CountComment, CountReply, SaveMentions, IsComment,
       CommentCounted
  <1>4. CASE FindOwnComment(r) \/ DeleteComment(r) \/ UncountComment(r) \/ UncountReply(r)
    BY <1>4 DEF FindOwnComment, DeleteComment, UncountComment, UncountReply
  <1>5. CASE FindTarget(r) \/ FindReaction(r) \/ Unreact(r) \/ Rereact(r) \/ React(r) \/
            CountLike(r) \/ FindOwner(r)
    BY <1>5 DEF FindTarget, FindReaction, Unreact, Rereact, React, CountLike, FindOwner
  <1>6. CASE CreateStory(r) \/ FindStory(r) \/ ViewStory(r) \/ DeleteStory(r) \/
            CleanStories(r)
    BY <1>6 DEF CreateStory, FindStory, ViewStory, DeleteStory, CleanStories
  <1>7. QED
    BY <1>1, <1>2, <1>3, <1>4, <1>5, <1>6 DEF ContentStep

LEMMA MembershipBlind ==
  ASSUME FeedTyped, FeedPaths, NEW r \in Requests, MembershipStep(r), UNCHANGED shown
  PROVE  Blind(r)
  <1> USE DEF Blind, Ways, Own, Turn, LocalsTyped, BlockTyped, FeedTyped, FeedPaths, FeedWay,
              FeedOps, NewsfeedOps, Goto, Reads, Writes, Sees, locals
  <1>1. CASE FindSlug(r) \/ InsertGroup(r) \/ InsertOwner(r)
    BY <1>1 DEF FindSlug, InsertGroup, InsertOwner
  <1>2. CASE JoinGroup(r) \/ InsertMember(r) \/ FindModerators(r)
    BY <1>2 DEF JoinGroup, InsertMember, FindModerators
  <1>3. CASE Authorize(r)
    BY <1>3 DEF Authorize, MemberOps, ReviewOps
  <1>4. CASE FindMember(r) \/ SaveMember(r) \/ CountMember(r)
    BY <1>4 DEF FindMember, SaveMember, CountMember, MemberOps
  <1>5. QED
    BY <1>1, <1>2, <1>3, <1>4 DEF MembershipStep

LEMMA GroupPostBlind ==
  ASSUME FeedTyped, FeedPaths, NEW r \in Requests, GroupPostStep(r)
  PROVE  Blind(r)
  <1> USE DEF Blind, Ways, Own, Turn, LocalsTyped, BlockTyped, FeedTyped, FeedPaths, FeedWay,
              FeedOps, NewsfeedOps, Goto, Reads, Writes, Sees, locals
  <1>1. CASE InsertGroupPost(r) \/ CountPost(r) \/ FindPendingPost(r) \/ Review(r)
    BY <1>1 DEF InsertGroupPost, CountPost, FindPendingPost, Review, feedVars
  <1>2. CASE ListGroupPosts(r)
    BY <1>2 DEF ListGroupPosts, Show
  <1>3. QED
    BY <1>1, <1>2 DEF GroupPostStep

LEMMA MessagingBlind ==
  ASSUME FeedTyped, FeedPaths, NEW r \in Requests, MessagingStep(r), UNCHANGED shown
  PROVE  Blind(r)
  <1> USE DEF Blind, Ways, Own, Turn, LocalsTyped, BlockTyped, FeedTyped, FeedPaths, FeedWay,
              FeedOps, NewsfeedOps, Goto, Reads, Writes, Sees, locals
  <1>1. CASE StartTalk(r)
    BY <1>1 DEF StartTalk, IsGroup
  <1>2. CASE CheckEachFounder(r) \/ FindPair(r) \/ InsertTalk(r) \/ InsertParticipants(r) \/
            OpenTalk(r) \/ Publish(r)
    BY <1>2 DEF CheckEachFounder, FindPair, InsertTalk, InsertParticipants, OpenTalk, Publish
  <1>3. CASE AuthorizePart(r) \/ FindPart(r)
    BY <1>3 DEF AuthorizePart, FindPart, PartOps
  <1>4. CASE SavePart(r) \/ CountActive(r) \/ AddEach(r) \/ FindAdded(r) \/ SaveAdded(r)
    BY <1>4 DEF SavePart, CountActive, AddEach, FindAdded, SaveAdded
  <1>5. CASE FindTalk(r) \/ AssertActiveParticipant(r) \/ InsertMessage(r) \/ SaveLast(r) \/
            DeleteMessage(r)
    BY <1>5 DEF FindTalk, AssertActiveParticipant, InsertMessage, SaveLast, DeleteMessage
  <1>6. QED
    BY <1>1, <1>2, <1>3, <1>4, <1>5 DEF MessagingStep

LEMMA ListBlind ==
  ASSUME FeedTyped, FeedPaths, NEW r \in Requests, ListMessages(r) \/ ListStep(r)
  PROVE  Blind(r)
  BY DEF Blind, Ways, Own, Turn, LocalsTyped, BlockTyped, FeedTyped, FeedPaths, FeedWay, FeedOps,
     NewsfeedOps, Goto, Show, locals, ListMessages, ListStep, List, Selections, GetGroup,
     ListMembers, GetConversation, FindMemberships, ListConversations

----------------------------------------------------------------------------
\* How a step of r may change the links that are there.
Cuts(r) ==
  /\ pc[r] # "ok" /\ pc'[r] # "idle"
  /\ \A l \in Requests : links[l] # NONE /\ links'[l] # links[l] =>
       \/ /\ Kind(l) \in {"FOLLOW", "BLOCK"} /\ Kind(r) \in {"FOLLOW", "BLOCK"}
          /\ By(r) = By(l) /\ To(r) = To(l) /\ pc[r] # "idle"
       \/ /\ Kind(l) = "FRIEND"
          /\ \/ links[l].status = "PENDING"
             \/ r \in stale' /\ Op(r) = "respondFriendRequest"

LEMMA TiesStay ==
  ASSUME BInv, FInv, NEW r \in Requests, UNCHANGED call, Ways(r), Cuts(r),
         NEW q \in Requests, before'[q] = before[q], NEW u
  PROVE  /\ Befriended(q, u) => Befriended(q, u)'
         /\ Followed(q, u) => Followed(q, u)'
  <1> USE SameWords
  <1>1. stale \subseteq stale' /\ r \notin before[q] /\ pc'[r] # "idle"
    BY DEF Ways, Own, Cuts, BInv, Begun
  <1>2. ASSUME Befriended(q, u)
        PROVE  Befriended(q, u)'
    <2>1. CASE \E s \in stale : Op(s) = "respondFriendRequest"
      BY <1>1, <2>1 DEF Befriended, Op
    <2>2. CASE IsFriend(By(q), u)
      <3>1. PICK l \in Linked("FRIEND", By(q), u) \cup Linked("FRIEND", u, By(q)) :
              links[l].status = "ACCEPTED"
        BY <2>2 DEF IsFriend
      <3>2. CASE links'[l] = links[l]
        <4>1. l \in Linked("FRIEND", By(q), u)' \cup Linked("FRIEND", u, By(q))'
          BY <3>1, <3>2 DEF Linked
        <4>2. QED
          BY <3>1, <3>2, <4>1 DEF IsFriend, Befriended
      <3>3. CASE links'[l] # links[l]
        <4>1. r \in stale' /\ Op(r) = "respondFriendRequest"
          BY <3>1, <3>3 DEF Linked, Cuts
        <4>2. QED
          BY <4>1 DEF Befriended
      <3>4. QED
        BY <3>2, <3>3
    <2>3. QED
      BY <1>2, <2>1, <2>2 DEF Befriended
  <1>3. ASSUME Followed(q, u)
        PROVE  Followed(q, u)'
    <2>1. CASE \E s \in Requests : /\ Kind(s) \in {"FOLLOW", "BLOCK"} /\ By(s) = By(q)
                                   /\ To(s) = u /\ pc[s] # "idle" /\ s \notin before[q]
      BY <1>1, <2>1 DEF Followed, Ways, Turn
    <2>2. CASE Follows(By(q), u)
      <3>1. PICK l \in Requests : /\ links[l] # NONE /\ Kind(l) = "FOLLOW"
                                  /\ By(l) = By(q) /\ To(l) = u
        BY <2>2 DEF Follows, Linked
      <3>2. CASE links'[l] = links[l]
        BY <3>1, <3>2 DEF Follows, Linked, Followed
      <3>3. CASE links'[l] # links[l]
        BY <1>1, <3>1, <3>3 DEF Cuts, Followed
      <3>4. QED
        BY <3>2, <3>3
    <2>3. QED
      BY <1>3, <2>1, <2>2 DEF Followed
  <1>4. QED
    BY <1>2, <1>3

\* What has been shown stays justified.
LEMMA ShownStays ==
  ASSUME BInv, FInv, NEW r \in Requests, UNCHANGED call, Ways(r), Cuts(r),
         NEW q \in Requests, before'[q] = before[q], NEW x
  PROVE  Visible(q, x) => Visible(q, x)'
  <1> By(x)' = By(x) /\ Privacy(x)' = Privacy(x) /\ By(q)' = By(q)
    BY DEF By, Privacy, Op, Arg
  <1> QED
    BY TiesStay DEF Visible

LEMMA OthersJustified ==
  ASSUME BInv, FInv, NEW r \in Requests, UNCHANGED call, Ways(r), Cuts(r),
         NEW q \in Requests \ {r}, Op(q) \in FeedOps
  PROVE  Justified(q)'
  <1>1. Justified(q)
    BY DEF FInv, FeedsJustified
  <1>2. /\ before'[q] = before[q] /\ shown'[q] = shown[q] /\ seen'[q] = seen[q]
        /\ pc'[q] = pc[q] /\ On(q)' = On(q)
    BY DEF Ways, Turn, Own, On
  <1>3. QED
    BY <1>1, <1>2, TiesStay, ShownStays DEF Justified

LEMMA BlindKeeps ==
  ASSUME BInv, FInv, BInv', NEW r \in Requests, UNCHANGED call, Blind(r), Cuts(r)
  PROVE  FInv'
  <1> USE SameWords
  <1>1. FeedTyped'
    BY DEF BInv, FeedTyped, Blind, Ways, Own
  <1>2. FeedPaths'
    BY DEF FInv, FeedPaths, Blind, Ways, Own
  <1>3. LinksFound'
    <2> SUFFICES ASSUME NEW q \in Requests, pc'[q] \in {"drop", "answer"}
                 PROVE  /\ pc'[q] = "drop" => /\ Kind(q) \in {"FOLLOW", "BLOCK"}
                                              /\ (target[q] \in Requests)'
                                              /\ (Kind(target[q]) = Kind(q))'
                                              /\ (By(target[q]) = By(q))'
                                              /\ (To(target[q]) = To(q))'
                        /\ pc'[q] = "answer" => /\ Op(q) = "respondFriendRequest"
                                                /\ seen'[q].status = "PENDING"
      BY DEF LinksFound
    <2>1. q # r /\ pc'[q] = pc[q] /\ target'[q] = target[q] /\ seen'[q] = seen[q]
      BY DEF Blind, Ways, Own
    <2>2. QED
      BY <2>1 DEF FInv, LinksFound
  <1>4. FeedsJustified'
    BY OthersJustified DEF FeedsJustified, Blind
  <1>5. QED
    BY <1>1, <1>2, <1>3, <1>4 DEF FInv

LEMMA UncutBlind ==
  ASSUME FInv, BInv, NEW r \in Requests, Blind(r), Apart(r) \/ StartTalk(r), UNCHANGED links
  PROVE  Cuts(r)
  BY DEF Cuts, Blind, Apart, StartTalk, Goto, FInv, FeedTyped, LocalsTyped, Ended

\* The connections: what is dropped is a follow or a block of the caller.
LEMMA ConnectionFeeds ==
  ASSUME BInv, FInv, BInv', NEW r \in Requests, UNCHANGED <<call, shown>>, ConnectionStep(r)
  PROVE  FInv'
  <1> USE DEF Goto, Reads, Writes, Sees, locals, linkVars
  <1>0. /\ LocalsTyped /\ BlockTyped /\ FeedPaths /\ LinksFound /\ LinkPaths
        /\ FeedTyped /\ FeedsJustified
    BY DEF BInv, FInv, FeedTyped
  <1>1. Ways(r) /\ Op(r) \notin FeedOps /\ pc[r] # "ok" /\ pc'[r] # "idle"
    <2> USE <1>0 DEF Ways, Own, Turn, LocalsTyped, BlockTyped, FeedTyped, FeedPaths, FeedWay, FeedOps,
                     NewsfeedOps
    <2>1. CASE FindLink(r)
      BY <2>1 DEF FindLink, Kind
    <2>2. CASE CheckBlock(r) \/ Link(r) \/ Drop(r) \/ Unfollow(r)
      BY <2>2 DEF CheckBlock, Link, Drop, Unfollow
    <2>3. CASE CountFollower(r) \/ CountFollowing(r) \/ Log(r)
      BY <2>3 DEF CountFollower, CountFollowing, Log
    <2>4. CASE FindRequest(r) \/ Answer(r) \/ CountFriend(r)
      BY <2>4 DEF FindRequest, Answer, CountFriend
    <2>5. CASE FindProfile(r) \/ SaveProfile(r) \/ GetUserProfile(r) \/ FindTies(r) \/ Suggest(r)
      BY <2>5 DEF FindProfile, SaveProfile, GetUserProfile, FindTies, Suggest
    <2>6. QED
      BY <2>1, <2>2, <2>3, <2>4, <2>5 DEF ConnectionStep
  <1>2. Cuts(r)
    <2>1. CASE Unfollow(r)
      <3>1. \A l \in Requests : links[l] # NONE /\ links'[l] # links[l] =>
              l \in Linked("FOLLOW", By(r), To(r))
        BY <2>1 DEF Unfollow
      <3>2. Kind(r) = "BLOCK" /\ pc[r] # "idle"
        BY <1>0, <2>1 DEF Unfollow, LinkPaths
      <3>3. QED
        BY <1>1, <3>1, <3>2 DEF Cuts, Linked
    <2>2. CASE Link(r)
      <3>1. \A l \in Requests : links'[l] # links[l] => l = r
        BY <1>0, <2>2 DEF Link, BlockTyped
      <3>2. links[r] = NONE
        BY <2>2 DEF Link, Linked
      <3>3. QED
        BY <1>1, <3>1, <3>2 DEF Cuts
    <2>3. CASE Drop(r)
      <3>1. \A l \in Requests : links'[l] # links[l] => l = target[r]
        BY <1>0, <2>3 DEF Drop, BlockTyped
      <3>2. QED
        BY <1>0, <1>1, <2>3, <3>1 DEF Cuts, Drop, LinksFound
    <2>4. CASE Answer(r)
      <3>1. \A l \in Requests : links'[l] # links[l] => l = target[r]
        BY <1>0, <2>4 DEF Answer, BlockTyped
      <3>2. Kind(target[r]) = "FRIEND" /\ seen[r].status = "PENDING"
            /\ Op(r) = "respondFriendRequest"
        BY <1>0, <2>4 DEF Answer, LinkPaths, LinksFound
      <3>3. links[target[r]] = seen[r] \/ r \in stale'
        BY <2>4 DEF Answer
      <3>4. QED
        BY <1>1, <3>1, <3>2, <3>3 DEF Cuts
    <2>5. CASE UNCHANGED links
      BY <1>1, <2>5 DEF Cuts
    <2>6. QED
      BY <2>1, <2>2, <2>3, <2>4, <2>5 DEF ConnectionStep, FindLink, CheckBlock, CountFollower,
         CountFollowing, Log, FindRequest, CountFriend, FindProfile, SaveProfile,
         GetUserProfile, FindTies, Suggest
  <1>3. CASE FindLink(r) /\ pc'[r] = "drop"
    <2>1. PICK l \in Linked(Kind(r), By(r), To(r)) : target'[r] = l /\ Kind(r) \in {"FOLLOW", "BLOCK"}
      BY <1>0, <1>3 DEF FindLink, BlockTyped, Kind
    <2>2. LinksFound'
      BY <1>0, <1>1, <1>3, <2>1, SameWords DEF LinksFound, Linked, Ways, Own
    <2>3. FeedTyped' /\ FeedPaths'
      BY <1>0, <1>1, SameWords DEF BInv, FeedTyped, FeedPaths, Ways, Own
    <2>4. FeedsJustified'
      BY <1>1, <1>2, OthersJustified, SameWords DEF FeedsJustified
    <2>5. QED
      BY <2>2, <2>3, <2>4 DEF FInv
  <1>4. CASE FindRequest(r)
    <2>1. seen'[r].status = "PENDING" /\ Op(r) = "respondFriendRequest" /\ pc'[r] = "answer"
      BY <1>0, <1>4 DEF FindRequest, LocalsTyped
    <2>2. LinksFound'
      BY <1>0, <1>1, <2>1, SameWords DEF LinksFound, Ways, Own
    <2>3. FeedTyped' /\ FeedPaths'
      BY <1>0, <1>1, SameWords DEF BInv, FeedTyped, FeedPaths, Ways, Own
    <2>4. FeedsJustified'
      BY <1>1, <1>2, OthersJustified, SameWords DEF FeedsJustified
    <2>5. QED
      BY <2>2, <2>3, <2>4 DEF FInv
  <1>5. CASE pc'[r] \notin {"drop", "answer"}
    BY <1>1, <1>2, <1>5, BlindKeeps DEF Blind
  <1>6. pc'[r] = "drop" => FindLink(r)
    BY <1>0 DEF ConnectionStep, CheckBlock, Link, Drop, Unfollow, CountFollower, CountFollowing, Log,
       FindRequest, Answer, CountFriend, FindProfile, SaveProfile, GetUserProfile, FindTies, Suggest,
       LocalsTyped
  <1>7. pc'[r] = "answer" => FindRequest(r)
    BY <1>0 DEF ConnectionStep, FindLink, CheckBlock, Link, Drop, Unfollow, CountFollower,
       CountFollowing, Log, Answer, CountFriend, FindProfile, SaveProfile, GetUserProfile, FindTies,
       Suggest, LocalsTyped
  <1>8. QED
    BY <1>3, <1>4, <1>5, <1>6, <1>7

\* The feeds: what they add they have a reason for.
LEMMA FeedJustifies ==
  ASSUME BInv, FInv, NEW r \in Requests, UNCHANGED <<call, links>>, FeedStep(r),
         Ways(r), Cuts(r), Op(r) \in FeedOps
  PROVE  Justified(r)'
  <1> USE DEF Goto, locals
  <1>0. FeedTyped /\ LocalsTyped /\ Justified(r) /\ On(r)' = On(r)
    BY DEF FInv, FeedTyped, FeedsJustified, On
  <1>1. ASSUME pc[r] # "idle"
        PROVE  /\ \A x : Visible(r, x) => Visible(r, x)'
               /\ \A u : Befriended(r, u) => Befriended(r, u)'
               /\ \A u : Followed(r, u) => Followed(r, u)'
    BY <1>1, ShownStays, TiesStay DEF Ways, Turn
  <1>2. \A x : (By(x) = By(r) \/ Privacy(x) = "PUBLIC") => Visible(r, x)'
    BY DEF Visible, By, Privacy, Op, Arg
  <1>3. CASE FindPostById(r)
    BY <1>0, <1>2, <1>3 DEF FindPostById, feedVars, LocalsTyped, Justified
  <1>4. CASE CheckTie(r)
    <2>1. Visible(r, On(r))
      BY <1>4 DEF CheckTie, Tied, Visible, Befriended, Followed
    <2>2. QED
      BY <1>0, <1>1, <1>4, <2>1 DEF CheckTie, feedVars, LocalsTyped, Justified
  <1>5. CASE Attach(r)
    <2>1. shown'[r] = {On(r)} /\ pc[r] = "attach" /\ pc'[r] = "viewed"
      BY <1>0, <1>5 DEF Attach, Show, FeedTyped, LocalsTyped
    <2>2. Visible(r, On(r))'
      BY <1>0, <1>1, <2>1 DEF Justified
    <2>3. QED
      BY <1>0, <2>1, <2>2 DEF Justified
  <1>6. CASE CountView(r) \/ EndHashtagFeed(r) \/ FindTagPosts(r)
    <2>1. shown'[r] = shown[r] /\ pc[r] # "idle" /\ pc'[r] \in {"ok", "tag_each"}
      BY <1>0, <1>6 DEF CountView, EndHashtagFeed, FindTagPosts, feedVars, LocalsTyped
    <2>2. QED
      BY <1>0, <1>1, <2>1 DEF Justified
  <1>7. CASE FindConnections(r)
    <2>1. shown'[r] = {} /\ pc'[r] = "feed_posts"
      BY <1>0, <1>7 DEF FindConnections, feedVars, LocalsTyped, Justified
    <2>2. /\ \A u \in seen'[r].friends : IsFriend(By(r), u)
          /\ \A u \in seen'[r].following : Follows(By(r), u)
      BY <1>0, <1>7 DEF FindConnections, Reads, LocalsTyped
    <2>3. \A u : (IsFriend(By(r), u) => Befriended(r, u)') /\ (Follows(By(r), u) => Followed(r, u)')
      BY SameWords DEF Befriended, Followed, IsFriend, Follows, Linked
    <2>4. QED
      BY <2>1, <2>2, <2>3 DEF Justified
  <1>8. CASE FindFeedPosts(r)
    <2>1. shown'[r] = {p \in Requests : InNewsfeed(r, p)} /\ pc[r] = "feed_posts" /\ pc'[r] = "ok"
      BY <1>0, <1>8 DEF FindFeedPosts, Show, FeedTyped, LocalsTyped
    <2>2. \A p \in shown'[r] : Visible(r, p)
      BY <1>0, <2>1 DEF InNewsfeed, Visible, Justified
    <2>3. QED
      BY <1>1, <2>1, <2>2 DEF Justified
  <1>9. CASE FindTagged(r)
    BY <1>0, <1>9 DEF FindTagged, LocalsTyped, Justified
  <1>10. CASE CheckEach(r)
    <2>1. PICK p : /\ shown'[r] \subseteq shown[r] \cup {p}
                   /\ p \in shown'[r] => p \in shown[r] \/ ViewerMaySeePost(r, p)
      BY <1>0, <1>10 DEF CheckEach, FeedTyped
    <2>2. \A x \in shown'[r] : Visible(r, x)
      BY <1>0, <2>1 DEF Justified, ViewerMaySeePost, Tied, Visible, Befriended, Followed
    <2>3. QED
      BY <1>0, <1>1, <1>10, <2>2 DEF CheckEach, LocalsTyped, Justified
  <1>11. QED
    BY <1>3, <1>4, <1>5, <1>6, <1>7, <1>8, <1>9, <1>10 DEF FeedStep

LEMMA FeedKeeps ==
  ASSUME BInv, FInv, BInv', NEW r \in Requests, UNCHANGED <<call, links>>, FeedStep(r)
  PROVE  FInv'
  <1> USE DEF FInv
  <1>1. /\ Ways(r) /\ pc[r] # "ok" /\ pc[r] # "failed"
        /\ pc'[r] \in FeedWay \cup {"ok"}
    <2> USE DEF Ways, Own, Turn, LocalsTyped, BlockTyped, FeedTyped, FeedWay, Goto, Reads, locals,
                feedVars
    <2>1. CASE FindPostById(r) \/ CheckTie(r) \/ FindConnections(r)
      BY <2>1 DEF FindPostById, CheckTie, FindConnections
    <2>2. CASE FindFeedPosts(r) \/ FindTagged(r) \/ FindTagPosts(r) \/ CheckEach(r)
               \/ EndHashtagFeed(r)
      BY <2>2 DEF FindFeedPosts, Show, FindTagged, FindTagPosts, CheckEach, EndHashtagFeed
    <2>3. CASE Attach(r) \/ CountView(r)
      BY <2>3 DEF Attach, Show, CountView
    <2>4. QED
      BY <2>1, <2>2, <2>3 DEF FeedStep
  <1>2. Cuts(r)
    BY <1>1 DEF Cuts, FeedWay
  <1>3. FeedTyped' /\ FeedPaths' /\ LinksFound'
    BY <1>1, SameWords DEF BInv, FeedTyped, FeedPaths, LinksFound, FeedWay, Ways, Own
  <1>4. FeedsJustified'
    BY <1>1, <1>2, OthersJustified, FeedJustifies, SameWords DEF FeedsJustified
  <1>5. QED
    BY <1>3, <1>4

LEMMA FailFeeds ==
  ASSUME BInv, FInv, BInv', NEW r \in Requests, UNCHANGED <<call, links, shown>>, Fails(r)
  PROVE  FInv'
  <1> USE DEF FInv
  <1>1. Ways(r) /\ pc'[r] = "failed" /\ pc[r] # "idle" /\ pc[r] # "ok"
    BY DEF Fails, Ended, Ways, Own, Turn, LocalsTyped, BlockTyped, FeedTyped, Goto, locals
  <1>2. Cuts(r)
    BY <1>1 DEF Cuts
  <1>3. FeedTyped' /\ FeedPaths' /\ LinksFound'
    BY <1>1, SameWords DEF BInv, FeedTyped, FeedPaths, LinksFound, Ways, Own
  <1>4. Op(r) \in FeedOps => Justified(r)'
    BY <1>1, <1>2, ShownStays DEF FeedsJustified, Justified, Ways, Turn
  <1>5. FeedsJustified'
    BY <1>2, <1>1, <1>4, OthersJustified, SameWords DEF FeedsJustified
  <1>6. QED
    BY <1>3, <1>5

LEMMA InitFInv == Init => FInv
  <1> SUFFICES ASSUME Init
               PROVE  FInv
    OBVIOUS
  <1>1. FeedTyped
    BY DEF Init, CallsInit, LinksInit, FeedInit, FeedTyped, LocalsTyped, BlockTyped
  <1>2. \A r \in Requests : pc[r] \in {"idle", "ok"} /\ shown[r] = {}
    BY DEF Init, CallsInit, FeedInit
  <1>3. QED
    BY <1>1, <1>2 DEF FInv, FeedPaths, LinksFound, FeedsJustified, Justified

LEMMA StepFInv == BInv /\ BInv' /\ FInv /\ [Next]_vars => FInv'
  <1> SUFFICES ASSUME BInv, BInv', FInv, [Next]_vars
               PROVE  FInv'
    OBVIOUS
  <1>1. CASE UNCHANGED vars
    BY <1>1 DEF vars, callVars, locals, linkVars, feedVars, FInv, FeedTyped, LocalsTyped, BlockTyped,
       FeedPaths, LinksFound, FeedsJustified, Justified, Visible, Befriended, Followed, IsFriend,
       Follows, Linked, Privacy, Kind, Op, By, To, On, Arg
  <1>2. CASE Next
    <2>1. PICK r \in Requests : Step(r) /\ UNCHANGED call
      BY <1>2 DEF Next
    <2>2. FeedTyped /\ FeedPaths /\ BlockTyped
      BY DEF FInv, FeedTyped
    <2>3. CASE ConnectionStep(r) /\ UNCHANGED feedVars
      BY <2>1, <2>3, ConnectionFeeds DEF feedVars
    <2>4. CASE FeedStep(r) /\ UNCHANGED linkVars
      BY <2>1, <2>4, FeedKeeps DEF linkVars
    <2>5. CASE Fails(r) /\ UNCHANGED <<linkVars, feedVars>>
      BY <2>1, <2>5, FailFeeds DEF linkVars, feedVars
    <2>6. CASE Blind(r) /\ (Apart(r) \/ StartTalk(r)) /\ UNCHANGED linkVars
      BY <2>1, <2>6, BlindKeeps, UncutBlind DEF linkVars
    <2>7. CASE /\ NoticeStep(r) \/ ContentStep(r) \/ MembershipStep(r) \/ MessagingStep(r)
               /\ UNCHANGED <<linkVars, feedVars>>
      BY <2>2, <2>6, <2>7, NoticeBlind, NoticeApart, ContentBlind, ContentApart,
         MembershipBlind, MembershipApart, MessagingBlind, MessagingApart DEF feedVars
    <2>8. CASE /\ GroupPostStep(r) \/ ListMessages(r) \/ ListStep(r)
               /\ UNCHANGED linkVars
      BY <2>2, <2>6, <2>8, GroupPostBlind, GroupPostApart, ListBlind, ListApart
    <2>9. QED
      BY <2>1, <2>3, <2>4, <2>5, <2>7, <2>8 DEF Step
  <1>3. QED
    BY <1>1, <1>2

\* NewsfeedService, getPostById and the feed of a hashtag: no feed shows a post
\* that its privacy withholds from the viewer, whoever befriends, follows or
\* blocks whom meanwhile.
THEOREM FeedsKeepPrivacy == Spec => []FeedsRespectPrivacy
  <1>1. FInv => FeedsRespectPrivacy
    BY DEF FInv, FeedsJustified, Justified, Visible, Befriended, Followed, FeedsRespectPrivacy
  <1>2. QED
    BY <1>1, InitBInv, StepBInv, InitFInv, StepFInv, PTL DEF Spec

----------------------------------------------------------------------------
(* The types of all tables, and what a call carries from await to await *)

\* The operations that pass through an await.
Fits(op, label) ==
  /\ label \in {"unfollow"} => op = "toggleBlock"
  /\ label \in {"drop"} => op \in {"toggleFollow", "toggleBlock"}
  /\ label = "blocked?" => op \in {"toggleFollow", "sendFriendRequest"}
  /\ label = "link" => op \in {"toggleFollow", "sendFriendRequest", "toggleBlock"}
  /\ label \in {"followers", "following"} => op = "toggleFollow"
  /\ label = "log" => op \in {"toggleFollow", "sendFriendRequest"}
  /\ label \in {"answer", "friend", "other_friend"} => op = "respondFriendRequest"
  /\ label = "profile" => op \in {"updateProfile", "getMyProfile"}
  /\ label = "candidates" => op = "getSuggestions"
  /\ label = "notify" => op \in {"createPost", "createComment", "toggleReaction", "joinGroup",
                                 "approveMember", "createGroupPost"} \cup ReviewOps
  /\ label = "mark" => op = "markNoticeRead"
  /\ label \in {"media", "tags"} => op = "createPost"
  /\ label \in {"unindex", "index"} => op \in {"createPost", "createGroupPost", "approveGroupPost"}
  /\ label \in {"del_post", "del_media", "del_tags"} => op = "deletePost"
  /\ label \in {"repost", "share"} => op = "repost"
  /\ label \in {"comment", "count_comment", "count_reply", "mention"} => op = "createComment"
  /\ label \in {"del_comment", "uncount_comment", "uncount_reply"} => op = "deleteComment"
  /\ label \in {"reaction", "unreact", "rereact", "react", "count_like", "uncount_like",
                "like_notice"} => op = "toggleReaction"
  /\ label = "view_story" => op = "viewStory"
  /\ label = "del_story" => op = "deleteStory"
  /\ label \in {"tie?", "attach", "viewed"} => op = "getPostById"
  /\ label = "feed_posts" => op = "getNewsfeed"
  /\ label \in {"tag_posts", "tag_each"} => op = "listPostsForHashtag"
  /\ label \in {"slug", "group", "owner"} => op = "createGroup"
  /\ label = "join" => op = "joinGroup"
  /\ label = "moderators" => op \in {"joinGroup", "createGroupPost"}
  /\ label = "member" => op \in MemberOps \ {"leaveGroup"}
  /\ label = "member_row" => op \in MemberOps
  /\ label = "count_member" => op \in {"joinGroup", "approveMember", "leaveGroup", "removeMember"}
  /\ label = "group_post" => op = "createGroupPost"
  /\ label = "count_post" => op \in {"createGroupPost", "approveGroupPost"}
  /\ label \in {"pending_post", "review"} => op \in ReviewOps
  /\ label = "posts" => op = "listGroupPosts"
  /\ label = "members" => op = "listMembers"
  /\ label = "pair" => op = "createDirectConversation"
  /\ label = "blocked_each" => op = "createGroupConversation"
  /\ label \in {"talk", "participants", "open"} => op \in TalkMakers
  /\ label = "part" => op \in PartOps \ {"markRead"}
  /\ label = "part_row" => op \in PartOps
  /\ label \in {"active_count", "add", "add_find", "add_row"} => op = "addGroupMembers"
  /\ label = "in_talk" => op \in {"sendMessage", "deleteMessage", "listMessages"}
  /\ label \in {"message", "last"} => op = "sendMessage"
  /\ label = "del_message" => op = "deleteMessage"
  /\ label = "messages" => op = "listMessages"
  /\ label = "publish" => op \in {"createGroupConversation", "removeParticipant",
       "updateParticipantRole", "addGroupMembers", "sendMessage", "deleteMessage"}
  /\ label = "conversations" => op = "listConversations"

\* What a request carries there.
Carries(r) ==
  /\ pc[r] = "idle" => seen[r] = NONE /\ target[r] = NONE
  /\ pc[r] \in {"slug", "group"} => seen[r] \in GroupRows
  /\ pc[r] = "profile" => seen[r] \in Counters \cup {NONE}
  /\ pc[r] = "answer" => seen[r] \in LinkRows
  /\ pc[r] \in {"answer", "friend", "other_friend"} => target[r] = On(r)
  /\ pc[r] = "del_post" => seen[r] \in PostRows
  /\ pc[r] \in {"del_post", "del_media", "del_tags"} => target[r] = On(r)
  /\ pc[r] = "review" => seen[r] \in PostRows /\ target[r] = On(r)
  /\ pc[r] = "del_comment" => seen[r] \in CommentRows
  /\ pc[r] \in {"del_comment", "uncount_comment", "uncount_reply"} => target[r] = On(r)
  /\ pc[r] \in {"view_story", "del_story"} => seen[r] \in StoryRows /\ target[r] = On(r)
  /\ pc[r] = "member_row" => seen[r] \in MemberRows
  /\ pc[r] = "part_row" => seen[r] \in PartRows
  /\ pc[r] \in {"add_find", "add_row"} => target[r] \in todo[r]
  /\ pc[r] = "add_row" => seen[r] \in PartRows \cup {NONE}
  /\ pc[r] \in {"add", "add_find", "add_row"} => todo[r] \subseteq call[r].to
  /\ Op(r) = "deleteMessage" /\ pc[r] \in {"in_talk", "del_message"} => seen[r] \in MessageRows

Walks == \A r \in Requests : Fits(Op(r), pc[r]) /\ Carries(r)
TInv == TypeOK /\ Walks
CallsOK ==
  /\ call \in Plans
  /\ pc \in [Requests -> Labels]
  /\ target \in [Requests -> Requests \cup People \cup {NONE}]
  /\ seen \in [Requests -> Rows \cup {NONE}]
  /\ todo \in [Requests -> SUBSET People]
  /\ stale \subseteq Requests
  /\ before \in [Requests -> SUBSET Requests]
LinksOK ==
  /\ links \in [Requests -> LinkRows \cup {NONE}]
  /\ profiles \in [People -> Counters \cup {NONE}]
  /\ activity \subseteq Requests
NoticesOK ==
  /\ notices \subseteq People \X Requests
  /\ unread \subseteq notices
ContentOK ==
  /\ posts \in [Requests -> PostRows \cup {NONE}]
  /\ comments \in [Requests -> CommentRows \cup {NONE}]
  /\ reactions \in [Requests -> ReactionRows \cup {NONE}]
  /\ stories \in [Requests -> StoryRows \cup {NONE}]
  /\ docs \in [Requests -> Documents]
FeedOK ==
  /\ listed \in [Requests -> SUBSET Requests]
  /\ shown \in [Requests -> SUBSET Requests]
GroupsOK ==
  /\ groups \in [Requests -> GroupRows \cup {NONE}]
  /\ members \in [Requests -> MemberRows \cup {NONE}]
TalksOK ==
  /\ talks \in [Requests -> TalkRows \cup {NONE}]
  /\ parts \in [Requests \X People -> PartRows \cup {NONE}]
  /\ messages \in [Requests -> MessageRows \cup {NONE}]

\* A step of r leaves the others where they are, and r where its operation may be.
LocalsOK ==
  /\ target \in [Requests -> Requests \cup People \cup {NONE}]
  /\ seen \in [Requests -> Rows \cup {NONE}]
  /\ todo \in [Requests -> SUBSET People]
  /\ stale \subseteq Requests
Walk(r) ==
  /\ pc' \in [Requests -> Labels] /\ pc'[r] # "idle"
  /\ before' \in [Requests -> SUBSET Requests]
  /\ \A q \in Requests \ {r} : pc'[q] = pc[q] /\ before'[q] = before[q]
  /\ before'[r] = IF pc[r] = "idle" THEN {s \in Requests : pc[s] = "ok"} ELSE before[r]
Hands(r) ==
  /\ LocalsOK' /\ stale \subseteq stale'
  /\ \A q \in Requests \ {r} : target'[q] = target[q] /\ seen'[q] = seen[q] /\ todo'[q] = todo[q]
Moves(r) == Walk(r) /\ Hands(r) /\ Fits(Op(r), pc'[r]) /\ Carries(r)'

LEMMA Goes ==
  ASSUME TypeOK, NEW r \in Requests, NEW label \in Labels \ {"idle"}, Goto(r, label)
  PROVE  Walk(r) /\ pc'[r] = label
  BY DEF TypeOK, Goto, Walk
LEMMA Stays ==
  ASSUME TypeOK, NEW r \in Requests, UNCHANGED locals
  PROVE  Hands(r) /\ target'[r] = target[r] /\ seen'[r] = seen[r] /\ todo'[r] = todo[r]
  BY DEF TypeOK, locals, Hands, LocalsOK
LEMMA HasRead ==
  ASSUME TypeOK, NEW r \in Requests, NEW id \in Requests \cup People \cup {NONE},
         NEW row \in Rows \cup {NONE}, Reads(r, id, row)
  PROVE  Hands(r) /\ target'[r] = id /\ seen'[r] = row /\ todo'[r] = todo[r]
  BY DEF TypeOK, Reads, Hands, LocalsOK
LEMMA HasWritten ==
  ASSUME TypeOK, NEW r \in Requests, NEW row, Writes(r, row)
  PROVE  Hands(r) /\ target'[r] = target[r] /\ seen'[r] = seen[r] /\ todo'[r] = todo[r]
  BY DEF TypeOK, Writes, Hands, LocalsOK
LEMMA HasSeen ==
  ASSUME TypeOK, NEW r \in Requests, NEW people \in SUBSET People, Sees(r, people)
  PROVE  Hands(r) /\ target'[r] = target[r] /\ seen'[r] = seen[r] /\ todo'[r] = people
  BY DEF TypeOK, Sees, Hands, LocalsOK
LEMMA RowsSeen ==
  ASSUME TypeOK
  PROVE  /\ \A r \in Requests :
              /\ links[r] \in Rows \cup {NONE} /\ posts[r] \in Rows \cup {NONE}
              /\ comments[r] \in Rows \cup {NONE} /\ reactions[r] \in Rows \cup {NONE}
              /\ stories[r] \in Rows \cup {NONE} /\ groups[r] \in Rows \cup {NONE}
              /\ members[r] \in Rows \cup {NONE} /\ talks[r] \in Rows \cup {NONE}
              /\ messages[r] \in Rows \cup {NONE} /\ seen[r] \in Rows \cup {NONE}
         /\ \A u \in People : profiles[u] \in Rows \cup {NONE}
         /\ \A x \in Requests \X People : parts[x] \in Rows \cup {NONE}
  BY DEF TypeOK, Rows

LEMMA PutTyped ==
  ASSUME NEW D, NEW R, NEW f \in [D -> R], NEW x, NEW y \in R
  PROVE  [f EXCEPT ![x] = y] \in [D -> R]
  OBVIOUS

LEMMA BumpTyped ==
  ASSUME NEW Shape, NEW table \in [Requests -> Shape \cup {NONE}], NEW x, NEW counter, NEW n,
         \A row \in Shape : [row EXCEPT ![counter] = row[counter] + n] \in Shape
  PROVE  Bump(table, x, counter, n) \in [Requests -> Shape \cup {NONE}]
  <1> DEFINE row == [table[x] EXCEPT ![counter] = table[x][counter] + n]
  <1>1. CASE x \in Requests /\ table[x] # NONE
    <2>1. row \in Shape
      BY <1>1
    <2>2. Bump(table, x, counter, n) = [table EXCEPT ![x] = row]
      BY <1>1 DEF Bump
    <2> HIDE DEF row
    <2>3. QED
      BY <2>1, <2>2, PutTyped
  <1>2. CASE x \notin Requests /\ table[x] # NONE
    <2>1. Bump(table, x, counter, n) = [table EXCEPT ![x] = row]
      BY <1>2 DEF Bump
    <2> HIDE DEF row
    <2>2. QED
      BY <1>2, <2>1
  <1>3. CASE table[x] = NONE
    BY <1>3 DEF Bump
  <1>4. QED
    BY <1>1, <1>2, <1>3

LEMMA PostsBumped ==
  ASSUME posts \in [Requests -> PostRows \cup {NONE}], NEW x, NEW n \in Int,
         NEW counter \in {"likes", "comments", "shares", "views"}
  PROVE  Bump(posts, x, counter, n) \in [Requests -> PostRows \cup {NONE}]
  <1>1. \A row \in PostRows : [row EXCEPT ![counter] = row[counter] + n] \in PostRows
    BY DEF PostRows
  <1>2. QED
    BY <1>1, BumpTyped
LEMMA CommentsBumped ==
  ASSUME comments \in [Requests -> CommentRows \cup {NONE}], NEW x, NEW n \in Int,
         NEW counter \in {"likes", "replies"}
  PROVE  Bump(comments, x, counter, n) \in [Requests -> CommentRows \cup {NONE}]
  <1>1. \A row \in CommentRows : [row EXCEPT ![counter] = row[counter] + n] \in CommentRows
    BY DEF CommentRows
  <1>2. QED
    BY <1>1, BumpTyped
LEMMA StoriesBumped ==
  ASSUME stories \in [Requests -> StoryRows \cup {NONE}], NEW x
  PROVE  Bump(stories, x, "views", 1) \in [Requests -> StoryRows \cup {NONE}]
  <1>1. \A row \in StoryRows : [row EXCEPT !["views"] = row["views"] + 1] \in StoryRows
    BY DEF StoryRows
  <1>2. QED
    BY <1>1, BumpTyped
LEMMA GroupsBumped ==
  ASSUME groups \in [Requests -> GroupRows \cup {NONE}], NEW x, NEW n \in Int,
         NEW counter \in {"members", "posts"}
  PROVE  Bump(groups, x, counter, n) \in [Requests -> GroupRows \cup {NONE}]
  <1>1. \A row \in GroupRows : [row EXCEPT ![counter] = row[counter] + n] \in GroupRows
    BY DEF GroupRows
  <1>2. QED
    BY <1>1, BumpTyped

LEMMA CountedTyped ==
  ASSUME LinksOK, NEW u \in People, NEW counter \in {"followers", "following", "friends"}, NEW n \in Int
  PROVE  Counted(u, counter, n) \in [People -> Counters \cup {NONE}]
  <1>1. CASE profiles[u] # NONE
    <2> DEFINE row == [profiles[u] EXCEPT ![counter] = profiles[u][counter] + n]
    <2>1. profiles[u] \in Counters
      BY <1>1 DEF LinksOK
    <2>2. row \in Counters
      BY <2>1 DEF Counters
    <2>3. Counted(u, counter, n) = [profiles EXCEPT ![u] = row]
      BY <1>1 DEF Counted
    <2> HIDE DEF row
    <2>4. QED
      BY <2>2, <2>3, PutTyped DEF LinksOK
  <1>2. CASE profiles[u] = NONE
    BY <1>2 DEF Counted, LinksOK
  <1>3. QED
    BY <1>1, <1>2

LEMMA ConnectionMoves ==
  ASSUME TInv, UNCHANGED call, NEW r \in Requests, ConnectionStep(r)
  PROVE  Moves(r) /\ LinksOK'
  <1> USE DEF linkVars
  <1>0. TypeOK
    BY DEF TInv
  <1>1. CASE FindLink(r)
    <2> USE <1>1 DEF FindLink
    <2>1. Walk(r) /\ Hands(r)
      BY Goes, Stays, HasRead, RowsSeen, CallsTyped DEF TInv, Labels, LinkLabels, Kind, Linked
    <2>2. Fits(Op(r), pc'[r])
      BY Goes DEF TInv, Labels, LinkLabels, Walks, Fits, Kind
    <2>3. Carries(r)'
      BY <2>2, Goes, Stays, HasRead, RowsSeen, CallsTyped DEF TInv, Labels, LinkLabels, Walks, Fits,
         Carries, Op, On, Linked
    <2>4. LinksOK'
      BY DEF TInv, TypeOK, LinksOK
    <2>5. QED
      BY <2>1, <2>2, <2>3, <2>4 DEF Moves
  <1>2. CASE CheckBlock(r)
    <2> USE <1>2 DEF CheckBlock
    <2>1. Walk(r) /\ Hands(r)
      BY Goes, Stays DEF TInv, Labels, LinkLabels
    <2>2. Fits(Op(r), pc'[r])
      BY Goes DEF TInv, Labels, LinkLabels, Walks, Fits
    <2>3. Carries(r)'
      BY <2>2, Goes, Stays DEF TInv, Labels, LinkLabels, Walks, Fits, Carries, Op, On
    <2>4. LinksOK'
      BY DEF TInv, TypeOK, LinksOK
    <2>5. QED
      BY <2>1, <2>2, <2>3, <2>4 DEF Moves
  <1>3. CASE Unfollow(r)
    <2> USE <1>3 DEF Unfollow
    <2>1. Walk(r) /\ Hands(r)
      BY Goes, Stays DEF TInv, Labels, LinkLabels
    <2>2. Fits(Op(r), pc'[r])
      BY Goes DEF TInv, Labels, LinkLabels, Walks, Fits
    <2>3. Carries(r)'
      BY <2>2, Goes, Stays DEF TInv, Labels, LinkLabels, Walks, Fits, Carries, Op, On
    <2>4. LinksOK'
      BY DEF TInv, TypeOK, LinksOK
    <2>5. QED
      BY <2>1, <2>2, <2>3, <2>4 DEF Moves
  <1>4. CASE Link(r)
    <2> USE <1>4 DEF Link
    <2>1. Walk(r) /\ Hands(r)
      BY Goes, Stays DEF TInv, Labels, LinkLabels, Kind
    <2>2. Fits(Op(r), pc'[r])
      BY Goes DEF TInv, Labels, LinkLabels, Walks, Fits, Kind
    <2>3. Carries(r)'
      BY <2>2, Goes, Stays DEF TInv, Labels, LinkLabels, Walks, Fits, Carries, Op, On, Kind
    <2>4. LinksOK'
      BY DEF TInv, TypeOK, LinksOK, LinkRows, LinkStatuses
    <2>5. QED
      BY <2>1, <2>2, <2>3, <2>4 DEF Moves
  <1>5. CASE Drop(r)
    <2> USE <1>5 DEF Drop
    <2>1. Walk(r) /\ Hands(r)
      BY Goes, HasWritten DEF TInv, Labels, LinkLabels, Kind
    <2>2. Fits(Op(r), pc'[r])
      BY Goes DEF TInv, Labels, LinkLabels, Walks, Fits, Kind
    <2>3. Carries(r)'
      BY <2>2, Goes, HasWritten DEF TInv, Labels, LinkLabels, Walks, Fits, Carries, Op, On, Kind
    <2>4. LinksOK'
      BY DEF TInv, TypeOK, LinksOK
    <2>5. QED
      BY <2>1, <2>2, <2>3, <2>4 DEF Moves
  <1>6. CASE CountFollower(r)
    <2> USE <1>6 DEF CountFollower
    <2>1. Walk(r) /\ Hands(r)
      BY Goes, Stays DEF TInv, Labels, LinkLabels
    <2>2. Fits(Op(r), pc'[r])
      BY Goes DEF TInv, Labels, LinkLabels, Walks, Fits
    <2>3. Carries(r)'
      BY <2>2, Goes, Stays DEF TInv, Labels, LinkLabels, Walks, Fits, Carries, Op, On
    <2>4. LinksOK'
      BY CallsTyped, CountedTyped DEF TInv, TypeOK, LinksOK, Sign, Walks, Fits, OfUser
    <2>5. QED
      BY <2>1, <2>2, <2>3, <2>4 DEF Moves
  <1>7. CASE CountFollowing(r)
    <2> USE <1>7 DEF CountFollowing
    <2>1. Walk(r) /\ Hands(r)
      BY Goes, Stays DEF TInv, Labels, LinkLabels
    <2>2. Fits(Op(r), pc'[r])
      BY Goes DEF TInv, Labels, LinkLabels, Walks, Fits
    <2>3. Carries(r)'
      BY <2>2, Goes, Stays DEF TInv, Labels, LinkLabels, Walks, Fits, Carries, Op, On
    <2>4. LinksOK'
      BY CallsTyped, CountedTyped DEF TInv, TypeOK, LinksOK, Sign
    <2>5. QED
      BY <2>1, <2>2, <2>3, <2>4 DEF Moves
  <1>8. CASE Log(r)
    <2> USE <1>8 DEF Log
    <2>1. Walk(r) /\ Hands(r)
      BY Goes, Stays DEF TInv, Labels, LinkLabels
    <2>2. Fits(Op(r), pc'[r])
      BY Goes DEF TInv, Labels, LinkLabels, Walks, Fits
    <2>3. Carries(r)'
      BY <2>2, Goes, Stays DEF TInv, Labels, LinkLabels, Walks, Fits, Carries, Op, On
    <2>4. LinksOK'
      BY DEF TInv, TypeOK, LinksOK
    <2>5. QED
      BY <2>1, <2>2, <2>3, <2>4 DEF Moves
  <1>9. CASE FindRequest(r)
    <2> USE <1>9 DEF FindRequest
    <2>6. On(r) \in Requests
      BY CallsTyped DEF TInv, TypeOK, OfRow
    <2>7. Reads(r, On(r), links[On(r)]) /\ Goto(r, "answer") /\ links[On(r)] \in LinkRows
      BY <2>6 DEF TInv, TypeOK
    <2>1. Walk(r) /\ Hands(r)
      BY <2>6, <2>7, Goes, HasRead, RowsSeen, CallsTyped DEF TInv, Labels, LinkLabels
    <2>2. Fits(Op(r), pc'[r])
      BY <2>6, <2>7, Goes DEF TInv, Labels, LinkLabels, Walks, Fits
    <2>3. Carries(r)'
      BY <2>2, <2>6, <2>7, Goes, HasRead, RowsSeen, CallsTyped DEF TInv, Labels, LinkLabels, Walks,
         Fits, Carries, Op, On
    <2>4. LinksOK'
      BY DEF TInv, TypeOK, LinksOK
    <2>5. QED
      BY <2>1, <2>2, <2>3, <2>4 DEF Moves
  <1>10. CASE Answer(r)
    <2> USE <1>10 DEF Answer
    <2>1. Walk(r) /\ Hands(r)
      BY Goes, HasWritten DEF TInv, Labels, LinkLabels
    <2>2. Fits(Op(r), pc'[r])
      BY Goes DEF TInv, Labels, LinkLabels, Walks, Fits
    <2>3. Carries(r)'
      BY <2>2, Goes, HasWritten DEF TInv, Labels, LinkLabels, Walks, Fits, Carries, Op, On
    <2>4. LinksOK'
      BY CallsTyped DEF TInv, TypeOK, LinksOK, LinkRows, LinkStatuses, ArgsOf, Walks, Fits
    <2>5. QED
      BY <2>1, <2>2, <2>3, <2>4 DEF Moves
  <1>11. CASE CountFriend(r)
    <2> USE <1>11 DEF CountFriend
    <2>6. target[r] \in Requests
      BY CallsTyped DEF TInv, TypeOK, Walks, Fits, Carries, OfRow
    <2>1. Walk(r) /\ Hands(r)
      BY <2>6, Goes, Stays DEF TInv, Labels, LinkLabels
    <2>2. Fits(Op(r), pc'[r])
      BY <2>6, Goes DEF TInv, Labels, LinkLabels, Walks, Fits
    <2>3. Carries(r)'
      BY <2>2, <2>6, Goes, Stays DEF TInv, Labels, LinkLabels, Walks, Fits, Carries, Op, On
    <2>4. LinksOK'
      BY <2>6, CallsTyped, CountedTyped DEF TInv, TypeOK, LinksOK
    <2>5. QED
      BY <2>1, <2>2, <2>3, <2>4 DEF Moves
  <1>12. CASE FindProfile(r)
    <2> USE <1>12 DEF FindProfile
    <2>6. By(r) \in People /\ profiles[By(r)] \in Counters \cup {NONE}
      BY CallsTyped DEF TInv, TypeOK
    <2>7. Reads(r, NONE, profiles[By(r)])
      OBVIOUS
    <2>8. pc'[r] \in {"ok", "profile"} /\ seen'[r] = profiles[By(r)]
      BY <2>6, <2>7, Goes, Stays, HasRead, HasWritten, HasSeen, RowsSeen, CallsTyped DEF TInv,
         Labels, LinkLabels
    <2>1. Walk(r) /\ Hands(r)
      BY <2>6, <2>7, <2>8, Goes, HasRead, RowsSeen, CallsTyped DEF TInv, Labels, LinkLabels
    <2>2. Fits(Op(r), pc'[r])
      BY <2>6, <2>7, <2>8, Goes DEF TInv, Labels, LinkLabels, Walks, Fits
    <2>3. Carries(r)'
      BY <2>2, <2>6, <2>7, <2>8, Goes, HasRead, RowsSeen, CallsTyped DEF TInv, Labels, LinkLabels,
         Walks, Fits, Carries, Op, On
    <2>4. LinksOK'
      BY DEF TInv, TypeOK, LinksOK
    <2>5. QED
      BY <2>1, <2>2, <2>3, <2>4 DEF Moves
  <1>13. CASE SaveProfile(r)
    <2> USE <1>13 DEF SaveProfile
    <2>6. (IF seen[r] = NONE THEN [followers |-> 0, following |-> 0, friends |-> 0] ELSE seen[r])
            \in Counters \cup {NONE}
      BY DEF TInv, Walks, Carries, Counters
    <2>1. Walk(r) /\ Hands(r)
      BY <2>6, Goes, HasWritten DEF TInv, Labels, LinkLabels
    <2>2. Fits(Op(r), pc'[r])
      BY <2>6, Goes DEF TInv, Labels, LinkLabels, Walks, Fits
    <2>3. Carries(r)'
      BY <2>2, <2>6, Goes, HasWritten DEF TInv, Labels, LinkLabels, Walks, Fits, Carries, Op, On
    <2>4. LinksOK'
      BY <2>6, PutTyped DEF TInv, TypeOK, LinksOK
    <2>5. QED
      BY <2>1, <2>2, <2>3, <2>4 DEF Moves
  <1>14. CASE GetUserProfile(r)
    <2> USE <1>14 DEF GetUserProfile
    <2>1. Walk(r) /\ Hands(r)
      BY Goes, Stays DEF TInv, Labels, LinkLabels
    <2>2. Fits(Op(r), pc'[r])
      BY Goes DEF TInv, Labels, LinkLabels, Walks, Fits
    <2>3. Carries(r)'
      BY <2>2, Goes, Stays DEF TInv, Labels, LinkLabels, Walks, Fits, Carries, Op, On
    <2>4. LinksOK'
      BY DEF TInv, TypeOK, LinksOK
    <2>5. QED
      BY <2>1, <2>2, <2>3, <2>4 DEF Moves
  <1>15. CASE FindTies(r)
    <2> USE <1>15 DEF FindTies
    <2>6. ({By(r)} \cup {u \in People : \E l \in Requests : links[l] # NONE /\ {u, By(r)} = {By(l), To(l)}})
            \in SUBSET People
      BY CallsTyped DEF TInv, TypeOK
    <2>1. Walk(r) /\ Hands(r)
      BY <2>6, Goes, HasSeen, CallsTyped DEF TInv, Labels, LinkLabels
    <2>2. Fits(Op(r), pc'[r])
      BY <2>6, Goes DEF TInv, Labels, LinkLabels, Walks, Fits
    <2>3. Carries(r)'
      BY <2>2, <2>6, Goes, HasSeen, CallsTyped DEF TInv, Labels, LinkLabels, Walks, Fits, Carries,
         Op, On
    <2>4. LinksOK'
      BY DEF TInv, TypeOK, LinksOK
    <2>5. QED
      BY <2>1, <2>2, <2>3, <2>4 DEF Moves
  <1>16. CASE Suggest(r)
    <2> USE <1>16 DEF Suggest
    <2>6. {u \in People \ todo[r] : profiles[u] # NONE} \in SUBSET People
      OBVIOUS
    <2>1. Walk(r) /\ Hands(r)
      BY <2>6, Goes, HasSeen, CallsTyped DEF TInv, Labels, LinkLabels
    <2>2. Fits(Op(r), pc'[r])
      BY <2>6, Goes DEF TInv, Labels, LinkLabels, Walks, Fits
    <2>3. Carries(r)'
      BY <2>2, <2>6, Goes, HasSeen, CallsTyped DEF TInv, Labels, LinkLabels, Walks, Fits, Carries,
         Op, On
    <2>4. LinksOK'
      BY DEF TInv, TypeOK, LinksOK
    <2>5. QED
      BY <2>1, <2>2, <2>3, <2>4 DEF Moves
  <1>17. QED
    BY <1>1, <1>2, <1>3, <1>4, <1>5, <1>6, <1>7, <1>8, <1>9, <1>10, <1>11, <1>12, <1>13, <1>14,
       <1>15, <1>16 DEF ConnectionStep

LEMMA NoticeMoves ==
  ASSUME TInv, UNCHANGED call, NEW r \in Requests, NoticeStep(r)
  PROVE  Moves(r) /\ NoticesOK'
  <1> USE DEF noticeVars
  <1>0. TypeOK
    BY DEF TInv
  <1>1. CASE Dispatch(r)
    <2> USE <1>1 DEF Dispatch
    <2>6. PICK u \in todo[r] : Dispatch(r)!2!(u)
      OBVIOUS
    <2>7. u \in People /\ todo[r] \ {u} \in SUBSET People /\ Sees(r, todo[r] \ {u})
      BY <2>6 DEF TInv, TypeOK
    <2>1. Walk(r) /\ Hands(r)
      BY <2>6, <2>7, Goes, HasSeen, CallsTyped DEF TInv, Labels, NoticeLabels, ContentLabels
    <2>2. Fits(Op(r), pc'[r])
      BY <2>6, <2>7, Goes DEF TInv, Labels, NoticeLabels, ContentLabels, Walks, Fits
    <2>3. Carries(r)'
      BY <2>2, <2>6, <2>7, Goes, HasSeen, CallsTyped DEF TInv, Labels, NoticeLabels, ContentLabels,
         Walks, Fits, Carries, Op, On
    <2>4. NoticesOK'
      BY <2>6, CallsTyped DEF TInv, TypeOK, NoticesOK
    <2>5. QED
      BY <2>1, <2>2, <2>3, <2>4 DEF Moves
  <1>2. CASE Dispatched(r)
    <2> USE <1>2 DEF Dispatched
    <2>1. Walk(r) /\ Hands(r)
      BY Goes, Stays DEF TInv, Labels, NoticeLabels, ContentLabels
    <2>2. Fits(Op(r), pc'[r])
      BY Goes DEF TInv, Labels, NoticeLabels, ContentLabels, Walks, Fits
    <2>3. Carries(r)'
      BY <2>2, Goes, Stays DEF TInv, Labels, NoticeLabels, ContentLabels, Walks, Fits, Carries, Op,
         On
    <2>4. NoticesOK'
      BY DEF TInv, TypeOK, NoticesOK
    <2>5. QED
      BY <2>1, <2>2, <2>3, <2>4 DEF Moves
  <1>3. CASE FindNotice(r)
    <2> USE <1>3 DEF FindNotice
    <2>1. Walk(r) /\ Hands(r)
      BY Goes, Stays DEF TInv, Labels, NoticeLabels, ContentLabels
    <2>2. Fits(Op(r), pc'[r])
      BY Goes DEF TInv, Labels, NoticeLabels, ContentLabels, Walks, Fits
    <2>3. Carries(r)'
      BY <2>2, Goes, Stays DEF TInv, Labels, NoticeLabels, ContentLabels, Walks, Fits, Carries, Op,
         On
    <2>4. NoticesOK'
      BY DEF TInv, TypeOK, NoticesOK
    <2>5. QED
      BY <2>1, <2>2, <2>3, <2>4 DEF Moves
  <1>4. CASE MarkRead(r)
    <2> USE <1>4 DEF MarkRead
    <2>1. Walk(r) /\ Hands(r)
      BY Goes, Stays DEF TInv, Labels, NoticeLabels, ContentLabels
    <2>2. Fits(Op(r), pc'[r])
      BY Goes DEF TInv, Labels, NoticeLabels, ContentLabels, Walks, Fits
    <2>3. Carries(r)'
      BY <2>2, Goes, Stays DEF TInv, Labels, NoticeLabels, ContentLabels, Walks, Fits, Carries, Op,
         On
    <2>4. NoticesOK'
      BY DEF TInv, TypeOK, NoticesOK
    <2>5. QED
      BY <2>1, <2>2, <2>3, <2>4 DEF Moves
  <1>5. CASE MarkAllRead(r)
    <2> USE <1>5 DEF MarkAllRead
    <2>1. Walk(r) /\ Hands(r)
      BY Goes, Stays DEF TInv, Labels, NoticeLabels, ContentLabels
    <2>2. Fits(Op(r), pc'[r])
      BY Goes DEF TInv, Labels, NoticeLabels, ContentLabels, Walks, Fits
    <2>3. Carries(r)'
      BY <2>2, Goes, Stays DEF TInv, Labels, NoticeLabels, ContentLabels, Walks, Fits, Carries, Op,
         On
    <2>4. NoticesOK'
      BY DEF TInv, TypeOK, NoticesOK
    <2>5. QED
      BY <2>1, <2>2, <2>3, <2>4 DEF Moves
  <1>6. QED
    BY <1>1, <1>2, <1>3, <1>4, <1>5 DEF NoticeStep

LEMMA ContentMoves ==
  ASSUME TInv, UNCHANGED call, NEW r \in Requests, ContentStep(r)
  PROVE  Moves(r) /\ ContentOK'
  <1> USE DEF contentVars
  <1>0. TypeOK
    BY DEF TInv
  <1>1. CASE InsertPost(r)
    <2> USE <1>1 DEF InsertPost
    <2>6. NewPost("NONE") \in PostRows
      BY DEF NewPost, PostRows, Approvals
    <2>1. Walk(r) /\ Hands(r)
      BY <2>6, Goes, Stays DEF TInv, Labels, ContentLabels, NoticeLabels
    <2>2. Fits(Op(r), pc'[r])
      BY <2>6, Goes DEF TInv, Labels, ContentLabels, NoticeLabels, Walks, Fits
    <2>3. Carries(r)'
      BY <2>2, <2>6, Goes, Stays DEF TInv, Labels, ContentLabels, NoticeLabels, Walks, Fits,
         Carries, Op, On
    <2>4. ContentOK'
      BY <2>6, PutTyped DEF TInv, TypeOK, ContentOK
    <2>5. QED
      BY <2>1, <2>2, <2>3, <2>4 DEF Moves
  <1>2. CASE SaveMedia(r)
    <2> USE <1>2 DEF SaveMedia
    <2>1. Walk(r) /\ Hands(r)
      BY Goes, Stays DEF TInv, Labels, ContentLabels, NoticeLabels
    <2>2. Fits(Op(r), pc'[r])
      BY Goes DEF TInv, Labels, ContentLabels, NoticeLabels, Walks, Fits
    <2>3. Carries(r)'
      BY <2>2, Goes, Stays DEF TInv, Labels, ContentLabels, NoticeLabels, Walks, Fits, Carries, Op,
         On
    <2>4. ContentOK'
      BY DEF TInv, TypeOK, ContentOK, Documents
    <2>5. QED
      BY <2>1, <2>2, <2>3, <2>4 DEF Moves
  <1>3. CASE SaveTags(r)
    <2> USE <1>3 DEF SaveTags
    <2>6. call[r].to \in SUBSET People
      BY CallsTyped DEF TInv, TypeOK
    <2>1. Walk(r) /\ Hands(r)
      BY <2>6, Goes, HasSeen, CallsTyped DEF TInv, Labels, ContentLabels, NoticeLabels
    <2>2. Fits(Op(r), pc'[r])
      BY <2>6, Goes DEF TInv, Labels, ContentLabels, NoticeLabels, Walks, Fits
    <2>3. Carries(r)'
      BY <2>2, <2>6, Goes, HasSeen, CallsTyped DEF TInv, Labels, ContentLabels, NoticeLabels, Walks,
         Fits, Carries, Op, On
    <2>4. ContentOK'
      BY DEF TInv, TypeOK, ContentOK, Documents
    <2>5. QED
      BY <2>1, <2>2, <2>3, <2>4 DEF Moves
  <1>4. CASE Unindex(r)
    <2> USE <1>4 DEF Unindex
    <2>1. Walk(r) /\ Hands(r)
      BY Goes, Stays DEF TInv, Labels, ContentLabels, NoticeLabels, Indexed
    <2>2. Fits(Op(r), pc'[r])
      BY Goes DEF TInv, Labels, ContentLabels, NoticeLabels, Walks, Fits
    <2>3. Carries(r)'
      BY <2>2, Goes, Stays DEF TInv, Labels, ContentLabels, NoticeLabels, Walks, Fits, Carries, Op,
         On
    <2>4. ContentOK'
      BY DEF TInv, TypeOK, ContentOK, Documents
    <2>5. QED
      BY <2>1, <2>2, <2>3, <2>4 DEF Moves
  <1>5. CASE FindOwnPost(r)
    <2> USE <1>5 DEF FindOwnPost
    <2>6. On(r) \in Requests
      BY CallsTyped DEF TInv, TypeOK, OfRow
    <2>7. Reads(r, On(r), posts[On(r)]) /\ posts[On(r)] \in PostRows
      BY <2>6 DEF TInv, TypeOK
    <2>1. Walk(r) /\ Hands(r)
      BY <2>6, <2>7, Goes, HasRead, RowsSeen, CallsTyped DEF TInv, Labels, ContentLabels,
         NoticeLabels
    <2>2. Fits(Op(r), pc'[r])
      BY <2>6, <2>7, Goes DEF TInv, Labels, ContentLabels, NoticeLabels, Walks, Fits
    <2>3. Carries(r)'
      BY <2>2, <2>6, <2>7, Goes, HasRead, RowsSeen, CallsTyped DEF TInv, Labels, ContentLabels,
         NoticeLabels, Walks, Fits, Carries, Op, On
    <2>4. ContentOK'
      BY DEF TInv, TypeOK, ContentOK
    <2>5. QED
      BY <2>1, <2>2, <2>3, <2>4 DEF Moves
  <1>6. CASE DeletePost(r)
    <2> USE <1>6 DEF DeletePost
    <2>6. [seen[r] EXCEPT !.deleted = TRUE] \in PostRows \cup {NONE}
      BY DEF TInv, Walks, Carries, PostRows
    <2>1. Walk(r) /\ Hands(r)
      BY <2>6, Goes, HasWritten DEF TInv, Labels, ContentLabels, NoticeLabels
    <2>2. Fits(Op(r), pc'[r])
      BY <2>6, Goes DEF TInv, Labels, ContentLabels, NoticeLabels, Walks, Fits
    <2>3. Carries(r)'
      BY <2>2, <2>6, Goes, HasWritten DEF TInv, Labels, ContentLabels, NoticeLabels, Walks, Fits,
         Carries, Op, On
    <2>4. ContentOK'
      BY <2>6, PutTyped DEF TInv, TypeOK, ContentOK
    <2>5. QED
      BY <2>1, <2>2, <2>3, <2>4 DEF Moves
  <1>7. CASE DeleteDocuments(r)
    <2>1. target[r] \in Requests
      BY <1>7, CallsTyped DEF DeleteDocuments, TInv, TypeOK, OfRow, Walks, Fits, Carries
    <2>2. \A d \in Documents : /\ [d EXCEPT !.media = FALSE] \in Documents
                               /\ [d EXCEPT !.people = FALSE, !.hashtags = 0] \in Documents
      BY DEF Documents
    <2>3. docs[target[r]] \in Documents
      BY <2>1 DEF TInv, TypeOK
    <2>4. /\ [docs EXCEPT ![target[r]].media = FALSE] \in [Requests -> Documents]
          /\ [docs EXCEPT ![target[r]] = [docs[target[r]] EXCEPT !.people = FALSE, !.hashtags = 0]]
                \in [Requests -> Documents]
      BY <2>2, <2>3 DEF TInv, TypeOK
    <2>5. ContentOK'
      BY <1>7, <2>4 DEF DeleteDocuments, TInv, TypeOK, ContentOK
    <2>6. CASE pc[r] = "del_media"
      <3>1. Goto(r, "del_tags") /\ UNCHANGED locals
        BY <1>7, <2>6 DEF DeleteDocuments
      <3>2. Walk(r) /\ Hands(r) /\ pc'[r] = "del_tags"
        BY <3>1, Goes, Stays DEF TInv, Labels, ContentLabels
      <3>3. Fits(Op(r), pc'[r]) /\ Carries(r)'
        BY <2>6, <3>1, <3>2, Stays DEF TInv, Walks, Fits, Carries, Op, On
      <3>4. QED
        BY <2>5, <3>2, <3>3 DEF Moves
    <2>7. CASE pc[r] # "del_media"
      <3>1. Goto(r, "ok") /\ UNCHANGED locals
        BY <1>7, <2>7 DEF DeleteDocuments
      <3>2. Walk(r) /\ Hands(r) /\ pc'[r] = "ok"
        BY <3>1, Goes, Stays DEF TInv, Labels
      <3>3. Fits(Op(r), pc'[r]) /\ Carries(r)'
        BY <3>2 DEF Fits, Carries, Op, On
      <3>4. QED
        BY <2>5, <3>2, <3>3 DEF Moves
    <2>8. QED
      BY <2>6, <2>7
  <1>8. CASE FindOriginal(r)
    <2> USE <1>8 DEF FindOriginal
    <2>1. Walk(r) /\ Hands(r)
      BY Goes, Stays DEF TInv, Labels, ContentLabels, NoticeLabels
    <2>2. Fits(Op(r), pc'[r])
      BY Goes DEF TInv, Labels, ContentLabels, NoticeLabels, Walks, Fits
    <2>3. Carries(r)'
      BY <2>2, Goes, Stays DEF TInv, Labels, ContentLabels, NoticeLabels, Walks, Fits, Carries, Op,
         On
    <2>4. ContentOK'
      BY DEF TInv, TypeOK, ContentOK
    <2>5. QED
      BY <2>1, <2>2, <2>3, <2>4 DEF Moves
  <1>9. CASE Repost(r)
    <2> USE <1>9 DEF Repost
    <2>6. NewPost("NONE") \in PostRows
      BY DEF NewPost, PostRows, Approvals
    <2>7. posts' = [posts EXCEPT ![r] = NewPost("NONE")] \/ posts' = Bump(posts, On(r), "shares", 1)
      OBVIOUS
    <2>8. [posts EXCEPT ![r] = NewPost("NONE")] \in [Requests -> PostRows \cup {NONE}]
      BY <2>6, PutTyped DEF TInv, TypeOK
    <2>9. Bump(posts, On(r), "shares", 1) \in [Requests -> PostRows \cup {NONE}]
      BY PostsBumped DEF TInv, TypeOK
    <2>10. posts' \in [Requests -> PostRows \cup {NONE}]
      BY <2>7, <2>8, <2>9
    <2>1. Walk(r) /\ Hands(r)
      BY <2>6, <2>7, <2>8, <2>9, <2>10, Goes, Stays DEF TInv, Labels, ContentLabels, NoticeLabels
    <2>2. Fits(Op(r), pc'[r])
      BY <2>6, <2>7, <2>8, <2>9, <2>10, Goes DEF TInv, Labels, ContentLabels, NoticeLabels, Walks,
         Fits
    <2>3. Carries(r)'
      BY <2>2, <2>6, <2>7, <2>8, <2>9, <2>10, Goes, Stays DEF TInv, Labels, ContentLabels,
         NoticeLabels, Walks, Fits, Carries, Op, On
    <2>4. ContentOK'
      BY <2>10 DEF TInv, TypeOK, ContentOK
    <2>5. QED
      BY <2>1, <2>2, <2>3, <2>4 DEF Moves
  <1>10. CASE Index(r)
    <2> USE <1>10 DEF Index
    <2>6. Indexed(r) # r => By(Indexed(r)) \in People /\ {By(Indexed(r))} \in SUBSET People
      BY CallsTyped DEF TInv, TypeOK, OfRow, Indexed, Walks, Fits, ReviewOps
    <2>7. \A d \in Documents : [d EXCEPT !.hashtags = d.hashtags + 1] \in Documents
      BY DEF Documents
    <2>8. Indexed(r) \in Requests
      BY CallsTyped DEF TInv, TypeOK, OfRow, Indexed, Walks, Fits, ReviewOps
    <2>9. [docs[Indexed(r)] EXCEPT !.hashtags = docs[Indexed(r)].hashtags + 1] \in Documents
      BY <2>7, <2>8 DEF TInv, TypeOK
    <2>1. Walk(r) /\ Hands(r)
      BY <2>6, <2>7, <2>8, <2>9, Goes, Stays, HasSeen, CallsTyped DEF TInv, Labels, ContentLabels,
         NoticeLabels
    <2>2. Fits(Op(r), pc'[r])
      BY <2>6, <2>7, <2>8, <2>9, Goes DEF TInv, Labels, ContentLabels, NoticeLabels, Walks, Fits,
         ReviewOps, Indexed
    <2>3. Carries(r)'
      BY <2>2, <2>6, <2>7, <2>8, <2>9, Goes, Stays, HasSeen, CallsTyped DEF TInv, Labels,
         ContentLabels, NoticeLabels, Walks, Fits, Carries, Op, On
    <2>4. ContentOK'
      BY <2>9, PutTyped DEF TInv, TypeOK, ContentOK
    <2>5. QED
      BY <2>1, <2>2, <2>3, <2>4 DEF Moves
  <1>11. CASE FindPost(r)
    <2> USE <1>11 DEF FindPost
    <2>1. Walk(r) /\ Hands(r)
      BY Goes, Stays DEF TInv, Labels, ContentLabels, NoticeLabels
    <2>2. Fits(Op(r), pc'[r])
      BY Goes DEF TInv, Labels, ContentLabels, NoticeLabels, Walks, Fits, IsComment
    <2>3. Carries(r)'
      BY <2>2, Goes, Stays DEF TInv, Labels, ContentLabels, NoticeLabels, Walks, Fits, Carries, Op,
         On
    <2>4. ContentOK'
      BY DEF TInv, TypeOK, ContentOK
    <2>5. QED
      BY <2>1, <2>2, <2>3, <2>4 DEF Moves
  <1>12. CASE InsertComment(r)
    <2> USE <1>12 DEF InsertComment
    <2>6. NewComment \in CommentRows
      BY DEF NewComment, CommentRows
    <2>1. Walk(r) /\ Hands(r)
      BY <2>6, Goes, Stays DEF TInv, Labels, ContentLabels, NoticeLabels
    <2>2. Fits(Op(r), pc'[r])
      BY <2>6, Goes DEF TInv, Labels, ContentLabels, NoticeLabels, Walks, Fits
    <2>3. Carries(r)'
      BY <2>2, <2>6, Goes, Stays DEF TInv, Labels, ContentLabels, NoticeLabels, Walks, Fits,
         Carries, Op, On
    <2>4. ContentOK'
      BY <2>6, PutTyped DEF TInv, TypeOK, ContentOK
    <2>5. QED
      BY <2>1, <2>2, <2>3, <2>4 DEF Moves
  <1>13. CASE CountComment(r)
    <2> USE <1>13 DEF CountComment
    <2>6. On(r) \in Requests
      BY CallsTyped DEF TInv, TypeOK, OfRow, Walks, Fits
    <2>7. By(On(r)) \in People
      BY <2>6, CallsTyped DEF TInv, TypeOK
    <2>8. (call[r].to \cup {By(On(r))}) \in SUBSET People
      BY <2>7, CallsTyped DEF TInv, TypeOK
    <2>9. CommentCounted(r) \in {"count_reply", "mention", "notify"}
      BY DEF CommentCounted
    <2>1. Walk(r) /\ Hands(r)
      BY <2>6, <2>7, <2>8, <2>9, Goes, HasSeen, CallsTyped DEF TInv, Labels, ContentLabels,
         NoticeLabels
    <2>2. Fits(Op(r), pc'[r])
      BY <2>6, <2>7, <2>8, <2>9, Goes DEF TInv, Labels, ContentLabels, NoticeLabels, Walks, Fits
    <2>3. Carries(r)'
      BY <2>2, <2>6, <2>7, <2>8, <2>9, Goes, HasSeen, CallsTyped DEF TInv, Labels, ContentLabels,
         NoticeLabels, Walks, Fits, Carries, Op, On
    <2>4. ContentOK'
      BY PostsBumped DEF TInv, TypeOK, ContentOK
    <2>5. QED
      BY <2>1, <2>2, <2>3, <2>4 DEF Moves
  <1>14. CASE CountReply(r)
    <2> USE <1>14 DEF CountReply
    <2>1. Walk(r) /\ Hands(r)
      BY Goes, Stays DEF TInv, Labels, ContentLabels, NoticeLabels
    <2>2. Fits(Op(r), pc'[r])
      BY Goes DEF TInv, Labels, ContentLabels, NoticeLabels, Walks, Fits
    <2>3. Carries(r)'
      BY <2>2, Goes, Stays DEF TInv, Labels, ContentLabels, NoticeLabels, Walks, Fits, Carries, Op,
         On
    <2>4. ContentOK'
      BY CommentsBumped DEF TInv, TypeOK, ContentOK
    <2>5. QED
      BY <2>1, <2>2, <2>3, <2>4 DEF Moves
  <1>15. CASE SaveMentions(r)
    <2> USE <1>15 DEF SaveMentions
    <2>1. Walk(r) /\ Hands(r)
      BY Goes, Stays DEF TInv, Labels, ContentLabels, NoticeLabels
    <2>2. Fits(Op(r), pc'[r])
      BY Goes DEF TInv, Labels, ContentLabels, NoticeLabels, Walks, Fits
    <2>3. Carries(r)'
      BY <2>2, Goes, Stays DEF TInv, Labels, ContentLabels, NoticeLabels, Walks, Fits, Carries, Op,
         On
    <2>4. ContentOK'
      BY DEF TInv, TypeOK, ContentOK, Documents
    <2>5. QED
      BY <2>1, <2>2, <2>3, <2>4 DEF Moves
  <1>16. CASE FindOwnComment(r)
    <2> USE <1>16 DEF FindOwnComment
    <2>6. On(r) \in Requests
      BY CallsTyped DEF TInv, TypeOK, OfRow
    <2>7. Reads(r, On(r), comments[On(r)]) /\ comments[On(r)] \in CommentRows
      BY <2>6 DEF TInv, TypeOK
    <2>1. Walk(r) /\ Hands(r)
      BY <2>6, <2>7, Goes, HasRead, RowsSeen, CallsTyped DEF TInv, Labels, ContentLabels,
         NoticeLabels
    <2>2. Fits(Op(r), pc'[r])
      BY <2>6, <2>7, Goes DEF TInv, Labels, ContentLabels, NoticeLabels, Walks, Fits
    <2>3. Carries(r)'
      BY <2>2, <2>6, <2>7, Goes, HasRead, RowsSeen, CallsTyped DEF TInv, Labels, ContentLabels,
         NoticeLabels, Walks, Fits, Carries, Op, On
    <2>4. ContentOK'
      BY DEF TInv, TypeOK, ContentOK
    <2>5. QED
      BY <2>1, <2>2, <2>3, <2>4 DEF Moves
  <1>17. CASE DeleteComment(r)
    <2> USE <1>17 DEF DeleteComment
    <2>6. [seen[r] EXCEPT !.deleted = TRUE] \in CommentRows \cup {NONE}
      BY DEF TInv, Walks, Carries, CommentRows
    <2>1. Walk(r) /\ Hands(r)
      BY <2>6, Goes, HasWritten DEF TInv, Labels, ContentLabels, NoticeLabels
    <2>2. Fits(Op(r), pc'[r])
      BY <2>6, Goes DEF TInv, Labels, ContentLabels, NoticeLabels, Walks, Fits
    <2>3. Carries(r)'
      BY <2>2, <2>6, Goes, HasWritten DEF TInv, Labels, ContentLabels, NoticeLabels, Walks, Fits,
         Carries, Op, On
    <2>4. ContentOK'
      BY <2>6, PutTyped DEF TInv, TypeOK, ContentOK
    <2>5. QED
      BY <2>1, <2>2, <2>3, <2>4 DEF Moves
  <1>18. CASE UncountComment(r)
    <2> USE <1>18 DEF UncountComment
    <2>1. Walk(r) /\ Hands(r)
      BY Goes, Stays DEF TInv, Labels, ContentLabels, NoticeLabels
    <2>2. Fits(Op(r), pc'[r])
      BY Goes DEF TInv, Labels, ContentLabels, NoticeLabels, Walks, Fits
    <2>3. Carries(r)'
      BY <2>2, Goes, Stays DEF TInv, Labels, ContentLabels, NoticeLabels, Walks, Fits, Carries, Op,
         On
    <2>4. ContentOK'
      BY PostsBumped DEF TInv, TypeOK, ContentOK
    <2>5. QED
      BY <2>1, <2>2, <2>3, <2>4 DEF Moves
  <1>19. CASE UncountReply(r)
    <2> USE <1>19 DEF UncountReply
    <2>1. Walk(r) /\ Hands(r)
      BY Goes, Stays DEF TInv, Labels, ContentLabels, NoticeLabels
    <2>2. Fits(Op(r), pc'[r])
      BY Goes DEF TInv, Labels, ContentLabels, NoticeLabels, Walks, Fits
    <2>3. Carries(r)'
      BY <2>2, Goes, Stays DEF TInv, Labels, ContentLabels, NoticeLabels, Walks, Fits, Carries, Op,
         On
    <2>4. ContentOK'
      BY CommentsBumped DEF TInv, TypeOK, ContentOK
    <2>5. QED
      BY <2>1, <2>2, <2>3, <2>4 DEF Moves
  <1>20. CASE FindTarget(r)
    <2> USE <1>20 DEF FindTarget
    <2>1. Walk(r) /\ Hands(r)
      BY Goes, Stays DEF TInv, Labels, ContentLabels, NoticeLabels
    <2>2. Fits(Op(r), pc'[r])
      BY Goes DEF TInv, Labels, ContentLabels, NoticeLabels, Walks, Fits
    <2>3. Carries(r)'
      BY <2>2, Goes, Stays DEF TInv, Labels, ContentLabels, NoticeLabels, Walks, Fits, Carries, Op,
         On
    <2>4. ContentOK'
      BY DEF TInv, TypeOK, ContentOK
    <2>5. QED
      BY <2>1, <2>2, <2>3, <2>4 DEF Moves
  <1>21. CASE FindReaction(r)
    <2> USE <1>21 DEF FindReaction
    <2>1. Walk(r) /\ Hands(r)
      BY Goes, Stays, HasRead, RowsSeen, CallsTyped DEF TInv, Labels, ContentLabels, NoticeLabels,
         Reaction
    <2>2. Fits(Op(r), pc'[r])
      BY Goes DEF TInv, Labels, ContentLabels, NoticeLabels, Walks, Fits
    <2>3. Carries(r)'
      BY <2>2, Goes, Stays, HasRead, RowsSeen, CallsTyped DEF TInv, Labels, ContentLabels,
         NoticeLabels, Walks, Fits, Carries, Op, On
    <2>4. ContentOK'
      BY DEF TInv, TypeOK, ContentOK
    <2>5. QED
      BY <2>1, <2>2, <2>3, <2>4 DEF Moves
  <1>22. CASE Unreact(r)
    <2> USE <1>22 DEF Unreact
    <2>1. Walk(r) /\ Hands(r)
      BY Goes, HasWritten DEF TInv, Labels, ContentLabels, NoticeLabels
    <2>2. Fits(Op(r), pc'[r])
      BY Goes DEF TInv, Labels, ContentLabels, NoticeLabels, Walks, Fits
    <2>3. Carries(r)'
      BY <2>2, Goes, HasWritten DEF TInv, Labels, ContentLabels, NoticeLabels, Walks, Fits, Carries,
         Op, On
    <2>4. ContentOK'
      BY DEF TInv, TypeOK, ContentOK
    <2>5. QED
      BY <2>1, <2>2, <2>3, <2>4 DEF Moves
  <1>23. CASE Rereact(r)
    <2> USE <1>23 DEF Rereact
    <2>6. [type |-> Arg(r)] \in ReactionRows \cup {NONE}
      BY CallsTyped DEF TInv, TypeOK, Walks, Fits, ArgsOf, ReactionRows
    <2>1. Walk(r) /\ Hands(r)
      BY <2>6, Goes, HasWritten DEF TInv, Labels, ContentLabels, NoticeLabels
    <2>2. Fits(Op(r), pc'[r])
      BY <2>6, Goes DEF TInv, Labels, ContentLabels, NoticeLabels, Walks, Fits
    <2>3. Carries(r)'
      BY <2>2, <2>6, Goes, HasWritten DEF TInv, Labels, ContentLabels, NoticeLabels, Walks, Fits,
         Carries, Op, On
    <2>4. ContentOK'
      BY <2>6, PutTyped DEF TInv, TypeOK, ContentOK
    <2>5. QED
      BY <2>1, <2>2, <2>3, <2>4 DEF Moves
  <1>24. CASE React(r)
    <2> USE <1>24 DEF React
    <2>6. [type |-> Arg(r)] \in ReactionRows \cup {NONE}
      BY CallsTyped DEF TInv, TypeOK, Walks, Fits, ArgsOf, ReactionRows
    <2>1. Walk(r) /\ Hands(r)
      BY <2>6, Goes, Stays DEF TInv, Labels, ContentLabels, NoticeLabels
    <2>2. Fits(Op(r), pc'[r])
      BY <2>6, Goes DEF TInv, Labels, ContentLabels, NoticeLabels, Walks, Fits
    <2>3. Carries(r)'
      BY <2>2, <2>6, Goes, Stays DEF TInv, Labels, ContentLabels, NoticeLabels, Walks, Fits,
         Carries, Op, On
    <2>4. ContentOK'
      BY <2>6, PutTyped DEF TInv, TypeOK, ContentOK
    <2>5. QED
      BY <2>1, <2>2, <2>3, <2>4 DEF Moves
  <1>25. CASE CountLike(r)
    <2> USE <1>25 DEF CountLike
    <2>1. Walk(r) /\ Hands(r)
      BY Goes, Stays DEF TInv, Labels, ContentLabels, NoticeLabels
    <2>2. Fits(Op(r), pc'[r])
      BY Goes DEF TInv, Labels, ContentLabels, NoticeLabels, Walks, Fits
    <2>3. Carries(r)'
      BY <2>2, Goes, Stays DEF TInv, Labels, ContentLabels, NoticeLabels, Walks, Fits, Carries, Op,
         On
    <2>4. ContentOK'
      BY PostsBumped, CommentsBumped DEF TInv, TypeOK, ContentOK
    <2>5. QED
      BY <2>1, <2>2, <2>3, <2>4 DEF Moves
  <1>26. CASE FindOwner(r)
    <2> USE <1>26 DEF FindOwner
    <2>6. On(r) \in Requests
      BY CallsTyped DEF TInv, TypeOK, OfRow, Walks, Fits
    <2>7. (IF LiveTarget(On(r)) THEN {By(On(r))} ELSE {}) \in SUBSET People
      BY <2>6, CallsTyped DEF TInv, TypeOK
    <2>1. Walk(r) /\ Hands(r)
      BY <2>6, <2>7, Goes, HasSeen, CallsTyped DEF TInv, Labels, ContentLabels, NoticeLabels
    <2>2. Fits(Op(r), pc'[r])
      BY <2>6, <2>7, Goes DEF TInv, Labels, ContentLabels, NoticeLabels, Walks, Fits
    <2>3. Carries(r)'
      BY <2>2, <2>6, <2>7, Goes, HasSeen, CallsTyped DEF TInv, Labels, ContentLabels, NoticeLabels,
         Walks, Fits, Carries, Op, On
    <2>4. ContentOK'
      BY DEF TInv, TypeOK, ContentOK
    <2>5. QED
      BY <2>1, <2>2, <2>3, <2>4 DEF Moves
  <1>27. CASE CreateStory(r)
    <2> USE <1>27 DEF CreateStory
    <2>6. [deleted |-> FALSE, views |-> 0] \in StoryRows
      BY DEF StoryRows
    <2>1. Walk(r) /\ Hands(r)
      BY <2>6, Goes, Stays DEF TInv, Labels, ContentLabels, NoticeLabels
    <2>2. Fits(Op(r), pc'[r])
      BY <2>6, Goes DEF TInv, Labels, ContentLabels, NoticeLabels, Walks, Fits
    <2>3. Carries(r)'
      BY <2>2, <2>6, Goes, Stays DEF TInv, Labels, ContentLabels, NoticeLabels, Walks, Fits,
         Carries, Op, On
    <2>4. ContentOK'
      BY <2>6, PutTyped DEF TInv, TypeOK, ContentOK
    <2>5. QED
      BY <2>1, <2>2, <2>3, <2>4 DEF Moves
  <1>28. CASE FindStory(r)
    <2> USE <1>28 DEF FindStory
    <2>6. On(r) \in Requests /\ Reads(r, On(r), stories[On(r)])
      BY CallsTyped DEF TInv, TypeOK
    <2>7. stories[On(r)] \in StoryRows
      BY <2>6 DEF TInv, TypeOK
    <2>1. Walk(r) /\ Hands(r)
      BY <2>6, <2>7, Goes, HasRead, RowsSeen, CallsTyped DEF TInv, Labels, ContentLabels,
         NoticeLabels
    <2>2. Fits(Op(r), pc'[r])
      BY <2>6, <2>7, Goes DEF TInv, Labels, ContentLabels, NoticeLabels, Walks, Fits
    <2>3. Carries(r)'
      BY <2>2, <2>6, <2>7, Goes, HasRead, RowsSeen, CallsTyped DEF TInv, Labels, ContentLabels,
         NoticeLabels, Walks, Fits, Carries, Op, On
    <2>4. ContentOK'
      BY DEF TInv, TypeOK, ContentOK
    <2>5. QED
      BY <2>1, <2>2, <2>3, <2>4 DEF Moves
  <1>29. CASE ViewStory(r)
    <2> USE <1>29 DEF ViewStory
    <2>1. Walk(r) /\ Hands(r)
      BY Goes, Stays DEF TInv, Labels, ContentLabels, NoticeLabels
    <2>2. Fits(Op(r), pc'[r])
      BY Goes DEF TInv, Labels, ContentLabels, NoticeLabels, Walks, Fits
    <2>3. Carries(r)'
      BY <2>2, Goes, Stays DEF TInv, Labels, ContentLabels, NoticeLabels, Walks, Fits, Carries, Op,
         On
    <2>4. ContentOK'
      BY StoriesBumped DEF TInv, TypeOK, ContentOK
    <2>5. QED
      BY <2>1, <2>2, <2>3, <2>4 DEF Moves
  <1>30. CASE DeleteStory(r)
    <2> USE <1>30 DEF DeleteStory
    <2>6. [seen[r] EXCEPT !.deleted = TRUE] \in StoryRows \cup {NONE}
      BY DEF TInv, Walks, Carries, StoryRows
    <2>1. Walk(r) /\ Hands(r)
      BY <2>6, Goes, HasWritten DEF TInv, Labels, ContentLabels, NoticeLabels
    <2>2. Fits(Op(r), pc'[r])
      BY <2>6, Goes DEF TInv, Labels, ContentLabels, NoticeLabels, Walks, Fits
    <2>3. Carries(r)'
      BY <2>2, <2>6, Goes, HasWritten DEF TInv, Labels, ContentLabels, NoticeLabels, Walks, Fits,
         Carries, Op, On
    <2>4. ContentOK'
      BY <2>6, PutTyped DEF TInv, TypeOK, ContentOK
    <2>5. QED
      BY <2>1, <2>2, <2>3, <2>4 DEF Moves
  <1>31. CASE CleanStories(r)
    <2> USE <1>31 DEF CleanStories
    <2>6. \A row \in StoryRows : [row EXCEPT !.deleted = TRUE] \in StoryRows
      BY DEF StoryRows
    <2>7. \A s \in Requests : stories[s] # NONE => [stories[s] EXCEPT !.deleted = TRUE] \in StoryRows
      BY <2>6 DEF TInv, TypeOK
    <2>1. Walk(r) /\ Hands(r)
      BY <2>6, <2>7, Goes, Stays DEF TInv, Labels, ContentLabels, NoticeLabels
    <2>2. Fits(Op(r), pc'[r])
      BY <2>6, <2>7, Goes DEF TInv, Labels, ContentLabels, NoticeLabels, Walks, Fits
    <2>3. Carries(r)'
      BY <2>2, <2>6, <2>7, Goes, Stays DEF TInv, Labels, ContentLabels, NoticeLabels, Walks, Fits,
         Carries, Op, On
    <2>4. ContentOK'
      BY <2>7 DEF TInv, TypeOK, ContentOK
    <2>5. QED
      BY <2>1, <2>2, <2>3, <2>4 DEF Moves
  <1>32. QED
    BY <1>1, <1>2, <1>3, <1>4, <1>5, <1>6, <1>7, <1>8, <1>9, <1>10, <1>11, <1>12, <1>13, <1>14,
       <1>15, <1>16, <1>17, <1>18, <1>19, <1>20, <1>21, <1>22, <1>23, <1>24, <1>25, <1>26, <1>27,
       <1>28, <1>29, <1>30, <1>31 DEF ContentStep

LEMMA FeedMoves ==
  ASSUME TInv, UNCHANGED call, NEW r \in Requests, FeedStep(r)
  PROVE  Moves(r) /\ FeedOK' /\ posts' \in [Requests -> PostRows \cup {NONE}]
  <1> USE DEF feedVars, Show
  <1>0. TypeOK
    BY DEF TInv
  <1>1. CASE FindPostById(r) /\ UNCHANGED posts
    <2> USE <1>1 DEF FindPostById
    <2>1. Walk(r) /\ Hands(r)
      BY Goes, Stays DEF TInv, Labels, FeedLabels
    <2>2. Fits(Op(r), pc'[r])
      BY Goes DEF TInv, Labels, FeedLabels, Walks, Fits
    <2>3. Carries(r)'
      BY <2>2, Goes, Stays DEF TInv, Labels, FeedLabels, Walks, Fits, Carries, Op, On
    <2>4. FeedOK' /\ posts' \in [Requests -> PostRows \cup {NONE}]
      BY DEF TInv, TypeOK, FeedOK
    <2>5. QED
      BY <2>1, <2>2, <2>3, <2>4 DEF Moves
  <1>2. CASE CheckTie(r) /\ UNCHANGED posts
    <2> USE <1>2 DEF CheckTie
    <2>1. Walk(r) /\ Hands(r)
      BY Goes, Stays DEF TInv, Labels, FeedLabels
    <2>2. Fits(Op(r), pc'[r])
      BY Goes DEF TInv, Labels, FeedLabels, Walks, Fits
    <2>3. Carries(r)'
      BY <2>2, Goes, Stays DEF TInv, Labels, FeedLabels, Walks, Fits, Carries, Op, On
    <2>4. FeedOK' /\ posts' \in [Requests -> PostRows \cup {NONE}]
      BY DEF TInv, TypeOK, FeedOK
    <2>5. QED
      BY <2>1, <2>2, <2>3, <2>4 DEF Moves
  <1>3. CASE FindConnections(r) /\ UNCHANGED posts
    <2> USE <1>3 DEF FindConnections
    <2>6. [friends |-> {u \in People : IsFriend(By(r), u)},
           following |-> {u \in People : Follows(By(r), u)}] \in Rows \cup {NONE}
      BY DEF Rows, Ties
    <2>1. Walk(r) /\ Hands(r)
      BY <2>6, Goes, HasRead, RowsSeen, CallsTyped DEF TInv, Labels, FeedLabels
    <2>2. Fits(Op(r), pc'[r])
      BY <2>6, Goes DEF TInv, Labels, FeedLabels, Walks, Fits
    <2>3. Carries(r)'
      BY <2>2, <2>6, Goes, HasRead, RowsSeen, CallsTyped DEF TInv, Labels, FeedLabels, Walks, Fits,
         Carries, Op, On
    <2>4. FeedOK' /\ posts' \in [Requests -> PostRows \cup {NONE}]
      BY DEF TInv, TypeOK, FeedOK
    <2>5. QED
      BY <2>1, <2>2, <2>3, <2>4 DEF Moves
  <1>4. CASE FindFeedPosts(r) /\ UNCHANGED posts
    <2> USE <1>4 DEF FindFeedPosts
    <2>1. Walk(r) /\ Hands(r)
      BY Goes, Stays DEF TInv, Labels, FeedLabels
    <2>2. Fits(Op(r), pc'[r])
      BY Goes DEF TInv, Labels, FeedLabels, Walks, Fits
    <2>3. Carries(r)'
      BY <2>2, Goes, Stays DEF TInv, Labels, FeedLabels, Walks, Fits, Carries, Op, On
    <2>4. FeedOK' /\ posts' \in [Requests -> PostRows \cup {NONE}]
      BY DEF TInv, TypeOK, FeedOK
    <2>5. QED
      BY <2>1, <2>2, <2>3, <2>4 DEF Moves
  <1>5. CASE FindTagged(r) /\ UNCHANGED posts
    <2> USE <1>5 DEF FindTagged
    <2>1. Walk(r) /\ Hands(r)
      BY Goes, Stays DEF TInv, Labels, FeedLabels
    <2>2. Fits(Op(r), pc'[r])
      BY Goes DEF TInv, Labels, FeedLabels, Walks, Fits
    <2>3. Carries(r)'
      BY <2>2, Goes, Stays DEF TInv, Labels, FeedLabels, Walks, Fits, Carries, Op, On
    <2>4. FeedOK' /\ posts' \in [Requests -> PostRows \cup {NONE}]
      BY DEF TInv, TypeOK, FeedOK
    <2>5. QED
      BY <2>1, <2>2, <2>3, <2>4 DEF Moves
  <1>6. CASE FindTagPosts(r) /\ UNCHANGED posts
    <2> USE <1>6 DEF FindTagPosts
    <2>1. Walk(r) /\ Hands(r)
      BY Goes, Stays DEF TInv, Labels, FeedLabels
    <2>2. Fits(Op(r), pc'[r])
      BY Goes DEF TInv, Labels, FeedLabels, Walks, Fits
    <2>3. Carries(r)'
      BY <2>2, Goes, Stays DEF TInv, Labels, FeedLabels, Walks, Fits, Carries, Op, On
    <2>4. FeedOK' /\ posts' \in [Requests -> PostRows \cup {NONE}]
      BY DEF TInv, TypeOK, FeedOK
    <2>5. QED
      BY <2>1, <2>2, <2>3, <2>4 DEF Moves
  <1>7. CASE CheckEach(r) /\ UNCHANGED posts
    <2> USE <1>7 DEF CheckEach
    <2>1. Walk(r) /\ Hands(r)
      BY Goes, Stays DEF TInv, Labels, FeedLabels
    <2>2. Fits(Op(r), pc'[r])
      BY Goes DEF TInv, Labels, FeedLabels, Walks, Fits
    <2>3. Carries(r)'
      BY <2>2, Goes, Stays DEF TInv, Labels, FeedLabels, Walks, Fits, Carries, Op, On
    <2>4. FeedOK' /\ posts' \in [Requests -> PostRows \cup {NONE}]
      BY DEF TInv, TypeOK, FeedOK
    <2>5. QED
      BY <2>1, <2>2, <2>3, <2>4 DEF Moves
  <1>8. CASE EndHashtagFeed(r) /\ UNCHANGED posts
    <2> USE <1>8 DEF EndHashtagFeed
    <2>1. Walk(r) /\ Hands(r)
      BY Goes, Stays DEF TInv, Labels, FeedLabels
    <2>2. Fits(Op(r), pc'[r])
      BY Goes DEF TInv, Labels, FeedLabels, Walks, Fits
    <2>3. Carries(r)'
      BY <2>2, Goes, Stays DEF TInv, Labels, FeedLabels, Walks, Fits, Carries, Op, On
    <2>4. FeedOK' /\ posts' \in [Requests -> PostRows \cup {NONE}]
      BY DEF TInv, TypeOK, FeedOK
    <2>5. QED
      BY <2>1, <2>2, <2>3, <2>4 DEF Moves
  <1>9. CASE Attach(r)
    <2> USE <1>9 DEF Attach
    <2>6. On(r) \in Requests
      BY CallsTyped DEF TInv, TypeOK, OfRow, Walks, Fits
    <2>1. Walk(r) /\ Hands(r)
      BY <2>6, Goes, Stays DEF TInv, Labels, FeedLabels
    <2>2. Fits(Op(r), pc'[r])
      BY <2>6, Goes DEF TInv, Labels, FeedLabels, Walks, Fits
    <2>3. Carries(r)'
      BY <2>2, <2>6, Goes, Stays DEF TInv, Labels, FeedLabels, Walks, Fits, Carries, Op, On
    <2>4. FeedOK' /\ posts' \in [Requests -> PostRows \cup {NONE}]
      BY <2>6 DEF TInv, TypeOK, FeedOK
    <2>5. QED
      BY <2>1, <2>2, <2>3, <2>4 DEF Moves
  <1>10. CASE CountView(r)
    <2> USE <1>10 DEF CountView
    <2>1. Walk(r) /\ Hands(r)
      BY Goes, Stays DEF TInv, Labels, FeedLabels
    <2>2. Fits(Op(r), pc'[r])
      BY Goes DEF TInv, Labels, FeedLabels, Walks, Fits
    <2>3. Carries(r)'
      BY <2>2, Goes, Stays DEF TInv, Labels, FeedLabels, Walks, Fits, Carries, Op, On
    <2>4. FeedOK' /\ posts' \in [Requests -> PostRows \cup {NONE}]
      BY PostsBumped DEF TInv, TypeOK, FeedOK
    <2>5. QED
      BY <2>1, <2>2, <2>3, <2>4 DEF Moves
  <1>11. QED
    BY <1>1, <1>2, <1>3, <1>4, <1>5, <1>6, <1>7, <1>8, <1>9, <1>10 DEF FeedStep

LEMMA MembershipMoves ==
  ASSUME TInv, UNCHANGED call, NEW r \in Requests, MembershipStep(r)
  PROVE  Moves(r) /\ GroupsOK'
  <1> USE DEF groupVars
  <1>0. TypeOK
    BY DEF TInv
  <1>1. CASE FindSlug(r)
    <2> USE <1>1 DEF FindSlug
    <2>6. (IF seen[r] = NONE THEN 0 ELSE seen[r].slug) \in Nat
      BY DEF TInv, Walks, Carries, GroupRows
    <2>7. [slug |-> (IF seen[r] = NONE THEN 0 ELSE seen[r].slug) + 1, members |-> 1, posts |-> 0]
            \in GroupRows
      BY <2>6 DEF GroupRows
    <2>8. [slug |-> (IF seen[r] = NONE THEN 0 ELSE seen[r].slug), members |-> 1, posts |-> 0] \in GroupRows
      BY <2>6 DEF GroupRows
    <2>9. GroupRows \subseteq Rows
      BY DEF Rows
    <2>10. \E row \in GroupRows : Reads(r, NONE, row) /\ (Goto(r, "slug") \/ Goto(r, "group"))
      BY <2>7, <2>8
    <2>11. pc'[r] \in {"slug", "group"} /\ seen'[r] \in GroupRows
      BY <2>9, <2>10, Goes, HasRead DEF TInv, Labels, GroupLabels
    <2>1. Walk(r) /\ Hands(r)
      BY <2>6, <2>7, <2>8, <2>9, <2>10, <2>11, Goes, HasRead, RowsSeen, CallsTyped DEF TInv, Labels,
         GroupLabels, NoticeLabels
    <2>2. Fits(Op(r), pc'[r])
      BY <2>6, <2>7, <2>8, <2>9, <2>10, <2>11, Goes DEF TInv, Labels, GroupLabels, NoticeLabels,
         Walks, Fits
    <2>3. Carries(r)'
      BY <2>11 DEF Fits, Carries, Op, On
    <2>4. GroupsOK'
      BY DEF TInv, TypeOK, GroupsOK
    <2>5. QED
      BY <2>1, <2>2, <2>3, <2>4 DEF Moves
  <1>2. CASE InsertGroup(r)
    <2> USE <1>2 DEF InsertGroup
    <2>1. Walk(r) /\ Hands(r)
      BY Goes, Stays DEF TInv, Labels, GroupLabels, NoticeLabels
    <2>2. Fits(Op(r), pc'[r])
      BY Goes DEF TInv, Labels, GroupLabels, NoticeLabels, Walks, Fits
    <2>3. Carries(r)'
      BY <2>2, Goes, Stays DEF TInv, Labels, GroupLabels, NoticeLabels, Walks, Fits, Carries, Op, On
    <2>4. GroupsOK'
      BY DEF TInv, TypeOK, GroupsOK, Walks, Carries
    <2>5. QED
      BY <2>1, <2>2, <2>3, <2>4 DEF Moves
  <1>3. CASE InsertOwner(r)
    <2> USE <1>3 DEF InsertOwner
    <2>6. [role |-> "OWNER", status |-> "ACTIVE"] \in MemberRows
      BY DEF MemberRows, GroupRoles
    <2>1. Walk(r) /\ Hands(r)
      BY <2>6, Goes, Stays DEF TInv, Labels, GroupLabels, NoticeLabels
    <2>2. Fits(Op(r), pc'[r])
      BY <2>6, Goes DEF TInv, Labels, GroupLabels, NoticeLabels, Walks, Fits
    <2>3. Carries(r)'
      BY <2>2, <2>6, Goes, Stays DEF TInv, Labels, GroupLabels, NoticeLabels, Walks, Fits, Carries,
         Op, On
    <2>4. GroupsOK'
      BY <2>6, PutTyped DEF TInv, TypeOK, GroupsOK
    <2>5. QED
      BY <2>1, <2>2, <2>3, <2>4 DEF Moves
  <1>4. CASE JoinGroup(r)
    <2> USE <1>4 DEF JoinGroup
    <2>1. Walk(r) /\ Hands(r)
      BY Goes, Stays DEF TInv, Labels, GroupLabels, NoticeLabels
    <2>2. Fits(Op(r), pc'[r])
      BY Goes DEF TInv, Labels, GroupLabels, NoticeLabels, Walks, Fits
    <2>3. Carries(r)'
      BY <2>2, Goes, Stays DEF TInv, Labels, GroupLabels, NoticeLabels, Walks, Fits, Carries, Op, On
    <2>4. GroupsOK'
      BY DEF TInv, TypeOK, GroupsOK
    <2>5. QED
      BY <2>1, <2>2, <2>3, <2>4 DEF Moves
  <1>5. CASE InsertMember(r)
    <2> USE <1>5 DEF InsertMember
    <2>6. [role |-> "MEMBER", status |-> JoinStatus(r)] \in MemberRows
      BY DEF MemberRows, GroupRoles, JoinStatus
    <2>1. Walk(r) /\ Hands(r)
      BY <2>6, Goes, Stays DEF TInv, Labels, GroupLabels, NoticeLabels
    <2>2. Fits(Op(r), pc'[r])
      BY <2>6, Goes DEF TInv, Labels, GroupLabels, NoticeLabels, Walks, Fits
    <2>3. Carries(r)'
      BY <2>2, <2>6, Goes, Stays DEF TInv, Labels, GroupLabels, NoticeLabels, Walks, Fits, Carries,
         Op, On
    <2>4. GroupsOK'
      BY <2>6, PutTyped DEF TInv, TypeOK, GroupsOK
    <2>5. QED
      BY <2>1, <2>2, <2>3, <2>4 DEF Moves
  <1>6. CASE FindModerators(r)
    <2> USE <1>6 DEF FindModerators
    <2>6. {u \in People : \E m \in Membership(On(r), u) :
             members[m].status = "ACTIVE" /\ members[m].role \in CanModerate} \in SUBSET People
      OBVIOUS
    <2>1. Walk(r) /\ Hands(r)
      BY <2>6, Goes, HasSeen, CallsTyped DEF TInv, Labels, GroupLabels, NoticeLabels
    <2>2. Fits(Op(r), pc'[r])
      BY <2>6, Goes DEF TInv, Labels, GroupLabels, NoticeLabels, Walks, Fits
    <2>3. Carries(r)'
      BY <2>2, <2>6, Goes, HasSeen, CallsTyped DEF TInv, Labels, GroupLabels, NoticeLabels, Walks,
         Fits, Carries, Op, On
    <2>4. GroupsOK'
      BY DEF TInv, TypeOK, GroupsOK
    <2>5. QED
      BY <2>1, <2>2, <2>3, <2>4 DEF Moves
  <1>7. CASE Authorize(r)
    <2> USE <1>7 DEF Authorize
    <2>1. Walk(r) /\ Hands(r)
      BY Goes, Stays, HasRead, RowsSeen, CallsTyped DEF TInv, Labels, GroupLabels, NoticeLabels,
         Authorizing, Membership, MemberOps, ReviewOps
    <2>2. Fits(Op(r), pc'[r])
      BY Goes DEF TInv, Labels, GroupLabels, NoticeLabels, Walks, Fits, MemberOps, ReviewOps
    <2>3. Carries(r)'
      BY <2>2, Goes, Stays, HasRead, RowsSeen, CallsTyped DEF TInv, Labels, GroupLabels,
         NoticeLabels, Walks, Fits, Carries, Op, On, MemberOps, ReviewOps
    <2>4. GroupsOK'
      BY DEF TInv, TypeOK, GroupsOK
    <2>5. QED
      BY <2>1, <2>2, <2>3, <2>4 DEF Moves
  <1>8. CASE FindMember(r)
    <2> USE <1>8 DEF FindMember
    <2>6. PICK m \in Requests : members[m] # NONE /\ Reads(r, m, members[m])
      BY DEF Membership
    <2>7. members[m] \in MemberRows
      BY <2>6 DEF TInv, TypeOK
    <2>1. Walk(r) /\ Hands(r)
      BY <2>6, <2>7, Goes, HasRead, RowsSeen, CallsTyped DEF TInv, Labels, GroupLabels,
         NoticeLabels, Membership, MemberOps
    <2>2. Fits(Op(r), pc'[r])
      BY <2>6, <2>7, Goes DEF TInv, Labels, GroupLabels, NoticeLabels, Walks, Fits
    <2>3. Carries(r)'
      BY <2>2, <2>6, <2>7, Goes, HasRead, RowsSeen, CallsTyped DEF TInv, Labels, GroupLabels,
         NoticeLabels, Walks, Fits, Carries, Op, On
    <2>4. GroupsOK'
      BY DEF TInv, TypeOK, GroupsOK
    <2>5. QED
      BY <2>1, <2>2, <2>3, <2>4 DEF Moves
  <1>9. CASE SaveMember(r)
    <2> USE <1>9 DEF SaveMember
    <2>6. Changed(r) \in MemberRows \cup {NONE}
      BY CallsTyped DEF TInv, TypeOK, Walks, Fits, Carries, MemberOps, ArgsOf, MemberRows, Changed
    <2>1. Walk(r) /\ Hands(r)
      BY <2>6, Goes, HasWritten DEF TInv, Labels, GroupLabels, NoticeLabels, Counts
    <2>2. Fits(Op(r), pc'[r])
      BY <2>6, Goes DEF TInv, Labels, GroupLabels, NoticeLabels, Walks, Fits, Counts, MemberOps
    <2>3. Carries(r)'
      BY <2>2, <2>6, Goes, HasWritten DEF TInv, Labels, GroupLabels, NoticeLabels, Walks, Fits,
         Carries, Op, On
    <2>4. GroupsOK'
      BY <2>6, PutTyped DEF TInv, TypeOK, GroupsOK
    <2>5. QED
      BY <2>1, <2>2, <2>3, <2>4 DEF Moves
  <1>10. CASE CountMember(r)
    <2> USE <1>10 DEF CountMember
    <2>6. Op(r) = "approveMember" => To(r) \in People
      BY CallsTyped DEF TInv, TypeOK, OfUser, MemberOps
    <2>1. Walk(r) /\ Hands(r)
      BY <2>6, Goes, Stays, HasSeen, CallsTyped DEF TInv, Labels, GroupLabels, NoticeLabels
    <2>2. Fits(Op(r), pc'[r])
      BY <2>6, Goes DEF TInv, Labels, GroupLabels, NoticeLabels, Walks, Fits
    <2>3. Carries(r)'
      BY <2>2, <2>6, Goes, Stays, HasSeen, CallsTyped DEF TInv, Labels, GroupLabels, NoticeLabels,
         Walks, Fits, Carries, Op, On
    <2>4. GroupsOK'
      BY GroupsBumped DEF TInv, TypeOK, GroupsOK
    <2>5. QED
      BY <2>1, <2>2, <2>3, <2>4 DEF Moves
  <1>11. QED
    BY <1>1, <1>2, <1>3, <1>4, <1>5, <1>6, <1>7, <1>8, <1>9, <1>10 DEF MembershipStep

LEMMA GroupPostMoves ==
  ASSUME TInv, UNCHANGED call, NEW r \in Requests, GroupPostStep(r)
  PROVE  Moves(r) /\ GroupsOK' /\ FeedOK' /\ posts' \in [Requests -> PostRows \cup {NONE}]
  <1> USE DEF groupVars, feedVars
  <1>0. TypeOK
    BY DEF TInv
  <1>1. CASE InsertGroupPost(r)
    <2> USE <1>1 DEF InsertGroupPost
    <2>6. NewPost(IF NeedsApproval(r) THEN "PENDING" ELSE "APPROVED") \in PostRows
      BY DEF NewPost, PostRows, Approvals
    <2>1. Walk(r) /\ Hands(r)
      BY <2>6, Goes, Stays DEF TInv, Labels, GroupLabels, NoticeLabels, ContentLabels
    <2>2. Fits(Op(r), pc'[r])
      BY <2>6, Goes DEF TInv, Labels, GroupLabels, NoticeLabels, ContentLabels, Walks, Fits
    <2>3. Carries(r)'
      BY <2>2, <2>6, Goes, Stays DEF TInv, Labels, GroupLabels, NoticeLabels, ContentLabels, Walks,
         Fits, Carries, Op, On
    <2>4. GroupsOK' /\ FeedOK' /\ posts' \in [Requests -> PostRows \cup {NONE}]
      BY <2>6, PutTyped DEF TInv, TypeOK, GroupsOK, FeedOK
    <2>5. QED
      BY <2>1, <2>2, <2>3, <2>4 DEF Moves
  <1>2. CASE CountPost(r)
    <2> USE <1>2 DEF CountPost
    <2>1. Walk(r) /\ Hands(r)
      BY Goes, Stays DEF TInv, Labels, GroupLabels, NoticeLabels, ContentLabels
    <2>2. Fits(Op(r), pc'[r])
      BY Goes DEF TInv, Labels, GroupLabels, NoticeLabels, ContentLabels, Walks, Fits, ReviewOps
    <2>3. Carries(r)'
      BY <2>2, Goes, Stays DEF TInv, Labels, GroupLabels, NoticeLabels, ContentLabels, Walks, Fits,
         Carries, Op, On
    <2>4. GroupsOK' /\ FeedOK' /\ posts' \in [Requests -> PostRows \cup {NONE}]
      BY GroupsBumped DEF TInv, TypeOK, GroupsOK, FeedOK
    <2>5. QED
      BY <2>1, <2>2, <2>3, <2>4 DEF Moves
  <1>3. CASE FindPendingPost(r)
    <2> USE <1>3 DEF FindPendingPost
    <2>6. On(r) \in Requests
      BY CallsTyped DEF TInv, TypeOK, OfRow, Walks, Fits
    <2>7. posts[On(r)] \in PostRows
      BY <2>6 DEF TInv, TypeOK, Live
    <2>1. Walk(r) /\ Hands(r)
      BY <2>6, <2>7, Goes, HasRead, RowsSeen, CallsTyped DEF TInv, Labels, GroupLabels,
         NoticeLabels, ContentLabels
    <2>2. Fits(Op(r), pc'[r])
      BY <2>6, <2>7, Goes DEF TInv, Labels, GroupLabels, NoticeLabels, ContentLabels, Walks, Fits
    <2>3. Carries(r)'
      BY <2>2, <2>6, <2>7, Goes, HasRead, RowsSeen, CallsTyped DEF TInv, Labels, GroupLabels,
         NoticeLabels, ContentLabels, Walks, Fits, Carries, Op, On
    <2>4. GroupsOK' /\ FeedOK' /\ posts' \in [Requests -> PostRows \cup {NONE}]
      BY DEF TInv, TypeOK, GroupsOK, FeedOK
    <2>5. QED
      BY <2>1, <2>2, <2>3, <2>4 DEF Moves
  <1>4. CASE Review(r)
    <2> USE <1>4 DEF Review
    <2>6. [seen[r] EXCEPT !.approval = IF Op(r) = "approveGroupPost" THEN "APPROVED" ELSE "REJECTED"]
            \in PostRows \cup {NONE}
      BY DEF TInv, Walks, Carries, PostRows, Approvals
    <2>7. {By(On(r))} \in SUBSET People
      BY CallsTyped DEF TInv, TypeOK, Walks, Fits, OfRow
    <2>1. Walk(r) /\ Hands(r)
      BY <2>6, <2>7, Goes DEF TInv, Labels, GroupLabels, NoticeLabels, ContentLabels, Hands,
         LocalsOK, TypeOK
    <2>2. Fits(Op(r), pc'[r])
      BY <2>6, <2>7, Goes DEF TInv, Labels, GroupLabels, NoticeLabels, ContentLabels, Walks, Fits,
         ReviewOps
    <2>3. Carries(r)'
      BY <2>2, <2>6, <2>7, Goes DEF TInv, Labels, GroupLabels, NoticeLabels, ContentLabels, Walks,
         Fits, Carries, Op, On
    <2>4. GroupsOK' /\ FeedOK' /\ posts' \in [Requests -> PostRows \cup {NONE}]
      BY <2>6, PutTyped DEF TInv, TypeOK, GroupsOK, FeedOK
    <2>5. QED
      BY <2>1, <2>2, <2>3, <2>4 DEF Moves
  <1>5. CASE ListGroupPosts(r)
    <2> USE <1>5 DEF ListGroupPosts
    <2>1. Walk(r) /\ Hands(r)
      BY Goes, Stays DEF TInv, Labels, GroupLabels, NoticeLabels, ContentLabels, Show
    <2>2. Fits(Op(r), pc'[r])
      BY Goes DEF TInv, Labels, GroupLabels, NoticeLabels, ContentLabels, Walks, Fits
    <2>3. Carries(r)'
      BY <2>2, Goes, Stays DEF TInv, Labels, GroupLabels, NoticeLabels, ContentLabels, Walks, Fits,
         Carries, Op, On
    <2>4. GroupsOK' /\ FeedOK' /\ posts' \in [Requests -> PostRows \cup {NONE}]
      BY DEF TInv, TypeOK, GroupsOK, FeedOK, Show
    <2>5. QED
      BY <2>1, <2>2, <2>3, <2>4 DEF Moves
  <1>6. QED
    BY <1>1, <1>2, <1>3, <1>4, <1>5 DEF GroupPostStep

LEMMA MessagingMoves ==
  ASSUME TInv, UNCHANGED call, NEW r \in Requests, MessagingStep(r)
  PROVE  Moves(r) /\ TalksOK'
  <1> USE DEF talkVars
  <1>0. TypeOK
    BY DEF TInv
  <1>1. CASE StartTalk(r)
    <2> USE <1>1 DEF StartTalk
    <2>6. Founders(r) \ {By(r)} \in SUBSET People
      BY CallsTyped DEF TInv, TypeOK, Founders
    <2>1. Walk(r) /\ Hands(r)
      BY <2>6, Goes, Stays, HasSeen, CallsTyped DEF TInv, Labels, TalkLabels
    <2>2. Fits(Op(r), pc'[r])
      BY <2>6, Goes DEF TInv, Labels, TalkLabels, Walks, Fits, TalkMakers, IsGroup
    <2>3. Carries(r)'
      BY <2>2, <2>6, Goes, Stays, HasSeen, CallsTyped DEF TInv, Labels, TalkLabels, Walks, Fits,
         Carries, Op, On
    <2>4. TalksOK'
      BY DEF TInv, TypeOK, TalksOK
    <2>5. QED
      BY <2>1, <2>2, <2>3, <2>4 DEF Moves
  <1>2. CASE CheckEachFounder(r)
    <2> USE <1>2 DEF CheckEachFounder
    <2>6. Goto(r, "talk") \/ Goto(r, "blocked_each")
      OBVIOUS
    <2>7. \A u : todo[r] \ {u} \in SUBSET People
      BY DEF TInv, TypeOK
    <2>1. Walk(r) /\ Hands(r)
      BY <2>6, <2>7, Goes, Stays, HasSeen, CallsTyped DEF TInv, Labels, TalkLabels
    <2>2. Fits(Op(r), pc'[r])
      BY <2>6, <2>7, Goes DEF TInv, Labels, TalkLabels, Walks, Fits, TalkMakers
    <2>3. Carries(r)'
      BY <2>2, <2>6, <2>7, Goes, Stays, HasSeen, CallsTyped DEF TInv, Labels, TalkLabels, Walks,
         Fits, Carries, Op, On
    <2>4. TalksOK'
      BY DEF TInv, TypeOK, TalksOK
    <2>5. QED
      BY <2>1, <2>2, <2>3, <2>4 DEF Moves
  <1>3. CASE FindPair(r)
    <2> USE <1>3 DEF FindPair
    <2>1. Walk(r) /\ Hands(r)
      BY Goes, Stays, HasRead, RowsSeen, CallsTyped DEF TInv, Labels, TalkLabels, PairTalks
    <2>2. Fits(Op(r), pc'[r])
      BY Goes DEF TInv, Labels, TalkLabels, Walks, Fits, TalkMakers
    <2>3. Carries(r)'
      BY <2>2, Goes, Stays, HasRead, RowsSeen, CallsTyped DEF TInv, Labels, TalkLabels, Walks, Fits,
         Carries, Op, On
    <2>4. TalksOK'
      BY DEF TInv, TypeOK, TalksOK
    <2>5. QED
      BY <2>1, <2>2, <2>3, <2>4 DEF Moves
  <1>4. CASE InsertTalk(r)
    <2> USE <1>4 DEF InsertTalk
    <2>6. [last |-> NONE] \in TalkRows /\ TalkRows \subseteq Rows
      BY DEF TalkRows, Rows
    <2>1. Walk(r) /\ Hands(r)
      BY <2>6, Goes, HasRead, RowsSeen, CallsTyped DEF TInv, Labels, TalkLabels
    <2>2. Fits(Op(r), pc'[r])
      BY <2>6, Goes DEF TInv, Labels, TalkLabels, Walks, Fits
    <2>3. Carries(r)'
      BY <2>2, <2>6, Goes, HasRead, RowsSeen, CallsTyped DEF TInv, Labels, TalkLabels, Walks, Fits,
         Carries, Op, On
    <2>4. TalksOK'
      BY <2>6, PutTyped DEF TInv, TypeOK, TalksOK
    <2>5. QED
      BY <2>1, <2>2, <2>3, <2>4 DEF Moves
  <1>5. CASE InsertParticipants(r)
    <2> USE <1>5 DEF InsertParticipants
    <2>1. Walk(r) /\ Hands(r)
      BY Goes, Stays DEF TInv, Labels, TalkLabels
    <2>2. Fits(Op(r), pc'[r])
      BY Goes DEF TInv, Labels, TalkLabels, Walks, Fits, TalkMakers, IsGroup
    <2>3. Carries(r)'
      BY <2>2, Goes, Stays DEF TInv, Labels, TalkLabels, Walks, Fits, Carries, Op, On
    <2>4. TalksOK'
      BY DEF TInv, TypeOK, TalksOK, WithFounders, NewPart, PartRows, FounderRole
    <2>5. QED
      BY <2>1, <2>2, <2>3, <2>4 DEF Moves
  <1>6. CASE OpenTalk(r)
    <2> USE <1>6 DEF OpenTalk
    <2>1. Walk(r) /\ Hands(r)
      BY Goes, Stays DEF TInv, Labels, TalkLabels
    <2>2. Fits(Op(r), pc'[r])
      BY Goes DEF TInv, Labels, TalkLabels, Walks, Fits
    <2>3. Carries(r)'
      BY <2>2, Goes, Stays DEF TInv, Labels, TalkLabels, Walks, Fits, Carries, Op, On
    <2>4. TalksOK'
      BY DEF TInv, TypeOK, TalksOK
    <2>5. QED
      BY <2>1, <2>2, <2>3, <2>4 DEF Moves
  <1>7. CASE Publish(r)
    <2> USE <1>7 DEF Publish
    <2>1. Walk(r) /\ Hands(r)
      BY Goes, Stays DEF TInv, Labels, TalkLabels
    <2>2. Fits(Op(r), pc'[r])
      BY Goes DEF TInv, Labels, TalkLabels, Walks, Fits, IsGroup, TalkMakers
    <2>3. Carries(r)'
      BY <2>2, Goes, Stays DEF TInv, Labels, TalkLabels, Walks, Fits, Carries, Op, On
    <2>4. TalksOK'
      BY DEF TInv, TypeOK, TalksOK
    <2>5. QED
      BY <2>1, <2>2, <2>3, <2>4 DEF Moves
  <1>8. CASE AuthorizePart(r)
    <2> USE <1>8 DEF AuthorizePart
    <2>1. Walk(r) /\ Hands(r)
      BY Goes, Stays DEF TInv, Labels, TalkLabels
    <2>2. Fits(Op(r), pc'[r])
      BY Goes DEF TInv, Labels, TalkLabels, Walks, Fits, PartOps
    <2>3. Carries(r)'
      BY <2>2, Goes, Stays DEF TInv, Labels, TalkLabels, Walks, Fits, Carries, Op, On
    <2>4. TalksOK'
      BY DEF TInv, TypeOK, TalksOK
    <2>5. QED
      BY <2>1, <2>2, <2>3, <2>4 DEF Moves
  <1>9. CASE FindPart(r)
    <2> USE <1>9 DEF FindPart
    <2>6. PartOf(r) = <<PartOf(r)[1], PartOf(r)[2]>>
      BY DEF PartOf
    <2>7. PartOf(r) \in Requests \X People
      BY CallsTyped DEF TInv, TypeOK, OfRow, OfUser, PartOps, PartOf
    <2>8. parts[PartOf(r)] \in PartRows /\ parts[PartOf(r)] \in Rows
      BY <2>6, <2>7 DEF TInv, TypeOK, IsActive, Rows
    <2>9. Reads(r, NONE, parts[PartOf(r)]) /\ Goto(r, "part_row") /\ Op(r) \in PartOps
      OBVIOUS
    <2>10. pc'[r] = "part_row" /\ seen'[r] \in PartRows /\ Op(r) # "deleteMessage"
      BY <2>8, <2>9, Goes, HasRead DEF TInv, Labels, TalkLabels, PartOps
    <2>1. Walk(r) /\ Hands(r)
      BY <2>6, <2>7, <2>8, <2>9, <2>10, Goes, HasRead, RowsSeen, CallsTyped DEF TInv, Labels,
         TalkLabels
    <2>2. Fits(Op(r), pc'[r])
      BY <2>6, <2>7, <2>8, <2>9, <2>10, Goes DEF TInv, Labels, TalkLabels, Walks, Fits
    <2>3. Carries(r)'
      BY <2>10 DEF Fits, Carries, Op, On
    <2>4. TalksOK'
      BY DEF TInv, TypeOK, TalksOK
    <2>5. QED
      BY <2>1, <2>2, <2>3, <2>4 DEF Moves
  <1>10. CASE SavePart(r)
    <2> USE <1>10 DEF SavePart
    <2>6. \A row \in PartRows : /\ [row EXCEPT !.read = TRUE] \in PartRows
                                /\ [row EXCEPT !.left = TRUE] \in PartRows
                                /\ \A x \in {"MEMBER", "ADMIN", "OWNER"} : [row EXCEPT !.role = x] \in PartRows
      BY DEF PartRows
    <2>7. seen[r] \in PartRows /\ Op(r) \in PartOps
      BY DEF TInv, Walks, Fits, Carries
    <2>8. Op(r) \notin {"markRead", "removeParticipant"} => Arg(r) \in {"MEMBER", "ADMIN", "OWNER"}
      BY <2>7, CallsTyped DEF TInv, TypeOK, PartOps, ArgsOf
    <2>9. (CASE Op(r) = "markRead" -> [seen[r] EXCEPT !.read = TRUE]
             [] Op(r) = "removeParticipant" -> [seen[r] EXCEPT !.left = TRUE]
             [] OTHER -> [seen[r] EXCEPT !.role = Arg(r)]) \in PartRows \cup {NONE}
      BY <2>6, <2>7, <2>8
    <2>1. Walk(r) /\ Hands(r)
      BY <2>6, <2>7, <2>8, <2>9, Goes, HasWritten DEF TInv, Labels, TalkLabels
    <2>2. Fits(Op(r), pc'[r])
      BY <2>6, <2>7, <2>8, <2>9, Goes DEF TInv, Labels, TalkLabels, Walks, Fits, PartOps
    <2>3. Carries(r)'
      BY <2>2, <2>6, <2>7, <2>8, <2>9, Goes, HasWritten DEF TInv, Labels, TalkLabels, Walks, Fits,
         Carries, Op, On
    <2>4. TalksOK'
      BY <2>9, PutTyped DEF TInv, TypeOK, TalksOK
    <2>5. QED
      BY <2>1, <2>2, <2>3, <2>4 DEF Moves
  <1>11. CASE CountActive(r)
    <2> USE <1>11 DEF CountActive
    <2>6. call[r].to \ {By(r)} \in SUBSET People
      BY CallsTyped DEF TInv, TypeOK
    <2>1. Walk(r) /\ Hands(r)
      BY <2>6, Goes, HasSeen, CallsTyped DEF TInv, Labels, TalkLabels
    <2>2. Fits(Op(r), pc'[r])
      BY <2>6, Goes DEF TInv, Labels, TalkLabels, Walks, Fits
    <2>3. Carries(r)'
      BY <2>2, <2>6, Goes, HasSeen, CallsTyped DEF TInv, Labels, TalkLabels, Walks, Fits, Carries,
         Op, On
    <2>4. TalksOK'
      BY DEF TInv, TypeOK, TalksOK
    <2>5. QED
      BY <2>1, <2>2, <2>3, <2>4 DEF Moves
  <1>12. CASE AddEach(r)
    <2> USE <1>12 DEF AddEach
    <2>6. \A u \in todo[r] : u \in People
      BY DEF TInv, TypeOK
    <2>1. Walk(r) /\ Hands(r)
      BY <2>6, Goes, Stays, HasRead, RowsSeen, CallsTyped DEF TInv, Labels, TalkLabels
    <2>2. Fits(Op(r), pc'[r])
      BY <2>6, Goes DEF TInv, Labels, TalkLabels, Walks, Fits
    <2>3. Carries(r)'
      BY <2>2, <2>6, Goes, Stays, HasRead, RowsSeen, CallsTyped DEF TInv, Labels, TalkLabels, Walks,
         Fits, Carries, Op, On
    <2>4. TalksOK'
      BY DEF TInv, TypeOK, TalksOK
    <2>5. QED
      BY <2>1, <2>2, <2>3, <2>4 DEF Moves
  <1>13. CASE FindAdded(r)
    <2> USE <1>13 DEF FindAdded
    <2>6. todo[r] \ {target[r]} \in SUBSET People /\ target[r] \in People
      BY DEF TInv, TypeOK, Walks, Carries
    <2>7. On(r) \in Requests
      BY CallsTyped DEF TInv, TypeOK, Walks, Fits, OfRow
    <2>8. parts[Adding(r)] \in PartRows \cup {NONE} /\ parts[Adding(r)] \in Rows \cup {NONE}
      BY <2>6, <2>7 DEF TInv, TypeOK, Adding, Rows
    <2>1. Walk(r) /\ Hands(r)
      BY <2>6, <2>7, <2>8, Goes, HasRead, RowsSeen, HasSeen, CallsTyped DEF TInv, Labels, TalkLabels
    <2>2. Fits(Op(r), pc'[r])
      BY <2>6, <2>7, <2>8, Goes DEF TInv, Labels, TalkLabels, Walks, Fits
    <2>3. Carries(r)'
      BY <2>2, <2>6, <2>7, <2>8, Goes, HasRead, RowsSeen, HasSeen, CallsTyped DEF TInv, Labels,
         TalkLabels, Walks, Fits, Carries, Op, On
    <2>4. TalksOK'
      BY DEF TInv, TypeOK, TalksOK
    <2>5. QED
      BY <2>1, <2>2, <2>3, <2>4 DEF Moves
  <1>14. CASE SaveAdded(r)
    <2> USE <1>14 DEF SaveAdded
    <2>6. (IF seen[r] = NONE THEN NewPart("MEMBER")
           ELSE [seen[r] EXCEPT !.role = "MEMBER", !.left = FALSE]) \in PartRows \cup {NONE}
      BY DEF TInv, Walks, Carries, NewPart, PartRows
    <2>1. Walk(r) /\ Hands(r)
      BY <2>6, Goes DEF TInv, Labels, TalkLabels, Hands, LocalsOK, TypeOK
    <2>2. Fits(Op(r), pc'[r])
      BY <2>6, Goes DEF TInv, Labels, TalkLabels, Walks, Fits
    <2>3. Carries(r)'
      BY <2>2, <2>6, Goes DEF TInv, Labels, TalkLabels, Walks, Fits, Carries, Op, On
    <2>4. TalksOK'
      BY <2>6, PutTyped DEF TInv, TypeOK, TalksOK
    <2>5. QED
      BY <2>1, <2>2, <2>3, <2>4 DEF Moves
  <1>15. CASE FindTalk(r)
    <2> USE <1>15 DEF FindTalk
    <2>6. Op(r) \in {"sendMessage", "deleteMessage"} => On(r) \in Requests
      BY CallsTyped DEF TInv, TypeOK, OfRow
    <2>7. Op(r) = "deleteMessage" => messages[On(r)] \in MessageRows
      BY <2>6 DEF TInv, TypeOK
    <2>1. Walk(r) /\ Hands(r)
      BY <2>6, <2>7, Goes, Stays, HasRead, RowsSeen, CallsTyped DEF TInv, Labels, TalkLabels
    <2>2. Fits(Op(r), pc'[r])
      BY <2>6, <2>7, Goes DEF TInv, Labels, TalkLabels, Walks, Fits
    <2>3. Carries(r)'
      BY <2>2, <2>6, <2>7, Goes, Stays, HasRead, RowsSeen, CallsTyped DEF TInv, Labels, TalkLabels,
         Walks, Fits, Carries, Op, On
    <2>4. TalksOK'
      BY DEF TInv, TypeOK, TalksOK
    <2>5. QED
      BY <2>1, <2>2, <2>3, <2>4 DEF Moves
  <1>16. CASE AssertActiveParticipant(r)
    <2> USE <1>16 DEF AssertActiveParticipant
    <2>1. Walk(r) /\ Hands(r)
      BY Goes, Stays DEF TInv, Labels, TalkLabels
    <2>2. Fits(Op(r), pc'[r])
      BY Goes DEF TInv, Labels, TalkLabels, Walks, Fits
    <2>3. Carries(r)'
      BY <2>2, Goes, Stays DEF TInv, Labels, TalkLabels, Walks, Fits, Carries, Op, On
    <2>4. TalksOK'
      BY DEF TInv, TypeOK, TalksOK
    <2>5. QED
      BY <2>1, <2>2, <2>3, <2>4 DEF Moves
  <1>17. CASE InsertMessage(r)
    <2> USE <1>17 DEF InsertMessage
    <2>6. [deleted |-> FALSE] \in MessageRows
      BY DEF MessageRows
    <2>1. Walk(r) /\ Hands(r)
      BY <2>6, Goes, Stays DEF TInv, Labels, TalkLabels
    <2>2. Fits(Op(r), pc'[r])
      BY <2>6, Goes DEF TInv, Labels, TalkLabels, Walks, Fits
    <2>3. Carries(r)'
      BY <2>2, <2>6, Goes, Stays DEF TInv, Labels, TalkLabels, Walks, Fits, Carries, Op, On
    <2>4. TalksOK'
      BY <2>6, PutTyped DEF TInv, TypeOK, TalksOK
    <2>5. QED
      BY <2>1, <2>2, <2>3, <2>4 DEF Moves
  <1>18. CASE SaveLast(r)
    <2> USE <1>18 DEF SaveLast
    <2>6. [last |-> r] \in TalkRows
      BY DEF TalkRows
    <2>1. Walk(r) /\ Hands(r)
      BY <2>6, Goes, HasWritten DEF TInv, Labels, TalkLabels
    <2>2. Fits(Op(r), pc'[r])
      BY <2>6, Goes DEF TInv, Labels, TalkLabels, Walks, Fits
    <2>3. Carries(r)'
      BY <2>2, <2>6, Goes, HasWritten DEF TInv, Labels, TalkLabels, Walks, Fits, Carries, Op, On
    <2>4. TalksOK'
      BY <2>6, PutTyped DEF TInv, TypeOK, TalksOK
    <2>5. QED
      BY <2>1, <2>2, <2>3, <2>4 DEF Moves
  <1>19. CASE DeleteMessage(r)
    <2> USE <1>19 DEF DeleteMessage
    <2>6. [seen[r] EXCEPT !.deleted = TRUE] \in MessageRows \cup {NONE}
      BY DEF TInv, Walks, Fits, Carries, MessageRows
    <2>1. Walk(r) /\ Hands(r)
      BY <2>6, Goes, HasWritten DEF TInv, Labels, TalkLabels
    <2>2. Fits(Op(r), pc'[r])
      BY <2>6, Goes DEF TInv, Labels, TalkLabels, Walks, Fits
    <2>3. Carries(r)'
      BY <2>2, <2>6, Goes, HasWritten DEF TInv, Labels, TalkLabels, Walks, Fits, Carries, Op, On
    <2>4. TalksOK'
      BY <2>6, PutTyped DEF TInv, TypeOK, TalksOK
    <2>5. QED
      BY <2>1, <2>2, <2>3, <2>4 DEF Moves
  <1>20. QED
    BY <1>1, <1>2, <1>3, <1>4, <1>5, <1>6, <1>7, <1>8, <1>9, <1>10, <1>11, <1>12, <1>13, <1>14,
       <1>15, <1>16, <1>17, <1>18, <1>19 DEF MessagingStep

LEMMA ListMoves ==
  ASSUME TInv, UNCHANGED call, NEW r \in Requests, ListStep(r)
  PROVE  Moves(r) /\ FeedOK'
  <1> USE DEF Show
  <1>0. TypeOK
    BY DEF TInv
  <1>1. CASE List(r)
    <2> USE <1>1 DEF List
    <2>6. Selected(r) \subseteq Requests
      BY DEF Selected, FollowedBy, FollowersOf, FriendsOf, getPendingRequests, getCommentsByPost,
         CommentsOf, getReplies, RepliesTo, getReactions, LikesOf, getActiveStoriesByAuthor,
         listNotices, getUnreadCount, listGroups, getTrendingTopics
    <2>1. Walk(r) /\ Hands(r)
      BY <2>6, Goes, Stays DEF TInv, Labels, ListLabels
    <2>2. Fits(Op(r), pc'[r])
      BY <2>6, Goes DEF TInv, Labels, ListLabels, Walks, Fits
    <2>3. Carries(r)'
      BY <2>2, <2>6, Goes, Stays DEF TInv, Labels, ListLabels, Walks, Fits, Carries, Op, On
    <2>4. FeedOK'
      BY <2>6 DEF TInv, TypeOK, FeedOK
    <2>5. QED
      BY <2>1, <2>2, <2>3, <2>4 DEF Moves
  <1>2. CASE GetGroup(r)
    <2> USE <1>2 DEF GetGroup
    <2>6. On(r) \in Requests
      BY CallsTyped DEF TInv, TypeOK, OfRow
    <2>1. Walk(r) /\ Hands(r)
      BY <2>6, Goes, Stays DEF TInv, Labels, ListLabels
    <2>2. Fits(Op(r), pc'[r])
      BY <2>6, Goes DEF TInv, Labels, ListLabels, Walks, Fits
    <2>3. Carries(r)'
      BY <2>2, <2>6, Goes, Stays DEF TInv, Labels, ListLabels, Walks, Fits, Carries, Op, On
    <2>4. FeedOK'
      BY <2>6 DEF TInv, TypeOK, FeedOK, Membership
    <2>5. QED
      BY <2>1, <2>2, <2>3, <2>4 DEF Moves
  <1>3. CASE ListMembers(r)
    <2> USE <1>3 DEF ListMembers
    <2>1. Walk(r) /\ Hands(r)
      BY Goes, Stays DEF TInv, Labels, ListLabels
    <2>2. Fits(Op(r), pc'[r])
      BY Goes DEF TInv, Labels, ListLabels, Walks, Fits
    <2>3. Carries(r)'
      BY <2>2, Goes, Stays DEF TInv, Labels, ListLabels, Walks, Fits, Carries, Op, On
    <2>4. FeedOK'
      BY DEF TInv, TypeOK, FeedOK
    <2>5. QED
      BY <2>1, <2>2, <2>3, <2>4 DEF Moves
  <1>4. CASE GetConversation(r)
    <2> USE <1>4 DEF GetConversation
    <2>6. On(r) \in Requests
      BY CallsTyped DEF TInv, TypeOK, OfRow
    <2>1. Walk(r) /\ Hands(r)
      BY <2>6, Goes, Stays DEF TInv, Labels, ListLabels
    <2>2. Fits(Op(r), pc'[r])
      BY <2>6, Goes DEF TInv, Labels, ListLabels, Walks, Fits
    <2>3. Carries(r)'
      BY <2>2, <2>6, Goes, Stays DEF TInv, Labels, ListLabels, Walks, Fits, Carries, Op, On
    <2>4. FeedOK'
      BY <2>6 DEF TInv, TypeOK, FeedOK
    <2>5. QED
      BY <2>1, <2>2, <2>3, <2>4 DEF Moves
  <1>5. CASE FindMemberships(r)
    <2> USE <1>5 DEF FindMemberships
    <2>1. Walk(r) /\ Hands(r)
      BY Goes, Stays DEF TInv, Labels, ListLabels
    <2>2. Fits(Op(r), pc'[r])
      BY Goes DEF TInv, Labels, ListLabels, Walks, Fits
    <2>3. Carries(r)'
      BY <2>2, Goes, Stays DEF TInv, Labels, ListLabels, Walks, Fits, Carries, Op, On
    <2>4. FeedOK'
      BY DEF TInv, TypeOK, FeedOK
    <2>5. QED
      BY <2>1, <2>2, <2>3, <2>4 DEF Moves
  <1>6. CASE ListConversations(r)
    <2> USE <1>6 DEF ListConversations
    <2>1. Walk(r) /\ Hands(r)
      BY Goes, Stays DEF TInv, Labels, ListLabels
    <2>2. Fits(Op(r), pc'[r])
      BY Goes DEF TInv, Labels, ListLabels, Walks, Fits
    <2>3. Carries(r)'
      BY <2>2, Goes, Stays DEF TInv, Labels, ListLabels, Walks, Fits, Carries, Op, On
    <2>4. FeedOK'
      BY DEF TInv, TypeOK, FeedOK
    <2>5. QED
      BY <2>1, <2>2, <2>3, <2>4 DEF Moves
  <1>7. QED
    BY <1>1, <1>2, <1>3, <1>4, <1>5, <1>6 DEF ListStep

LEMMA OtherMoves ==
  ASSUME TInv, UNCHANGED call, NEW r \in Requests, Fails(r) \/ ListMessages(r)
  PROVE  Moves(r) /\ (ListMessages(r) => FeedOK')
  <1>0. TypeOK
    BY DEF TInv
  <1>1. CASE Fails(r)
    <2>1. Goto(r, "failed") /\ UNCHANGED locals
      BY <1>1 DEF Fails
    <2>2. Walk(r) /\ Hands(r) /\ pc'[r] = "failed"
      BY <1>0, <2>1, Goes, Stays DEF Labels
    <2>3. Fits(Op(r), pc'[r]) /\ Carries(r)'
      BY <2>2 DEF Fits, Carries, Op, On
    <2>4. ListMessages(r) => FeedOK'
      BY DEF ListMessages, Show, TInv, TypeOK, FeedOK
    <2>5. QED
      BY <2>2, <2>3, <2>4 DEF Moves
  <1>2. CASE ListMessages(r)
    <2>1. Goto(r, "ok") /\ UNCHANGED locals
      BY <1>2 DEF ListMessages
    <2>2. Walk(r) /\ Hands(r) /\ pc'[r] = "ok"
      BY <1>0, <2>1, Goes, Stays DEF Labels
    <2>3. Fits(Op(r), pc'[r]) /\ Carries(r)'
      BY <2>2 DEF Fits, Carries, Op, On
    <2>4. FeedOK'
      BY <1>2 DEF ListMessages, Show, TInv, TypeOK, FeedOK
    <2>5. QED
      BY <2>2, <2>3, <2>4 DEF Moves
  <1>3. QED
    BY <1>1, <1>2

LEMMA StepTypes ==
  ASSUME TInv, UNCHANGED call, NEW r \in Requests, Step(r)
  PROVE  TInv'
  <1>1. LinksOK /\ NoticesOK /\ ContentOK /\ FeedOK /\ GroupsOK /\ TalksOK
    BY DEF TInv, TypeOK, LinksOK, NoticesOK, ContentOK, FeedOK, GroupsOK, TalksOK
  <1>2. /\ Moves(r)
        /\ LinksOK' /\ NoticesOK' /\ ContentOK' /\ FeedOK' /\ GroupsOK' /\ TalksOK'
    <2>1. CASE /\ ConnectionStep(r)
               /\ UNCHANGED <<noticeVars, contentVars, feedVars, groupVars, talkVars>>
      <3>1. Moves(r) /\ LinksOK'
        BY <2>1, ConnectionMoves
      <3>2. QED
        BY <1>1, <2>1, <3>1
        DEF NoticesOK, ContentOK, FeedOK, GroupsOK, TalksOK, noticeVars, contentVars, feedVars,
            groupVars, talkVars
    <2>2. CASE /\ NoticeStep(r)
               /\ UNCHANGED <<linkVars, contentVars, feedVars, groupVars, talkVars>>
      <3>1. Moves(r) /\ NoticesOK'
        BY <2>2, NoticeMoves
      <3>2. QED
        BY <1>1, <2>2, <3>1
        DEF LinksOK, ContentOK, FeedOK, GroupsOK, TalksOK, linkVars, contentVars, feedVars,
            groupVars, talkVars
    <2>3. CASE /\ ContentStep(r)
               /\ UNCHANGED <<linkVars, noticeVars, feedVars, groupVars, talkVars>>
      <3>1. Moves(r) /\ ContentOK'
        BY <2>3, ContentMoves
      <3>2. QED
        BY <1>1, <2>3, <3>1
        DEF LinksOK, NoticesOK, FeedOK, GroupsOK, TalksOK, linkVars, noticeVars, feedVars, groupVars,
            talkVars
    <2>4. CASE /\ FeedStep(r)
               /\ UNCHANGED <<linkVars, noticeVars, comments, reactions, stories, docs, groupVars, talkVars>>
      <3>1. Moves(r) /\ FeedOK' /\ posts' \in [Requests -> PostRows \cup {NONE}]
        BY <2>4, FeedMoves
      <3>2. QED
        BY <1>1, <2>4, <3>1
        DEF LinksOK, NoticesOK, ContentOK, GroupsOK, TalksOK, linkVars, noticeVars, groupVars, talkVars
    <2>5. CASE /\ MembershipStep(r)
               /\ UNCHANGED <<linkVars, noticeVars, contentVars, feedVars, talkVars>>
      <3>1. Moves(r) /\ GroupsOK'
        BY <2>5, MembershipMoves
      <3>2. QED
        BY <1>1, <2>5, <3>1
        DEF LinksOK, NoticesOK, ContentOK, FeedOK, TalksOK, linkVars, noticeVars, contentVars,
            feedVars, talkVars
    <2>6. CASE /\ GroupPostStep(r)
               /\ UNCHANGED <<linkVars, noticeVars, comments, reactions, stories, docs, talkVars>>
      <3>1. Moves(r) /\ GroupsOK' /\ FeedOK' /\ posts' \in [Requests -> PostRows \cup {NONE}]
        BY <2>6, GroupPostMoves
      <3>2. QED
        BY <1>1, <2>6, <3>1
        DEF LinksOK, NoticesOK, ContentOK, TalksOK, linkVars, noticeVars, talkVars
    <2>7. CASE /\ MessagingStep(r)
               /\ UNCHANGED <<linkVars, noticeVars, contentVars, feedVars, groupVars>>
      <3>1. Moves(r) /\ TalksOK'
        BY <2>7, MessagingMoves
      <3>2. QED
        BY <1>1, <2>7, <3>1
        DEF LinksOK, NoticesOK, ContentOK, FeedOK, GroupsOK, linkVars, noticeVars, contentVars,
            feedVars, groupVars
    <2>8. CASE ListMessages(r) /\ UNCHANGED <<linkVars, noticeVars, contentVars, groupVars>>
      <3>1. Moves(r) /\ FeedOK' /\ UNCHANGED talkVars
        BY <2>8, OtherMoves DEF ListMessages
      <3>2. QED
        BY <1>1, <2>8, <3>1
        DEF LinksOK, NoticesOK, ContentOK, GroupsOK, TalksOK, linkVars, noticeVars, contentVars,
            groupVars, talkVars
    <2>9. CASE /\ ListStep(r)
               /\ UNCHANGED <<linkVars, noticeVars, contentVars, groupVars, talkVars>>
      <3>1. Moves(r) /\ FeedOK'
        BY <2>9, ListMoves
      <3>2. QED
        BY <1>1, <2>9, <3>1
        DEF LinksOK, NoticesOK, ContentOK, GroupsOK, TalksOK, linkVars, noticeVars, contentVars,
            groupVars, talkVars
    <2>10. CASE /\ Fails(r)
                /\ UNCHANGED <<linkVars, noticeVars, contentVars, feedVars, groupVars, talkVars>>
      <3>1. Moves(r)
        BY <2>10, OtherMoves
      <3>2. QED
        BY <1>1, <2>10, <3>1
        DEF LinksOK, NoticesOK, ContentOK, FeedOK, GroupsOK, TalksOK, linkVars, noticeVars,
            contentVars, feedVars, groupVars, talkVars
    <2>11. QED
      BY <2>1, <2>2, <2>3, <2>4, <2>5, <2>6, <2>7, <2>8, <2>9, <2>10 DEF Step
  <1>3. TypeOK'
    BY <1>2 DEF Moves, Walk, Hands, LocalsOK, TInv, TypeOK, LinksOK, NoticesOK, ContentOK, FeedOK,
       GroupsOK, TalksOK
  <1>4. ASSUME NEW q \in Requests
        PROVE  Fits(Op(q)', pc'[q]) /\ Carries(q)'
    <2>1. CASE q = r
      BY <1>2, <2>1 DEF Moves, Op
    <2>2. CASE q # r
      <3>1. /\ pc'[q] = pc[q] /\ target'[q] = target[q] /\ seen'[q] = seen[q] /\ todo'[q] = todo[q]
            /\ Fits(Op(q), pc[q]) /\ Carries(q)
        BY <1>2, <2>2 DEF Moves, Walk, Hands, TInv, Walks
      <3>2. Fits(Op(q)', pc'[q])
        BY <3>1 DEF Op
      <3>3. Carries(q)'
        BY <3>1 DEF Carries, Op, On
      <3>4. QED
        BY <3>2, <3>3
    <2>3. QED
      BY <2>1, <2>2
  <1>5. QED
    BY <1>3, <1>4 DEF TInv, Walks

LEMMA InitTypes ==
  Init => TInv
  <1> SUFFICES ASSUME Init
               PROVE  TInv
    OBVIOUS
  <1>1. call \in Plans
    BY DEF Init, CallsInit
  <1>2. \A S \in SUBSET Requests : Cardinality(S) \in Nat
    BY SocialAssumption, FS_Subset, FS_CardinalityType
  <1>3. pc \in [Requests -> {"ok", "idle"}]
    BY DEF Init, CallsInit
  <1>4. CallsOK
    BY <1>1, <1>3 DEF Init, CallsInit, CallsOK, Labels
  <1>5. LinksOK
    <2>1. links \in [Requests -> LinkRows \cup {NONE}]
      BY <1>1, CallsTyped DEF Init, LinksInit, Kind, LinkRows, LinkStatuses, ArgsOf
    <2>2. \A u \in People : /\ Cardinality(FollowersOf(u)) \in Int
                            /\ Cardinality(FollowedBy(u)) \in Int
                            /\ Cardinality(FriendsOf(u)) \in Int
      BY <1>2 DEF FollowersOf, FollowedBy, FriendsOf
    <2>3. profiles \in [People -> Counters \cup {NONE}]
      BY <2>2 DEF Init, LinksInit, Counters
    <2>4. QED
      BY <2>1, <2>3 DEF Init, LinksInit, LinksOK
  <1>6. NoticesOK
    BY DEF Init, NoticesInit, NoticesOK
  <1>7. ContentOK
    <2>1. reactions \in [Requests -> ReactionRows \cup {NONE}]
      BY <1>1, CallsTyped DEF Init, ContentInit, ArgsOf, ReactionRows
    <2>2. \A x : /\ Cardinality(LikesOf(x)) \in Int
                 /\ Cardinality({d \in Requests : Made(d) /\ IsComment(d) /\ Place(d) = x}) \in Int
      BY <1>2 DEF LikesOf
    <2>3. \A m, n \in Int : [NewComment EXCEPT !.likes = m, !.replies = n] \in CommentRows
      BY DEF NewComment, CommentRows
    <2>4. comments \in [Requests -> CommentRows \cup {NONE}]
      BY <2>2, <2>3 DEF Init, ContentInit
    <2>5. \A p : Cardinality(CommentsOf(p)) \in Int
      BY <1>2 DEF CommentsOf
    <2>6. \A a \in Approvals : \A m, n \in Int :
            [NewPost(a) EXCEPT !.likes = m, !.comments = n] \in PostRows
      <3>1. \A a \in Approvals : NewPost(a) \in PostRows
        BY DEF NewPost, PostRows
      <3>2. \A row \in PostRows : \A m, n \in Int : [row EXCEPT !.likes = m, !.comments = n] \in PostRows
        BY DEF PostRows
      <3>3. QED
        BY <3>1, <3>2
    <2>7. \A p \in Requests : Made(p) =>
            (IF Op(p) = "createGroupPost" THEN Arg(p) ELSE "NONE") \in Approvals
      BY <1>1, CallsTyped DEF ArgsOf, Approvals
    <2>8. posts \in [Requests -> PostRows \cup {NONE}]
      BY <2>2, <2>5, <2>6, <2>7 DEF Init, ContentInit
    <2>9. stories \in [Requests -> StoryRows \cup {NONE}]
      BY DEF Init, ContentInit, StoryRows
    <2>10. docs \in [Requests -> Documents]
      BY <1>1, CallsTyped DEF Init, ContentInit, Documents
    <2>11. QED
      BY <2>1, <2>4, <2>8, <2>9, <2>10 DEF ContentOK
  <1>8. FeedOK
    BY DEF Init, FeedInit, FeedOK
  <1>9. GroupsOK
    <2>1. members \in [Requests -> MemberRows \cup {NONE}]
      BY <1>1, CallsTyped DEF Init, GroupsInit, MemberRows, GroupRoles, ArgsOf
    <2>2. \A g : Cardinality(ActiveMembers(g)) \in Int /\ Cardinality(ApprovedPosts(g)) \in Int
      BY <1>2 DEF ActiveMembers, ApprovedPosts
    <2>3. groups \in [Requests -> GroupRows \cup {NONE}]
      BY <2>2 DEF Init, GroupsInit, GroupRows
    <2>4. QED
      BY <2>1, <2>3 DEF GroupsOK
  <1>10. TalksOK
    <2>1. \A role \in {"MEMBER", "ADMIN", "OWNER"} : NewPart(role) \in PartRows
      BY DEF NewPart, PartRows
    <2>2. \A c, u : FounderRole(c, u) \in {"MEMBER", "OWNER"}
      BY DEF FounderRole
    <2>3. parts \in [Requests \X People -> PartRows \cup {NONE}]
      BY <2>1, <2>2 DEF Init, TalksInit
    <2>4. QED
      BY <2>3 DEF Init, TalksInit, TalksOK, TalkRows, MessageRows
  <1>11. Walks
    <2>1. \A r \in Requests : pc[r] \in {"ok", "idle"} /\ seen[r] = NONE /\ target[r] = NONE
      BY <1>3 DEF Init, CallsInit
    <2>2. \A r \in Requests : Fits(Op(r), pc[r])
      <3>1. \A op : Fits(op, "ok")
        BY DEF Fits
      <3>2. \A op : Fits(op, "idle")
        BY DEF Fits
      <3>3. QED
        BY <2>1, <3>1, <3>2
    <2>3. \A r \in Requests : Carries(r)
      BY <2>1 DEF Carries
    <2>4. QED
      BY <2>2, <2>3 DEF Walks
  <1>12. QED
    BY <1>4, <1>5, <1>6, <1>7, <1>8, <1>9, <1>10, <1>11
    DEF TInv, TypeOK, CallsOK, LinksOK, NoticesOK, ContentOK, FeedOK, GroupsOK, TalksOK

LEMMA TypesStep ==
  TInv /\ [Next]_vars => TInv'
  <1> SUFFICES ASSUME TInv, [Next]_vars
               PROVE  TInv'
    OBVIOUS
  <1>1. CASE Next
    BY <1>1, StepTypes DEF Next
  <1>2. CASE UNCHANGED vars
    <2>1. TypeOK'
      BY <1>2 DEF vars, callVars, locals, linkVars, noticeVars, contentVars, feedVars, groupVars,
                  talkVars, TInv, TypeOK
    <2>2. Walks'
      BY <1>2 DEF vars, callVars, locals, TInv, Walks, Fits, Carries, Op, On
    <2>3. QED
      BY <2>1, <2>2 DEF TInv
  <1>3. QED
    BY <1>1, <1>2

\* Whatever the calls and however they interleave, every column of the social
\* tables and every local of a call keeps its type.
THEOREM SocialTypes == Spec => []TypeOK
  <1>1. Spec => []TInv
    BY InitTypes, TypesStep, PTL DEF Spec
  <1>2. TInv => TypeOK
    BY DEF TInv
  <1>3. QED
    BY <1>1, <1>2, PTL

----------------------------------------------------------------------------
(* Where each part of the module leads *)

\* Where each module leads, and for which operations.
LEMMA ConnectionRoute ==
  ASSUME TInv, NEW r \in Requests, ConnectionStep(r)
  PROVE  /\ Op(r) \in ConnectionOps \cup ProfileOps \cup DiscoveryOps
         /\ pc[r] \in LinkLabels \cup {"idle"} /\ pc'[r] \in LinkLabels \cup {"ok"}
  <1> USE Goes DEF TInv, Walks, Fits, Labels, LinkLabels, ConnectionOps, ProfileOps, DiscoveryOps, Kind
  <1>1. CASE FindLink(r)
    BY <1>1 DEF FindLink
  <1>2. CASE CheckBlock(r) \/ Unfollow(r) \/ Link(r)
    BY <1>2 DEF CheckBlock, Unfollow, Link
  <1>3. CASE Drop(r) \/ CountFollower(r) \/ CountFollowing(r) \/ Log(r)
    BY <1>3 DEF Drop, CountFollower, CountFollowing, Log
  <1>4. CASE FindRequest(r) \/ Answer(r) \/ CountFriend(r)
    BY <1>4 DEF FindRequest, Answer, CountFriend
  <1>5. CASE FindProfile(r) \/ SaveProfile(r) \/ GetUserProfile(r)
    BY <1>5 DEF FindProfile, SaveProfile, GetUserProfile
  <1>6. CASE FindTies(r) \/ Suggest(r)
    BY <1>6 DEF FindTies, Suggest
  <1>7. QED
    BY <1>1, <1>2, <1>3, <1>4, <1>5, <1>6 DEF ConnectionStep

Notifiers == {"createPost", "createComment", "toggleReaction", "joinGroup", "approveMember",
              "createGroupPost"} \cup ReviewOps
LEMMA NoticeRoute ==
  ASSUME TInv, NEW r \in Requests, NoticeStep(r)
  PROVE  /\ Op(r) \in NoticeOps \cup Notifiers
         /\ pc[r] \in {"idle", "notify", "mark"}
         /\ pc[r] = "idle" => Op(r) \in NoticeOps
         /\ pc'[r] \in {"notify", "unindex", "mark", "ok"}
  <1> USE Goes DEF TInv, Walks, Fits, Labels, NoticeLabels, ContentLabels, NoticeOps, Notifiers
  <1>1. CASE Dispatch(r)
    BY <1>1 DEF Dispatch
  <1>2. CASE Dispatched(r)
    BY <1>2 DEF Dispatched
  <1>3. CASE FindNotice(r) \/ MarkRead(r) \/ MarkAllRead(r)
    BY <1>3 DEF FindNotice, MarkRead, MarkAllRead
  <1>4. QED
    BY <1>1, <1>2, <1>3 DEF NoticeStep

LEMMA ContentRoute ==
  ASSUME TInv, NEW r \in Requests, ContentStep(r)
  PROVE  /\ Op(r) \in ContentOps \cup {"createGroupPost", "approveGroupPost"}
         /\ pc[r] \in ContentLabels \cup {"idle"}
         /\ pc[r] = "idle" => Op(r) \in ContentOps
         /\ pc'[r] \in ContentLabels \cup {"notify", "ok"}
  <1> USE Goes DEF TInv, Walks, Fits, Labels, NoticeLabels, ContentLabels, ContentOps, PostOps,
                   CommentOps, ReactionOps, StoryOps
  <1>1. CASE InsertPost(r) \/ SaveMedia(r) \/ SaveTags(r) \/ Unindex(r)
    BY <1>1 DEF InsertPost, SaveMedia, SaveTags, Unindex
  <1>2. CASE Index(r)
    BY <1>2 DEF Index
  <1>3. CASE FindOwnPost(r) \/ DeletePost(r)
    BY <1>3 DEF FindOwnPost, DeletePost
  <1>4. CASE DeleteDocuments(r)
    <2>1. (pc[r] \in {"del_media", "del_tags"}) /\ (Goto(r, "del_tags") \/ Goto(r, "ok"))
      BY <1>4 DEF DeleteDocuments
    <2>2. QED
      BY <2>1
  <1>5. CASE FindOriginal(r) \/ Repost(r)
    BY <1>5 DEF FindOriginal, Repost
  <1>6. CASE FindPost(r) \/ InsertComment(r) \/ CountReply(r) \/ SaveMentions(r)
    BY <1>6 DEF FindPost, IsComment, InsertComment, CountReply, SaveMentions
  <1>7. CASE CountComment(r)
    BY <1>7 DEF CountComment, CommentCounted
  <1>8. CASE FindOwnComment(r) \/ DeleteComment(r) \/ UncountComment(r) \/ UncountReply(r)
    BY <1>8 DEF FindOwnComment, DeleteComment, UncountComment, UncountReply
  <1>9. CASE FindTarget(r) \/ FindReaction(r) \/ Unreact(r) \/ Rereact(r) \/ React(r)
    BY <1>9 DEF FindTarget, FindReaction, Unreact, Rereact, React
  <1>10. CASE CountLike(r) \/ FindOwner(r)
    BY <1>10 DEF CountLike, FindOwner
  <1>11. CASE CreateStory(r) \/ FindStory(r) \/ ViewStory(r) \/ DeleteStory(r) \/ CleanStories(r)
    BY <1>11 DEF CreateStory, FindStory, ViewStory, DeleteStory, CleanStories
  <1>12. QED
    BY <1>1, <1>2, <1>3, <1>4, <1>5, <1>6, <1>7, <1>8, <1>9, <1>10, <1>11 DEF ContentStep

LEMMA FeedRoute ==
  ASSUME TInv, NEW r \in Requests, FeedStep(r)
  PROVE  /\ Op(r) \in FeedOps
         /\ pc[r] \in FeedLabels \cup {"idle"} /\ pc'[r] \in FeedLabels \cup {"ok"}
  <1> USE Goes DEF TInv, Walks, Fits, Labels, FeedLabels, FeedOps, NewsfeedOps
  <1>1. CASE FindPostById(r) \/ CheckTie(r) \/ Attach(r) \/ CountView(r)
    BY <1>1 DEF FindPostById, CheckTie, Attach, CountView
  <1>2. CASE FindConnections(r) \/ FindFeedPosts(r) \/ FindTagged(r)
    BY <1>2 DEF FindConnections, FindFeedPosts, FindTagged
  <1>3. CASE FindTagPosts(r) \/ CheckEach(r) \/ EndHashtagFeed(r)
    BY <1>3 DEF FindTagPosts, CheckEach, EndHashtagFeed
  <1>4. QED
    BY <1>1, <1>2, <1>3 DEF FeedStep

LEMMA MembershipRoute ==
  ASSUME TInv, NEW r \in Requests, MembershipStep(r)
  PROVE  /\ Op(r) \in GroupOps
         /\ pc[r] \in {"idle", "slug", "group", "owner", "join", "moderators", "member",
                       "member_row", "count_member"}
         /\ pc'[r] \in (GroupLabels \ {"review", "count_post"}) \cup {"notify", "ok"}
         /\ pc'[r] = "group_post" => pc[r] = "idle"
  <1> USE Goes DEF TInv, Walks, Fits, Labels, GroupLabels, NoticeLabels, GroupOps, MemberOps, ReviewOps
  <1>1. CASE FindSlug(r)
    BY <1>1 DEF FindSlug
  <1>2. CASE InsertGroup(r) \/ InsertOwner(r) \/ JoinGroup(r) \/ InsertMember(r)
    BY <1>2 DEF InsertGroup, InsertOwner, JoinGroup, InsertMember
  <1>3. CASE FindModerators(r)
    BY <1>3 DEF FindModerators
  <1>4. CASE Authorize(r)
    BY <1>4 DEF Authorize
  <1>5. CASE FindMember(r) \/ SaveMember(r) \/ CountMember(r)
    BY <1>5 DEF FindMember, SaveMember, CountMember
  <1>6. QED
    BY <1>1, <1>2, <1>3, <1>4, <1>5 DEF MembershipStep

LEMMA GroupPostRoute ==
  ASSUME TInv, NEW r \in Requests, GroupPostStep(r)
  PROVE  /\ Op(r) \in GroupOps \ MemberOps
         /\ pc[r] \in {"group_post", "count_post", "pending_post", "review", "posts"}
         /\ pc'[r] \in {"moderators", "count_post", "unindex", "review", "notify", "ok"}
  <1> USE Goes DEF TInv, Walks, Fits, Labels, GroupLabels, NoticeLabels, ContentLabels, GroupOps,
                   MemberOps, ReviewOps
  <1>1. CASE InsertGroupPost(r) \/ CountPost(r) \/ FindPendingPost(r)
    BY <1>1 DEF InsertGroupPost, CountPost, FindPendingPost
  <1>2. CASE Review(r) \/ ListGroupPosts(r)
    BY <1>2 DEF Review, ListGroupPosts
  <1>3. QED
    BY <1>1, <1>2 DEF GroupPostStep

LEMMA MessagingRoute ==
  ASSUME TInv, NEW r \in Requests, MessagingStep(r)
  PROVE  /\ Op(r) \in TalkOps
         /\ pc[r] \in TalkLabels \cup {"idle"} /\ pc'[r] \in TalkLabels \cup {"ok"}
  <1> USE Goes DEF TInv, Walks, Fits, Labels, TalkLabels, TalkOps, TalkMakers, PartOps, IsGroup
  <1>1. CASE StartTalk(r) \/ FindPair(r) \/ InsertTalk(r)
    BY <1>1 DEF StartTalk, FindPair, InsertTalk
  <1>2. CASE CheckEachFounder(r)
    <2>1. pc[r] = "blocked_each" /\ (Goto(r, "talk") \/ Goto(r, "blocked_each"))
      BY <1>2 DEF CheckEachFounder
    <2>2. QED
      BY <2>1
  <1>3. CASE InsertParticipants(r) \/ OpenTalk(r) \/ Publish(r)
    BY <1>3 DEF InsertParticipants, OpenTalk, Publish
  <1>4. CASE AuthorizePart(r) \/ FindPart(r) \/ SavePart(r)
    BY <1>4 DEF AuthorizePart, FindPart, SavePart
  <1>5. CASE CountActive(r) \/ AddEach(r)
    BY <1>5 DEF CountActive, AddEach
  <1>6. CASE FindAdded(r) \/ SaveAdded(r)
    BY <1>6 DEF FindAdded, SaveAdded
  <1>7. CASE FindTalk(r) \/ AssertActiveParticipant(r) \/ InsertMessage(r)
    BY <1>7 DEF FindTalk, AssertActiveParticipant, InsertMessage
  <1>8. CASE SaveLast(r) \/ DeleteMessage(r)
    BY <1>8 DEF SaveLast, DeleteMessage
  <1>9. QED
    BY <1>1, <1>2, <1>3, <1>4, <1>5, <1>6, <1>7, <1>8 DEF MessagingStep

LEMMA ListRoute ==
  ASSUME TInv, NEW r \in Requests, ListStep(r) \/ ListMessages(r)
  PROVE  /\ Op(r) \in Selections \cup {"getGroup", "listMembers", "getConversation",
                                      "listConversations", "listMessages"}
         /\ pc[r] \in {"idle", "members", "conversations", "messages"}
         /\ pc'[r] \in {"conversations", "ok"}
  <1> USE Goes DEF TInv, Walks, Fits, Labels, ListLabels
  <1>1. CASE ListMessages(r)
    BY <1>1 DEF ListMessages
  <1>2. CASE List(r) \/ GetGroup(r) \/ ListMembers(r)
    BY <1>2 DEF List, GetGroup, ListMembers
  <1>3. CASE GetConversation(r) \/ FindMemberships(r) \/ ListConversations(r)
    BY <1>3 DEF GetConversation, FindMemberships, ListConversations
  <1>4. QED
    BY <1>1, <1>2, <1>3 DEF ListStep

LEMMA FailRoute ==
  ASSUME TInv, NEW r \in Requests, Fails(r)
  PROVE  pc[r] \notin {"idle", "ok", "failed"} /\ pc'[r] = "failed"
  BY Goes DEF TInv, Labels, Fails, Ended

----------------------------------------------------------------------------
(* What is deleted stays deleted *)

Early == {"idle", "blocked_each", "pair", "talk", "participants"}
Asked(r) == \E s \in stale \cap Requests : On(s) = On(r)
Brought(r) ==
  \E s \in Requests \ {r} : /\ On(s) = On(r)
                            /\ \/ s \in stale
                               \/ Op(s) = "addGroupMembers" /\ To(r) \in call[s].to

PostsGone ==
  \A r \in Requests :
    /\ posts[r] # NONE => pc[r] \notin {"idle", "repost", "group_post"}
    /\ pc[r] \in {"del_post", "review"} => posts[On(r)] # NONE
    /\ Op(r) = "deletePost" /\ pc[r] \in {"del_media", "del_tags", "ok"} =>
         posts[On(r)] # NONE /\ (posts[On(r)].deleted \/ Asked(r))
StoriesGone ==
  \A r \in Requests :
    /\ stories[r] # NONE => pc[r] # "idle"
    /\ pc[r] = "del_story" => stories[On(r)] # NONE
    /\ Op(r) = "deleteStory" /\ pc[r] = "ok" => stories[On(r)] # NONE /\ stories[On(r)].deleted
MessagesGone ==
  \A r \in Requests :
    /\ messages[r] # NONE => Op(r) = "sendMessage" /\ pc[r] \notin {"idle", "in_talk", "message"}
    /\ Op(r) = "deleteMessage" /\ pc[r] \in {"in_talk", "del_message"} => messages[On(r)] # NONE
    /\ Op(r) = "deleteMessage" /\ pc[r] \in {"publish", "ok"} =>
         messages[On(r)] # NONE /\ messages[On(r)].deleted
PartsGone ==
  \A r \in Requests :
    /\ \A u \in People : parts[<<r, u>>] # NONE => pc[r] \notin Early
    /\ Op(r) = "addGroupMembers" /\ pc[r] \in {"active_count", "add", "add_find", "add_row"} =>
         parts[<<On(r), By(r)>>] # NONE
    /\ pc[r] = "part_row" => parts[PartOf(r)] # NONE
    /\ Op(r) = "removeParticipant" /\ pc[r] \in {"publish", "ok"} =>
         parts[<<On(r), To(r)>>] # NONE /\ (IsActive(On(r), To(r)) => Brought(r))

AddLabels == {"add", "add_find", "add_row"}

\* No addition has counted the conversation, or r was the last that has.
NeverCounted(c) ==
  /\ \A q \in Additions(c) : pc[q] \notin AddLabels
  /\ Cardinality(ActiveIn(c) \ Restored(c)) <= MaxMembers
LastCounted(c, r) ==
  /\ \A q \in Additions(c) \ {r} : pc[q] \in AddLabels => Overlap(q, r)
  /\ Cardinality((ActiveIn(c) \cup Newcomers(r)) \ (Restored(c) \cup AddedBeside(r))) <= MaxMembers
Limits ==
  \A c \in Requests :
    /\ IsGroup(c) /\ pc[c] \in Early \ {"idle"} => Cardinality(Founders(c)) <= MaxMembers
    /\ \A s \in before[c] : pc[s] = "ok"
    /\ pc[c] \in AddLabels => By(c) \notin todo[c]
    /\ NeverCounted(c) \/ \E r \in Additions(c) : LastCounted(c, r)

----------------------------------------------------------------------------
(* posts *)

KeptPosts ==
  \A p \in Requests : /\ posts'[p] = NONE <=> posts[p] = NONE
                      /\ posts[p] # NONE => posts'[p].deleted = posts[p].deleted

LEMMA BumpKept ==
  ASSUME TInv, NEW x, NEW n \in Int, NEW counter \in {"likes", "comments", "shares", "views"},
         posts' = Bump(posts, x, counter, n)
  PROVE  KeptPosts
  <1>1. \A row \in PostRows : /\ [row EXCEPT ![counter] = row[counter] + n].deleted = row.deleted
                              /\ [row EXCEPT ![counter] = row[counter] + n] \in PostRows
    BY DEF PostRows
  <1>2. NONE \notin PostRows
    BY SocialAssumption DEF Rows
  <1>3. CASE posts[x] = NONE
    BY <1>3 DEF Bump, KeptPosts
  <1>4. CASE posts[x] # NONE
    <2> DEFINE row == [posts[x] EXCEPT ![counter] = posts[x][counter] + n]
    <2>1. posts' = [posts EXCEPT ![x] = row]
      BY <1>4 DEF Bump
    <2>2. x \in Requests => row \in PostRows /\ row.deleted = posts[x].deleted
      BY <1>1, <1>4 DEF TInv, TypeOK
    <2> HIDE DEF row
    <2>3. QED
      BY <1>2, <1>4, <2>1, <2>2 DEF TInv, TypeOK, KeptPosts
  <1>5. QED
    BY <1>3, <1>4

LEMMA RowNamed ==
  ASSUME TInv, NEW r \in Requests
  PROVE  /\ Op(r) \in {"deletePost", "deleteStory", "deleteMessage", "removeParticipant",
                       "addGroupMembers", "markRead"} \cup ReviewOps \cup PartOps =>
              On(r) \in Requests
         /\ pc[r] \in {"del_post", "review"} => On(r) \in Requests
         /\ pc[r] = "del_story" => On(r) \in Requests
         /\ By(r) \in People
         /\ Op(r) \in {"removeParticipant", "updateParticipantRole"} => To(r) \in People
  BY CallsTyped DEF TInv, TypeOK, Walks, Fits, OfRow, OfUser, PartOps, ReviewOps

\* A step of r that leaves the posts there, and none of them undeleted.
SparesPosts(r) ==
  /\ KeptPosts
  /\ pc'[r] \in {"repost", "group_post"} => pc[r] = "idle"
  /\ pc'[r] \in {"del_post", "review"} => posts[On(r)] # NONE
  /\ Op(r) = "deletePost" /\ pc'[r] \in {"del_media", "del_tags", "ok"} =>
       pc[r] \in {"del_media", "del_tags"}

LEMMA SparedPosts ==
  ASSUME TInv, TInv', UNCHANGED call, NEW r \in Requests, Moves(r), PostsGone, SparesPosts(r)
  PROVE  PostsGone'
  <1> SUFFICES ASSUME NEW q \in Requests
               PROVE  /\ posts'[q] # NONE => pc'[q] \notin {"idle", "repost", "group_post"}
                      /\ pc'[q] \in {"del_post", "review"} => posts'[On(q)] # NONE
                      /\ Op(q) = "deletePost" /\ pc'[q] \in {"del_media", "del_tags", "ok"} =>
                           posts'[On(q)] # NONE /\ (posts'[On(q)].deleted \/ Asked(q)')
    BY DEF PostsGone, Op, On
  <1>1. Asked(q) => Asked(q)'
    BY DEF Asked, Moves, Hands, On
  <1>2. /\ On(q)' = On(q) /\ Op(q)' = Op(q)
        /\ Op(q) = "deletePost" => On(q) \in Requests
        /\ pc'[q] \in {"del_post", "review"} => On(q) \in Requests
    <2>1. On(q)' = On(q) /\ Op(q)' = Op(q)
      BY DEF On, Op
    <2>2. Op(q) = "deletePost" => On(q) \in Requests
      BY RowNamed
    <2>3. pc'[q] \in {"del_post", "review"} => Op(q)' \in {"deletePost"} \cup ReviewOps
      BY DEF TInv, Walks, Fits
    <2>4. QED
      BY <2>1, <2>2, <2>3, RowNamed
  <1>3. CASE q = r
    BY <1>1, <1>2, <1>3 DEF SparesPosts, KeptPosts, PostsGone, Moves, Walk
  <1>4. CASE q # r
    BY <1>1, <1>2, <1>4 DEF SparesPosts, KeptPosts, PostsGone, Moves, Walk
  <1>5. QED
    BY <1>3, <1>4

LEMMA InsertsPost ==
  ASSUME TInv, TInv', UNCHANGED call, NEW r \in Requests, Moves(r), PostsGone,
         NEW row \in PostRows, posts' = [posts EXCEPT ![r] = row],
         pc[r] \in {"idle", "repost", "group_post"},
         pc'[r] \in {"media", "share", "moderators", "count_post"}
  PROVE  PostsGone'
  <1>1. posts[r] = NONE /\ NONE \notin PostRows
    BY SocialAssumption DEF PostsGone, Rows
  <1>2. ASSUME NEW q \in Requests
        PROVE  /\ posts'[q] # NONE => pc'[q] \notin {"idle", "repost", "group_post"}
               /\ pc'[q] \in {"del_post", "review"} => posts'[On(q)] # NONE
               /\ Op(q) = "deletePost" /\ pc'[q] \in {"del_media", "del_tags", "ok"} =>
                           posts'[On(q)] # NONE /\ (posts'[On(q)].deleted \/ Asked(q)')
    <2>1. Asked(q) => Asked(q)'
      BY DEF Asked, Moves, Hands, On
    <2>2. CASE q = r
      BY <2>2 DEF PostsGone, Moves, Walk, TInv, TypeOK
    <2>3. CASE q # r
      <3>1. pc'[q] = pc[q]
        BY <2>3 DEF Moves, Walk
      <3>2. posts[On(q)] # NONE => posts'[On(q)] = posts[On(q)]
        BY <1>1 DEF TInv, TypeOK
      <3>3. QED
        BY <2>1, <2>3, <3>1, <3>2 DEF PostsGone
    <2>4. QED
      BY <2>2, <2>3
  <1>3. QED
    BY <1>2 DEF PostsGone, Op, On

LEMMA OverwritesPost ==
  ASSUME TInv, TInv', UNCHANGED call, NEW r \in Requests, Moves(r), PostsGone, On(r) \in Requests,
         posts[On(r)] # NONE,
         NEW row \in PostRows, posts' = [posts EXCEPT ![On(r)] = row],
         row.deleted = posts[On(r)].deleted \/ r \in stale' \/ row.deleted,
         pc'[r] \in {"del_media", "count_post", "notify"},
         Op(r) = "deletePost" => row.deleted
  PROVE  PostsGone'
  <1>1. NONE \notin PostRows
    BY SocialAssumption DEF Rows
  <1>2. ASSUME NEW q \in Requests
        PROVE  /\ posts'[q] # NONE => pc'[q] \notin {"idle", "repost", "group_post"}
               /\ pc'[q] \in {"del_post", "review"} => posts'[On(q)] # NONE
               /\ Op(q) = "deletePost" /\ pc'[q] \in {"del_media", "del_tags", "ok"} =>
                           posts'[On(q)] # NONE /\ (posts'[On(q)].deleted \/ Asked(q)')
    <2>1. Asked(q) => Asked(q)'
      BY DEF Asked, Moves, Hands, On
    <2>2. posts[On(q)] # NONE => posts'[On(q)] # NONE
      BY <1>1 DEF TInv, TypeOK
    <2>3. posts'[q] # NONE => posts[q] # NONE
      BY DEF TInv, TypeOK
    <2>4. On(q) = On(r) /\ posts[On(q)].deleted => posts'[On(q)].deleted \/ Asked(q)'
      <3>1. posts'[On(r)] = row
        BY DEF TInv, TypeOK
      <3>2. r \in stale' /\ On(q) = On(r) => Asked(q)'
        BY DEF Asked, On
      <3>3. QED
        BY <3>1, <3>2
    <2>5. On(q) # On(r) => posts'[On(q)] = posts[On(q)]
      BY DEF TInv, TypeOK
    <2>6. CASE q = r
      <3>1. posts'[On(r)] = row
        BY DEF TInv, TypeOK
      <3>2. QED
        BY <1>1, <2>3, <2>6, <3>1 DEF PostsGone, Moves, Walk
    <2>7. CASE q # r
      <3>1. pc'[q] = pc[q]
        BY <2>7 DEF Moves, Walk
      <3>2. QED
        BY <2>1, <2>2, <2>3, <2>4, <2>5, <2>7, <3>1 DEF PostsGone
    <2>8. QED
      BY <2>6, <2>7
  <1>3. QED
    BY <1>2 DEF PostsGone, Op, On

LEMMA ContentPosts ==
  ASSUME TInv, TInv', UNCHANGED call, NEW r \in Requests, ContentStep(r), PostsGone
  PROVE  PostsGone'
  <1>0. TypeOK /\ Moves(r)
    BY ContentMoves DEF TInv
  <1>1. CASE InsertPost(r)
    <2>1. NewPost("NONE") \in PostRows
      BY DEF NewPost, PostRows, Approvals
    <2>2. posts' = [posts EXCEPT ![r] = NewPost("NONE")] /\ pc[r] = "idle" /\ pc'[r] = "media"
      BY <1>0, <1>1, Goes DEF InsertPost, Labels, ContentLabels
    <2>3. QED
      BY <1>0, <2>1, <2>2, InsertsPost
  <1>2. CASE Repost(r)
    <2>1. NewPost("NONE") \in PostRows
      BY DEF NewPost, PostRows, Approvals
    <2>2. CASE pc[r] = "repost"
      <3>1. posts' = [posts EXCEPT ![r] = NewPost("NONE")] /\ pc'[r] = "share"
        BY <1>0, <1>2, <2>2, Goes DEF Repost, Labels, ContentLabels
      <3>2. QED
        BY <1>0, <2>1, <2>2, <3>1, InsertsPost
    <2>3. CASE pc[r] = "share"
      <3>1. posts' = Bump(posts, On(r), "shares", 1) /\ pc'[r] = "ok" /\ Op(r) # "deletePost"
        BY <1>0, <1>2, <2>3, Goes DEF Repost, Labels, ContentLabels, TInv, Walks, Fits
      <3>2. KeptPosts
        BY <3>1, BumpKept
      <3>3. QED
        BY <1>0, <3>1, <3>2, SparedPosts DEF SparesPosts
    <2>4. QED
      BY <1>2, <2>2, <2>3 DEF Repost
  <1>3. CASE DeletePost(r)
    <2>1. [seen[r] EXCEPT !.deleted = TRUE] \in PostRows /\ [seen[r] EXCEPT !.deleted = TRUE].deleted
      BY <1>3 DEF DeletePost, TInv, Walks, Carries, PostRows
    <2>2. /\ pc[r] = "del_post" /\ target[r] = On(r) /\ On(r) \in Requests
          /\ pc'[r] = "del_media"
      BY <1>0, <1>3, Goes, RowNamed DEF DeletePost, TInv, Walks, Carries, Labels, ContentLabels
    <2>3. posts' = [posts EXCEPT ![On(r)] = [seen[r] EXCEPT !.deleted = TRUE]] /\ posts[On(r)] # NONE
      BY <1>3, <2>2 DEF DeletePost, PostsGone
    <2>4. QED
      BY <1>0, <2>1, <2>2, <2>3, OverwritesPost
  <1>4. CASE CountComment(r) \/ UncountComment(r) \/ CountLike(r)
    <2>1. KeptPosts
      <3>1. CASE CountComment(r)
        BY <3>1, BumpKept DEF CountComment
      <3>2. CASE UncountComment(r)
        BY <3>2, BumpKept DEF UncountComment
      <3>3. CASE CountLike(r)
        BY <3>3, BumpKept DEF CountLike, KeptPosts
      <3>4. QED
        BY <1>4, <3>1, <3>2, <3>3
    <2>2. pc'[r] \in {"count_reply", "mention", "notify", "uncount_reply", "like_notice", "ok"}
          /\ Op(r) # "deletePost"
      BY <1>0, <1>4, Goes DEF CountComment, UncountComment, CountLike, CommentCounted, Labels,
         ContentLabels, NoticeLabels, TInv, Walks, Fits
    <2>3. QED
      BY <1>0, <2>1, <2>2, SparedPosts DEF SparesPosts
  <1>5. CASE FindOwnPost(r)
    <2>1. posts' = posts /\ posts[On(r)] # NONE /\ pc'[r] = "del_post"
      BY <1>0, <1>5, Goes DEF FindOwnPost, contentVars, Labels, ContentLabels
    <2>2. QED
      BY <1>0, <2>1, SparedPosts DEF SparesPosts, KeptPosts
  <1>6. CASE DeleteDocuments(r)
    <2>1. posts' = posts /\ pc[r] \in {"del_media", "del_tags"} /\ (Goto(r, "del_tags") \/ Goto(r, "ok"))
      BY <1>6 DEF DeleteDocuments
    <2>2. pc'[r] \in {"del_tags", "ok"}
      BY <1>0, <2>1, Goes DEF Labels, ContentLabels
    <2>3. QED
      BY <1>0, <2>1, <2>2, SparedPosts DEF SparesPosts, KeptPosts
  <1>7. CASE FindOriginal(r)
    <2>1. posts' = posts /\ pc'[r] = "repost" /\ pc[r] = "idle"
      BY <1>0, <1>7, Goes DEF FindOriginal, contentVars, Labels, ContentLabels
    <2>2. QED
      BY <1>0, <2>1, SparedPosts DEF SparesPosts, KeptPosts
  <1>8. ASSUME posts' = posts, Op(r) # "deletePost", pc'[r] \notin {"repost", "group_post", "del_post", "review"}
        PROVE  PostsGone'
    BY <1>0, <1>8, SparedPosts DEF SparesPosts, KeptPosts
  <1> USE Goes DEF TInv, Walks, Fits, Labels, ContentLabels, NoticeLabels, contentVars
  <1>9. CASE SaveMedia(r) \/ SaveTags(r) \/ Unindex(r)
    BY <1>8, <1>9 DEF SaveMedia, SaveTags, Unindex
  <1>10. CASE Index(r)
    BY <1>8, <1>10 DEF Index
  <1>11. CASE FindPost(r) \/ InsertComment(r) \/ CountReply(r) \/ SaveMentions(r)
    BY <1>8, <1>11 DEF FindPost, IsComment, InsertComment, CountReply, SaveMentions
  <1>12. CASE FindOwnComment(r) \/ DeleteComment(r) \/ UncountReply(r)
    BY <1>8, <1>12 DEF FindOwnComment, DeleteComment, UncountReply
  <1>13. CASE FindTarget(r) \/ FindReaction(r) \/ Unreact(r) \/ Rereact(r) \/ React(r) \/ FindOwner(r)
    BY <1>8, <1>13 DEF FindTarget, FindReaction, Unreact, Rereact, React, FindOwner
  <1>14. CASE CreateStory(r) \/ FindStory(r) \/ ViewStory(r) \/ DeleteStory(r) \/ CleanStories(r)
    BY <1>8, <1>14 DEF CreateStory, FindStory, ViewStory, DeleteStory, CleanStories
  <1>15. QED
    BY <1>1, <1>2, <1>3, <1>4, <1>5, <1>6, <1>7, <1>9, <1>10, <1>11, <1>12, <1>13, <1>14
    DEF ContentStep

LEMMA PostsStep ==
  ASSUME TInv, TInv', UNCHANGED call, NEW r \in Requests, Step(r), PostsGone
  PROVE  PostsGone'
  <1>0. TypeOK
    BY DEF TInv
  <1>1. CASE ContentStep(r)
    BY <1>1, ContentPosts
  <1>2. CASE /\ FeedStep(r)
             /\ UNCHANGED <<linkVars, noticeVars, comments, reactions, stories, docs, groupVars, talkVars>>
    <2>1. Moves(r)
      BY <1>2, FeedMoves
    <2>2. KeptPosts
      <3>1. CASE CountView(r)
        BY <3>1, BumpKept DEF CountView, KeptPosts
      <3>2. CASE UNCHANGED posts
        BY <3>2 DEF KeptPosts
      <3>3. QED
        BY <1>2, <3>1, <3>2 DEF FeedStep, Attach
    <2>3. QED
      BY <1>2, <2>1, <2>2, FeedRoute, SparedPosts DEF SparesPosts, FeedLabels, FeedOps, NewsfeedOps
  <1>3. CASE /\ GroupPostStep(r)
             /\ UNCHANGED <<linkVars, noticeVars, comments, reactions, stories, docs, talkVars>>
    <2>0. Moves(r)
      BY <1>3, GroupPostMoves
    <2>1. CASE InsertGroupPost(r)
      <3>1. NewPost(IF NeedsApproval(r) THEN "PENDING" ELSE "APPROVED") \in PostRows
        BY DEF NewPost, PostRows, Approvals
      <3>2. /\ posts' = [posts EXCEPT ![r] = NewPost(IF NeedsApproval(r) THEN "PENDING" ELSE "APPROVED")]
            /\ pc[r] = "group_post" /\ pc'[r] \in {"moderators", "count_post"}
        BY <1>0, <2>1, Goes DEF InsertGroupPost, Labels, GroupLabels
      <3>3. QED
        BY <2>0, <3>1, <3>2, InsertsPost
    <2>2. CASE Review(r)
      <3> DEFINE row == [seen[r] EXCEPT !.approval = IF Op(r) = "approveGroupPost" THEN "APPROVED" ELSE "REJECTED"]
      <3>1. row \in PostRows /\ row.deleted = seen[r].deleted
        BY <2>2 DEF Review, TInv, Walks, Carries, PostRows, Approvals
      <3>2. posts' = [posts EXCEPT ![On(r)] = row]
        BY <2>2 DEF Review
      <3> HIDE DEF row
      <3>3. posts[On(r)] = seen[r] \/ r \in stale'
        BY <2>2 DEF Review
      <3>4. On(r) \in Requests /\ posts[On(r)] # NONE /\ Op(r) # "deletePost"
        BY <2>2, RowNamed DEF Review, PostsGone, TInv, Walks, Fits, ReviewOps
      <3>5. pc'[r] \in {"count_post", "notify"}
        BY <1>0, <2>2, Goes DEF Review, Labels, GroupLabels, NoticeLabels
      <3>6. QED
        BY <2>0, <3>1, <3>2, <3>3, <3>4, <3>5, OverwritesPost
    <2>3. CASE FindPendingPost(r)
      <3>1. posts' = posts /\ posts[On(r)] # NONE /\ pc'[r] = "review"
        BY <1>0, <2>3, Goes DEF FindPendingPost, Live, Labels, GroupLabels
      <3>2. QED
        BY <2>0, <3>1, SparedPosts DEF SparesPosts, KeptPosts
    <2>4. CASE CountPost(r) \/ ListGroupPosts(r)
      <3>1. posts' = posts /\ pc'[r] \in {"unindex", "ok"} /\ Op(r) # "deletePost"
        BY <1>0, <2>4, Goes DEF CountPost, ListGroupPosts, Labels, ContentLabels, TInv, Walks, Fits, ReviewOps
      <3>2. QED
        BY <2>0, <3>1, SparedPosts DEF SparesPosts, KeptPosts
    <2>5. QED
      BY <1>3, <2>1, <2>2, <2>3, <2>4 DEF GroupPostStep
  <1>4. ASSUME posts' = posts, Moves(r), Op(r) # "deletePost" \/ pc'[r] = "failed",
               pc'[r] = "group_post" => pc[r] = "idle", pc'[r] \notin {"repost", "del_post", "review"}
        PROVE  PostsGone'
    BY <1>4, SparedPosts DEF SparesPosts, KeptPosts
  <1>5. CASE ConnectionStep(r) /\ UNCHANGED contentVars
    BY <1>4, <1>5, ConnectionRoute, ConnectionMoves
    DEF contentVars, ConnectionOps, ProfileOps, DiscoveryOps, LinkLabels
  <1>6. CASE NoticeStep(r) /\ UNCHANGED contentVars
    BY <1>4, <1>6, NoticeRoute, NoticeMoves DEF contentVars, NoticeOps, Notifiers, ReviewOps
  <1>7. CASE MembershipStep(r) /\ UNCHANGED contentVars
    BY <1>4, <1>7, MembershipRoute, MembershipMoves
    DEF contentVars, GroupOps, MemberOps, ReviewOps, GroupLabels
  <1>8. CASE MessagingStep(r) /\ UNCHANGED contentVars
    BY <1>4, <1>8, MessagingRoute, MessagingMoves DEF contentVars, TalkOps, TalkMakers, PartOps, TalkLabels
  <1>9. CASE (ListStep(r) \/ ListMessages(r)) /\ UNCHANGED contentVars
    BY <1>4, <1>9, ListRoute, ListMoves, OtherMoves DEF contentVars, Selections
  <1>10. CASE Fails(r) /\ UNCHANGED contentVars
    BY <1>4, <1>10, FailRoute, OtherMoves DEF contentVars
  <1>11. QED
    BY <1>1, <1>2, <1>3, <1>5, <1>6, <1>7, <1>8, <1>9, <1>10 DEF Step

----------------------------------------------------------------------------
(* stories *)

SparesStories(r) ==
  /\ \A s \in Requests : stories[s] # NONE =>
       stories'[s] # NONE /\ (stories[s].deleted => stories'[s].deleted)
  /\ \A s \in Requests \ {r} : stories'[s] # NONE => stories[s] # NONE
  /\ pc'[r] = "del_story" => stories[On(r)] # NONE
  /\ Op(r) = "deleteStory" /\ pc'[r] = "ok" => stories'[On(r)] # NONE /\ stories'[On(r)].deleted

LEMMA SparedStories ==
  ASSUME TInv, TInv', UNCHANGED call, NEW r \in Requests, Moves(r), StoriesGone, SparesStories(r)
  PROVE  StoriesGone'
  <1> SUFFICES ASSUME NEW q \in Requests
               PROVE  /\ stories'[q] # NONE => pc'[q] # "idle"
                      /\ pc'[q] = "del_story" => stories'[On(q)] # NONE
                      /\ Op(q) = "deleteStory" /\ pc'[q] = "ok" =>
                           stories'[On(q)] # NONE /\ stories'[On(q)].deleted
    BY DEF StoriesGone, Op, On
  <1>1. Op(q) = "deleteStory" => On(q) \in Requests
    BY RowNamed
  <1>2. pc'[q] = "del_story" => Op(q) = "deleteStory"
    BY DEF TInv, Walks, Fits, Op
  <1>3. CASE q = r
    BY <1>1, <1>2, <1>3 DEF SparesStories, StoriesGone, Moves, Walk
  <1>4. CASE q # r
    BY <1>1, <1>2, <1>4 DEF SparesStories, StoriesGone, Moves, Walk
  <1>5. QED
    BY <1>3, <1>4

LEMMA ContentStories ==
  ASSUME TInv, TInv', UNCHANGED call, NEW r \in Requests, ContentStep(r), StoriesGone
  PROVE  StoriesGone'
  <1>0. TypeOK /\ Moves(r)
    BY ContentMoves DEF TInv
  <1>n. NONE \notin StoryRows
    BY SocialAssumption DEF Rows
  <1>1. CASE CreateStory(r)
    <2>1. [deleted |-> FALSE, views |-> 0] \in StoryRows
      BY DEF StoryRows
    <2>2. stories' = [stories EXCEPT ![r] = [deleted |-> FALSE, views |-> 0]] /\ stories[r] = NONE
          /\ Op(r) = "createStory" /\ pc'[r] = "ok"
      BY <1>0, <1>1, Goes DEF CreateStory, StoriesGone, Labels
    <2>3. SparesStories(r)
      BY <1>n, <2>1, <2>2 DEF SparesStories, TInv, TypeOK
    <2>4. QED
      BY <1>0, <2>3, SparedStories
  <1>2. CASE FindStory(r)
    <2>1. stories' = stories /\ pc'[r] \in {"view_story", "del_story"} /\ stories[On(r)] # NONE
      BY <1>0, <1>2, Goes DEF FindStory, contentVars, Labels, ContentLabels
    <2>2. QED
      BY <1>0, <2>1, SparedStories DEF SparesStories
  <1>3. CASE ViewStory(r)
    <2>1. target[r] \in Requests /\ Op(r) = "viewStory"
      BY <1>3, CallsTyped DEF ViewStory, TInv, TypeOK, Walks, Fits, Carries, OfRow
    <2> DEFINE row == [stories[target[r]] EXCEPT !["views"] = stories[target[r]]["views"] + 1]
    <2>2. CASE stories[target[r]] # NONE
      <3>1. stories' = [stories EXCEPT ![target[r]] = row]
        BY <1>3, <2>2 DEF ViewStory, Bump
      <3>2. row \in StoryRows /\ row.deleted = stories[target[r]].deleted
        <4>1. stories[target[r]] \in StoryRows
          BY <2>1, <2>2 DEF TInv, TypeOK
        <4>2. \A s \in StoryRows : /\ [s EXCEPT !["views"] = s["views"] + 1] \in StoryRows
                                   /\ [s EXCEPT !["views"] = s["views"] + 1].deleted = s.deleted
          BY DEF StoryRows
        <4>3. QED
          BY <4>1, <4>2
      <3> HIDE DEF row
      <3>3. \A s \in Requests : /\ stories'[s] = NONE <=> stories[s] = NONE
                                /\ stories[s] # NONE => stories'[s].deleted = stories[s].deleted
        BY <1>n, <2>2, <3>1, <3>2 DEF TInv, TypeOK
      <3>4. pc'[r] = "ok"
        BY <1>0, <1>3, Goes DEF ViewStory, Labels
      <3>5. QED
        BY <1>0, <2>1, <3>3, <3>4, SparedStories DEF SparesStories
    <2>3. CASE stories[target[r]] = NONE
      <3>1. stories' = stories /\ pc'[r] = "ok"
        BY <1>0, <1>3, <2>3, Goes DEF ViewStory, Bump, Labels
      <3>2. QED
        BY <1>0, <2>1, <3>1, SparedStories DEF SparesStories
    <2>4. QED
      BY <2>2, <2>3
  <1>4. CASE DeleteStory(r)
    <2> DEFINE row == [seen[r] EXCEPT !.deleted = TRUE]
    <2>1. row \in StoryRows /\ row.deleted
      BY <1>4 DEF DeleteStory, TInv, Walks, Carries, StoryRows
    <2>2. stories' = [stories EXCEPT ![On(r)] = row]
      BY <1>4 DEF DeleteStory, TInv, Walks, Carries
    <2>3. On(r) \in Requests /\ stories[On(r)] # NONE
      BY <1>4, RowNamed DEF DeleteStory, StoriesGone
    <2>4. pc'[r] = "ok"
      BY <1>0, <1>4, Goes DEF DeleteStory, Labels
    <2> HIDE DEF row
    <2>5. SparesStories(r)
      BY <1>n, <2>1, <2>2, <2>3, <2>4 DEF SparesStories, TInv, TypeOK
    <2>6. QED
      BY <1>0, <2>5, SparedStories
  <1>5. CASE CleanStories(r)
    <2>1. \A row \in StoryRows : /\ [row EXCEPT !.deleted = TRUE] \in StoryRows
                                 /\ [row EXCEPT !.deleted = TRUE].deleted
      BY DEF StoryRows
    <2>2. \A s \in Requests : stories[s] # NONE => stories[s] \in StoryRows
      BY DEF TInv, TypeOK
    <2>3. PICK expired \in SUBSET {s \in Requests : stories[s] # NONE} :
            stories' = [s \in Requests |->
              IF s \in expired THEN [stories[s] EXCEPT !.deleted = TRUE] ELSE stories[s]]
      BY <1>5 DEF CleanStories
    <2>4. \A s \in Requests : /\ stories'[s] = NONE <=> stories[s] = NONE
                              /\ stories[s] # NONE /\ stories[s].deleted => stories'[s].deleted
      BY <1>n, <2>1, <2>2, <2>3
    <2>5. Op(r) = "cleanupExpiredStories" /\ pc'[r] = "ok"
      BY <1>0, <1>5, Goes DEF CleanStories, Labels
    <2>6. QED
      BY <1>0, <2>4, <2>5, SparedStories DEF SparesStories
  <1>6. ASSUME stories' = stories, Op(r) # "deleteStory", pc'[r] # "del_story"
        PROVE  StoriesGone'
    BY <1>0, <1>6, SparedStories DEF SparesStories
  <1>7. CASE DeleteDocuments(r)
    <2>1. stories' = stories /\ pc[r] \in {"del_media", "del_tags"} /\ (Goto(r, "del_tags") \/ Goto(r, "ok"))
      BY <1>7 DEF DeleteDocuments
    <2>2. QED
      BY <1>0, <1>6, <2>1, Goes DEF Labels, ContentLabels, TInv, Walks, Fits
  <1> USE Goes DEF TInv, Walks, Fits, Labels, ContentLabels, NoticeLabels, contentVars
  <1>8. CASE InsertPost(r) \/ SaveMedia(r) \/ SaveTags(r) \/ Unindex(r)
    BY <1>6, <1>8 DEF InsertPost, SaveMedia, SaveTags, Unindex
  <1>9. CASE Index(r)
    BY <1>6, <1>9 DEF Index
  <1>10. CASE FindOwnPost(r) \/ DeletePost(r) \/ FindOriginal(r) \/ Repost(r)
    BY <1>6, <1>10 DEF FindOwnPost, DeletePost, FindOriginal, Repost
  <1>11. CASE FindPost(r) \/ InsertComment(r) \/ CountReply(r) \/ SaveMentions(r)
    BY <1>6, <1>11 DEF FindPost, IsComment, InsertComment, CountReply, SaveMentions
  <1>12. CASE CountComment(r)
    BY <1>6, <1>12 DEF CountComment, CommentCounted
  <1>13. CASE FindOwnComment(r) \/ DeleteComment(r) \/ UncountComment(r) \/ UncountReply(r)
    BY <1>6, <1>13 DEF FindOwnComment, DeleteComment, UncountComment, UncountReply
  <1>14. CASE FindTarget(r) \/ FindReaction(r) \/ Unreact(r) \/ Rereact(r) \/ React(r)
    BY <1>6, <1>14 DEF FindTarget, FindReaction, Unreact, Rereact, React
  <1>15. CASE CountLike(r) \/ FindOwner(r)
    BY <1>6, <1>15 DEF CountLike, FindOwner
  <1>16. QED
    BY <1>1, <1>2, <1>3, <1>4, <1>5, <1>7, <1>8, <1>9, <1>10, <1>11, <1>12, <1>13, <1>14, <1>15
    DEF ContentStep

LEMMA StoriesStep ==
  ASSUME TInv, TInv', UNCHANGED call, NEW r \in Requests, Step(r), StoriesGone
  PROVE  StoriesGone'
  <1>0. TypeOK
    BY DEF TInv
  <1>1. CASE ContentStep(r)
    BY <1>1, ContentStories
  <1>2. ASSUME stories' = stories, Moves(r), Op(r) # "deleteStory" \/ pc'[r] = "failed",
               pc'[r] # "del_story"
        PROVE  StoriesGone'
    BY <1>2, SparedStories DEF SparesStories
  <1>3. CASE ConnectionStep(r) /\ UNCHANGED contentVars
    BY <1>2, <1>3, ConnectionRoute, ConnectionMoves
    DEF contentVars, ConnectionOps, ProfileOps, DiscoveryOps, LinkLabels
  <1>4. CASE NoticeStep(r) /\ UNCHANGED contentVars
    BY <1>2, <1>4, NoticeRoute, NoticeMoves DEF contentVars, NoticeOps, Notifiers, ReviewOps
  <1>5. CASE MembershipStep(r) /\ UNCHANGED contentVars
    BY <1>2, <1>5, MembershipRoute, MembershipMoves
    DEF contentVars, GroupOps, MemberOps, ReviewOps, GroupLabels
  <1>6. CASE MessagingStep(r) /\ UNCHANGED contentVars
    BY <1>2, <1>6, MessagingRoute, MessagingMoves DEF contentVars, TalkOps, TalkMakers, PartOps, TalkLabels
  <1>7. CASE (ListStep(r) \/ ListMessages(r)) /\ UNCHANGED contentVars
    BY <1>2, <1>7, ListRoute, ListMoves, OtherMoves DEF contentVars, Selections
  <1>8. CASE Fails(r) /\ UNCHANGED contentVars
    BY <1>2, <1>8, FailRoute, OtherMoves DEF contentVars
  <1>9. CASE FeedStep(r) /\ UNCHANGED stories
    BY <1>2, <1>9, FeedRoute, FeedMoves DEF FeedLabels, FeedOps, NewsfeedOps
  <1>10. CASE GroupPostStep(r) /\ UNCHANGED stories
    BY <1>2, <1>10, GroupPostRoute, GroupPostMoves DEF GroupOps, MemberOps, ReviewOps
  <1>11. QED
    BY <1>1, <1>3, <1>4, <1>5, <1>6, <1>7, <1>8, <1>9, <1>10 DEF Step

----------------------------------------------------------------------------
(* messages *)

SparesMessages(r) ==
  /\ \A m \in Requests : messages[m] # NONE =>
       messages'[m] # NONE /\ (messages[m].deleted => messages'[m].deleted)
  /\ \A m \in Requests : messages'[m] # NONE =>
       \/ messages[m] # NONE
       \/ m = r /\ Op(r) = "sendMessage" /\ pc'[r] = "last"
  /\ pc'[r] \in {"in_talk", "message"} => pc[r] \in {"idle", "in_talk"}
  /\ Op(r) = "deleteMessage" /\ pc'[r] \in {"in_talk", "del_message"} => messages[On(r)] # NONE
  /\ Op(r) = "deleteMessage" /\ pc'[r] \in {"publish", "ok"} =>
       messages'[On(r)] # NONE /\ messages'[On(r)].deleted

LEMMA SparedMessages ==
  ASSUME TInv, TInv', UNCHANGED call, NEW r \in Requests, Moves(r), MessagesGone, SparesMessages(r)
  PROVE  MessagesGone'
  <1> SUFFICES ASSUME NEW q \in Requests
               PROVE  /\ messages'[q] # NONE =>
                           Op(q) = "sendMessage" /\ pc'[q] \notin {"idle", "in_talk", "message"}
                      /\ Op(q) = "deleteMessage" /\ pc'[q] \in {"in_talk", "del_message"} =>
                           messages'[On(q)] # NONE
                      /\ Op(q) = "deleteMessage" /\ pc'[q] \in {"publish", "ok"} =>
                           messages'[On(q)] # NONE /\ messages'[On(q)].deleted
    BY DEF MessagesGone, Op, On
  <1>1. Op(q) = "deleteMessage" => On(q) \in Requests
    BY RowNamed
  <1>2. CASE q = r
    BY <1>1, <1>2 DEF SparesMessages, MessagesGone, Moves, Walk
  <1>3. CASE q # r
    BY <1>1, <1>3 DEF SparesMessages, MessagesGone, Moves, Walk
  <1>4. QED
    BY <1>2, <1>3

LEMMA TalkMessages ==
  ASSUME TInv, TInv', UNCHANGED call, NEW r \in Requests, MessagingStep(r), MessagesGone
  PROVE  MessagesGone'
  <1>0. TypeOK /\ Moves(r)
    BY MessagingMoves DEF TInv
  <1>n. NONE \notin MessageRows
    BY SocialAssumption DEF Rows
  <1>1. CASE InsertMessage(r)
    <2>1. [deleted |-> FALSE] \in MessageRows
      BY DEF MessageRows
    <2>2. /\ messages' = [messages EXCEPT ![r] = [deleted |-> FALSE]] /\ messages[r] = NONE
          /\ Op(r) = "sendMessage" /\ pc'[r] = "last"
      BY <1>0, <1>1, Goes DEF InsertMessage, MessagesGone, TInv, Walks, Fits, Labels, TalkLabels
    <2>3. SparesMessages(r)
      BY <1>n, <2>1, <2>2 DEF SparesMessages, TInv, TypeOK
    <2>4. QED
      BY <1>0, <2>3, SparedMessages
  <1>2. CASE DeleteMessage(r)
    <2> DEFINE row == [seen[r] EXCEPT !.deleted = TRUE]
    <2>1. row \in MessageRows /\ row.deleted
      BY <1>2 DEF DeleteMessage, TInv, Walks, Fits, Carries, MessageRows
    <2>2. messages' = [messages EXCEPT ![On(r)] = row]
      BY <1>2 DEF DeleteMessage
    <2>3. On(r) \in Requests /\ messages[On(r)] # NONE
      BY <1>2, RowNamed DEF DeleteMessage, MessagesGone, TInv, Walks, Fits
    <2>4. pc'[r] = "publish"
      BY <1>0, <1>2, Goes DEF DeleteMessage, Labels, TalkLabels
    <2> HIDE DEF row
    <2>5. SparesMessages(r)
      BY <1>n, <2>1, <2>2, <2>3, <2>4 DEF SparesMessages, TInv, TypeOK
    <2>6. QED
      BY <1>0, <2>5, SparedMessages
  <1>3. CASE FindTalk(r)
    <2>1. /\ messages' = messages /\ pc'[r] = "in_talk" /\ pc[r] = "idle"
          /\ Op(r) = "deleteMessage" => messages[On(r)] # NONE
      BY <1>0, <1>3, Goes DEF FindTalk, talkVars, Labels, TalkLabels
    <2>2. QED
      BY <1>0, <2>1, SparedMessages DEF SparesMessages
  <1>4. CASE AssertActiveParticipant(r)
    <2>1. /\ messages' = messages /\ pc'[r] \in {"message", "del_message", "messages"} /\ pc[r] = "in_talk"
      BY <1>0, <1>4, Goes DEF AssertActiveParticipant, talkVars, Labels, TalkLabels
    <2>2. QED
      BY <1>0, <2>1, SparedMessages DEF SparesMessages, MessagesGone
  <1>5. CASE Publish(r)
    <2>1. messages' = messages /\ pc'[r] \in {"open", "ok"} /\ pc[r] = "publish"
      BY <1>0, <1>5, Goes DEF Publish, talkVars, Labels, TalkLabels
    <2>2. QED
      BY <1>0, <2>1, SparedMessages DEF SparesMessages, MessagesGone
  <1>6. ASSUME messages' = messages, Op(r) # "deleteMessage", pc'[r] \notin {"in_talk", "message"}
        PROVE  MessagesGone'
    BY <1>0, <1>6, SparedMessages DEF SparesMessages
  <1>7. CASE CheckEachFounder(r)
    <2>1. messages' = messages /\ pc[r] = "blocked_each" /\ (Goto(r, "talk") \/ Goto(r, "blocked_each"))
      BY <1>7 DEF CheckEachFounder, talkVars
    <2>2. QED
      BY <1>0, <1>6, <2>1, Goes DEF Labels, TalkLabels, TInv, Walks, Fits, TalkMakers
  <1> USE Goes DEF TInv, Walks, Fits, Labels, TalkLabels, talkVars, TalkMakers, PartOps
  <1>8. CASE StartTalk(r)
    BY <1>6, <1>8 DEF StartTalk, IsGroup
  <1>9. CASE FindPair(r) \/ InsertTalk(r) \/ InsertParticipants(r) \/ OpenTalk(r)
    BY <1>6, <1>9 DEF FindPair, InsertTalk, InsertParticipants, OpenTalk
  <1>10. CASE AuthorizePart(r) \/ FindPart(r) \/ SavePart(r)
    BY <1>6, <1>10 DEF AuthorizePart, FindPart, SavePart
  <1>11. CASE CountActive(r) \/ AddEach(r) \/ FindAdded(r) \/ SaveAdded(r)
    BY <1>6, <1>11 DEF CountActive, AddEach, FindAdded, SaveAdded
  <1>12. CASE SaveLast(r)
    BY <1>6, <1>12 DEF SaveLast
  <1>13. QED
    BY <1>1, <1>2, <1>3, <1>4, <1>5, <1>7, <1>8, <1>9, <1>10, <1>11, <1>12 DEF MessagingStep

LEMMA MessagesStep ==
  ASSUME TInv, TInv', UNCHANGED call, NEW r \in Requests, Step(r), MessagesGone
  PROVE  MessagesGone'
  <1>0. TypeOK
    BY DEF TInv
  <1>1. CASE MessagingStep(r)
    BY <1>1, TalkMessages
  <1>2. ASSUME messages' = messages, Moves(r), Op(r) # "deleteMessage" \/ pc'[r] = "failed",
               pc'[r] \notin {"in_talk", "message"}
        PROVE  MessagesGone'
    BY <1>2, SparedMessages DEF SparesMessages
  <1>3. CASE ConnectionStep(r) /\ UNCHANGED talkVars
    BY <1>2, <1>3, ConnectionRoute, ConnectionMoves
    DEF talkVars, ConnectionOps, ProfileOps, DiscoveryOps, LinkLabels
  <1>4. CASE NoticeStep(r) /\ UNCHANGED talkVars
    BY <1>2, <1>4, NoticeRoute, NoticeMoves DEF talkVars, NoticeOps, Notifiers, ReviewOps
  <1>5. CASE MembershipStep(r) /\ UNCHANGED talkVars
    BY <1>2, <1>5, MembershipRoute, MembershipMoves
    DEF talkVars, GroupOps, MemberOps, ReviewOps, GroupLabels
  <1>6. CASE ContentStep(r) /\ UNCHANGED talkVars
    BY <1>2, <1>6, ContentRoute, ContentMoves
    DEF talkVars, ContentOps, PostOps, CommentOps, ReactionOps, StoryOps, ContentLabels
  <1>7. CASE (ListStep(r) \/ ListMessages(r)) /\ UNCHANGED messages
    BY <1>2, <1>7, ListRoute, ListMoves, OtherMoves DEF Selections
  <1>8. CASE Fails(r) /\ UNCHANGED talkVars
    BY <1>2, <1>8, FailRoute, OtherMoves DEF talkVars
  <1>9. CASE FeedStep(r) /\ UNCHANGED talkVars
    BY <1>2, <1>9, FeedRoute, FeedMoves DEF talkVars, FeedLabels, FeedOps, NewsfeedOps
  <1>10. CASE GroupPostStep(r) /\ UNCHANGED talkVars
    BY <1>2, <1>10, GroupPostRoute, GroupPostMoves DEF talkVars, GroupOps, MemberOps, ReviewOps
  <1>11. QED
    BY <1>1, <1>3, <1>4, <1>5, <1>6, <1>7, <1>8, <1>9, <1>10 DEF Step, ListMessages, talkVars

----------------------------------------------------------------------------
(* participants *)

Joining == {"active_count", "add", "add_find", "add_row"}

\* What a step of r may do to the participants, and where it may lead.
SparesParts(r) ==
  /\ \A x \in Requests \X People : parts[x] # NONE => parts'[x] # NONE
  /\ \A q \in Requests, u \in People : parts'[<<q, u>>] # NONE =>
       parts[<<q, u>>] # NONE \/ (q = r /\ pc'[r] \notin Early) \/ pc[q] \notin Early
  /\ \A q \in Requests, u \in People : IsActive(q, u)' =>
       \/ IsActive(q, u)
       \/ q = r /\ pc[r] \in Early
       \/ On(r) = q /\ (r \in stale' \/ (Op(r) = "addGroupMembers" /\ u \in call[r].to))
  /\ pc'[r] \in Early => pc[r] \in Early
  /\ Op(r) = "addGroupMembers" /\ pc'[r] \in Joining =>
       pc[r] \in Joining \/ parts[<<On(r), By(r)>>] # NONE
  /\ pc'[r] = "part_row" => parts[PartOf(r)] # NONE
  /\ Op(r) = "removeParticipant" /\ pc'[r] \in {"publish", "ok"} =>
       \/ pc[r] \in {"publish", "ok"} /\ UNCHANGED parts
       \/ parts'[<<On(r), To(r)>>] # NONE /\ ~IsActive(On(r), To(r))'

LEMMA PartNamed ==
  ASSUME TInv, NEW r \in Requests
  PROVE  /\ Op(r) \in PartOps => PartOf(r) \in Requests \X People /\ PartOf(r) = <<PartOf(r)[1], PartOf(r)[2]>>
         /\ pc[r] = "part_row" => PartOf(r) \in Requests \X People /\ Op(r) \in PartOps
  <1>1. Op(r) \in PartOps => PartOf(r) \in Requests \X People /\ PartOf(r) = <<PartOf(r)[1], PartOf(r)[2]>>
    BY RowNamed DEF PartOf, PartOps
  <1>2. QED
    BY <1>1 DEF TInv, Walks, Fits

LEMMA SameParts ==
  ASSUME UNCHANGED call
  PROVE  \A q \in Requests : /\ On(q)' = On(q) /\ By(q)' = By(q) /\ To(q)' = To(q) /\ Op(q)' = Op(q)
                             /\ PartOf(q)' = PartOf(q)
  BY DEF On, By, To, Op, PartOf

LEMMA SparedParts ==
  ASSUME TInv, TInv', UNCHANGED call, NEW r \in Requests, Moves(r), PartsGone, SparesParts(r)
  PROVE  PartsGone'
  <1>1. ASSUME NEW q \in Requests
        PROVE  /\ \A u \in People : parts'[<<q, u>>] # NONE => pc'[q] \notin Early
               /\ Op(q) = "addGroupMembers" /\ pc'[q] \in Joining => parts'[<<On(q), By(q)>>] # NONE
               /\ pc'[q] = "part_row" => parts'[PartOf(q)] # NONE
    <2>1. On(q) \in Requests /\ By(q) \in People => <<On(q), By(q)>> \in Requests \X People
      OBVIOUS
    <2>2. Op(q) = "addGroupMembers" => On(q) \in Requests /\ By(q) \in People
      BY RowNamed
    <2>3. pc'[q] = "part_row" => PartOf(q) \in Requests \X People
      BY PartNamed, SameParts DEF TInv, Walks, Fits
    <2>4. CASE q = r
      BY <2>1, <2>2, <2>3, <2>4 DEF SparesParts, PartsGone, Joining
    <2>5. CASE q # r
      <3>1. pc'[q] = pc[q]
        BY <2>5 DEF Moves, Walk
      <3>2. QED
        BY <2>1, <2>2, <2>3, <2>5, <3>1 DEF SparesParts, PartsGone, Joining
    <2>6. QED
      BY <2>4, <2>5
  <1>2. ASSUME NEW q \in Requests, Op(q) = "removeParticipant", pc'[q] \in {"publish", "ok"}
        PROVE  parts'[<<On(q), To(q)>>] # NONE /\ (IsActive(On(q), To(q))' => Brought(q)')
    <2>1. On(q) \in Requests /\ To(q) \in People /\ <<On(q), To(q)>> \in Requests \X People
      BY <1>2, RowNamed
    <2>2. Brought(q) => Brought(q)'
      BY SameParts DEF Brought, Moves, Hands
    <2>3. CASE q = r /\ parts'[<<On(r), To(r)>>] # NONE /\ ~IsActive(On(r), To(r))'
      BY <2>3
    <2>4. CASE q = r /\ pc[r] \in {"publish", "ok"} /\ UNCHANGED parts
      <3>1. parts[<<On(q), To(q)>>] # NONE /\ (IsActive(On(q), To(q)) => Brought(q))
        BY <1>2, <2>4 DEF PartsGone
      <3>2. QED
        BY <2>2, <2>4, <3>1, SameParts DEF IsActive
    <2>5. CASE q # r
      <3>1. pc'[q] = pc[q]
        BY <2>5 DEF Moves, Walk
      <3>2. parts[<<On(q), To(q)>>] # NONE /\ (IsActive(On(q), To(q)) => Brought(q))
        BY <1>2, <3>1 DEF PartsGone
      <3>3. parts'[<<On(q), To(q)>>] # NONE
        BY <2>1, <3>2 DEF SparesParts
      <3>4. ~(On(q) = r /\ pc[r] \in Early)
        BY <2>1, <3>2 DEF PartsGone
      <3>5. ASSUME IsActive(On(q), To(q))'
            PROVE  IsActive(On(q), To(q)) \/ (On(r) = On(q) /\ (r \in stale' \/ (Op(r) = "addGroupMembers" /\ To(q) \in call[r].to)))
        <4>1. parts'[<<On(q), To(q)>>] # NONE /\ ~parts'[<<On(q), To(q)>>].left
          BY <3>5, SameParts DEF IsActive
        <4>2. QED
          BY <2>1, <3>4, <4>1 DEF SparesParts, IsActive
      <3>6. QED
        BY <2>2, <2>5, <3>2, <3>3, <3>5, SameParts DEF Brought
    <2>6. QED
      BY <1>2, <2>3, <2>4, <2>5 DEF SparesParts
  <1>3. QED
    <2>1. PartsGone' <=>
            \A q \in Requests :
              /\ \A u \in People : parts'[<<q, u>>] # NONE => pc'[q] \notin Early
              /\ Op(q) = "addGroupMembers" /\ pc'[q] \in Joining => parts'[<<On(q), By(q)>>] # NONE
              /\ pc'[q] = "part_row" => parts'[PartOf(q)] # NONE
              /\ Op(q) = "removeParticipant" /\ pc'[q] \in {"publish", "ok"} =>
                   parts'[<<On(q), To(q)>>] # NONE /\ (IsActive(On(q), To(q))' => Brought(q)')
      BY SameParts DEF PartsGone, Joining, IsActive
    <2>2. QED
      BY <1>1, <1>2, <2>1

LEMMA Founded ==
  ASSUME TInv, UNCHANGED call, NEW r \in Requests, Moves(r), PartsGone,
         pc[r] = "participants", parts' = WithFounders(r), pc'[r] \notin Early \cup Joining,
         pc'[r] # "part_row", Op(r) \in TalkMakers
  PROVE  SparesParts(r)
  <1>1. \A q \in Requests, u \in People :
          parts'[<<q, u>>] = IF q = r /\ u \in Founders(r) THEN NewPart(FounderRole(r, u)) ELSE parts[<<q, u>>]
    BY DEF WithFounders
  <1>2. \A u : NewPart(FounderRole(r, u)) # NONE
    <2>1. \A u : NewPart(FounderRole(r, u)) \in PartRows
      BY DEF NewPart, PartRows, FounderRole
    <2>2. QED
      BY <2>1, SocialAssumption DEF Rows
  <1>3. \A x \in Requests \X People : parts[x] # NONE => parts'[x] # NONE
    BY <1>1, <1>2
  <1>4. QED
    BY <1>1, <1>2, <1>3 DEF SparesParts, IsActive, Early, TalkMakers

LEMMA SavedPart ==
  ASSUME TInv, UNCHANGED call, NEW r \in Requests, Moves(r), PartsGone, SavePart(r)
  PROVE  SparesParts(r)
  <1> DEFINE row == CASE Op(r) = "markRead" -> [seen[r] EXCEPT !.read = TRUE]
                      [] Op(r) = "removeParticipant" -> [seen[r] EXCEPT !.left = TRUE]
                      [] OTHER -> [seen[r] EXCEPT !.role = Arg(r)]
  <1>0. TypeOK
    BY DEF TInv
  <1>1. /\ pc[r] = "part_row" /\ seen[r] \in PartRows /\ Op(r) \in PartOps
        /\ PartOf(r) \in Requests \X People /\ PartOf(r) = <<On(r), PartOf(r)[2]>>
        /\ Op(r) = "removeParticipant" => PartOf(r) = <<On(r), To(r)>>
    BY PartNamed DEF SavePart, TInv, Walks, Carries, PartOf
  <1>2. /\ Op(r) = "removeParticipant" => row.left = TRUE
        /\ Op(r) # "removeParticipant" => row.left = seen[r].left
        /\ row # NONE
    <2>1. Op(r) \notin {"markRead", "removeParticipant"} => Arg(r) \in {"MEMBER", "ADMIN", "OWNER"}
      BY <1>1, CallsTyped DEF TInv, TypeOK, PartOps, ArgsOf
    <2>2. seen[r] \in [role : {"MEMBER", "ADMIN", "OWNER"}, left : BOOLEAN, read : BOOLEAN]
      BY <1>1 DEF PartRows
    <2>3. row \in PartRows
      BY <2>1, <2>2 DEF PartRows
    <2>4. row # NONE
      BY <2>3, SocialAssumption DEF Rows
    <2>5. Op(r) = "removeParticipant" => row.left = TRUE
      BY <2>2
    <2>6. Op(r) # "removeParticipant" => row.left = seen[r].left
      <3>1. CASE Op(r) = "markRead"
        BY <2>2, <3>1
      <3>2. CASE Op(r) \notin {"markRead", "removeParticipant"}
        BY <2>2, <3>2
      <3>3. QED
        BY <3>1, <3>2
    <2>7. QED
      BY <2>4, <2>5, <2>6
  <1>3. parts' = [parts EXCEPT ![PartOf(r)] = row]
    BY DEF SavePart
  <1>4. pc'[r] = (IF Op(r) = "markRead" THEN "ok" ELSE "publish")
    BY <1>0, Goes DEF SavePart, Labels, TalkLabels
  <1>5. parts[PartOf(r)] # NONE
    BY <1>1 DEF PartsGone
  <1>6. parts[PartOf(r)] = seen[r] \/ r \in stale'
    BY DEF SavePart, Writes
  <1> HIDE DEF row
  <1>7. parts'[PartOf(r)] = row /\ \A x \in Requests \X People : x # PartOf(r) => parts'[x] = parts[x]
    BY <1>1, <1>3 DEF TInv, TypeOK
  <1>8. \A q \in Requests, u \in People : <<q, u>> # PartOf(r) => parts'[<<q, u>>] = parts[<<q, u>>]
    BY <1>7
  <1>9. \A q \in Requests, u \in People : <<q, u>> = PartOf(r) => q = On(r)
    BY <1>1
  <1>10. \A q \in Requests, u \in People : IsActive(q, u)' =>
           IsActive(q, u) \/ (On(r) = q /\ r \in stale')
    <2> SUFFICES ASSUME NEW q \in Requests, NEW u \in People, IsActive(q, u)'
                 PROVE  IsActive(q, u) \/ (On(r) = q /\ r \in stale')
      OBVIOUS
    <2>1. CASE <<q, u>> = PartOf(r)
      BY <1>2, <1>5, <1>6, <1>7, <1>9, <2>1 DEF IsActive
    <2>2. CASE <<q, u>> # PartOf(r)
      BY <1>8, <2>2 DEF IsActive
    <2>3. QED
      BY <2>1, <2>2
  <1>11. Op(r) = "removeParticipant" => parts'[<<On(r), To(r)>>] # NONE /\ ~IsActive(On(r), To(r))'
    BY <1>1, <1>2, <1>7, SameParts DEF IsActive
  <1>12. \A x \in Requests \X People : (parts'[x] # NONE) = (parts[x] # NONE)
    BY <1>2, <1>5, <1>7
  <1>13. \A q \in Requests, u \in People : (parts'[<<q, u>>] # NONE) = (parts[<<q, u>>] # NONE)
    BY <1>12
  <1>14. pc'[r] \notin Early \cup Joining \cup {"part_row"}
    BY <1>4 DEF Early, Joining
  <1>15. QED
    BY <1>10, <1>11, <1>12, <1>13, <1>14 DEF SparesParts

LEMMA AddedPart ==
  ASSUME TInv, UNCHANGED call, NEW r \in Requests, Moves(r), PartsGone, SaveAdded(r)
  PROVE  SparesParts(r)
  <1> DEFINE row == IF seen[r] = NONE THEN NewPart("MEMBER")
                    ELSE [seen[r] EXCEPT !.role = "MEMBER", !.left = FALSE]
  <1>0. TypeOK
    BY DEF TInv
  <1>1. /\ pc[r] = "add_row" /\ Op(r) = "addGroupMembers" /\ On(r) \in Requests
        /\ target[r] \in call[r].to /\ target[r] \in People
    BY RowNamed DEF SaveAdded, TInv, TypeOK, Walks, Fits, Carries
  <1>2. row # NONE
    <2>1. row \in PartRows
      BY <1>1 DEF TInv, Walks, Carries, NewPart, PartRows
    <2>2. QED
      BY <2>1, SocialAssumption DEF Rows
  <1>3. parts' = [parts EXCEPT ![<<On(r), target[r]>>] = row]
    BY DEF SaveAdded, Adding
  <1>4. pc'[r] = "add"
    BY <1>0, Goes DEF SaveAdded, Labels, TalkLabels
  <1> HIDE DEF row
  <1>5. \A q \in Requests, u \in People :
          parts'[<<q, u>>] = IF q = On(r) /\ u = target[r] THEN row ELSE parts[<<q, u>>]
    BY <1>1, <1>3 DEF TInv, TypeOK
  <1>6. \A x \in Requests \X People : parts[x] # NONE => parts'[x] # NONE
    BY <1>2, <1>5
  <1>7. pc[On(r)] \notin Early
    <2>1. parts[<<On(r), By(r)>>] # NONE /\ By(r) \in People
      BY <1>1, RowNamed DEF PartsGone
    <2>2. QED
      BY <1>1, <2>1 DEF PartsGone
  <1>8. QED
    BY <1>1, <1>4, <1>5, <1>6, <1>7 DEF SparesParts, IsActive, Early, Joining

LEMMA TalkParts ==
  ASSUME TInv, TInv', UNCHANGED call, NEW r \in Requests, MessagingStep(r), PartsGone
  PROVE  PartsGone'
  <1>0. TypeOK /\ Moves(r)
    BY MessagingMoves DEF TInv
  <1>1. CASE InsertParticipants(r)
    <2>1. /\ pc[r] = "participants" /\ parts' = WithFounders(r) /\ pc'[r] \in {"publish", "open"}
          /\ Op(r) \in TalkMakers
      BY <1>0, <1>1, Goes DEF InsertParticipants, Labels, TalkLabels, TInv, Walks, Fits
    <2>2. SparesParts(r)
      BY <1>0, <2>1, Founded DEF Early, Joining
    <2>3. QED
      BY <1>0, <2>2, SparedParts
  <1>2. CASE SavePart(r)
    BY <1>0, <1>2, SavedPart, SparedParts
  <1>3. CASE SaveAdded(r)
    BY <1>0, <1>3, AddedPart, SparedParts
  <1>4. ASSUME parts' = parts, pc'[r] \in Early => pc[r] \in Early,
               pc'[r] \in Joining => pc[r] \in Joining \/ parts[<<On(r), By(r)>>] # NONE,
               pc'[r] = "part_row" => parts[PartOf(r)] # NONE,
               Op(r) = "removeParticipant" /\ pc'[r] \in {"publish", "ok"} => pc[r] \in {"publish", "ok"}
        PROVE  PartsGone'
    <2>1. \A q, u : IsActive(q, u)' = IsActive(q, u)
      BY <1>4 DEF IsActive
    <2>2. SparesParts(r)
      BY <1>4, <2>1 DEF SparesParts
    <2>3. QED
      BY <1>0, <2>2, SparedParts
  <1>5. CASE AuthorizePart(r)
    <2>1. /\ parts' = parts /\ pc'[r] \in {"active_count", "part"}
          /\ pc'[r] = "active_count" => parts[<<On(r), By(r)>>] # NONE
      BY <1>0, <1>5, Goes DEF AuthorizePart, talkVars, IsActive, Labels, TalkLabels
    <2>2. QED
      BY <1>4, <2>1 DEF Early, Joining
  <1>6. CASE FindPart(r)
    <2>1. parts' = parts /\ parts[PartOf(r)] # NONE /\ pc'[r] = "part_row"
      BY <1>0, <1>6, Goes, PartNamed DEF FindPart, talkVars, IsActive, Labels, TalkLabels
    <2>2. QED
      BY <1>4, <2>1 DEF Early, Joining
  <1>7. CASE CheckEachFounder(r)
    <2>1. parts' = parts /\ pc[r] = "blocked_each" /\ (Goto(r, "talk") \/ Goto(r, "blocked_each"))
      BY <1>7 DEF CheckEachFounder, talkVars
    <2>2. QED
      BY <1>0, <1>4, <2>1, Goes DEF Early, Joining, Labels, TalkLabels
  <1> USE Goes DEF Labels, TalkLabels, talkVars, Early, Joining
  <1>8. CASE StartTalk(r) \/ FindPair(r) \/ InsertTalk(r)
    BY <1>0, <1>4, <1>8 DEF StartTalk, FindPair, InsertTalk
  <1>9. CASE OpenTalk(r) \/ Publish(r)
    BY <1>0, <1>4, <1>9 DEF OpenTalk, Publish, TInv, Walks, Fits, TalkMakers
  <1>10. CASE CountActive(r) \/ AddEach(r) \/ FindAdded(r)
    BY <1>0, <1>4, <1>10 DEF CountActive, AddEach, FindAdded, TInv, Walks, Fits
  <1>11. CASE FindTalk(r) \/ AssertActiveParticipant(r) \/ InsertMessage(r) \/ SaveLast(r) \/ DeleteMessage(r)
    BY <1>0, <1>4, <1>11 DEF FindTalk, AssertActiveParticipant, InsertMessage, SaveLast, DeleteMessage, TInv, Walks, Fits
  <1>12. QED
    BY <1>1, <1>2, <1>3, <1>5, <1>6, <1>7, <1>8, <1>9, <1>10, <1>11 DEF MessagingStep

LEMMA PartsStep ==
  ASSUME TInv, TInv', UNCHANGED call, NEW r \in Requests, Step(r), PartsGone
  PROVE  PartsGone'
  <1>1. CASE MessagingStep(r)
    BY <1>1, TalkParts
  <1>2. ASSUME parts' = parts, Moves(r), Op(r) \notin TalkOps \/ pc'[r] \notin TalkLabels \cup {"ok"}
        PROVE  PartsGone'
    <2>1. \A q, u : IsActive(q, u)' = IsActive(q, u)
      BY <1>2 DEF IsActive
    <2>2. /\ pc'[r] \notin Early \cup Joining \cup {"part_row"}
          /\ Op(r) = "removeParticipant" => pc'[r] \notin {"publish", "ok"}
      BY <1>2 DEF Moves, Walk, Fits, Early, Joining, TalkOps, TalkMakers, PartOps, TalkLabels
    <2>3. SparesParts(r)
      BY <1>2, <2>1, <2>2 DEF SparesParts
    <2>4. QED
      BY <1>2, <2>3, SparedParts
  <1> USE DEF TalkOps, TalkMakers, PartOps
  <1>3. CASE ConnectionStep(r) /\ UNCHANGED talkVars
    BY <1>2, <1>3, ConnectionRoute, ConnectionMoves DEF talkVars, ConnectionOps, ProfileOps, DiscoveryOps
  <1>4. CASE NoticeStep(r) /\ UNCHANGED talkVars
    BY <1>2, <1>4, NoticeRoute, NoticeMoves DEF talkVars, NoticeOps, Notifiers, ReviewOps
  <1>5. CASE MembershipStep(r) /\ UNCHANGED talkVars
    BY <1>2, <1>5, MembershipRoute, MembershipMoves DEF talkVars, GroupOps, MemberOps, ReviewOps
  <1>6. CASE ContentStep(r) /\ UNCHANGED talkVars
    BY <1>2, <1>6, ContentRoute, ContentMoves
    DEF talkVars, ContentOps, PostOps, CommentOps, ReactionOps, StoryOps
  <1>7. CASE Fails(r) /\ UNCHANGED talkVars
    BY <1>2, <1>7, FailRoute, OtherMoves DEF talkVars, TalkLabels
  <1>8. CASE FeedStep(r) /\ UNCHANGED talkVars
    BY <1>2, <1>8, FeedRoute, FeedMoves DEF talkVars, FeedOps, NewsfeedOps
  <1>9. CASE GroupPostStep(r) /\ UNCHANGED talkVars
    BY <1>2, <1>9, GroupPostRoute, GroupPostMoves DEF talkVars, GroupOps, MemberOps, ReviewOps
  <1>10. CASE (ListStep(r) \/ ListMessages(r)) /\ UNCHANGED talkVars
    <2>1. /\ Moves(r) /\ parts' = parts /\ pc'[r] \in {"conversations", "ok"}
          /\ Op(r) # "removeParticipant"
      BY <1>10, ListRoute, ListMoves, OtherMoves DEF talkVars, Selections
    <2>2. \A q, u : IsActive(q, u)' = IsActive(q, u)
      BY <2>1 DEF IsActive
    <2>3. SparesParts(r)
      BY <2>1, <2>2 DEF SparesParts, Early, Joining
    <2>4. QED
      BY <2>1, <2>3, SparedParts
  <1>11. QED
    BY <1>1, <1>3, <1>4, <1>5, <1>6, <1>7, <1>8, <1>9, <1>10 DEF Step, ListMessages

Gone == PostsGone /\ StoriesGone /\ MessagesGone /\ PartsGone
RInv == TInv /\ Gone

LEMMA InitGone ==
  Init => Gone
  <1> SUFFICES ASSUME Init
               PROVE  Gone
    OBVIOUS
  <1>1. call \in Plans
    BY DEF Init, CallsInit
  <1>2. \A r \in Requests : /\ pc[r] = (IF Made(r) THEN "ok" ELSE "idle")
                            /\ Op(r) \notin Inserting => pc[r] = "idle"
    BY <1>1, CallsTyped DEF Init, CallsInit
  <1>3. \A r \in Requests : Op(r) \in {"deletePost", "deleteStory", "deleteMessage", "removeParticipant",
                                       "addGroupMembers"} => pc[r] = "idle"
    BY <1>2 DEF Inserting, PostMakers, TalkMakers
  <1>4. \A r \in Requests :
          /\ posts[r] # NONE => pc[r] = "ok"
          /\ stories[r] # NONE => pc[r] = "ok"
          /\ messages[r] # NONE => pc[r] = "ok" /\ Op(r) = "sendMessage"
          /\ \A u \in People : parts[<<r, u>>] # NONE => pc[r] = "ok"
    BY <1>2 DEF Init, ContentInit, TalksInit
  <1>5. PostsGone
    BY <1>2, <1>3, <1>4 DEF PostsGone
  <1>6. StoriesGone
    BY <1>2, <1>3, <1>4 DEF StoriesGone
  <1>7. MessagesGone
    BY <1>2, <1>3, <1>4 DEF MessagesGone
  <1>8. PartsGone
    BY <1>2, <1>3, <1>4 DEF PartsGone, Early
  <1>9. QED
    BY <1>5, <1>6, <1>7, <1>8 DEF Gone

LEMMA GoneStep ==
  RInv /\ [Next]_vars => RInv'
  <1> SUFFICES ASSUME RInv, [Next]_vars
               PROVE  RInv'
    OBVIOUS
  <1>1. TInv /\ TInv'
    BY TypesStep DEF RInv
  <1>2. CASE Next
    <2>1. PICK r \in Requests : Step(r) /\ UNCHANGED call
      BY <1>2 DEF Next
    <2>2. PostsGone'
      BY <1>1, <2>1, PostsStep DEF RInv, Gone
    <2>3. StoriesGone'
      BY <1>1, <2>1, StoriesStep DEF RInv, Gone
    <2>4. MessagesGone'
      BY <1>1, <2>1, MessagesStep DEF RInv, Gone
    <2>5. PartsGone'
      BY <1>1, <2>1, PartsStep DEF RInv, Gone
    <2>6. QED
      BY <1>1, <2>2, <2>3, <2>4, <2>5 DEF RInv, Gone
  <1>3. CASE UNCHANGED vars
    <2>1. UNCHANGED <<call, pc, stale, posts, stories, messages, parts>>
      BY <1>3 DEF vars, callVars, locals, contentVars, talkVars
    <2>2. \A r : /\ On(r)' = On(r) /\ Op(r)' = Op(r) /\ To(r)' = To(r) /\ By(r)' = By(r)
                 /\ PartOf(r)' = PartOf(r) /\ Asked(r)' = Asked(r)
      BY <2>1 DEF On, Op, To, By, PartOf, Asked
    <2>3. \A r : /\ IsActive(On(r), To(r))' = IsActive(On(r), To(r))
                 /\ Brought(r)' = Brought(r)
      BY <2>1 DEF IsActive, Brought, On, Op, To
    <2>4. PostsGone'
      BY <2>1, <2>2 DEF RInv, Gone, PostsGone
    <2>5. StoriesGone' /\ MessagesGone'
      BY <2>1, <2>2 DEF RInv, Gone, StoriesGone, MessagesGone
    <2>6. PartsGone'
      BY <2>1, <2>2, <2>3 DEF RInv, Gone, PartsGone
    <2>7. QED
      BY <1>1, <2>4, <2>5, <2>6 DEF RInv, Gone
  <1>4. QED
    BY <1>2, <1>3

\* What was deleted, and who was removed from a conversation, stays so, but for
\* a call that had read the row before it, or one that adds the user again.
THEOREM RemovalsStay == Spec => []RemovalsKept
  <1>1. Init => RInv
    BY InitTypes, InitGone DEF RInv
  <1>2. RInv => RemovalsKept
    <2> SUFFICES ASSUME RInv, NEW r \in Requests, pc[r] = "ok"
                 PROVE  /\ (Op(r) = "deletePost" /\ \A s \in stale : On(s) # On(r)) => ~Live(On(r))
                        /\ (Op(r) = "deleteStory") => stories[On(r)].deleted
                        /\ (Op(r) = "deleteMessage") => messages[On(r)].deleted
                        /\ (Op(r) = "removeParticipant" /\ IsActive(On(r), To(r))) => Brought(r)
      BY DEF RemovalsKept, Brought
    <2>1. (Op(r) = "deletePost" /\ \A s \in stale : On(s) # On(r)) => ~Live(On(r))
      BY DEF RInv, Gone, PostsGone, Asked, Live
    <2>2. Op(r) = "deleteStory" => stories[On(r)].deleted
      BY DEF RInv, Gone, StoriesGone
    <2>3. Op(r) = "deleteMessage" => messages[On(r)].deleted
      BY DEF RInv, Gone, MessagesGone
    <2>4. (Op(r) = "removeParticipant" /\ IsActive(On(r), To(r))) => Brought(r)
      BY DEF RInv, Gone, PartsGone
    <2>5. QED
      BY <2>1, <2>2, <2>3, <2>4
  <1>3. QED
    BY <1>1, <1>2, GoneStep, PTL DEF Spec

----------------------------------------------------------------------------
(* the limit of a conversation *)

LEMMA Bounded ==
  ASSUME NEW S \in SUBSET People, NEW T \in SUBSET S, NEW n \in Nat, Cardinality(S) <= n
  PROVE  Cardinality(T) <= n
  <1>1. IsFiniteSet(S)
    BY SocialAssumption, FS_Subset
  <1>2. Cardinality(T) <= Cardinality(S) /\ Cardinality(T) \in Nat /\ Cardinality(S) \in Nat
    BY <1>1, FS_Subset, FS_CardinalityType
  <1>3. QED
    BY <1>2

LEMMA Joined ==
  ASSUME NEW S \in SUBSET People, NEW T \in SUBSET People, NEW n \in Nat,
         Cardinality(S) + Cardinality(T) <= n
  PROVE  Cardinality(S \cup T) <= n
  <1>1. IsFiniteSet(S) /\ IsFiniteSet(T) /\ IsFiniteSet(S \cap T)
    BY SocialAssumption, FS_Subset
  <1>2. Cardinality(S \cup T) = Cardinality(S) + Cardinality(T) - Cardinality(S \cap T)
    BY <1>1, FS_Union
  <1>3. Cardinality(S) \in Nat /\ Cardinality(T) \in Nat /\ Cardinality(S \cap T) \in Nat
    BY <1>1, FS_CardinalityType
  <1>4. QED
    BY <1>2, <1>3

\* Who is excused stays excused.
LEMMA ExcusesStay ==
  ASSUME TInv, UNCHANGED call, NEW r \in Requests, Moves(r), NEW c \in Requests
  PROVE  /\ Additions(c) \subseteq Additions(c)' /\ Restored(c) \subseteq Restored(c)'
         /\ \A q \in Additions(c) : AddedBeside(q) \subseteq AddedBeside(q)'
         /\ \A q \in Additions(c) : /\ Newcomers(q)' = Newcomers(q)
                                    /\ \A x \in Additions(c) : Overlap(x, q) => Overlap(x, q)'
  <1>1. \A x \in Requests : pc[x] # "idle" => pc'[x] # "idle" /\ before'[x] = before[x]
    BY DEF Moves, Walk
  <1>2. \A q \in Requests : /\ On(q)' = On(q) /\ Op(q)' = Op(q) /\ PartOf(q)' = PartOf(q)
                            /\ Newcomers(q)' = Newcomers(q)
    BY SameParts DEF Newcomers
  <1>3. Additions(c) \subseteq Additions(c)'
    BY <1>1, <1>2 DEF Additions
  <1>4. Restored(c) \subseteq Restored(c)'
    <2>1. stale \subseteq stale' /\ stale \subseteq Requests
      BY DEF Moves, Hands, TInv, TypeOK
    <2>2. QED
      BY <1>2, <2>1 DEF Restored
  <1>5. \A q, x \in Additions(c) : Overlap(x, q) => Overlap(x, q)'
    BY <1>1 DEF Additions, Overlap
  <1>6. ASSUME NEW q \in Additions(c), NEW u \in AddedBeside(q)
        PROVE  u \in AddedBeside(q)'
    <2>1. q \in Requests /\ On(q) = c /\ On(q)' = c
      BY <1>2 DEF Additions
    <2>2. PICK x \in Additions(c) : Overlap(x, q) /\ u \in Newcomers(x)
      BY <2>1 DEF AddedBeside
    <2>3. x \in Additions(c)' /\ Overlap(x, q)' /\ u \in Newcomers(x)' /\ x \in Requests
      BY <1>2, <1>3, <1>5, <2>2 DEF Additions
    <2>4. QED
      BY <2>1, <2>3 DEF AddedBeside
  <1>7. QED
    BY <1>2, <1>3, <1>4, <1>5, <1>6 DEF Additions

Counting(r) ==
  IsGroup(r) /\ pc'[r] \in Early => pc[r] \in Early \ {"idle"} \/ Cardinality(Founders(r)) <= MaxMembers

\* What is left to show of the conversations after a step of r.
LEMMA Within ==
  ASSUME TInv, UNCHANGED call, NEW r \in Requests, ~Ended(r), Moves(r), Limits, Counting(r),
         pc'[r] \in AddLabels => By(r) \notin todo'[r],
         \A c \in Requests : NeverCounted(c)' \/ \E w \in Additions(c)' : LastCounted(c, w)'
  PROVE  Limits'
  <1>1. \A q \in Requests : /\ IsGroup(q)' = IsGroup(q) /\ Founders(q)' = Founders(q)
                            /\ By(q)' = By(q)
    BY SameParts DEF IsGroup, Founders
  <1>2. ASSUME NEW c \in Requests, IsGroup(c), pc'[c] \in Early \ {"idle"}
        PROVE  Cardinality(Founders(c)) <= MaxMembers
    <2>1. CASE c = r
      BY <1>2, <2>1 DEF Counting, Limits
    <2>2. CASE c # r
      BY <1>2, <2>2 DEF Limits, Moves, Walk
    <2>3. QED
      BY <2>1, <2>2
  <1>3. ASSUME NEW c \in Requests, NEW s \in before'[c]
        PROVE  pc'[s] = "ok"
    <2>1. s \in Requests /\ pc[s] = "ok"
      <3>1. s \in Requests
        BY DEF Moves, Walk
      <3>2. before'[c] = before[c] \/ before'[c] = {q \in Requests : pc[q] = "ok"}
        BY DEF Moves, Walk
      <3>3. QED
        BY <1>3, <3>1, <3>2 DEF Limits
    <2>2. s # r
      BY <2>1 DEF Ended
    <2>3. QED
      BY <2>1, <2>2 DEF Moves, Walk
  <1>4. ASSUME NEW c \in Requests, pc'[c] \in AddLabels
        PROVE  By(c) \notin todo'[c]
    <2>1. CASE c = r
      BY <1>4, <2>1
    <2>2. CASE c # r
      BY <1>4, <2>2 DEF Limits, Moves, Walk, Hands
    <2>3. QED
      BY <2>1, <2>2
  <1>5. QED
    BY <1>1, <1>2, <1>3, <1>4 DEF Limits, Early, AddLabels

\* A step after which nobody is active who was not, but for those a stale save
\* restores and those an addition that has counted adds, and that does not count.
LEMMA Uncrowded ==
  ASSUME TInv, UNCHANGED call, NEW r \in Requests, ~Ended(r), Moves(r), Limits, Counting(r),
         \A c \in Requests : \A u \in ActiveIn(c)' \ ActiveIn(c) :
           \/ u \in Restored(c)'
           \/ r \in Additions(c) /\ pc[r] \in AddLabels /\ u \in Newcomers(r),
         Op(r) = "addGroupMembers" /\ pc'[r] \in AddLabels =>
           pc[r] \in AddLabels /\ todo'[r] \subseteq todo[r]
  PROVE  Limits'
  <1>1. MaxMembers \in Nat /\ \A c : ActiveIn(c) \in SUBSET People
    BY SocialAssumption DEF ActiveIn
  <1>2. \A q \in Requests : Newcomers(q) \in SUBSET People
    BY CallsTyped DEF TInv, TypeOK, Newcomers
  <1>3. \A c, q \in Requests : q \in Additions(c)' /\ pc'[q] \in AddLabels =>
                              q \in Additions(c) /\ pc[q] \in AddLabels
    BY SameParts DEF Additions, AddLabels, Moves, Walk
  <1>4. ASSUME NEW c \in Requests, NeverCounted(c)
        PROVE  NeverCounted(c)'
    <2>1. \A q \in Additions(c)' : pc'[q] \notin AddLabels
      BY <1>3, <1>4 DEF NeverCounted, Additions
    <2>2. ActiveIn(c)' \ Restored(c)' \subseteq ActiveIn(c) \ Restored(c)
      BY <1>4, ExcusesStay DEF NeverCounted
    <2>3. ActiveIn(c) \ Restored(c) \in SUBSET People
      BY <1>1
    <2>4. Cardinality(ActiveIn(c) \ Restored(c)) <= MaxMembers
      BY <1>4 DEF NeverCounted
    <2>5. Cardinality(ActiveIn(c)' \ Restored(c)') <= MaxMembers
      BY <1>1, <2>2, <2>3, <2>4, Bounded
    <2>6. MaxMembers' = MaxMembers
      OBVIOUS
    <2>7. QED
      BY <2>1, <2>5, <2>6 DEF NeverCounted, AddLabels
  <1>5. ASSUME NEW c \in Requests, NEW w \in Additions(c), LastCounted(c, w)
        PROVE  w \in Additions(c)' /\ LastCounted(c, w)'
    <2> DEFINE excused == Restored(c) \cup AddedBeside(w)
               held == (ActiveIn(c) \cup Newcomers(w)) \ excused
    <2>1. w \in Requests /\ w \in Additions(c)' /\ On(w) = c
      BY ExcusesStay DEF Additions
    <2>2. Newcomers(w)' = Newcomers(w) /\ excused \subseteq excused'
      BY ExcusesStay
    <2>3. \A q \in Additions(c)' \ {w} : pc'[q] \in AddLabels => Overlap(q, w)'
      <3> SUFFICES ASSUME NEW q \in Additions(c)' \ {w}, pc'[q] \in AddLabels
                   PROVE  Overlap(q, w)'
        OBVIOUS
      <3>1. q \in Requests
        BY DEF Additions
      <3>2. q \in Additions(c) /\ pc[q] \in AddLabels
        BY <1>3, <3>1
      <3>3. Overlap(q, w)
        BY <1>5, <3>2 DEF LastCounted
      <3>4. QED
        BY <3>2, <3>3, ExcusesStay
    <2>4. ASSUME NEW u \in held'
          PROVE  u \in held
      <3>1. u \notin excused /\ u \notin Restored(c)'
        BY <2>2
      <3>2. CASE u \in Newcomers(w) \/ u \in ActiveIn(c)
        BY <3>1, <3>2
      <3>3. CASE u \in ActiveIn(c)' \ ActiveIn(c)
        <4>1. r \in Additions(c) /\ pc[r] \in AddLabels /\ u \in Newcomers(r)
          BY <3>1, <3>3
        <4>2. CASE r = w
          BY <3>1, <4>1, <4>2
        <4>3. CASE r # w
          <5>1. Overlap(r, w)
            BY <1>5, <4>1, <4>3 DEF LastCounted
          <5>2. u \in AddedBeside(w)
            BY <2>1, <4>1, <5>1 DEF AddedBeside
          <5>3. QED
            BY <3>1, <5>2
        <4>4. QED
          BY <4>2, <4>3
      <3>4. QED
        BY <2>2, <3>2, <3>3
    <2>5. held' \in SUBSET held /\ held \in SUBSET People
      BY <1>1, <1>2, <2>1, <2>4
    <2>6. Cardinality(held) <= MaxMembers
      BY <1>5 DEF LastCounted
    <2> HIDE DEF excused, held
    <2>7. Cardinality(held') <= MaxMembers
      BY <1>1, <2>5, <2>6, Bounded
    <2>8. QED
      BY <2>1, <2>3, <2>7 DEF LastCounted, AddLabels, held, excused
  <1>6. \A c \in Requests : NeverCounted(c)' \/ \E w \in Additions(c)' : LastCounted(c, w)'
    BY <1>4, <1>5 DEF Limits
  <1>7. pc'[r] \in AddLabels => By(r) \notin todo'[r]
    <2>1. pc'[r] \in AddLabels => Op(r) = "addGroupMembers"
      BY DEF Moves, Fits, AddLabels
    <2>2. QED
      BY <2>1 DEF Limits
  <1>8. QED
    BY <1>6, <1>7, Within

\* A step that touches one conversation at most, and counts no other.
LEMMA Unmoved ==
  ASSUME TInv, UNCHANGED call, NEW r \in Requests, ~Ended(r), Moves(r), Limits, Counting(r),
         NEW x \in Requests,
         NeverCounted(x)' \/ \E w \in Additions(x)' : LastCounted(x, w)',
         \A c \in Requests \ {x} : ActiveIn(c)' = ActiveIn(c),
         pc'[r] \in AddLabels => On(r) = x /\ By(r) \notin todo'[r]
  PROVE  Limits'
  <1>1. ASSUME NEW c \in Requests \ {x}
        PROVE  NeverCounted(c)' \/ \E w \in Additions(c)' : LastCounted(c, w)'
    <2>1. MaxMembers \in Nat /\ ActiveIn(c) \in SUBSET People
      BY SocialAssumption DEF ActiveIn
    <2>2. \A q \in Requests : q \in Additions(c)' /\ pc'[q] \in AddLabels =>
                              q \in Additions(c) /\ pc[q] \in AddLabels
      BY SameParts DEF Additions, AddLabels, Moves, Walk
    <2>3. CASE NeverCounted(c)
      <3>1. \A q \in Additions(c)' : pc'[q] \notin AddLabels
        BY <2>2, <2>3 DEF NeverCounted, Additions
      <3>2. /\ ActiveIn(c)' \ Restored(c)' \in SUBSET (ActiveIn(c) \ Restored(c))
            /\ ActiveIn(c) \ Restored(c) \in SUBSET People
        BY <2>1, ExcusesStay
      <3>3. Cardinality(ActiveIn(c) \ Restored(c)) <= MaxMembers
        BY <2>3 DEF NeverCounted
      <3>4. Cardinality(ActiveIn(c)' \ Restored(c)') <= MaxMembers
        BY <2>1, <3>2, <3>3, Bounded
      <3>5. QED
        BY <3>1, <3>4 DEF NeverCounted, AddLabels
    <2>4. ASSUME NEW w \in Additions(c), LastCounted(c, w)
          PROVE  w \in Additions(c)' /\ LastCounted(c, w)'
      <3> DEFINE held == (ActiveIn(c) \cup Newcomers(w)) \ (Restored(c) \cup AddedBeside(w))
      <3>1. /\ w \in Requests /\ w \in Additions(c)' /\ Newcomers(w)' = Newcomers(w)
            /\ Newcomers(w) \in SUBSET People
        BY ExcusesStay, CallsTyped DEF Additions, TInv, TypeOK, Newcomers
      <3>2. \A q \in Additions(c)' \ {w} : pc'[q] \in AddLabels => Overlap(q, w)'
        <4> SUFFICES ASSUME NEW q \in Additions(c)' \ {w}, pc'[q] \in AddLabels
                     PROVE  Overlap(q, w)'
          OBVIOUS
        <4>1. q \in Requests
          BY DEF Additions
        <4>2. q \in Additions(c) /\ pc[q] \in AddLabels
          BY <2>2, <4>1
        <4>3. Overlap(q, w)
          BY <2>4, <4>2 DEF LastCounted
        <4>4. QED
          BY <4>2, <4>3, ExcusesStay
      <3>3. held' \in SUBSET held /\ held \in SUBSET People
        BY <2>1, <3>1, ExcusesStay
      <3>4. Cardinality(held) <= MaxMembers
        BY <2>4 DEF LastCounted
      <3> HIDE DEF held
      <3>5. Cardinality(held') <= MaxMembers
        BY <2>1, <3>3, <3>4, Bounded
      <3>6. QED
        BY <3>1, <3>2, <3>5 DEF LastCounted, AddLabels, held
    <2>5. QED
      BY <2>3, <2>4 DEF Limits
  <1>2. QED
    BY <1>1, Within

LEMMA Pairs ==
  ASSUME NEW a, NEW b
  PROVE  IsFiniteSet({a, b}) /\ Cardinality({a, b}) <= 2
  <1>1. IsFiniteSet({a}) /\ Cardinality({a}) = 1
    BY FS_Singleton
  <1>2. {a, b} = {a} \cup {b}
    OBVIOUS
  <1>3. /\ IsFiniteSet({a} \cup {b})
        /\ Cardinality({a} \cup {b}) = (IF b \in {a} THEN Cardinality({a}) ELSE Cardinality({a}) + 1)
    BY <1>1, FS_AddElement
  <1>4. QED
    BY <1>1, <1>2, <1>3

LEMMA FoundersLimited ==
  ASSUME TInv, TInv', UNCHANGED call, NEW r \in Requests, ~Ended(r), PartsGone, Limits, InsertParticipants(r)
  PROVE  Limits'
  <1>0. TypeOK /\ Moves(r)
    BY MessagingMoves DEF TInv, MessagingStep
  <1>1. pc[r] = "participants" /\ pc'[r] \in {"publish", "open"} /\ Op(r) \in TalkMakers
    BY <1>0, Goes DEF InsertParticipants, Labels, TalkLabels, TInv, Walks, Fits
  <1>2. \A u \in People : parts[<<r, u>>] = NONE
    BY <1>1 DEF PartsGone, Early
  <1>3. \A u : NewPart(FounderRole(r, u)) # NONE /\ NewPart(FounderRole(r, u)).left = FALSE
    <2>1. \A u : NewPart(FounderRole(r, u)) \in PartRows
      BY DEF NewPart, PartRows, FounderRole
    <2>2. QED
      BY <2>1, SocialAssumption DEF Rows, NewPart
  <1>4. \A q \in Requests, u \in People :
          parts'[<<q, u>>] = IF q = r /\ u \in Founders(r) THEN NewPart(FounderRole(r, u)) ELSE parts[<<q, u>>]
    BY DEF InsertParticipants, WithFounders
  <1>5. Founders(r) \in SUBSET People
    BY CallsTyped DEF TInv, TypeOK, Founders
  <1>6. \A c \in Requests : ActiveIn(c)' = IF c = r THEN Founders(r) ELSE ActiveIn(c)
    BY <1>2, <1>3, <1>4, <1>5 DEF ActiveIn, IsActive
  <1>7. MaxMembers \in Nat /\ MaxMembers >= 2
    BY SocialAssumption
  <1>8. Cardinality(Founders(r)) <= MaxMembers
    <2>1. CASE IsGroup(r)
      BY <1>1, <2>1 DEF Limits, Early
    <2>2. CASE ~IsGroup(r)
      <3>1. Founders(r) = {By(r), To(r)}
        BY <1>1, <2>2, CallsTyped DEF TInv, TypeOK, Founders, IsGroup, TalkMakers, OfUser
      <3>2. IsFiniteSet(Founders(r)) /\ Cardinality(Founders(r)) <= 2
        BY <3>1, Pairs
      <3>3. Cardinality(Founders(r)) \in Nat
        BY <3>2, FS_CardinalityType
      <3>4. QED
        BY <1>7, <3>2, <3>3
    <2>3. QED
      BY <2>1, <2>2
  <1>9. ASSUME NEW q \in Additions(r), pc[q] \in AddLabels
        PROVE  FALSE
    <2>1. By(q) \in People /\ parts[<<On(q), By(q)>>] # NONE
      BY <1>9, RowNamed DEF Additions, PartsGone, AddLabels
    <2>2. QED
      BY <1>2, <1>9, <2>1 DEF Additions
  <1>10. NeverCounted(r)'
    <2>1. ActiveIn(r)' = Founders(r)
      BY <1>6
    <2>2. Cardinality(ActiveIn(r)' \ Restored(r)') <= MaxMembers
      BY <1>5, <1>7, <1>8, <2>1, Bounded
    <2>3. \A q \in Additions(r)' : pc'[q] \notin AddLabels
      <3>1. \A q \in Requests : q \in Additions(r)' /\ pc'[q] \in AddLabels => q \in Additions(r) /\ pc[q] \in AddLabels
        BY <1>0, <1>1, SameParts DEF Additions, AddLabels, Moves, Walk
      <3>2. QED
        BY <1>9, <3>1 DEF Additions
    <2>4. QED
      BY <2>2, <2>3 DEF NeverCounted, AddLabels
  <1>11. Counting(r)
    BY <1>1 DEF Counting, Early
  <1>12. pc'[r] \notin AddLabels
    BY <1>1 DEF AddLabels
  <1>13. \A c \in Requests \ {r} : ActiveIn(c)' = ActiveIn(c)
    BY <1>6
  <1>14. QED
    BY <1>0, <1>10, <1>11, <1>12, <1>13, Unmoved

LEMMA CountedLimited ==
  ASSUME TInv, TInv', UNCHANGED call, NEW r \in Requests, ~Ended(r), Limits, CountActive(r)
  PROVE  Limits'
  <1>0. TypeOK /\ Moves(r)
    BY MessagingMoves DEF TInv, MessagingStep
  <1> DEFINE rest == call[r].to \ {By(r)}
  <1>1. pc[r] = "active_count" /\ pc'[r] = "add" /\ Op(r) = "addGroupMembers" /\ UNCHANGED parts
    BY <1>0, Goes DEF CountActive, Labels, TalkLabels, TInv, Walks, Fits, talkVars
  <1>2. rest \in SUBSET People
    BY CallsTyped DEF TInv, TypeOK
  <1>3. todo'[r] = rest
    BY <1>0, <1>2, HasSeen DEF CountActive
  <1>4. Cardinality(ActiveIn(On(r))) + Cardinality(rest) <= MaxMembers
    BY DEF CountActive
  <1> HIDE DEF rest
  <1>5. \A c \in Requests : ActiveIn(c)' = ActiveIn(c) /\ ActiveIn(c) \in SUBSET People
    BY <1>1 DEF ActiveIn, IsActive
  <1>6. MaxMembers \in Nat
    BY SocialAssumption
  <1>7. Counting(r) /\ On(r) \in Requests
    BY <1>1, RowNamed DEF Counting, Early
  <1>8. PICK x \in Requests : x = On(r)
    BY <1>7
  <1>9. r \in Additions(x)' /\ LastCounted(x, r)'
    <2>1. On(r)' = x /\ Op(r)' = Op(r) /\ Newcomers(r) = rest /\ Newcomers(r)' = rest
      BY <1>8, SameParts DEF Newcomers, rest
    <2>2. r \in Additions(x)'
      BY <1>1, <2>1 DEF Additions
    <2>3. \A q \in Additions(x)' \ {r} : pc'[q] \in AddLabels => Overlap(q, r)'
      <3> SUFFICES ASSUME NEW q \in Additions(x)' \ {r}, pc'[q] \in AddLabels
                   PROVE  Overlap(q, r)'
        OBVIOUS
      <3>1. q \in Requests
        BY DEF Additions
      <3>2. pc[q] = pc'[q] /\ before'[q] = before[q] /\ before'[r] = before[r]
        BY <1>0, <1>1, <3>1 DEF Moves, Walk
      <3>3. q \notin before[r] /\ r \notin before[q]
        BY <1>1, <3>1, <3>2 DEF Limits, AddLabels
      <3>4. QED
        BY <3>2, <3>3 DEF Overlap
    <2>4. Cardinality(ActiveIn(x) \cup rest) <= MaxMembers
      BY <1>2, <1>4, <1>5, <1>6, <1>8, Joined
    <2>5. Cardinality((ActiveIn(x)' \cup rest) \ (Restored(x)' \cup AddedBeside(r)')) <= MaxMembers
      <3>1. ActiveIn(x) \cup rest \in SUBSET People /\ ActiveIn(x)' = ActiveIn(x)
        BY <1>2, <1>5
      <3>2. (ActiveIn(x)' \cup rest) \ (Restored(x)' \cup AddedBeside(r)') \in SUBSET (ActiveIn(x) \cup rest)
        BY <3>1
      <3>3. QED
        BY <1>6, <2>4, <3>1, <3>2, Bounded
    <2>6. QED
      BY <2>1, <2>2, <2>3, <2>5 DEF LastCounted, AddLabels
  <1>10. By(r) \notin todo'[r]
    BY <1>3 DEF rest
  <1>11. QED
    BY <1>0, <1>5, <1>7, <1>8, <1>9, <1>10, Unmoved

LEMMA AddedLimited ==
  ASSUME TInv, TInv', UNCHANGED call, NEW r \in Requests, ~Ended(r), Limits, SaveAdded(r)
  PROVE  Limits'
  <1>0. TypeOK /\ Moves(r)
    BY MessagingMoves DEF TInv, MessagingStep
  <1>1. /\ pc[r] = "add_row" /\ Op(r) = "addGroupMembers" /\ On(r) \in Requests
        /\ target[r] \in todo[r] /\ target[r] \in People
    BY RowNamed DEF SaveAdded, TInv, TypeOK, Walks, Fits, Carries
  <1>2. pc'[r] = "add" /\ todo'[r] = todo[r] \ {target[r]}
    BY <1>0, <1>1, Goes DEF SaveAdded, Labels, TalkLabels, TypeOK
  <1>3. \A x \in Requests \X People : x # <<On(r), target[r]>> => parts'[x] = parts[x]
    BY <1>0 DEF SaveAdded, Adding, TypeOK
  <1>4. \A c \in Requests, u \in People : <<c, u>> \in Requests \X People
    OBVIOUS
  <1>5. \A c \in Requests : ActiveIn(c)' \subseteq (IF c = On(r) THEN ActiveIn(c) \cup {target[r]} ELSE ActiveIn(c))
    BY <1>1, <1>3, <1>4 DEF ActiveIn, IsActive
  <1>6. r \in Additions(On(r)) /\ target[r] \in Newcomers(r)
    <2>1. todo[r] \subseteq call[r].to /\ By(r) \notin todo[r]
      BY <1>1 DEF Limits, AddLabels, TInv, Walks, Carries
    <2>2. QED
      BY <1>1, <2>1 DEF Additions, Newcomers
  <1>7. \A c \in Requests : \A u \in ActiveIn(c)' \ ActiveIn(c) :
          r \in Additions(c) /\ pc[r] \in AddLabels /\ u \in Newcomers(r)
    BY <1>1, <1>5, <1>6 DEF AddLabels
  <1>8. Counting(r)
    BY <1>1 DEF Counting, IsGroup
  <1>9. QED
    BY <1>0, <1>1, <1>2, <1>7, <1>8, Uncrowded DEF AddLabels

\* A save that makes somebody active has overwritten a row it had not seen.
LEMMA SavedRestores ==
  ASSUME TInv, UNCHANGED call, NEW r \in Requests, Moves(r), PartsGone, SavePart(r)
  PROVE  \A c \in Requests : \A u \in ActiveIn(c)' \ ActiveIn(c) : u \in Restored(c)'
  <1>1. /\ pc[r] = "part_row" /\ seen[r] \in PartRows /\ Op(r) \in PartOps
        /\ PartOf(r) \in Requests \X People /\ PartOf(r) = <<On(r), PartOf(r)[2]>>
    BY PartNamed DEF SavePart, TInv, Walks, Carries, PartOf
  <1>2. parts[PartOf(r)] # NONE
    BY <1>1 DEF PartsGone
  <1>3. \A x \in Requests \X People : x # PartOf(r) => parts'[x] = parts[x]
    BY <1>1 DEF SavePart, TInv, TypeOK
  <1>4. Op(r) = "removeParticipant" => parts'[PartOf(r)].left = TRUE
    <2>1. seen[r] \in [role : {"MEMBER", "ADMIN", "OWNER"}, left : BOOLEAN, read : BOOLEAN]
      BY <1>1 DEF PartRows
    <2>2. Op(r) = "removeParticipant" => parts'[PartOf(r)] = [seen[r] EXCEPT !.left = TRUE]
      BY <1>1 DEF SavePart, TInv, TypeOK
    <2>3. QED
      BY <2>1, <2>2
  <1>5. Op(r) # "removeParticipant" => parts'[PartOf(r)].left = seen[r].left
    <2>1. seen[r] \in [role : {"MEMBER", "ADMIN", "OWNER"}, left : BOOLEAN, read : BOOLEAN]
      BY <1>1 DEF PartRows
    <2>2. CASE Op(r) = "markRead"
      <3>1. parts'[PartOf(r)] = [seen[r] EXCEPT !.read = TRUE]
        BY <1>1, <2>2 DEF SavePart, TInv, TypeOK
      <3>2. QED
        BY <2>1, <3>1
    <2>3. CASE Op(r) \notin {"markRead", "removeParticipant"}
      <3>1. parts'[PartOf(r)] = [seen[r] EXCEPT !.role = Arg(r)]
        BY <1>1, <2>3 DEF SavePart, TInv, TypeOK
      <3>2. QED
        BY <2>1, <3>1
    <2>4. QED
      BY <2>2, <2>3
  <1>6. ASSUME NEW c \in Requests, NEW u \in ActiveIn(c)' \ ActiveIn(c)
        PROVE  u \in Restored(c)'
    <2>1. u \in People /\ IsActive(c, u)' /\ ~IsActive(c, u)
      BY DEF ActiveIn
    <2>2. <<c, u>> = PartOf(r)
      BY <1>3, <2>1 DEF IsActive
    <2>3. c = On(r) /\ u = PartOf(r)[2]
      BY <1>1, <2>2
    <2>4. parts'[PartOf(r)].left = FALSE /\ parts[PartOf(r)].left # FALSE
      <3>1. parts[PartOf(r)] \in PartRows
        BY <1>1, <1>2 DEF TInv, TypeOK
      <3>2. parts[PartOf(r)].left \in BOOLEAN
        BY <3>1 DEF PartRows
      <3>3. parts'[PartOf(r)].left \in BOOLEAN
        <4>1. seen[r].left \in BOOLEAN
          BY <1>1 DEF PartRows
        <4>2. QED
          BY <1>4, <1>5, <4>1
      <3>4. QED
        BY <1>2, <2>1, <2>2, <3>2, <3>3 DEF IsActive
    <2>5. Op(r) # "removeParticipant" /\ seen[r].left = FALSE
      BY <1>4, <1>5, <2>4
    <2>6. r \in stale'
      BY <2>4, <2>5 DEF SavePart, Writes
    <2>7. Op(r) \in {"markRead", "updateParticipantRole"}
      BY <1>1, <2>5 DEF PartOps
    <2>8. QED
      BY <2>3, <2>6, <2>7, SameParts DEF Restored
  <1>7. QED
    BY <1>6

LEMMA TalkLimits ==
  ASSUME TInv, TInv', UNCHANGED call, NEW r \in Requests, ~Ended(r), MessagingStep(r), PartsGone, Limits
  PROVE  Limits'
  <1>0. TypeOK /\ Moves(r)
    BY MessagingMoves DEF TInv
  <1>1. CASE InsertParticipants(r)
    BY <1>1, FoundersLimited
  <1>2. CASE CountActive(r)
    BY <1>2, CountedLimited
  <1>3. CASE SaveAdded(r)
    BY <1>3, AddedLimited
  <1>4. ASSUME parts' = parts, Counting(r),
               Op(r) = "addGroupMembers" /\ pc'[r] \in AddLabels =>
                 pc[r] \in AddLabels /\ todo'[r] \subseteq todo[r]
        PROVE  Limits'
    <2>1. \A c : ActiveIn(c)' = ActiveIn(c)
      BY <1>4 DEF ActiveIn, IsActive
    <2>2. QED
      BY <1>0, <1>4, <2>1, Uncrowded
  <1>5. CASE SavePart(r)
    <2>1. \A c \in Requests : \A u \in ActiveIn(c)' \ ActiveIn(c) : u \in Restored(c)'
      BY <1>0, <1>5, SavedRestores
    <2>2. pc[r] = "part_row" /\ Op(r) # "addGroupMembers" /\ pc'[r] \in {"ok", "publish"}
      BY <1>0, <1>5, Goes DEF SavePart, TInv, Walks, Fits, PartOps, Labels, TalkLabels
    <2>3. Counting(r)
      BY <2>2 DEF Counting, Early
    <2>4. QED
      BY <1>0, <2>1, <2>2, <2>3, Uncrowded
  <1>6. CASE StartTalk(r)
    <2>1. /\ parts' = parts /\ pc'[r] \in {"pair", "blocked_each"}
          /\ IsGroup(r) => Cardinality(Founders(r)) <= MaxMembers
      <3>1. MaxMembers \in Nat
        BY SocialAssumption
      <3>2. \A n : n \in 2 .. MaxMembers => n <= MaxMembers
        BY <3>1
      <3>3. QED
        BY <1>0, <1>6, <3>2, Goes DEF StartTalk, talkVars, IsGroup, Labels, TalkLabels
    <2>2. QED
      BY <1>4, <2>1 DEF Counting, AddLabels
  <1>7. CASE CheckEachFounder(r)
    <2>1. parts' = parts /\ pc[r] = "blocked_each" /\ (Goto(r, "talk") \/ Goto(r, "blocked_each"))
      BY <1>7 DEF CheckEachFounder, talkVars
    <2>2. pc'[r] \in {"talk", "blocked_each"}
      BY <1>0, <2>1, Goes DEF Labels, TalkLabels
    <2>3. QED
      BY <1>4, <2>1, <2>2 DEF Counting, AddLabels, Early
  <1>8. CASE FindAdded(r)
    <2>1. parts' = parts /\ pc[r] = "add_find" /\ pc'[r] \in {"add", "add_row"}
      BY <1>0, <1>8, Goes DEF FindAdded, talkVars, Labels, TalkLabels
    <2>2. todo'[r] \subseteq todo[r]
      BY <1>0, <1>8 DEF FindAdded, Sees, Reads, TypeOK
    <2>3. QED
      BY <1>4, <2>1, <2>2 DEF Counting, AddLabels, Early
  <1>9. CASE AddEach(r)
    <2>1. parts' = parts /\ pc[r] = "add" /\ pc'[r] \in {"publish", "add_find"} /\ todo'[r] = todo[r]
      BY <1>0, <1>9, Goes DEF AddEach, Reads, locals, talkVars, Labels, TalkLabels
    <2>2. QED
      BY <1>4, <2>1 DEF Counting, AddLabels, Early
  <1> USE Goes DEF Labels, TalkLabels, talkVars, Early, AddLabels, Counting
  <1>10. CASE FindPair(r) \/ InsertTalk(r) \/ OpenTalk(r) \/ Publish(r)
    BY <1>0, <1>4, <1>10 DEF FindPair, InsertTalk, OpenTalk, Publish
  <1>11. CASE AuthorizePart(r) \/ FindPart(r)
    BY <1>0, <1>4, <1>11 DEF AuthorizePart, FindPart
  <1>12. CASE FindTalk(r) \/ AssertActiveParticipant(r) \/ InsertMessage(r) \/ SaveLast(r) \/ DeleteMessage(r)
    BY <1>0, <1>4, <1>12 DEF FindTalk, AssertActiveParticipant, InsertMessage, SaveLast, DeleteMessage
  <1>13. QED
    BY <1>1, <1>2, <1>3, <1>5, <1>6, <1>7, <1>8, <1>9, <1>10, <1>11, <1>12 DEF MessagingStep

LEMMA LimitsStep ==
  ASSUME TInv, TInv', UNCHANGED call, NEW r \in Requests, ~Ended(r), Step(r), PartsGone, Limits
  PROVE  Limits'
  <1>1. CASE MessagingStep(r)
    BY <1>1, TalkLimits
  <1>2. ASSUME parts' = parts, Moves(r), Op(r) \notin TalkOps \/ pc'[r] \in {"conversations", "ok", "failed"}
        PROVE  Limits'
    <2>1. \A c : ActiveIn(c)' = ActiveIn(c)
      BY <1>2 DEF ActiveIn, IsActive
    <2>2. Op(r) = "addGroupMembers" => pc'[r] \notin AddLabels
      BY <1>2 DEF AddLabels, TalkOps
    <2>3. Counting(r)
      BY <1>2 DEF Counting, Early, TalkOps, TalkMakers, IsGroup
    <2>4. QED
      BY <1>2, <2>1, <2>2, <2>3, Uncrowded
  <1> USE DEF TalkOps, TalkMakers, PartOps
  <1>3. CASE ConnectionStep(r) /\ UNCHANGED talkVars
    BY <1>2, <1>3, ConnectionRoute, ConnectionMoves DEF talkVars, ConnectionOps, ProfileOps, DiscoveryOps
  <1>4. CASE NoticeStep(r) /\ UNCHANGED talkVars
    BY <1>2, <1>4, NoticeRoute, NoticeMoves DEF talkVars, NoticeOps, Notifiers, ReviewOps
  <1>5. CASE MembershipStep(r) /\ UNCHANGED talkVars
    BY <1>2, <1>5, MembershipRoute, MembershipMoves DEF talkVars, GroupOps, MemberOps, ReviewOps
  <1>6. CASE ContentStep(r) /\ UNCHANGED talkVars
    BY <1>2, <1>6, ContentRoute, ContentMoves
    DEF talkVars, ContentOps, PostOps, CommentOps, ReactionOps, StoryOps
  <1>7. CASE Fails(r) /\ UNCHANGED talkVars
    BY <1>2, <1>7, FailRoute, OtherMoves DEF talkVars
  <1>8. CASE FeedStep(r) /\ UNCHANGED talkVars
    BY <1>2, <1>8, FeedRoute, FeedMoves DEF talkVars, FeedOps, NewsfeedOps
  <1>9. CASE GroupPostStep(r) /\ UNCHANGED talkVars
    BY <1>2, <1>9, GroupPostRoute, GroupPostMoves DEF talkVars, GroupOps, MemberOps, ReviewOps
  <1>10. CASE (ListStep(r) \/ ListMessages(r)) /\ UNCHANGED talkVars
    BY <1>2, <1>10, ListRoute, ListMoves, OtherMoves DEF talkVars
  <1>11. QED
    BY <1>1, <1>3, <1>4, <1>5, <1>6, <1>7, <1>8, <1>9, <1>10 DEF Step, ListMessages

LInv == RInv /\ Limits

LEMMA InitLimits ==
  Init => Limits
  <1> SUFFICES ASSUME Init
               PROVE  Limits
    OBVIOUS
  <1>0. TInv /\ call \in Plans
    BY InitTypes DEF TInv, TypeOK
  <1>1. \A r \in Requests : /\ pc[r] = (IF Made(r) THEN "ok" ELSE "idle") /\ before[r] = {}
                            /\ Op(r) = "addGroupMembers" => pc[r] = "idle"
    BY <1>0, CallsTyped DEF Init, CallsInit, Inserting, PostMakers, TalkMakers
  <1>2. MaxMembers \in Nat /\ MaxMembers >= 2
    BY SocialAssumption
  <1>3. ASSUME NEW c \in Requests
        PROVE  Cardinality(ActiveIn(c)) <= MaxMembers
    <2>1. CASE Made(c) /\ IsTalk(c)
      <3>1. ActiveIn(c) \subseteq Founders(c) /\ Founders(c) \in SUBSET People
        BY <1>0, CallsTyped DEF ActiveIn, IsActive, Init, TalksInit, Founders
      <3>2. Cardinality(Founders(c)) <= MaxMembers
        <4>1. CASE IsGroup(c)
          BY <1>0, <2>1, <4>1, SocialAssumption DEF IsGroup, Op, Made, Founders, By
        <4>2. CASE ~IsGroup(c)
          <5>1. Founders(c) = {By(c), To(c)}
            BY <1>0, <2>1, <4>2, CallsTyped DEF Founders, IsGroup, IsTalk, TalkMakers, OfUser
          <5>2. IsFiniteSet(Founders(c)) /\ Cardinality(Founders(c)) <= 2
            BY <5>1, Pairs
          <5>3. Cardinality(Founders(c)) \in Nat
            BY <5>2, FS_CardinalityType
          <5>4. QED
            BY <1>2, <5>2, <5>3
        <4>3. QED
          BY <4>1, <4>2
      <3>3. QED
        BY <1>2, <3>1, <3>2, Bounded
    <2>2. CASE ~(Made(c) /\ IsTalk(c))
      <3>1. ActiveIn(c) = {}
        BY <2>2 DEF ActiveIn, IsActive, Init, TalksInit
      <3>2. QED
        BY <1>2, <3>1, FS_EmptySet
    <2>3. QED
      BY <2>1, <2>2
  <1>4. ASSUME NEW c \in Requests
        PROVE  NeverCounted(c)
    <2>1. ActiveIn(c) \in SUBSET People /\ ActiveIn(c) \ Restored(c) \in SUBSET ActiveIn(c)
      BY DEF ActiveIn
    <2>2. Cardinality(ActiveIn(c) \ Restored(c)) <= MaxMembers
      BY <1>2, <1>3, <2>1, Bounded
    <2>3. QED
      BY <1>1, <2>2 DEF NeverCounted, Additions, AddLabels
  <1>5. QED
    BY <1>1, <1>4 DEF Limits, Early, AddLabels

LEMMA LInvStep ==
  LInv /\ [Next]_vars => LInv'
  <1> SUFFICES ASSUME LInv, [Next]_vars
               PROVE  LInv'
    OBVIOUS
  <1>1. RInv /\ RInv' /\ TInv /\ TInv' /\ PartsGone
    BY GoneStep DEF LInv, RInv, Gone
  <1>2. CASE Next
    <2>1. PICK r \in Requests : ~Ended(r) /\ Step(r) /\ UNCHANGED call
      BY <1>2 DEF Next
    <2>2. QED
      BY <1>1, <2>1, LimitsStep DEF LInv
  <1>3. CASE UNCHANGED vars
    <2>1. UNCHANGED <<call, pc, before, stale, todo, parts>>
      BY <1>3 DEF vars, callVars, locals, talkVars
    <2>2. \A c : /\ IsGroup(c)' = IsGroup(c) /\ Founders(c)' = Founders(c) /\ By(c)' = By(c)
                 /\ NeverCounted(c)' = NeverCounted(c) /\ Additions(c)' = Additions(c)
                 /\ \A w : LastCounted(c, w)' = LastCounted(c, w)
      BY <2>1 DEF IsGroup, Founders, ActiveIn, IsActive, On, Op, By, Overlap, NeverCounted,
                  LastCounted, Additions, Restored, PartOf, To, AddedBeside, Newcomers, AddLabels
    <2>3. Limits'
      BY <2>1, <2>2 DEF LInv, Limits
    <2>4. QED
      BY <1>1, <2>3 DEF LInv
  <1>4. QED
    BY <1>2, <1>3

\* A conversation exceeds its limit by nobody but those whom additions ask for
\* that overlap with the last that has counted, and those whom a stale save of
\* their row has restored.
THEOREM LimitsHold == Spec => []LimitExplained
  <1>1. Init => LInv
    BY InitTypes, InitGone, InitLimits DEF LInv, RInv
  <1>2. LInv => LimitExplained
    <2> SUFFICES ASSUME LInv, NEW c \in Requests
                 PROVE  \/ Cardinality(ActiveIn(c) \ Restored(c)) <= MaxMembers
                        \/ \E w \in Additions(c) :
                             Cardinality(ActiveIn(c) \ (Restored(c) \cup AddedBeside(w))) <= MaxMembers
      BY DEF LimitExplained
    <2>1. CASE NeverCounted(c)
      BY <2>1 DEF NeverCounted
    <2>2. CASE \E w \in Additions(c) : LastCounted(c, w)
      <3>1. PICK w \in Additions(c) : LastCounted(c, w)
        BY <2>2
      <3> DEFINE excused == Restored(c) \cup AddedBeside(w)
                 held == (ActiveIn(c) \cup Newcomers(w)) \ excused
      <3>2. held \in SUBSET People /\ ActiveIn(c) \ excused \in SUBSET held
        BY CallsTyped DEF LInv, RInv, TInv, TypeOK, Additions, Newcomers, ActiveIn
      <3>3. Cardinality(held) <= MaxMembers /\ MaxMembers \in Nat
        BY <3>1, SocialAssumption DEF LastCounted
      <3> HIDE DEF excused, held
      <3>4. Cardinality(ActiveIn(c) \ excused) <= MaxMembers
        BY <3>2, <3>3, Bounded
      <3>5. QED
        BY <3>4 DEF excused
    <2>3. QED
      BY <2>1, <2>2 DEF LInv, Limits
  <1>3. QED
    BY <1>1, <1>2, LInvStep, PTL DEF Spec
=============================================================================
