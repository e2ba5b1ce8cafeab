------------------------------- MODULE Groups --------------------------------
(***************************************************************************)
(* GroupService: communities and fan pages, their members and the approval *)
(* of their posts.  All groups of the model have the same name, so that    *)
(* their slugs collide; no code archives a group or changes its columns,   *)
(* which are therefore the argument of its creation: "PRIVATE" is a        *)
(* private community, "MODERATED" one whose posts need approval.           *)
(***************************************************************************)
EXTENDS Feed

VARIABLES
  groups,  \* the SocialGroup row each request has inserted
  members  \* the SocialGroupMember rows

groupVars == <<groups, members>>

GroupRoles == {"MEMBER", "MODERATOR", "ADMIN", "OWNER"}
GroupRows == [slug : Nat, members : Int, posts : Int]
MemberRows == [role : GroupRoles, status : {"PENDING", "ACTIVE", "BANNED"}]

MemberOps == {"leaveGroup", "approveMember", "updateMemberRole", "removeMember"}
ReviewOps == {"approveGroupPost", "rejectGroupPost"}
GroupOps == MemberOps \cup ReviewOps
            \cup {"createGroup", "listGroups", "getGroup", "joinGroup", "listMembers",
                  "createGroupPost", "listGroupPosts"}
GroupLabels == {"slug", "group", "owner", "join", "moderators", "member", "member_row",
                "count_member", "group_post", "count_post", "pending_post", "review", "posts",
                "members"}

GroupOf(r) ==
  CASE Op(r) = "createGroup" -> r
    [] Op(r) \in ReviewOps -> On(On(r))
    [] OTHER -> On(r)

\* The user whose membership a call is about.
Subject(r) == IF Op(r) \in MemberOps \ {"leaveGroup"} THEN To(r) ELSE By(r)

\* The unique index of group and user.
Membership(g, u) ==
  {m \in Requests : members[m] # NONE /\ GroupOf(m) = g /\ By(m) = u}

ActiveMembers(g) ==
  {m \in Requests : members[m] # NONE /\ GroupOf(m) = g /\ members[m].status = "ACTIVE"}
ApprovedPosts(g) ==
  {p \in Requests : /\ Op(p) = "createGroupPost" /\ On(p) = g
                    /\ posts[p] # NONE /\ posts[p].approval = "APPROVED"}

CanModerate == GroupRoles \ {"MEMBER"}

\* Who joins a group beforehand does so with the role of his argument.
GroupsInit ==
  /\ members = [m \in Requests |->
       CASE Made(m) /\ Op(m) = "createGroup" -> [role |-> "OWNER", status |-> "ACTIVE"]
         [] Made(m) /\ Op(m) = "joinGroup" ->
              IF Arg(m) = "PENDING" THEN [role |-> "MEMBER", status |-> "PENDING"]
              ELSE [role |-> Arg(m), status |-> "ACTIVE"]
         [] OTHER -> NONE]
  /\ groups = [g \in Requests |->
       IF Made(g) /\ Op(g) = "createGroup"
       THEN [slug |-> 0, members |-> Cardinality(ActiveMembers(g)),
             posts |-> Cardinality(ApprovedPosts(g))]
       ELSE NONE]

----------------------------------------------------------------------------
(* createCommunity and createFanpage, which differ in columns only *)

\* generateUniqueSlug tries one slug after the other.
FindSlug(r) ==
  /\ pc[r] \in {"idle", "slug"} /\ Op(r) = "createGroup"
  /\ LET slug == IF seen[r] = NONE THEN 0 ELSE seen[r].slug IN
     IF \E g \in Requests : groups[g] # NONE /\ groups[g].slug = slug
     THEN /\ Reads(r, NONE, [slug |-> slug + 1, members |-> 1, posts |-> 0])
          /\ Goto(r, "slug")
     ELSE /\ Reads(r, NONE, [slug |-> slug, members |-> 1, posts |-> 0])
          /\ Goto(r, "group")
  /\ UNCHANGED groupVars

\* The unique index of slug.
InsertGroup(r) ==
  /\ pc[r] = "group"
  /\ \A g \in Requests : groups[g] # NONE => groups[g].slug # seen[r].slug
  /\ groups' = [groups EXCEPT ![r] = seen[r]]
  /\ Goto(r, "owner")
  /\ UNCHANGED <<members, locals>>

\* The unique index of group and user: the creator may have joined already.
InsertOwner(r) ==
  /\ pc[r] = "owner"
  /\ Membership(r, By(r)) = {}
  /\ members' = [members EXCEPT ![r] = [role |-> "OWNER", status |-> "ACTIVE"]]
  /\ Goto(r, "ok")
  /\ UNCHANGED <<groups, locals>>

----------------------------------------------------------------------------
(* joinGroup, leaveGroup, approveMember, updateMemberRole, removeMember *)

JoinGroup(r) ==
  /\ pc[r] = "idle" /\ Op(r) = "joinGroup"
  /\ groups[On(r)] # NONE
  /\ \A m \in Membership(On(r), By(r)) : members[m].status # "BANNED"
  /\ Goto(r, IF Membership(On(r), By(r)) = {} THEN "join" ELSE "ok")
  /\ UNCHANGED <<groupVars, locals>>

JoinStatus(r) ==
  IF Arg(On(r)) = "PRIVATE" /\ By(On(r)) # By(r) THEN "PENDING" ELSE "ACTIVE"

InsertMember(r) ==
  /\ pc[r] = "join"
  /\ Membership(On(r), By(r)) = {}
  /\ members' = [members EXCEPT ![r] = [role |-> "MEMBER", status |-> JoinStatus(r)]]
  /\ Goto(r, IF JoinStatus(r) = "ACTIVE" THEN "count_member" ELSE "moderators")
  /\ UNCHANGED <<groups, locals>>

\* getGroupModerators, for the notices
FindModerators(r) ==
  /\ pc[r] = "moderators"
  /\ Sees(r, {u \in People : \E m \in Membership(On(r), u) :
                members[m].status = "ACTIVE" /\ members[m].role \in CanModerate})
  /\ Goto(r, "notify")
  /\ UNCHANGED groupVars

Roles(r) ==
  CASE Op(r) \in {"approveMember", "removeMember"} \cup ReviewOps -> CanModerate
    [] Op(r) = "updateMemberRole" -> {"OWNER"}
    [] OTHER -> GroupRoles

\* assertActiveMember, assertModerator, assertAdmin
Authorizing(r) ==
  {m \in Membership(GroupOf(r), By(r)) :
    members[m].status = "ACTIVE" /\ members[m].role \in Roles(r)}

\* Everybody may remove himself.
Authorize(r) ==
  /\ pc[r] = "idle" /\ Op(r) \in (MemberOps \ {"leaveGroup"}) \cup ReviewOps
                                \cup {"createGroupPost", "listGroupPosts", "listMembers"}
  /\ \/ \E m \in Authorizing(r) : Reads(r, m, members[m])
     \/ Op(r) = "removeMember" /\ By(r) = To(r) /\ UNCHANGED locals
  /\ Goto(r, CASE Op(r) \in MemberOps -> "member"
               [] Op(r) \in ReviewOps -> "pending_post"
               [] Op(r) = "createGroupPost" -> "group_post"
               [] Op(r) = "listMembers" -> "members"
               [] OTHER -> "posts")
  /\ UNCHANGED groupVars

\* Mutation: everybody may leave, whatever his status.
WantedAny(r) ==
  CASE Op(r) = "approveMember" -> {"PENDING"}
    [] Op(r) = "updateMemberRole" -> {"ACTIVE"}
    [] OTHER -> {"PENDING", "ACTIVE", "BANNED"}

\* The status that the membership is looked up with.
Wanted(r) ==
  CASE Op(r) = "approveMember" -> {"PENDING"}
    [] Op(r) = "removeMember" -> {"PENDING", "ACTIVE", "BANNED"}
    [] OTHER -> {"ACTIVE"}

FindMember(r) ==
  /\ pc[r] = IF Op(r) = "leaveGroup" THEN "idle" ELSE "member"
  /\ Op(r) \in MemberOps
  /\ \E m \in Membership(On(r), Subject(r)) :
       /\ members[m].status \in Wanted(r)
       /\ members[m].role = "OWNER" => Op(r) = "approveMember"
       /\ Reads(r, m, members[m])
  /\ Goto(r, "member_row")
  /\ UNCHANGED groupVars

Changed(r) ==
  CASE Op(r) = "approveMember" -> [seen[r] EXCEPT !.status = "ACTIVE"]
    [] Op(r) = "updateMemberRole" -> [seen[r] EXCEPT !.role = Arg(r)]
    [] Op(r) = "removeMember" -> [seen[r] EXCEPT !.status = "BANNED"]
    [] OTHER -> NONE

\* Mutation: every removal counts.
CountsEvery(r) == Op(r) \in {"approveMember", "leaveGroup", "removeMember"}

\* A removal counts if the member was active.
Counts(r) ==
  \/ Op(r) \in {"approveMember", "leaveGroup"}
  \/ Op(r) = "removeMember" /\ seen[r].status = "ACTIVE"

\* A row that has been removed is inserted again, if its key is still free.
SaveMember(r) ==
  /\ pc[r] = "member_row"
  /\ Op(r) = "leaveGroup" \/ Membership(On(r), Subject(r)) \subseteq {target[r]}
  /\ members' = [members EXCEPT ![target[r]] = Changed(r)]
  /\ Writes(r, members[target[r]])
  /\ Goto(r, IF Counts(r) THEN "count_member" ELSE "ok")
  /\ UNCHANGED groups

CountMember(r) ==
  /\ pc[r] = "count_member"
  /\ groups' = Bump(groups, On(r), "members", IF Op(r) \in {"joinGroup", "approveMember"} THEN 1 ELSE -1)
  /\ IF Op(r) = "approveMember"
     THEN Goto(r, "notify") /\ Sees(r, {To(r)})
     ELSE Goto(r, "ok") /\ UNCHANGED locals
  /\ UNCHANGED members

MembershipStep(r) ==
  \/ FindSlug(r) \/ InsertGroup(r) \/ InsertOwner(r)
  \/ JoinGroup(r) \/ InsertMember(r) \/ FindModerators(r)
  \/ Authorize(r) \/ FindMember(r) \/ SaveMember(r) \/ CountMember(r)

----------------------------------------------------------------------------
(* createGroupPost, approveGroupPost, rejectGroupPost, listGroupPosts *)

NeedsApproval(r) == Arg(On(r)) = "MODERATED"

InsertGroupPost(r) ==
  /\ pc[r] = "group_post"
  /\ posts' = [posts EXCEPT ![r] = NewPost(IF NeedsApproval(r) THEN "PENDING" ELSE "APPROVED")]
  /\ Goto(r, IF NeedsApproval(r) THEN "moderators" ELSE "count_post")
  /\ UNCHANGED <<groupVars, feedVars, locals>>

CountPost(r) ==
  /\ pc[r] = "count_post"
  /\ groups' = Bump(groups, GroupOf(r), "posts", 1)
  /\ Goto(r, "unindex")
  /\ UNCHANGED <<posts, members, feedVars, locals>>

FindPendingPost(r) ==
  /\ pc[r] = "pending_post"
  /\ Live(On(r)) /\ posts[On(r)].approval = "PENDING"
  /\ Reads(r, On(r), posts[On(r)])
  /\ Goto(r, "review")
  /\ UNCHANGED <<posts, groupVars, feedVars>>

Review(r) ==
  /\ pc[r] = "review"
  /\ posts' = [posts EXCEPT ![On(r)] = [seen[r] EXCEPT !.approval =
                 IF Op(r) = "approveGroupPost" THEN "APPROVED" ELSE "REJECTED"]]
  /\ stale' = IF posts[On(r)] = seen[r] THEN stale ELSE stale \cup {r}
  /\ todo' = [todo EXCEPT ![r] = {By(On(r))}]
  /\ Goto(r, IF Op(r) = "approveGroupPost" THEN "count_post" ELSE "notify")
  /\ UNCHANGED <<groupVars, feedVars, target, seen>>

\* A moderator is shown every status, or approved and pending posts only.
Statuses(r) ==
  IF seen[r].role \notin CanModerate THEN {"APPROVED"}
  ELSE IF NeedsApproval(r) THEN {"APPROVED", "PENDING"} ELSE Approvals

ListGroupPosts(r) ==
  /\ pc[r] = "posts"
  /\ Show(r, {p \in Requests : /\ Op(p) = "createGroupPost" /\ On(p) = On(r)
                               /\ Live(p) /\ posts[p].approval \in Statuses(r)})
  /\ Goto(r, "ok")
  /\ UNCHANGED <<posts, groupVars, locals>>

GroupPostStep(r) ==
  \/ InsertGroupPost(r) \/ CountPost(r) \/ FindPendingPost(r) \/ Review(r) \/ ListGroupPosts(r)
=============================================================================
