-------------------------------- MODULE Posts --------------------------------
(***************************************************************************)
(* PostService, CommentService, ReactionService, StoryService and the      *)
(* hashtag index: rows with denormalized counters in PostgreSQL, and their *)
(* media, tags and mentions in MongoDB.  The content of every post holds   *)
(* the same hashtag, and a post has media.                                 *)
(***************************************************************************)
EXTENDS Notices

VARIABLES
  posts,     \* the SocialPost row each request has inserted
  comments,  \* the SocialComment rows
  reactions, \* the SocialReaction rows
  stories,   \* the SocialStory rows
  docs       \* the documents of a post or comment

contentVars == <<posts, comments, reactions, stories, docs>>

Approvals == {"NONE", "PENDING", "APPROVED", "REJECTED"}
Privacies == {"PUBLIC", "FRIENDS", "FOLLOWERS", "ONLY_ME"}
PostRows == [deleted : BOOLEAN, approval : Approvals,
             likes : Int, comments : Int, shares : Int, views : Int]
CommentRows == [deleted : BOOLEAN, likes : Int, replies : Int]
ReactionRows == [type : {"LIKE", "LOVE"}]
StoryRows == [deleted : BOOLEAN, views : Nat]
\* people: SocialPostTag of users, or SocialMention; hashtags: a number.
Documents == [media : BOOLEAN, people : BOOLEAN, hashtags : Nat]

PostOps == {"createPost", "getPostById", "deletePost", "repost"}
CommentOps == {"createComment", "getCommentsByPost", "getReplies", "deleteComment"}
ReactionOps == {"toggleReaction", "getReactions"}
StoryOps == {"createStory", "getActiveStoriesByAuthor", "viewStory", "deleteStory"}
ContentOps == PostOps \cup CommentOps \cup ReactionOps \cup StoryOps
              \cup {"cleanupExpiredStories"}
PostMakers == {"createPost", "repost", "createGroupPost"}
ContentLabels == {"media", "tags", "unindex", "index", "del_post", "del_media", "del_tags",
  "repost", "share", "comment", "count_comment", "count_reply", "mention", "del_comment",
  "uncount_comment", "uncount_reply", "reaction", "unreact", "rereact", "react",
  "count_like", "uncount_like", "like_notice", "view_story", "del_story"}

Privacy(p) == IF Op(p) = "createPost" THEN Arg(p) ELSE "PUBLIC"
IsComment(x) == Op(x) = "createComment"
\* A comment names its post, and the comment it replies to.
IsReply(c) == Place(c) # NONE
Live(p) == posts[p] # NONE /\ ~posts[p].deleted
LiveTarget(x) == IF IsComment(x) THEN comments[x] # NONE /\ ~comments[x].deleted ELSE Live(x)

NewPost(approval) == [deleted |-> FALSE, approval |-> approval,
                      likes |-> 0, comments |-> 0, shares |-> 0, views |-> 0]
NewComment == [deleted |-> FALSE, likes |-> 0, replies |-> 0]
NoDocuments == [media |-> FALSE, people |-> FALSE, hashtags |-> 0]

\* The unique index of user and target.
Reaction(u, x) == {y \in Requests : reactions[y] # NONE /\ By(y) = u /\ On(y) = x}

LikesOf(x) == {y \in Requests : reactions[y] # NONE /\ On(y) = x}
CommentsOf(p) == {c \in Requests : comments[c] # NONE /\ ~comments[c].deleted /\ On(c) = p}
RepliesTo(c) == {d \in Requests : comments[d] # NONE /\ ~comments[d].deleted /\ Place(d) = c}

ContentInit ==
  /\ reactions = [r \in Requests |->
       IF Made(r) /\ Op(r) = "toggleReaction" THEN [type |-> Arg(r)] ELSE NONE]
  /\ comments = [c \in Requests |->
       IF Made(c) /\ IsComment(c)
       THEN [NewComment EXCEPT !.likes = Cardinality(LikesOf(c)),
               !.replies = Cardinality({d \in Requests : Made(d) /\ IsComment(d) /\ Place(d) = c})]
       ELSE NONE]
  /\ posts = [p \in Requests |->
       IF Made(p) /\ Op(p) \in PostMakers
       THEN [NewPost(IF Op(p) = "createGroupPost" THEN Arg(p) ELSE "NONE") EXCEPT
               !.likes = Cardinality(LikesOf(p)), !.comments = Cardinality(CommentsOf(p))]
       ELSE NONE]
  /\ stories = [s \in Requests |->
       IF Made(s) /\ Op(s) = "createStory" THEN [deleted |-> FALSE, views |-> 0] ELSE NONE]
  /\ docs = [p \in Requests |->
       [media |-> Made(p) /\ Op(p) = "createPost", people |-> FALSE,
        hashtags |-> IF posts[p] # NONE /\ Op(p) # "repost" /\ posts[p].approval # "PENDING"
                     THEN 1 ELSE 0]]

\* increment and decrement are one UPDATE of the row, if it is there.
Bump(table, x, counter, n) ==
  IF table[x] = NONE THEN table ELSE [table EXCEPT ![x][counter] = @ + n]

----------------------------------------------------------------------------
(* createPost, reindexPostHashtags *)

InsertPost(r) ==
  /\ pc[r] = "idle" /\ Op(r) = "createPost"
  /\ posts' = [posts EXCEPT ![r] = NewPost("NONE")]
  /\ Goto(r, "media")
  /\ UNCHANGED <<comments, reactions, stories, docs, locals>>

SaveMedia(r) ==
  /\ pc[r] = "media"
  /\ docs' = [docs EXCEPT ![r].media = TRUE]
  /\ Goto(r, IF call[r].to = {} THEN "unindex" ELSE "tags")
  /\ UNCHANGED <<posts, comments, reactions, stories, locals>>

SaveTags(r) ==
  /\ pc[r] = "tags"
  /\ docs' = [docs EXCEPT ![r].people = TRUE]
  /\ Sees(r, call[r].to)
  /\ Goto(r, "notify")
  /\ UNCHANGED <<posts, comments, reactions, stories>>

Indexed(r) == IF Op(r) \in {"createPost", "createGroupPost"} THEN r ELSE On(r)

Unindex(r) ==
  /\ pc[r] = "unindex"
  /\ docs' = [docs EXCEPT ![Indexed(r)].hashtags = 0]
  /\ Goto(r, "index")
  /\ UNCHANGED <<posts, comments, reactions, stories, locals>>

Index(r) ==
  /\ pc[r] = "index"
  /\ docs' = [docs EXCEPT ![Indexed(r)].hashtags = @ + 1]
  /\ IF Indexed(r) = r
     THEN Goto(r, "ok") /\ UNCHANGED locals
     ELSE Goto(r, "notify") /\ Sees(r, {By(Indexed(r))})
  /\ UNCHANGED <<posts, comments, reactions, stories>>

----------------------------------------------------------------------------
(* deletePost, repost *)

FindOwnPost(r) ==
  /\ pc[r] = "idle" /\ Op(r) = "deletePost"
  /\ \E p \in {On(r)} : posts[p] # NONE /\ By(p) = By(r) /\ Reads(r, p, posts[p])
  /\ Goto(r, "del_post")
  /\ UNCHANGED contentVars

DeletePost(r) ==
  /\ pc[r] = "del_post"
  /\ posts' = [posts EXCEPT ![target[r]] = [seen[r] EXCEPT !.deleted = TRUE]]
  /\ Writes(r, posts[target[r]])
  /\ Goto(r, "del_media")
  /\ UNCHANGED <<comments, reactions, stories, docs>>

DeleteDocuments(r) ==
  /\ \/ /\ pc[r] = "del_media"
        /\ docs' = [docs EXCEPT ![target[r]].media = FALSE]
        /\ Goto(r, "del_tags")
     \/ /\ pc[r] = "del_tags"
        /\ docs' = [docs EXCEPT ![target[r]] =
             [docs[target[r]] EXCEPT !.people = FALSE, !.hashtags = 0]]
        /\ Goto(r, "ok")
  /\ UNCHANGED <<posts, comments, reactions, stories, locals>>

FindOriginal(r) ==
  /\ pc[r] = "idle" /\ Op(r) = "repost"
  /\ Live(On(r))
  /\ Goto(r, "repost")
  /\ UNCHANGED <<contentVars, locals>>

Repost(r) ==
  /\ \/ /\ pc[r] = "repost"
        /\ posts' = [posts EXCEPT ![r] = NewPost("NONE")]
        /\ Goto(r, "share")
     \/ /\ pc[r] = "share"
        /\ posts' = Bump(posts, On(r), "shares", 1)
        /\ Goto(r, "ok")
  /\ UNCHANGED <<comments, reactions, stories, docs, locals>>

----------------------------------------------------------------------------
(* createComment, deleteComment *)

\* No comment row is ever removed, so that the parent is looked up here too.
FindPost(r) ==
  /\ pc[r] = "idle" /\ IsComment(r)
  /\ Live(On(r))
  /\ IsReply(r) => comments[Place(r)] # NONE /\ On(Place(r)) = On(r)
  /\ Goto(r, "comment")
  /\ UNCHANGED <<contentVars, locals>>

InsertComment(r) ==
  /\ pc[r] = "comment"
  /\ comments' = [comments EXCEPT ![r] = NewComment]
  /\ Goto(r, "count_comment")
  /\ UNCHANGED <<posts, reactions, stories, docs, locals>>

CommentCounted(r) ==
  IF IsReply(r) THEN "count_reply" ELSE IF call[r].to # {} THEN "mention" ELSE "notify"

CountComment(r) ==
  /\ pc[r] = "count_comment"
  /\ posts' = Bump(posts, On(r), "comments", 1)
  /\ Sees(r, call[r].to \cup {By(On(r))})
  /\ Goto(r, CommentCounted(r))
  /\ UNCHANGED <<comments, reactions, stories, docs>>

CountReply(r) ==
  /\ pc[r] = "count_reply"
  /\ comments' = Bump(comments, Place(r), "replies", 1)
  /\ Goto(r, IF call[r].to # {} THEN "mention" ELSE "notify")
  /\ UNCHANGED <<posts, reactions, stories, docs, locals>>

SaveMentions(r) ==
  /\ pc[r] = "mention"
  /\ docs' = [docs EXCEPT ![r].people = TRUE]
  /\ Goto(r, "notify")
  /\ UNCHANGED <<posts, comments, reactions, stories, locals>>

\* A comment that is deleted already is found again.
FindOwnComment(r) ==
  /\ pc[r] = "idle" /\ Op(r) = "deleteComment"
  /\ \E c \in {On(r)} : comments[c] # NONE /\ By(c) = By(r) /\ Reads(r, c, comments[c])
  /\ Goto(r, "del_comment")
  /\ UNCHANGED contentVars

DeleteComment(r) ==
  /\ pc[r] = "del_comment"
  /\ comments' = [comments EXCEPT ![target[r]] = [seen[r] EXCEPT !.deleted = TRUE]]
  /\ Writes(r, comments[target[r]])
  /\ Goto(r, "uncount_comment")
  /\ UNCHANGED <<posts, reactions, stories, docs>>

UncountComment(r) ==
  /\ pc[r] = "uncount_comment"
  /\ posts' = Bump(posts, On(target[r]), "comments", -1)
  /\ Goto(r, IF IsReply(target[r]) THEN "uncount_reply" ELSE "ok")
  /\ UNCHANGED <<comments, reactions, stories, docs, locals>>

UncountReply(r) ==
  /\ pc[r] = "uncount_reply"
  /\ comments' = Bump(comments, Place(target[r]), "replies", -1)
  /\ Goto(r, "ok")
  /\ UNCHANGED <<posts, reactions, stories, docs, locals>>

----------------------------------------------------------------------------
(* toggleReaction *)

FindTarget(r) ==
  /\ pc[r] = "idle" /\ Op(r) = "toggleReaction"
  /\ LiveTarget(On(r))
  /\ Goto(r, "reaction")
  /\ UNCHANGED <<contentVars, locals>>

FindReaction(r) ==
  /\ pc[r] = "reaction"
  /\ \/ \E y \in Reaction(By(r), On(r)) :
          /\ Reads(r, y, reactions[y])
          /\ Goto(r, IF reactions[y].type = Arg(r) THEN "unreact" ELSE "rereact")
     \/ /\ Reaction(By(r), On(r)) = {}
        /\ Goto(r, "react")
        /\ UNCHANGED locals
  /\ UNCHANGED contentVars

Unreact(r) ==
  /\ pc[r] = "unreact"
  /\ reactions' = [reactions EXCEPT ![target[r]] = NONE]
  /\ Writes(r, reactions[target[r]])
  /\ Goto(r, "uncount_like")
  /\ UNCHANGED <<posts, comments, stories, docs>>

\* The row is inserted again if it has been removed meanwhile.
Rereact(r) ==
  /\ pc[r] = "rereact"
  /\ Reaction(By(r), On(r)) \subseteq {target[r]}
  /\ reactions' = [reactions EXCEPT ![target[r]] = [type |-> Arg(r)]]
  /\ Writes(r, reactions[target[r]])
  /\ Goto(r, "ok")
  /\ UNCHANGED <<posts, comments, stories, docs>>

React(r) ==
  /\ pc[r] = "react"
  /\ Reaction(By(r), On(r)) = {}
  /\ reactions' = [reactions EXCEPT ![r] = [type |-> Arg(r)]]
  /\ Goto(r, "count_like")
  /\ UNCHANGED <<posts, comments, stories, docs, locals>>

\* Mutation: a reaction that is removed is counted up.
CountLikeUp(r) ==
  /\ pc[r] \in {"count_like", "uncount_like"}
  /\ IF IsComment(On(r))
     THEN comments' = Bump(comments, On(r), "likes", 1) /\ UNCHANGED posts
     ELSE posts' = Bump(posts, On(r), "likes", 1) /\ UNCHANGED comments
  /\ Goto(r, IF pc[r] = "count_like" THEN "like_notice" ELSE "ok")
  /\ UNCHANGED <<reactions, stories, docs, locals>>

CountLike(r) ==
  /\ pc[r] \in {"count_like", "uncount_like"}
  /\ LET n == IF pc[r] = "count_like" THEN 1 ELSE -1 IN
     IF IsComment(On(r))
     THEN comments' = Bump(comments, On(r), "likes", n) /\ UNCHANGED posts
     ELSE posts' = Bump(posts, On(r), "likes", n) /\ UNCHANGED comments
  /\ Goto(r, IF pc[r] = "count_like" THEN "like_notice" ELSE "ok")
  /\ UNCHANGED <<reactions, stories, docs, locals>>

FindOwner(r) ==
  /\ pc[r] = "like_notice"
  /\ Sees(r, IF LiveTarget(On(r)) THEN {By(On(r))} ELSE {})
  /\ Goto(r, "notify")
  /\ UNCHANGED contentVars

----------------------------------------------------------------------------
(* StoryService; which stories have expired is left open *)

CreateStory(r) ==
  /\ pc[r] = "idle" /\ Op(r) = "createStory"
  /\ stories' = [stories EXCEPT ![r] = [deleted |-> FALSE, views |-> 0]]
  /\ Goto(r, "ok")
  /\ UNCHANGED <<posts, comments, reactions, docs, locals>>

FindStory(r) ==
  /\ pc[r] = "idle"
  /\ \E s \in {On(r)} \ {NONE} :
       /\ stories[s] # NONE
       /\ \/ /\ Op(r) = "viewStory" /\ ~stories[s].deleted
             /\ Goto(r, "view_story")
          \/ /\ Op(r) = "deleteStory" /\ By(s) = By(r)
             /\ Goto(r, "del_story")
       /\ Reads(r, s, stories[s])
  /\ UNCHANGED contentVars

\* Mutation: the story is saved as it was read, with one more view.
ViewWhole(r) ==
  /\ pc[r] = "view_story"
  /\ stories' = [stories EXCEPT ![target[r]] = [seen[r] EXCEPT !.views = @ + 1]]
  /\ Goto(r, "ok")
  /\ UNCHANGED <<posts, comments, reactions, docs, locals>>

ViewStory(r) ==
  /\ pc[r] = "view_story"
  /\ stories' = Bump(stories, target[r], "views", 1)
  /\ Goto(r, "ok")
  /\ UNCHANGED <<posts, comments, reactions, docs, locals>>

DeleteStory(r) ==
  /\ pc[r] = "del_story"
  /\ stories' = [stories EXCEPT ![target[r]] = [seen[r] EXCEPT !.deleted = TRUE]]
  /\ Writes(r, stories[target[r]])
  /\ Goto(r, "ok")
  /\ UNCHANGED <<posts, comments, reactions, docs>>

CleanStories(r) ==
  /\ pc[r] = "idle" /\ Op(r) = "cleanupExpiredStories"
  /\ \E expired \in SUBSET {s \in Requests : stories[s] # NONE} :
       stories' = [s \in Requests |->
         IF s \in expired THEN [stories[s] EXCEPT !.deleted = TRUE] ELSE stories[s]]
  /\ Goto(r, "ok")
  /\ UNCHANGED <<posts, comments, reactions, docs, locals>>

ContentStep(r) ==
  \/ InsertPost(r) \/ SaveMedia(r) \/ SaveTags(r) \/ Unindex(r)
  \/ FindOwnPost(r) \/ DeletePost(r) \/ DeleteDocuments(r) \/ FindOriginal(r) \/ Repost(r)
  \/ Index(r) \/ FindPost(r) \/ InsertComment(r) \/ CountComment(r) \/ CountReply(r) \/ SaveMentions(r)
  \/ FindOwnComment(r) \/ DeleteComment(r) \/ UncountComment(r) \/ UncountReply(r)
  \/ FindTarget(r) \/ FindReaction(r) \/ Unreact(r) \/ Rereact(r) \/ React(r)
  \/ CountLike(r) \/ FindOwner(r)
  \/ CreateStory(r) \/ FindStory(r) \/ ViewStory(r) \/ DeleteStory(r) \/ CleanStories(r)
=============================================================================
