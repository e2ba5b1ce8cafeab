------------------------------- MODULE Notices -------------------------------
(***************************************************************************)
(* NoticeService: a notice is a row for its recipient, then a push over    *)
(* the socket service and two notifications, whose errors are caught and   *)
(* which change no state here.  A notice is named after its recipient and  *)
(* the request that dispatched it.                                         *)
(***************************************************************************)
EXTENDS Connections

VARIABLES
  notices, \* the SocialNotice rows
  unread   \* those with is_read = false

noticeVars == <<notices, unread>>

NoticeOps == {"listNotices", "getUnreadCount", "markNoticeRead", "markAllRead"}
NoticeLabels == {"notify", "mark"}

NoticesInit ==
  /\ notices = {}
  /\ unread = {}

\* Mutation: what he does himself counts as unread.
DispatchToAll(r) ==
  /\ pc[r] = "notify" /\ todo[r] # {}
  /\ \E u \in todo[r] :
       /\ notices' = notices \cup (({u} \ {By(r)}) \X {r})
       /\ unread' = unread \cup {<<u, r>>}
       /\ Sees(r, todo[r] \ {u})
  /\ Goto(r, "notify")

\* The recipients wait in todo; nobody gets a notice of what he does himself.
Dispatch(r) ==
  /\ pc[r] = "notify" /\ todo[r] # {}
  /\ \E u \in todo[r] :
       LET new == {u} \ {By(r)} IN
       /\ notices' = notices \cup (new \X {r})
       /\ unread' = unread \cup (new \X {r})
       /\ Sees(r, todo[r] \ {u})
  /\ Goto(r, "notify")

\* createPost dispatches before it indexes the hashtags, the others at the end.
Dispatched(r) ==
  /\ pc[r] = "notify" /\ todo[r] = {}
  /\ Goto(r, IF Op(r) = "createPost" THEN "unindex" ELSE "ok")
  /\ UNCHANGED <<noticeVars, locals>>

FindNotice(r) ==
  /\ pc[r] = "idle" /\ Op(r) = "markNoticeRead"
  /\ <<By(r), On(r)>> \in notices
  /\ Goto(r, "mark")
  /\ UNCHANGED <<noticeVars, locals>>

MarkRead(r) ==
  /\ pc[r] = "mark"
  /\ unread' = unread \ {<<By(r), On(r)>>}
  /\ Goto(r, "ok")
  /\ UNCHANGED <<notices, locals>>

MarkAllRead(r) ==
  /\ pc[r] = "idle" /\ Op(r) = "markAllRead"
  /\ unread' = unread \ ({By(r)} \X Requests)
  /\ Goto(r, "ok")
  /\ UNCHANGED <<notices, locals>>

NoticeStep(r) ==
  \/ Dispatch(r) \/ Dispatched(r) \/ FindNotice(r) \/ MarkRead(r) \/ MarkAllRead(r)
=============================================================================
