------------------------------ MODULE Messaging ------------------------------
(***************************************************************************)
(* MessagingService: conversations and their participants in PostgreSQL,   *)
(* messages in MongoDB.  A participant is never removed, only marked as    *)
(* having left.  The text of a message, and its cipher, are left out.      *)
(***************************************************************************)
EXTENDS Groups

CONSTANT MaxMembers \* MAX_GROUP_MEMBERS

VARIABLES
  talks,    \* the SocialConversation row each request has inserted
  parts,    \* the SocialConversationParticipant rows
  messages  \* the SocialMessage documents

talkVars == <<talks, parts, messages>>

TalkRows == [last : Requests \cup {NONE}]
PartRows == [role : {"MEMBER", "ADMIN", "OWNER"}, left : BOOLEAN, read : BOOLEAN]
MessageRows == [deleted : BOOLEAN]

PartOps == {"markRead", "removeParticipant", "updateParticipantRole"}
TalkMakers == {"createDirectConversation", "createGroupConversation"}
TalkOps == TalkMakers \cup PartOps
           \cup {"addGroupMembers", "listConversations", "getConversation",
                 "sendMessage", "listMessages", "deleteMessage"}
TalkLabels == {"pair", "blocked_each", "talk", "participants", "open", "part", "part_row",
               "active_count", "add", "add_find", "add_row", "in_talk", "message", "last",
               "messages", "del_message", "publish"}

IsTalk(c) == Op(c) \in TalkMakers
IsGroup(c) == Op(c) = "createGroupConversation"
ConversationOf(r) ==
  CASE IsTalk(r) -> r
    [] Op(r) = "deleteMessage" -> On(On(r))
    [] OTHER -> On(r)

IsBlocked(u, v) == Blocks(u, v) \/ Blocks(v, u)

IsActive(c, u) == parts[<<c, u>>] # NONE /\ ~parts[<<c, u>>].left
ActiveIn(c) == {u \in People : IsActive(c, u)}

NewPart(role) == [role |-> role, left |-> FALSE, read |-> FALSE]

Founders(c) == {By(c)} \cup call[c].to
FounderRole(c, u) == IF IsGroup(c) /\ u = By(c) THEN "OWNER" ELSE "MEMBER"
WithFounders(c) ==
  [x \in Requests \X People |->
    IF x[1] = c /\ x[2] \in Founders(c) THEN NewPart(FounderRole(c, x[2])) ELSE parts[x]]

\* A conversation made beforehand has its founders; one whose argument is
\* "ADMIN" has made them administrators.
TalksInit ==
  /\ talks = [c \in Requests |-> IF Made(c) /\ IsTalk(c) THEN [last |-> NONE] ELSE NONE]
  /\ parts = [x \in Requests \X People |->
       IF talks[x[1]] # NONE /\ x[2] \in Founders(x[1])
       THEN NewPart(IF Arg(x[1]) = "ADMIN" /\ x[2] # By(x[1]) THEN "ADMIN"
                    ELSE FounderRole(x[1], x[2]))
       ELSE NONE]
  /\ messages = [m \in Requests |->
       IF Made(m) /\ Op(m) = "sendMessage" THEN [deleted |-> FALSE] ELSE NONE]

----------------------------------------------------------------------------
(* createDirectConversation, createGroupConversation *)

StartTalk(r) ==
  /\ pc[r] = "idle"
  /\ \/ /\ Op(r) = "createDirectConversation"
        /\ By(r) # To(r) /\ ~IsBlocked(By(r), To(r))
        /\ Goto(r, "pair")
        /\ UNCHANGED locals
     \/ /\ IsGroup(r)
        /\ Cardinality(Founders(r)) \in 2 .. MaxMembers
        /\ Sees(r, Founders(r) \ {By(r)})
        /\ Goto(r, "blocked_each")
  /\ UNCHANGED talkVars

CheckEachFounder(r) ==
  /\ pc[r] = "blocked_each"
  /\ \/ /\ todo[r] = {}
        /\ Goto(r, "talk")
        /\ UNCHANGED locals
     \/ \E u \in todo[r] :
          /\ ~IsBlocked(By(r), u)
          /\ Sees(r, todo[r] \ {u})
          /\ Goto(r, "blocked_each")
  /\ UNCHANGED talkVars

\* The unique index of the pair.
PairTalks(r) == {c \in Requests : talks[c] # NONE /\ ~IsGroup(c) /\ Founders(c) = Founders(r)}

FindPair(r) ==
  /\ pc[r] = "pair"
  /\ \/ \E c \in PairTalks(r) : Reads(r, c, talks[c]) /\ Goto(r, "open")
     \/ PairTalks(r) = {} /\ Goto(r, "talk") /\ UNCHANGED locals
  /\ UNCHANGED talkVars

InsertTalk(r) ==
  /\ pc[r] = "talk"
  /\ IsGroup(r) \/ PairTalks(r) = {}
  /\ talks' = [talks EXCEPT ![r] = [last |-> NONE]]
  /\ Reads(r, r, [last |-> NONE])
  /\ Goto(r, "participants")
  /\ UNCHANGED <<parts, messages>>

InsertParticipants(r) ==
  /\ pc[r] = "participants"
  /\ parts' = WithFounders(r)
  /\ Goto(r, IF IsGroup(r) THEN "publish" ELSE "open")
  /\ UNCHANGED <<talks, messages, locals>>

\* getConversation refuses who is no participant.
OpenTalk(r) ==
  /\ pc[r] = "open"
  /\ IsActive(target[r], By(r))
  /\ Goto(r, "ok")
  /\ UNCHANGED <<talkVars, locals>>

\* publishConversationEvent; createGroupConversation answers like getConversation.
Publish(r) ==
  /\ pc[r] = "publish"
  /\ Goto(r, IF IsGroup(r) THEN "open" ELSE "ok")
  /\ UNCHANGED <<talkVars, locals>>

----------------------------------------------------------------------------
(* addGroupMembers, removeParticipant, updateParticipantRole, markRead *)

PartRoles(r) ==
  CASE Op(r) = "updateParticipantRole" -> {"OWNER"}
    [] Op(r) \in {"addGroupMembers", "removeParticipant"} -> {"ADMIN", "OWNER"}
    [] OTHER -> {"MEMBER", "ADMIN", "OWNER"}

\* assertAdminOrOwner; everybody may leave.
AuthorizePart(r) ==
  /\ pc[r] = "idle"
  /\ Op(r) \in {"addGroupMembers", "removeParticipant", "updateParticipantRole"}
  /\ IsGroup(On(r)) /\ talks[On(r)] # NONE
  /\ \/ IsActive(On(r), By(r)) /\ parts[<<On(r), By(r)>>].role \in PartRoles(r)
     \/ Op(r) = "removeParticipant" /\ By(r) = To(r)
  /\ Goto(r, IF Op(r) = "addGroupMembers" THEN "active_count" ELSE "part")
  /\ UNCHANGED <<talkVars, locals>>

PartOf(r) == <<On(r), IF Op(r) = "markRead" THEN By(r) ELSE To(r)>>

FindPart(r) ==
  /\ Op(r) \in PartOps
  /\ pc[r] = IF Op(r) = "markRead" THEN "idle" ELSE "part"
  /\ IsActive(PartOf(r)[1], PartOf(r)[2])
  /\ parts[PartOf(r)].role = "OWNER" => Op(r) = "markRead"
  /\ Reads(r, NONE, parts[PartOf(r)])
  /\ Goto(r, "part_row")
  /\ UNCHANGED talkVars

SavePart(r) ==
  /\ pc[r] = "part_row"
  /\ parts' = [parts EXCEPT ![PartOf(r)] =
       CASE Op(r) = "markRead" -> [seen[r] EXCEPT !.read = TRUE]
         [] Op(r) = "removeParticipant" -> [seen[r] EXCEPT !.left = TRUE]
         [] OTHER -> [seen[r] EXCEPT !.role = Arg(r)]]
  /\ Writes(r, parts[PartOf(r)])
  /\ Goto(r, IF Op(r) = "markRead" THEN "ok" ELSE "publish")
  /\ UNCHANGED <<talks, messages>>

\* Mutation: those who are to be added are not counted.
CountActiveOnly(r) ==
  /\ pc[r] = "active_count"
  /\ call[r].to # {By(r)}
  /\ Cardinality(ActiveIn(On(r))) <= MaxMembers
  /\ Sees(r, call[r].to \ {By(r)})
  /\ Goto(r, "add")
  /\ UNCHANGED talkVars

CountActive(r) ==
  /\ pc[r] = "active_count"
  /\ call[r].to # {By(r)}
  /\ Cardinality(ActiveIn(On(r))) + Cardinality(call[r].to \ {By(r)}) <= MaxMembers
  /\ Sees(r, call[r].to \ {By(r)})
  /\ Goto(r, "add")
  /\ UNCHANGED talkVars

AddEach(r) ==
  /\ pc[r] = "add"
  /\ \/ /\ todo[r] = {}
        /\ Goto(r, "publish")
        /\ UNCHANGED locals
     \/ \E u \in todo[r] :
          /\ ~IsBlocked(By(r), u)
          /\ Reads(r, u, NONE)
          /\ Goto(r, "add_find")
  /\ UNCHANGED talkVars

Adding(r) == <<On(r), target[r]>>

FindAdded(r) ==
  /\ pc[r] = "add_find"
  /\ IF IsActive(On(r), target[r])
     THEN Sees(r, todo[r] \ {target[r]}) /\ Goto(r, "add")
     ELSE Reads(r, target[r], parts[Adding(r)]) /\ Goto(r, "add_row")
  /\ UNCHANGED talkVars

SaveAdded(r) ==
  /\ pc[r] = "add_row"
  /\ seen[r] = NONE => parts[Adding(r)] = NONE
  /\ parts' = [parts EXCEPT ![Adding(r)] =
       IF seen[r] = NONE THEN NewPart("MEMBER")
       ELSE [seen[r] EXCEPT !.role = "MEMBER", !.left = FALSE]]
  /\ stale' = IF parts[Adding(r)] = seen[r] THEN stale ELSE stale \cup {r}
  /\ todo' = [todo EXCEPT ![r] = @ \ {target[r]}]
  /\ Goto(r, "add")
  /\ UNCHANGED <<talks, messages, target, seen>>

----------------------------------------------------------------------------
(* sendMessage, listMessages, deleteMessage *)

FindTalk(r) ==
  /\ pc[r] = "idle"
  /\ \/ /\ Op(r) = "sendMessage" /\ talks[On(r)] # NONE
        /\ Reads(r, On(r), talks[On(r)])
     \/ /\ Op(r) = "deleteMessage"
        /\ messages[On(r)] # NONE /\ ~messages[On(r)].deleted /\ By(On(r)) = By(r)
        /\ Reads(r, On(r), messages[On(r)])
     \/ Op(r) = "listMessages" /\ UNCHANGED locals
  /\ Goto(r, "in_talk")
  /\ UNCHANGED talkVars

AssertActiveParticipant(r) ==
  /\ pc[r] = "in_talk"
  /\ IsActive(ConversationOf(r), By(r))
  /\ Goto(r, CASE Op(r) = "sendMessage" -> "message"
               [] Op(r) = "deleteMessage" -> "del_message"
               [] OTHER -> "messages")
  /\ UNCHANGED <<talkVars, locals>>

InsertMessage(r) ==
  /\ pc[r] = "message"
  /\ messages' = [messages EXCEPT ![r] = [deleted |-> FALSE]]
  /\ Goto(r, "last")
  /\ UNCHANGED <<talks, parts, locals>>

SaveLast(r) ==
  /\ pc[r] = "last"
  /\ talks' = [talks EXCEPT ![On(r)] = [last |-> r]]
  /\ Writes(r, talks[On(r)])
  /\ Goto(r, "publish")
  /\ UNCHANGED <<parts, messages>>

DeleteMessage(r) ==
  /\ pc[r] = "del_message"
  /\ messages' = [messages EXCEPT ![On(r)] = [seen[r] EXCEPT !.deleted = TRUE]]
  /\ Writes(r, messages[On(r)])
  /\ Goto(r, "publish")
  /\ UNCHANGED <<talks, parts>>

ListMessages(r) ==
  /\ pc[r] = "messages"
  /\ Show(r, {m \in Requests : /\ messages[m] # NONE /\ On(m) = On(r)
                               /\ ~messages[m].deleted})
  /\ Goto(r, "ok")
  /\ UNCHANGED <<talkVars, locals>>

MessagingStep(r) ==
  \/ StartTalk(r) \/ CheckEachFounder(r) \/ FindPair(r) \/ InsertTalk(r)
  \/ InsertParticipants(r) \/ OpenTalk(r) \/ Publish(r)
  \/ AuthorizePart(r) \/ FindPart(r) \/ SavePart(r)
  \/ CountActive(r) \/ AddEach(r) \/ FindAdded(r) \/ SaveAdded(r)
  \/ FindTalk(r) \/ AssertActiveParticipant(r) \/ InsertMessage(r) \/ SaveLast(r)
  \/ DeleteMessage(r)
=============================================================================
