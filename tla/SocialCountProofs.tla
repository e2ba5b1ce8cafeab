---------------------------- MODULE SocialCountProofs ----------------------------
(***************************************************************************)
(* What the counters of the social module count: those of profiles, of     *)
(* groups, and of posts and comments, for any number of users and calls.   *)
(* A counter is told of a row after the row is written, so the invariants  *)
(* say of each counter how many calls have it still to tell.               *)
(***************************************************************************)
EXTENDS SocialProofs

----------------------------------------------------------------------------
(* The counters of a profile *)

\* A counter agrees with its rows up to what is still to be counted, up or down.
Balance(n, due, rows, over) ==
  n + Cardinality(due) = Cardinality(rows) + Cardinality(over)

\* How one step may move them: a row comes and is due, a row goes and is counted
\* too many, a count is made up for, either way.
Shift(n, m, due, due2, rows, rows2, over, over2) ==
  \/ m = n /\ due2 = due /\ rows2 = rows /\ over2 = over
  \/ /\ m = n /\ over2 = over
     /\ \E x \in Requests \ rows, y \in Requests \ due : rows2 = rows \cup {x} /\ due2 = due \cup {y}
  \/ /\ m = n /\ due2 = due
     /\ \E x \in rows, y \in Requests \ over : rows2 = rows \ {x} /\ over2 = over \cup {y}
  \/ m = n + 1 /\ rows2 = rows /\ over2 = over /\ \E y \in due : due2 = due \ {y}
  \/ n = m + 1 /\ rows2 = rows /\ due2 = due /\ \E y \in over : over2 = over \ {y}

LEMMA Sized ==
  ASSUME NEW S \in SUBSET Requests
  PROVE  /\ Cardinality(S) \in Nat
         /\ \A x : x \notin S => Cardinality(S \cup {x}) = Cardinality(S) + 1
         /\ \A x \in S : Cardinality(S \ {x}) = Cardinality(S) - 1
         /\ Cardinality(S) = 0 <=> S = {}
  <1>1. IsFiniteSet(S)
    BY SocialAssumption, FS_Subset
  <1>2. QED
    BY <1>1, FS_CardinalityType, FS_AddElement, FS_RemoveElement, FS_EmptySet

LEMMA Shifted ==
  ASSUME NEW n \in Int, NEW m \in Int, NEW due \in SUBSET Requests, NEW due2, NEW rows \in SUBSET Requests,
         NEW rows2, NEW over \in SUBSET Requests, NEW over2,
         Shift(n, m, due, due2, rows, rows2, over, over2), Balance(n, due, rows, over)
  PROVE  Balance(m, due2, rows2, over2)
  <1>1. /\ Cardinality(due) \in Nat /\ Cardinality(rows) \in Nat /\ Cardinality(over) \in Nat
        /\ \A x : x \notin due => Cardinality(due \cup {x}) = Cardinality(due) + 1
        /\ \A x : x \notin rows => Cardinality(rows \cup {x}) = Cardinality(rows) + 1
        /\ \A x : x \notin over => Cardinality(over \cup {x}) = Cardinality(over) + 1
        /\ \A x \in due : Cardinality(due \ {x}) = Cardinality(due) - 1
        /\ \A x \in rows : Cardinality(rows \ {x}) = Cardinality(rows) - 1
        /\ \A x \in over : Cardinality(over \ {x}) = Cardinality(over) - 1
    BY Sized
  <1>2. CASE m = n /\ due2 = due /\ rows2 = rows /\ over2 = over
    BY <1>2 DEF Balance
  <1>3. CASE /\ m = n /\ over2 = over
             /\ \E x \in Requests \ rows, y \in Requests \ due : rows2 = rows \cup {x} /\ due2 = due \cup {y}
    <2>1. Cardinality(rows2) = Cardinality(rows) + 1 /\ Cardinality(due2) = Cardinality(due) + 1
      BY <1>1, <1>3
    <2>2. QED
      BY <1>1, <1>3, <2>1 DEF Balance
  <1>4. CASE /\ m = n /\ due2 = due
             /\ \E x \in rows, y \in Requests \ over : rows2 = rows \ {x} /\ over2 = over \cup {y}
    <2>1. Cardinality(rows2) = Cardinality(rows) - 1 /\ Cardinality(over2) = Cardinality(over) + 1
      BY <1>1, <1>4
    <2>2. QED
      BY <1>1, <1>4, <2>1 DEF Balance
  <1>5. CASE m = n + 1 /\ rows2 = rows /\ over2 = over /\ \E y \in due : due2 = due \ {y}
    <2>1. Cardinality(due2) = Cardinality(due) - 1
      BY <1>1, <1>5
    <2>2. QED
      BY <1>1, <1>5, <2>1 DEF Balance
  <1>6. CASE n = m + 1 /\ rows2 = rows /\ due2 = due /\ \E y \in over : over2 = over \ {y}
    <2>1. Cardinality(over2) = Cardinality(over) - 1
      BY <1>1, <1>6
    <2>2. /\ Cardinality(due) \in Nat /\ Cardinality(rows) \in Nat /\ Cardinality(over) \in Nat
          /\ n = m + 1 /\ rows2 = rows /\ due2 = due
      BY <1>1, <1>6
    <2> HIDE <1>6
    <2>3. n + Cardinality(due) = Cardinality(rows) + Cardinality(over)
      BY DEF Balance
    <2>4. m + Cardinality(due) = Cardinality(rows) + Cardinality(over2)
      BY <2>1, <2>2, <2>3
    <2>5. QED
      BY <2>2, <2>4 DEF Balance
  <1>7. QED
    BY <1>2, <1>3, <1>4, <1>5, <1>6 DEF Shift

\* Where a request stands when its link has been made, and what it knows when
\* it is about to remove or to answer one.
Unlinked == {"idle", "blocked?", "unfollow", "link"}
Standing(r) == links[r] # NONE => Kind(r) # "NONE" /\ By(r) # To(r) /\ pc[r] \notin Unlinked
Heading(r) ==
  /\ pc[r] \in Unlinked \ {"idle"} => target[r] = NONE /\ By(r) # To(r)
  /\ pc[r] = "drop" => /\ target[r] \in Requests /\ seen[r] # NONE /\ Kind(r) # "FRIEND"
                       /\ Kind(target[r]) = Kind(r) /\ By(target[r]) = By(r) /\ To(target[r]) = To(r)
  /\ pc[r] = "answer" => seen[r].status = "PENDING" /\ pc[On(r)] \notin Unlinked
  /\ pc[r] \in {"answer", "friend", "other_friend"} =>
       Kind(On(r)) = "FRIEND" /\ To(On(r)) = By(r) /\ By(On(r)) # By(r)
LinkPlaces == \A r \in Requests : Standing(r) /\ Heading(r)

LEMMA SameLinks ==
  ASSUME UNCHANGED call
  PROVE  \A q : /\ Kind(q)' = Kind(q) /\ By(q)' = By(q) /\ To(q)' = To(q) /\ On(q)' = On(q)
                /\ Op(q)' = Op(q) /\ HasProfile(q)' = HasProfile(q)
  BY DEF Kind, Op, By, To, On, HasProfile, Made

LEMMA Elsewhere ==
  ASSUME TInv, UNCHANGED call, NEW r \in Requests, Step(r), ~ConnectionStep(r)
  PROVE  /\ Moves(r) /\ UNCHANGED linkVars
         /\ pc'[r] \notin LinkLabels /\ (pc'[r] = "failed" \/ pc[r] \notin LinkLabels)
  <1> USE DEF LinkLabels
  <1>1. CASE NoticeStep(r) /\ UNCHANGED linkVars
    BY <1>1, NoticeRoute, NoticeMoves
  <1>2. CASE ContentStep(r) /\ UNCHANGED linkVars
    BY <1>2, ContentRoute, ContentMoves DEF ContentLabels, NoticeLabels
  <1>3. CASE FeedStep(r) /\ UNCHANGED linkVars
    BY <1>3, FeedRoute, FeedMoves DEF FeedLabels
  <1>4. CASE MembershipStep(r) /\ UNCHANGED linkVars
    BY <1>4, MembershipRoute, MembershipMoves DEF GroupLabels
  <1>5. CASE GroupPostStep(r) /\ UNCHANGED linkVars
    BY <1>5, GroupPostRoute, GroupPostMoves DEF GroupLabels
  <1>6. CASE MessagingStep(r) /\ UNCHANGED linkVars
    BY <1>6, MessagingRoute, MessagingMoves DEF TalkLabels
  <1>7. CASE (ListStep(r) \/ ListMessages(r)) /\ UNCHANGED linkVars
    BY <1>7, ListRoute, ListMoves, OtherMoves
  <1>8. CASE Fails(r) /\ UNCHANGED linkVars
    BY <1>8, FailRoute, OtherMoves
  <1>9. QED
    BY <1>1, <1>2, <1>3, <1>4, <1>5, <1>6, <1>7, <1>8 DEF Step

LEMMA FriendsNamed ==
  ASSUME TInv, NEW r \in Requests
  PROVE  /\ By(r) \in People
         /\ pc[r] \in {"answer", "friend", "other_friend"} =>
              On(r) \in Requests /\ target[r] = On(r) /\ Op(r) = "respondFriendRequest"
         /\ pc[r] = "answer" => seen[r] \in LinkRows /\ Arg(r) \in {"ACCEPTED", "REJECTED"}
         /\ Kind(r) # "NONE" => To(r) \in People
         /\ pc[r] \in {"followers", "following"} => Op(r) = "toggleFollow" /\ Kind(r) = "FOLLOW"
  <1>1. call \in Plans
    BY DEF TInv, TypeOK
  <1>2. By(r) \in People
    BY <1>1, CallsTyped
  <1>3. pc[r] \in {"answer", "friend", "other_friend"} =>
          On(r) \in Requests /\ target[r] = On(r) /\ Op(r) = "respondFriendRequest"
    BY <1>1, CallsTyped DEF TInv, Walks, Fits, Carries, OfRow
  <1>4. pc[r] = "answer" => seen[r] \in LinkRows /\ Arg(r) \in {"ACCEPTED", "REJECTED"}
    BY <1>1, <1>3, CallsTyped DEF TInv, Walks, Carries, ArgsOf
  <1>5. Kind(r) # "NONE" => To(r) \in People
    BY <1>1, CallsTyped DEF Kind, OfUser
  <1>6. pc[r] \in {"followers", "following"} => Op(r) = "toggleFollow" /\ Kind(r) = "FOLLOW"
    BY DEF TInv, Walks, Fits, Kind
  <1>7. QED
    BY <1>2, <1>3, <1>4, <1>5, <1>6

LEMMA Places ==
  ASSUME TInv, UNCHANGED call, NEW r \in Requests, Moves(r), LinkPlaces,
         \A l \in Requests : links'[l] # NONE =>
           \/ links[l] # NONE /\ l # r
           \/ Kind(l) = "FRIEND" /\ By(l) # To(l) /\ pc[l] \notin Unlinked /\ l # r
           \/ l = r /\ Kind(l) # "NONE" /\ By(l) # To(l) /\ pc'[l] \notin Unlinked,
         pc[r] \notin Unlinked => pc'[r] \notin Unlinked,
         Heading(r)'
  PROVE  LinkPlaces'
  <1> USE SameLinks
  <1>1. \A q \in Requests : pc[q] \notin Unlinked => pc'[q] \notin Unlinked
    BY DEF Moves, Walk
  <1>2. ASSUME NEW l \in Requests PROVE Standing(l)'
    <2>1. links'[l] # NONE => Kind(l) # "NONE" /\ By(l) # To(l) /\ pc'[l] \notin Unlinked
      BY <1>1 DEF LinkPlaces, Standing
    <2>2. QED
      BY <2>1 DEF Standing
  <1>3. ASSUME NEW q \in Requests, q # r PROVE Heading(q)'
    <2>1. pc'[q] = pc[q] /\ target'[q] = target[q] /\ seen'[q] = seen[q]
      BY <1>3 DEF Moves, Walk, Hands
    <2>2. Heading(q) /\ (pc[q] = "answer" => On(q) \in Requests)
      BY FriendsNamed DEF LinkPlaces
    <2>3. pc[q] = "answer" => pc'[On(q)] \notin Unlinked
      BY <2>2, <1>1 DEF Heading
    <2>4. \A l : Kind(l)' = Kind(l) /\ By(l)' = By(l) /\ To(l)' = To(l)
      OBVIOUS
    <2>5. On(q)' = On(q) /\ By(q)' = By(q) /\ Kind(q)' = Kind(q) /\ To(q)' = To(q)
      OBVIOUS
    <2>6. /\ pc'[q] = "answer" => seen'[q].status = "PENDING" /\ pc'[On(q)'] \notin Unlinked
          /\ pc'[q] \in {"answer", "friend", "other_friend"} =>
               Kind(On(q))' = "FRIEND" /\ To(On(q))' = By(q)' /\ By(On(q))' # By(q)'
      BY <2>1, <2>2, <2>3, <2>4, <2>5 DEF Heading
    <2>7. QED
      BY <2>1, <2>2, <2>4, <2>5, <2>6 DEF Heading
  <1>4. QED
    BY <1>2, <1>3 DEF LinkPlaces

LEMMA LinkPlacesStep ==
  ASSUME TInv, UNCHANGED call, NEW r \in Requests, Step(r), LinkPlaces
  PROVE  LinkPlaces'
  <1>0. TypeOK /\ LinksOK /\ Standing(r) /\ Heading(r)
    BY DEF TInv, TypeOK, LinksOK, LinkPlaces
  <1>1. ASSUME Moves(r), links' = links,
               pc'[r] \notin {"unfollow", "link", "blocked?", "drop", "answer", "friend", "other_friend"},
               pc[r] \in Unlinked => links[r] = NONE
        PROVE  LinkPlaces'
    <2>1. pc'[r] \notin Unlinked
      BY <1>1 DEF Unlinked, Moves, Walk
    <2>2. Heading(r)'
      BY <1>1, <2>1 DEF Heading
    <2>3. \A l \in Requests : links'[l] # NONE =>
           \/ links[l] # NONE /\ l # r
           \/ l = r /\ Kind(l) # "NONE" /\ By(l) # To(l) /\ pc'[l] \notin Unlinked
      BY <1>0, <1>1, <2>1 DEF LinkPlaces, Standing
    <2>4. QED
      BY <1>1, <2>1, <2>2, <2>3, Places
  <1>2. pc[r] \in Unlinked => links[r] = NONE
    BY <1>0 DEF Standing
  <1>3. CASE ~ConnectionStep(r)
    BY <1>1, <1>2, <1>3, Elsewhere DEF linkVars, LinkLabels
  <1>4. ASSUME ConnectionStep(r), pc'[r] \notin Unlinked, Heading(r)',
               \A l \in Requests : links'[l] # NONE =>
                 \/ links[l] # NONE
                 \/ Kind(l) = "FRIEND" /\ By(l) # To(l) /\ pc[l] \notin Unlinked /\ l # r
                 \/ l = r /\ Kind(l) # "NONE" /\ By(l) # To(l)
        PROVE  LinkPlaces'
    <2>1. Moves(r)
      BY <1>4, ConnectionMoves
    <2>2. \A l \in Requests : links'[l] # NONE =>
           \/ links[l] # NONE /\ l # r
           \/ Kind(l) = "FRIEND" /\ By(l) # To(l) /\ pc[l] \notin Unlinked /\ l # r
           \/ l = r /\ Kind(l) # "NONE" /\ By(l) # To(l) /\ pc'[l] \notin Unlinked
      BY <1>0, <1>4 DEF LinkPlaces, Standing
    <2>3. QED
      BY <1>4, <2>1, <2>2, Places
  <1>5. CASE ConnectionStep(r) /\ FindLink(r)
    <2>1. links' = links /\ Moves(r) /\ By(r) # To(r) /\ Kind(r) # "NONE" /\ pc[r] = "idle"
      BY <1>5, ConnectionMoves DEF FindLink, linkVars
    <2>2. \/ /\ Kind(r) # "FRIEND" /\ pc'[r] = "drop"
             /\ \E l \in Linked(Kind(r), By(r), To(r)) : target'[r] = l /\ seen'[r] = links[l]
          \/ pc'[r] \in {"unfollow", "blocked?"} /\ target'[r] = NONE
      <3>1. CASE Kind(r) # "FRIEND" /\ Goto(r, "drop")
                 /\ \E l \in Linked(Kind(r), By(r), To(r)) : Reads(r, l, links[l])
        BY <1>0, <3>1, Goes, HasRead, RowsSeen DEF Labels, LinkLabels, Linked
      <3>2. CASE Goto(r, IF Kind(r) = "BLOCK" THEN "unfollow" ELSE "blocked?") /\ UNCHANGED locals
        BY <1>0, <2>1, <3>2, Goes, Stays DEF Labels, LinkLabels, TInv, Walks, Carries
      <3>3. QED
        BY <1>5, <3>1, <3>2 DEF FindLink
    <2>3. Heading(r)'
      <3>1. CASE Kind(r) # "FRIEND" /\ pc'[r] = "drop"
        <4>1. /\ target'[r] \in Requests /\ seen'[r] # NONE /\ Kind(target'[r]) = Kind(r)
              /\ By(target'[r]) = By(r) /\ To(target'[r]) = To(r)
          BY <2>2, <3>1 DEF Linked
        <4>2. QED
          BY <3>1, <4>1, SameLinks DEF Heading, Unlinked
      <3>2. CASE pc'[r] \in {"unfollow", "blocked?"} /\ target'[r] = NONE
        BY <2>1, <3>2, SameLinks DEF Heading
      <3>3. QED
        BY <2>2, <3>1, <3>2
    <2>4. \A l \in Requests : links'[l] # NONE => links[l] # NONE /\ l # r
      BY <1>0, <2>1 DEF Standing, Unlinked
    <2>5. QED
      BY <2>1, <2>3, <2>4, Places DEF Unlinked
  <1>6. CASE ConnectionStep(r) /\ (CheckBlock(r) \/ Unfollow(r))
    <2>1. /\ pc[r] \in Unlinked \ {"idle"} /\ pc'[r] = "link" /\ target'[r] = target[r] /\ Moves(r)
          /\ \A l \in Requests : links'[l] # NONE => links[l] # NONE
      BY <1>0, <1>6, Goes, Stays, ConnectionMoves
         DEF CheckBlock, Unfollow, linkVars, Labels, LinkLabels, Unlinked
    <2>2. Heading(r)'
      BY <1>0, <2>1, SameLinks DEF Heading, Unlinked
    <2>3. \A l \in Requests : links'[l] # NONE => links[l] # NONE /\ l # r
      BY <1>0, <2>1 DEF Standing
    <2>4. QED
      BY <2>1, <2>2, <2>3, Places DEF Unlinked
  <1>7. CASE ConnectionStep(r) /\ Link(r)
    <2>1. pc[r] = "link" /\ pc'[r] \in {"followers", "log", "ok"}
      BY <1>0, <1>7, Goes DEF Link, Labels, LinkLabels
    <2>2. Kind(r) # "NONE" /\ By(r) # To(r)
      BY <1>0, <2>1 DEF Heading, Unlinked, TInv, Walks, Fits, Kind
    <2>3. \A l \in Requests : links'[l] # NONE => links[l] # NONE \/ l = r
      BY <1>0, <1>7 DEF Link, LinksOK
    <2>4. QED
      BY <1>4, <1>7, <2>1, <2>2, <2>3 DEF Heading, Unlinked
  <1>8. CASE ConnectionStep(r) /\ Drop(r)
    <2>1. pc'[r] \in {"followers", "ok"}
      BY <1>0, <1>8, Goes DEF Drop, Labels, LinkLabels
    <2>2. \A l \in Requests : links'[l] # NONE => links[l] # NONE
      BY <1>0, <1>8 DEF Drop, LinksOK
    <2>3. QED
      BY <1>4, <1>8, <2>1, <2>2 DEF Heading, Unlinked
  <1>9. CASE ConnectionStep(r) /\ FindRequest(r)
    <2>1. /\ links' = links /\ Moves(r) /\ pc'[r] = "answer" /\ pc[r] = "idle"
          /\ links[On(r)] # NONE /\ links[On(r)].status = "PENDING"
          /\ Kind(On(r)) = "FRIEND" /\ To(On(r)) = By(r) /\ On(r) \in Requests
      BY <1>0, <1>9, Goes, ConnectionMoves, CallsTyped
         DEF FindRequest, linkVars, Labels, LinkLabels, TInv, TypeOK, OfRow
    <2>2. seen'[r] = links[On(r)]
      <3>1. Reads(r, On(r), links[On(r)])
        BY <1>9 DEF FindRequest
      <3>2. QED
        BY <1>0, <2>1, <3>1, HasRead, RowsSeen
    <2>3. By(On(r)) # To(On(r)) /\ pc[On(r)] \notin Unlinked /\ On(r) # r
      BY <2>1 DEF LinkPlaces, Standing, Unlinked
    <2>4. pc'[On(r)] \notin Unlinked
      BY <2>1, <2>3 DEF Moves, Walk
    <2>5. Heading(r)'
      BY <2>1, <2>2, <2>3, <2>4, SameLinks DEF Heading, Unlinked
    <2>6. \A l \in Requests : links'[l] # NONE => links[l] # NONE /\ l # r
      BY <1>0, <2>1 DEF Standing, Unlinked
    <2>7. QED
      BY <2>1, <2>5, <2>6, Places DEF Unlinked
  <1>10. CASE ConnectionStep(r) /\ Answer(r)
    <2>1. pc[r] = "answer" /\ pc'[r] \in {"friend", "ok"} /\ target[r] = On(r) /\ On(r) \in Requests
      BY <1>0, <1>10, Goes, FriendsNamed DEF Answer, Labels, LinkLabels
    <2>2. /\ Kind(On(r)) = "FRIEND" /\ To(On(r)) = By(r) /\ By(On(r)) # By(r)
          /\ pc[On(r)] \notin Unlinked /\ On(r) # r
      <3>1. Kind(r) = "NONE"
        BY <2>1, FriendsNamed DEF Kind
      <3>2. QED
        BY <1>0, <2>1, <3>1 DEF Heading
    <2>3. \A l \in Requests : links'[l] # NONE => links[l] # NONE \/ l = On(r)
      BY <1>0, <1>10, <2>1 DEF Answer, LinksOK
    <2>4. Heading(r)'
      BY <2>1, <2>2, SameLinks DEF Heading, Unlinked
    <2>5. \A l \in Requests : links'[l] # NONE =>
                 \/ links[l] # NONE
                 \/ Kind(l) = "FRIEND" /\ By(l) # To(l) /\ pc[l] \notin Unlinked /\ l # r
      BY <2>2, <2>3
    <2>6. QED
      BY <1>4, <1>10, <2>1, <2>4, <2>5 DEF Unlinked
  <1>11. CASE ConnectionStep(r) /\ CountFriend(r)
    <2>1. pc[r] \in {"friend", "other_friend"} /\ pc'[r] \in {"other_friend", "ok"} /\ links' = links
      BY <1>0, <1>11, Goes DEF CountFriend, Labels, LinkLabels
    <2>2. Heading(r)'
      BY <1>0, <2>1, SameLinks DEF Heading, Unlinked
    <2>3. QED
      BY <1>4, <1>11, <2>1, <2>2 DEF Unlinked
  <1>12. CASE ConnectionStep(r) /\ (CountFollower(r) \/ CountFollowing(r) \/ Log(r) \/ FindProfile(r) \/ SaveProfile(r)
                                    \/ GetUserProfile(r) \/ FindTies(r) \/ Suggest(r))
    <2>1. links' = links /\ pc'[r] \in {"following", "log", "ok", "profile", "candidates"}
      BY <1>0, <1>12, Goes DEF CountFollower, CountFollowing, Log, FindProfile, SaveProfile, GetUserProfile, FindTies,
         Suggest, linkVars, Labels, LinkLabels
    <2>2. QED
      BY <1>1, <1>2, <1>12, <2>1, ConnectionMoves
  <1>13. QED
    BY <1>3, <1>5, <1>6, <1>7, <1>8, <1>9, <1>10, <1>11, <1>12 DEF ConnectionStep

\* The follows and answers a user's counters have still to follow, up and down.
FollowersDue(u) == {r \in Requests : pc[r] = "followers" /\ target[r] = NONE /\ To(r) = u}
FollowersOver(u) == {r \in Requests : pc[r] = "followers" /\ target[r] # NONE /\ To(r) = u}
FollowingDue(u) ==
  {r \in Requests : pc[r] \in {"followers", "following"} /\ target[r] = NONE /\ By(r) = u}
FollowingOver(u) ==
  {r \in Requests : pc[r] \in {"followers", "following"} /\ target[r] # NONE /\ By(r) = u}
FriendOwed(r, u, label) ==
  \/ label = "friend" /\ u \in {By(On(r)), By(r)}
  \/ label = "other_friend" /\ u = By(r)
FriendsDue(u) == {r \in Requests : FriendOwed(r, u, pc[r])}

\* Nothing has failed, nothing was overwritten, and nobody has blocked anybody.
Smooth == stale = {} /\ \A r \in Requests : pc[r] # "failed"
Unblocked == \A q \in Requests : Op(q) = "toggleBlock" => pc[q] = "idle"

Balanced(u) ==
  /\ profiles[u] # NONE
  /\ Balance(profiles[u].followers, FollowersDue(u), FollowersOf(u), FollowersOver(u))
  /\ Balance(profiles[u].following, FollowingDue(u), FollowedBy(u), FollowingOver(u))
  /\ Balance(profiles[u].friends, FriendsDue(u), FriendsOf(u), {})
TiesBalance ==
  Smooth /\ Unblocked => \A u \in People : HasProfile(u) => Balanced(u)

ShiftFollowers(u) ==
  Shift(profiles[u].followers, profiles'[u].followers, FollowersDue(u), FollowersDue(u)',
        FollowersOf(u), FollowersOf(u)', FollowersOver(u), FollowersOver(u)')
ShiftFollowing(u) ==
  Shift(profiles[u].following, profiles'[u].following, FollowingDue(u), FollowingDue(u)',
        FollowedBy(u), FollowedBy(u)', FollowingOver(u), FollowingOver(u)')
ShiftFriends(u) ==
  Shift(profiles[u].friends, profiles'[u].friends, FriendsDue(u), FriendsDue(u)',
        FriendsOf(u), FriendsOf(u)', {}, {})

LEMMA TieShifts ==
  ASSUME TInv, TInv', NEW u \in People, Balanced(u), profiles'[u] # NONE,
         ShiftFollowers(u), ShiftFollowing(u), ShiftFriends(u)
  PROVE  Balanced(u)'
  <1>1. profiles[u] \in Counters /\ profiles'[u] \in Counters
    BY DEF TInv, TypeOK, Balanced
  <1>2. /\ profiles[u].followers \in Int /\ profiles'[u].followers \in Int
        /\ profiles[u].following \in Int /\ profiles'[u].following \in Int
        /\ profiles[u].friends \in Int /\ profiles'[u].friends \in Int
    BY <1>1 DEF Counters
  <1>3. /\ FollowersDue(u) \subseteq Requests /\ FollowersOf(u) \subseteq Requests
        /\ FollowersOver(u) \subseteq Requests
        /\ FollowingDue(u) \subseteq Requests /\ FollowedBy(u) \subseteq Requests
        /\ FollowingOver(u) \subseteq Requests
        /\ FriendsDue(u) \subseteq Requests /\ FriendsOf(u) \subseteq Requests /\ {} \subseteq Requests
    BY DEF FollowersDue, FollowersOf, FollowersOver, FollowingDue, FollowedBy, FollowingOver, FriendsDue, FriendsOf
  <1>4. Balance(profiles'[u].followers, FollowersDue(u)', FollowersOf(u)', FollowersOver(u)')
    BY <1>2, <1>3, Shifted DEF Balanced, ShiftFollowers
  <1>5. Balance(profiles'[u].following, FollowingDue(u)', FollowedBy(u)', FollowingOver(u)')
    BY <1>2, <1>3, Shifted DEF Balanced, ShiftFollowing
  <1>6. Balance(profiles'[u].friends, FriendsDue(u)', FriendsOf(u)', {})
    BY <1>2, <1>3, Shifted DEF Balanced, ShiftFriends
  <1>7. QED
    BY <1>4, <1>5, <1>6 DEF Balanced

LEMMA TiePlaces ==
  ASSUME UNCHANGED call, NEW u
  PROVE  /\ FollowersDue(u)' = {q \in Requests : pc'[q] = "followers" /\ target'[q] = NONE /\ To(q) = u}
         /\ FollowersOver(u)' = {q \in Requests : pc'[q] = "followers" /\ target'[q] # NONE /\ To(q) = u}
         /\ FollowingDue(u)' =
              {q \in Requests : pc'[q] \in {"followers", "following"} /\ target'[q] = NONE /\ By(q) = u}
         /\ FollowingOver(u)' =
              {q \in Requests : pc'[q] \in {"followers", "following"} /\ target'[q] # NONE /\ By(q) = u}
         /\ FollowersOf(u)' = {l \in Requests : links'[l] # NONE /\ Kind(l) = "FOLLOW" /\ To(l) = u}
         /\ FollowedBy(u)' = {l \in Requests : links'[l] # NONE /\ Kind(l) = "FOLLOW" /\ By(l) = u}
         /\ FriendsDue(u)' = {q \in Requests : FriendOwed(q, u, pc'[q])}
         /\ FriendsOf(u)' \subseteq Requests
         /\ \A l \in Requests :
              l \in FriendsOf(u)' <=> /\ links'[l] # NONE /\ Kind(l) = "FRIEND"
                                      /\ links'[l].status = "ACCEPTED"
                                      /\ u \in {By(l), To(l)}
  <1> USE SameLinks
  <1>1. FollowersDue(u)' = {q \in Requests : pc'[q] = "followers" /\ target'[q] = NONE /\ To(q) = u}
    BY DEF FollowersDue
  <1>2. FollowersOver(u)' = {q \in Requests : pc'[q] = "followers" /\ target'[q] # NONE /\ To(q) = u}
    BY DEF FollowersOver
  <1>3. FollowingDue(u)' =
          {q \in Requests : pc'[q] \in {"followers", "following"} /\ target'[q] = NONE /\ By(q) = u}
    BY DEF FollowingDue
  <1>4. FollowingOver(u)' =
          {q \in Requests : pc'[q] \in {"followers", "following"} /\ target'[q] # NONE /\ By(q) = u}
    BY DEF FollowingOver
  <1>5. FriendsDue(u)' = {q \in Requests : FriendOwed(q, u, pc'[q])}
    BY DEF FriendsDue, FriendOwed, By, On
  <1>6. FollowersOf(u)' = {l \in Requests : links'[l] # NONE /\ Kind(l) = "FOLLOW" /\ To(l) = u}
    BY DEF FollowersOf
  <1>7. FollowedBy(u)' = {l \in Requests : links'[l] # NONE /\ Kind(l) = "FOLLOW" /\ By(l) = u}
    BY DEF FollowedBy
  <1>8. /\ FriendsOf(u)' \subseteq Requests
        /\ \A l \in Requests :
             l \in FriendsOf(u)' <=> /\ links'[l] # NONE /\ Kind(l) = "FRIEND"
                                     /\ links'[l].status = "ACCEPTED"
                                     /\ u \in {By(l), To(l)}
    BY DEF FriendsOf
  <1>9. QED
    BY <1>1, <1>2, <1>3, <1>4, <1>5, <1>6, <1>7, <1>8

\* A step of r changes what r has still to count, and one row.
LEMMA StepTies ==
  ASSUME UNCHANGED call, NEW r \in Requests, Moves(r), NEW u
  PROVE  /\ FollowersDue(u)' = IF pc'[r] = "followers" /\ target'[r] = NONE /\ To(r) = u
            THEN FollowersDue(u) \cup {r} ELSE FollowersDue(u) \ {r}
         /\ FollowersOver(u)' = IF pc'[r] = "followers" /\ target'[r] # NONE /\ To(r) = u
            THEN FollowersOver(u) \cup {r} ELSE FollowersOver(u) \ {r}
         /\ FollowingDue(u)' = IF pc'[r] \in {"followers", "following"} /\ target'[r] = NONE /\ By(r) = u
            THEN FollowingDue(u) \cup {r} ELSE FollowingDue(u) \ {r}
         /\ FollowingOver(u)' = IF pc'[r] \in {"followers", "following"} /\ target'[r] # NONE /\ By(r) = u
            THEN FollowingOver(u) \cup {r} ELSE FollowingOver(u) \ {r}
         /\ FriendsDue(u)' = IF FriendOwed(r, u, pc'[r])
            THEN FriendsDue(u) \cup {r} ELSE FriendsDue(u) \ {r}
  <1>1. \A q \in Requests \ {r} : pc'[q] = pc[q] /\ target'[q] = target[q]
    BY DEF Moves, Walk, Hands
  <1>2. FollowersDue(u)' = IF pc'[r] = "followers" /\ target'[r] = NONE /\ To(r) = u
            THEN FollowersDue(u) \cup {r} ELSE FollowersDue(u) \ {r}
    <2>1. \A q \in Requests : q # r => (q \in FollowersDue(u)' <=> q \in FollowersDue(u))
      BY <1>1, TiePlaces DEF FollowersDue
    <2>2. r \in FollowersDue(u)' <=> (pc'[r] = "followers" /\ target'[r] = NONE /\ To(r) = u)
      BY TiePlaces
    <2>3. FollowersDue(u) \subseteq Requests /\ FollowersDue(u)' \subseteq Requests
      BY TiePlaces DEF FollowersDue
    <2>4. QED
      BY <2>1, <2>2, <2>3
  <1>3. FollowersOver(u)' = IF pc'[r] = "followers" /\ target'[r] # NONE /\ To(r) = u
            THEN FollowersOver(u) \cup {r} ELSE FollowersOver(u) \ {r}
    <2>1. \A q \in Requests : q # r => (q \in FollowersOver(u)' <=> q \in FollowersOver(u))
      BY <1>1, TiePlaces DEF FollowersOver
    <2>2. r \in FollowersOver(u)' <=> (pc'[r] = "followers" /\ target'[r] # NONE /\ To(r) = u)
      BY TiePlaces
    <2>3. FollowersOver(u) \subseteq Requests /\ FollowersOver(u)' \subseteq Requests
      BY TiePlaces DEF FollowersOver
    <2>4. QED
      BY <2>1, <2>2, <2>3
  <1>4. FollowingDue(u)' = IF pc'[r] \in {"followers", "following"} /\ target'[r] = NONE /\ By(r) = u
            THEN FollowingDue(u) \cup {r} ELSE FollowingDue(u) \ {r}
    <2>1. \A q \in Requests : q # r => (q \in FollowingDue(u)' <=> q \in FollowingDue(u))
      BY <1>1, TiePlaces DEF FollowingDue
    <2>2. r \in FollowingDue(u)' <=> (pc'[r] \in {"followers", "following"} /\ target'[r] = NONE /\ By(r) = u)
      BY TiePlaces
    <2>3. FollowingDue(u) \subseteq Requests /\ FollowingDue(u)' \subseteq Requests
      BY TiePlaces DEF FollowingDue
    <2>4. QED
      BY <2>1, <2>2, <2>3
  <1>5. FollowingOver(u)' = IF pc'[r] \in {"followers", "following"} /\ target'[r] # NONE /\ By(r) = u
            THEN FollowingOver(u) \cup {r} ELSE FollowingOver(u) \ {r}
    <2>1. \A q \in Requests : q # r => (q \in FollowingOver(u)' <=> q \in FollowingOver(u))
      BY <1>1, TiePlaces DEF FollowingOver
    <2>2. r \in FollowingOver(u)' <=> (pc'[r] \in {"followers", "following"} /\ target'[r] # NONE /\ By(r) = u)
      BY TiePlaces
    <2>3. FollowingOver(u) \subseteq Requests /\ FollowingOver(u)' \subseteq Requests
      BY TiePlaces DEF FollowingOver
    <2>4. QED
      BY <2>1, <2>2, <2>3
  <1>6. FriendsDue(u)' = IF FriendOwed(r, u, pc'[r])
            THEN FriendsDue(u) \cup {r} ELSE FriendsDue(u) \ {r}
    <2>1. \A q \in Requests : q # r => (q \in FriendsDue(u)' <=> q \in FriendsDue(u))
      BY <1>1, TiePlaces DEF FriendsDue
    <2>2. r \in FriendsDue(u)' <=> FriendOwed(r, u, pc'[r])
      BY TiePlaces
    <2>3. FriendsDue(u) \subseteq Requests /\ FriendsDue(u)' \subseteq Requests
      BY TiePlaces DEF FriendsDue
    <2>4. QED
      BY <2>1, <2>2, <2>3
  <1>7. QED
    BY <1>2, <1>3, <1>4, <1>5, <1>6

LEMMA StepLinks ==
  ASSUME UNCHANGED call, NEW l \in Requests, NEW u,
         \A q \in Requests : q # l => links'[q] = links[q]
  PROVE  /\ FollowersOf(u)' = IF links'[l] # NONE /\ Kind(l) = "FOLLOW" /\ To(l) = u
            THEN FollowersOf(u) \cup {l} ELSE FollowersOf(u) \ {l}
         /\ FollowedBy(u)' = IF links'[l] # NONE /\ Kind(l) = "FOLLOW" /\ By(l) = u
            THEN FollowedBy(u) \cup {l} ELSE FollowedBy(u) \ {l}
         /\ FriendsOf(u)' = IF /\ links'[l] # NONE /\ Kind(l) = "FRIEND"
                   /\ links'[l].status = "ACCEPTED"
                   /\ u \in {By(l), To(l)}
            THEN FriendsOf(u) \cup {l} ELSE FriendsOf(u) \ {l}
  <1>1. FollowersOf(u)' = IF links'[l] # NONE /\ Kind(l) = "FOLLOW" /\ To(l) = u
            THEN FollowersOf(u) \cup {l} ELSE FollowersOf(u) \ {l}
    <2>1. \A q \in Requests : q # l => (q \in FollowersOf(u)' <=> q \in FollowersOf(u))
      BY TiePlaces DEF FollowersOf
    <2>2. l \in FollowersOf(u)' <=> (links'[l] # NONE /\ Kind(l) = "FOLLOW" /\ To(l) = u)
      BY TiePlaces
    <2>3. FollowersOf(u) \subseteq Requests /\ FollowersOf(u)' \subseteq Requests
      BY TiePlaces DEF FollowersOf
    <2>4. QED
      BY <2>1, <2>2, <2>3
  <1>2. FollowedBy(u)' = IF links'[l] # NONE /\ Kind(l) = "FOLLOW" /\ By(l) = u
            THEN FollowedBy(u) \cup {l} ELSE FollowedBy(u) \ {l}
    <2>1. \A q \in Requests : q # l => (q \in FollowedBy(u)' <=> q \in FollowedBy(u))
      BY TiePlaces DEF FollowedBy
    <2>2. l \in FollowedBy(u)' <=> (links'[l] # NONE /\ Kind(l) = "FOLLOW" /\ By(l) = u)
      BY TiePlaces
    <2>3. FollowedBy(u) \subseteq Requests /\ FollowedBy(u)' \subseteq Requests
      BY TiePlaces DEF FollowedBy
    <2>4. QED
      BY <2>1, <2>2, <2>3
  <1>3. FriendsOf(u)' = IF /\ links'[l] # NONE /\ Kind(l) = "FRIEND"
                   /\ links'[l].status = "ACCEPTED"
                   /\ u \in {By(l), To(l)}
            THEN FriendsOf(u) \cup {l} ELSE FriendsOf(u) \ {l}
    <2>1. \A q \in Requests : q # l => (q \in FriendsOf(u)' <=> q \in FriendsOf(u))
      BY TiePlaces DEF FriendsOf
    <2>2. l \in FriendsOf(u)' <=> (/\ links'[l] # NONE /\ Kind(l) = "FRIEND"
                                  /\ links'[l].status = "ACCEPTED"
                                  /\ u \in {By(l), To(l)})
      BY TiePlaces
    <2>3. FriendsOf(u) \subseteq Requests /\ FriendsOf(u)' \subseteq Requests
      BY TiePlaces DEF FriendsOf
    <2>4. QED
      BY <2>1, <2>2, <2>3
  <1>4. QED
    BY <1>1, <1>2, <1>3

CountLabels == {"followers", "following", "friend", "other_friend"}

LEMMA SameFollows ==
  ASSUME UNCHANGED call, NEW u,
         \A l \in Requests : Kind(l) = "FOLLOW" => (links'[l] = NONE <=> links[l] = NONE)
  PROVE  FollowersOf(u)' = FollowersOf(u) /\ FollowedBy(u)' = FollowedBy(u)
  <1>1. \A l : Kind(l)' = Kind(l) /\ To(l)' = To(l) /\ By(l)' = By(l)
    BY SameLinks
  <1>2. FollowersOf(u)' = FollowersOf(u)
    BY <1>1 DEF FollowersOf
  <1>3. FollowedBy(u)' = FollowedBy(u)
    BY <1>1 DEF FollowedBy
  <1>4. QED
    BY <1>2, <1>3

LEMMA Uncounted ==
  ASSUME UNCHANGED call, NEW r \in Requests, Moves(r), NEW u,
         pc[r] \notin {"followers", "following"}, pc'[r] \notin {"followers", "following"}
  PROVE  /\ FollowersDue(u)' = FollowersDue(u) /\ FollowersOver(u)' = FollowersOver(u)
         /\ FollowingDue(u)' = FollowingDue(u) /\ FollowingOver(u)' = FollowingOver(u)
  <1>1. \A q : To(q)' = To(q) /\ By(q)' = By(q)
    BY SameLinks
  <1>2. \A q \in Requests : q # r => pc'[q] = pc[q] /\ target'[q] = target[q]
    BY DEF Moves, Walk, Hands
  <1>3. FollowersDue(u)' = FollowersDue(u)
    BY <1>1, <1>2 DEF FollowersDue
  <1>4. FollowersOver(u)' = FollowersOver(u)
    BY <1>1, <1>2 DEF FollowersOver
  <1>5. FollowingDue(u)' = FollowingDue(u)
    BY <1>1, <1>2 DEF FollowingDue
  <1>6. FollowingOver(u)' = FollowingOver(u)
    BY <1>1, <1>2 DEF FollowingOver
  <1>7. QED
    BY <1>3, <1>4, <1>5, <1>6

LEMMA SameTies ==
  ASSUME TInv, TInv', UNCHANGED call, NEW r \in Requests, Moves(r), NEW u \in People, Balanced(u),
         links' = links, profiles'[u] = profiles[u], pc[r] \notin CountLabels, pc'[r] \notin CountLabels
  PROVE  Balanced(u)'
  <1>1. /\ FollowersDue(u)' = FollowersDue(u) /\ FollowersOver(u)' = FollowersOver(u)
        /\ FollowingDue(u)' = FollowingDue(u) /\ FollowingOver(u)' = FollowingOver(u)
    BY Uncounted DEF CountLabels
  <1>3. FriendsDue(u)' = FriendsDue(u)
    BY StepTies DEF FriendsDue, FriendOwed, CountLabels
  <1>4. FollowersOf(u)' = FollowersOf(u) /\ FollowedBy(u)' = FollowedBy(u)
    BY SameFollows
  <1>5. FriendsOf(u)' = FriendsOf(u)
    BY SameLinks DEF FriendsOf
  <1>6. QED
    BY <1>1, <1>3, <1>4, <1>5 DEF Balanced

\* A counter that a step of another kind does not touch.
LEMMA QuietFriends ==
  ASSUME TInv, UNCHANGED call, NEW r \in Requests, Moves(r), NEW u \in People,
         \A l \in Requests : Kind(l) = "FRIEND" /\ links'[l] # links[l] =>
            links[l] = NONE /\ links'[l].status = "PENDING",
         profiles'[u].friends = profiles[u].friends,
         pc[r] \notin {"friend", "other_friend"}, pc'[r] \notin {"friend", "other_friend"}
  PROVE  ShiftFriends(u)
  <1>1. FriendsDue(u)' = FriendsDue(u)
    BY StepTies DEF FriendsDue, FriendOwed
  <1>2. \A l \in Requests : l \in FriendsOf(u)' <=> l \in FriendsOf(u)
    BY TiePlaces DEF FriendsOf
  <1>3. FriendsOf(u)' = FriendsOf(u)
    BY <1>2, TiePlaces DEF FriendsOf
  <1>4. QED
    BY <1>1, <1>3 DEF ShiftFriends, Shift

LEMMA QuietFollows ==
  ASSUME TInv, UNCHANGED call, NEW r \in Requests, Moves(r), NEW u \in People,
         \A l \in Requests : Kind(l) = "FOLLOW" => (links'[l] = NONE <=> links[l] = NONE),
         profiles'[u].followers = profiles[u].followers, profiles'[u].following = profiles[u].following,
         pc[r] \notin {"followers", "following"}, pc'[r] \notin {"followers", "following"}
  PROVE  ShiftFollowers(u) /\ ShiftFollowing(u)
  <1>1. /\ FollowersDue(u)' = FollowersDue(u) /\ FollowersOver(u)' = FollowersOver(u)
        /\ FollowingDue(u)' = FollowingDue(u) /\ FollowingOver(u)' = FollowingOver(u)
    BY Uncounted
  <1>3. FollowersOf(u)' = FollowersOf(u) /\ FollowedBy(u)' = FollowedBy(u)
    BY SameFollows
  <1>4. QED
    BY <1>1, <1>3 DEF ShiftFollowers, ShiftFollowing, Shift

LEMMA LinkTies ==
  ASSUME TInv, TInv', UNCHANGED call, NEW r \in Requests, Link(r), Moves(r), LinkPlaces,
         Unblocked', NEW u \in People, Balanced(u)
  PROVE  Balanced(u)'
  <1>0. TypeOK
    BY DEF TInv
  <1>1. /\ links[r] = NONE /\ target[r] = NONE /\ target'[r] = NONE /\ pc[r] = "link"
        /\ profiles' = profiles /\ profiles[u] # NONE
        /\ \A q \in Requests : q # r => links'[q] = links[q]
    BY <1>0, Stays DEF Link, LinkPlaces, Standing, Heading, Unlinked, Balanced, TypeOK
  <1>2. /\ links'[r] = [status |-> IF Kind(r) = "FRIEND" THEN "PENDING" ELSE "ACTIVE"]
        /\ links'[r] # NONE
    <2>1. links'[r] = [status |-> IF Kind(r) = "FRIEND" THEN "PENDING" ELSE "ACTIVE"]
      BY <1>0 DEF Link, TypeOK
    <2>2. [status |-> IF Kind(r) = "FRIEND" THEN "PENDING" ELSE "ACTIVE"] \in Rows
      BY DEF Rows, LinkRows, LinkStatuses
    <2>3. QED
      BY <2>1, <2>2, SocialAssumption
  <1>3. Op(r) # "toggleBlock"
    BY <1>0, SameLinks, Goes DEF Unblocked, Moves, Walk
  <1>4. CASE Kind(r) = "FOLLOW"
    <2>1. pc'[r] = "followers"
      BY <1>0, <1>4, Goes DEF Link, Labels, LinkLabels
    <2>2. ShiftFriends(u)
      BY <1>1, <1>4, <2>1, QuietFriends
    <2>3. ShiftFollowers(u)
      <3>1. FollowersOver(u)' = FollowersOver(u)
        BY <1>1, <2>1, StepTies DEF FollowersOver
      <3>2. CASE To(r) = u
        <4>0. r \notin FollowersDue(u)
          BY <1>1 DEF FollowersDue
        <4>1. FollowersDue(u)' = FollowersDue(u) \cup {r}
          BY <1>1, <2>1, <3>2, StepTies
        <4>2. FollowersOf(u)' = FollowersOf(u) \cup {r} /\ r \notin FollowersOf(u)
          BY <1>1, <1>2, <1>4, <3>2, StepLinks DEF FollowersOf
        <4>3. QED
          BY <1>1, <3>1, <4>0, <4>1, <4>2 DEF ShiftFollowers, Shift
      <3>3. CASE To(r) # u
        <4>0. r \notin FollowersDue(u)
          BY <1>1 DEF FollowersDue
        <4>1. FollowersDue(u)' = FollowersDue(u)
          BY <3>3, <4>0, StepTies
        <4>2. FollowersOf(u)' = FollowersOf(u)
          BY <1>1, <3>3, StepLinks DEF FollowersOf
        <4>3. QED
          BY <1>1, <3>1, <4>1, <4>2 DEF ShiftFollowers, Shift
      <3>4. QED
        BY <3>2, <3>3
    <2>4. ShiftFollowing(u)
      <3>1. FollowingOver(u)' = FollowingOver(u)
        <4>1. FollowingOver(u)' = FollowingOver(u) \ {r}
          BY <1>1, <2>1, StepTies
        <4>2. r \notin FollowingOver(u)
          BY <1>1 DEF FollowingOver
        <4>3. QED
          BY <4>1, <4>2
      <3>2. CASE By(r) = u
        <4>0. r \notin FollowingDue(u)
          BY <1>1 DEF FollowingDue
        <4>1. FollowingDue(u)' = FollowingDue(u) \cup {r}
          BY <1>1, <2>1, <3>2, StepTies
        <4>2. FollowedBy(u)' = FollowedBy(u) \cup {r} /\ r \notin FollowedBy(u)
          BY <1>1, <1>2, <1>4, <3>2, StepLinks DEF FollowedBy
        <4>3. QED
          BY <1>1, <3>1, <4>0, <4>1, <4>2 DEF ShiftFollowing, Shift
      <3>3. CASE By(r) # u
        <4>0. r \notin FollowingDue(u)
          BY <1>1 DEF FollowingDue
        <4>1. FollowingDue(u)' = FollowingDue(u)
          <5>1. FollowingDue(u)' = FollowingDue(u) \ {r}
            BY <3>3, StepTies
          <5>2. QED
            BY <4>0, <5>1
        <4>2. FollowedBy(u)' = FollowedBy(u)
          BY <1>1, <3>3, StepLinks DEF FollowedBy
        <4>3. QED
          BY <1>1, <3>1, <4>1, <4>2 DEF ShiftFollowing, Shift
      <3>4. QED
        BY <3>2, <3>3
    <2>5. QED
      BY <1>1, <2>2, <2>3, <2>4, TieShifts
  <1>5. CASE Kind(r) # "FOLLOW"
    <2>1. Kind(r) = "FRIEND" /\ pc'[r] = "log" /\ links'[r].status = "PENDING"
      BY <1>0, <1>1, <1>2, <1>3, <1>5, Goes DEF Link, Labels, LinkLabels, TInv, Walks, Fits, Kind
    <2>2. ShiftFriends(u)
      BY <1>1, <2>1, QuietFriends
    <2>3. ShiftFollowers(u) /\ ShiftFollowing(u)
      BY <1>1, <2>1, QuietFollows
    <2>4. QED
      BY <1>1, <2>2, <2>3, TieShifts
  <1>6. QED
    BY <1>4, <1>5

LEMMA DropTies ==
  ASSUME TInv, TInv', UNCHANGED call, NEW r \in Requests, Drop(r), Moves(r), LinkPlaces,
         Unblocked', Smooth', NEW u \in People, Balanced(u)
  PROVE  Balanced(u)'
  <1>0. TypeOK /\ NONE \notin Requests
    BY SocialAssumption DEF TInv
  <1>1. PICK l \in Requests : l = target[r] /\ target'[r] = l
    BY <1>0, HasWritten DEF Drop, LinkPlaces, Heading
  <1>2. /\ Kind(l) = Kind(r) /\ By(l) = By(r) /\ To(l) = To(r) /\ Kind(r) # "FRIEND"
        /\ pc[r] = "drop" /\ profiles' = profiles /\ profiles[u] # NONE /\ links'[l] = NONE
        /\ \A q \in Requests : q # l => links'[q] = links[q]
    BY <1>0, <1>1 DEF Drop, LinkPlaces, Heading, Balanced, TypeOK
  <1>3. links[l] # NONE
    BY <1>1, <1>2 DEF Drop, Writes, Smooth, LinkPlaces, Heading
  <1>4. Kind(r) = "FOLLOW" /\ pc'[r] = "followers"
    <2>1. Op(r) # "toggleBlock"
      BY <1>0, SameLinks DEF Unblocked, Moves, Walk
    <2>2. Kind(r) = "FOLLOW"
      BY <1>2, <2>1 DEF TInv, Walks, Fits, Kind
    <2>3. QED
      BY <1>0, <2>2, Goes DEF Drop, Labels, LinkLabels
  <1>5. ShiftFriends(u)
    BY <1>2, <1>4, QuietFriends
  <1>6. ShiftFollowers(u)
    <2>1. FollowersDue(u)' = FollowersDue(u)
      BY <1>0, <1>1, <1>2, <1>4, StepTies DEF FollowersDue
    <2>2. CASE To(r) = u
      <3>0. r \notin FollowersOver(u)
        BY <1>2 DEF FollowersOver
      <3>1. FollowersOver(u)' = FollowersOver(u) \cup {r} /\ r \notin FollowersOver(u)
        <4>1. target'[r] # NONE
          BY <1>0, <1>1
        <4>2. FollowersOver(u)' = FollowersOver(u) \cup {r}
          BY <1>4, <2>2, <4>1, StepTies
        <4>3. QED
          BY <3>0, <4>2
      <3>2. FollowersOf(u)' = FollowersOf(u) \ {l} /\ l \in FollowersOf(u)
        BY <1>2, <1>3, <1>4, <2>2, StepLinks DEF FollowersOf
      <3>3. QED
        BY <1>2, <2>1, <3>1, <3>2 DEF ShiftFollowers, Shift
    <2>3. CASE To(r) # u
      <3>1. FollowersOver(u)' = FollowersOver(u)
        <4>1. FollowersOver(u)' = FollowersOver(u) \ {r}
          BY <2>3, StepTies
        <4>2. r \notin FollowersOver(u)
          BY <1>2 DEF FollowersOver
        <4>3. QED
          BY <4>1, <4>2
      <3>2. FollowersOf(u)' = FollowersOf(u)
        BY <1>2, <2>3, StepLinks DEF FollowersOf
      <3>3. QED
        BY <1>2, <2>1, <3>1, <3>2 DEF ShiftFollowers, Shift
    <2>4. QED
      BY <2>2, <2>3
  <1>7. ShiftFollowing(u)
    <2>0. target'[r] # NONE /\ target[r] # NONE
      BY <1>0, <1>1
    <2>1. FollowingDue(u)' = FollowingDue(u)
      <3>1. FollowingDue(u)' = FollowingDue(u) \ {r}
        BY <2>0, StepTies
      <3>2. r \notin FollowingDue(u)
        BY <2>0 DEF FollowingDue
      <3>3. QED
        BY <3>1, <3>2
    <2>2. CASE By(r) = u
      <3>1. FollowingOver(u)' = FollowingOver(u) \cup {r} /\ r \notin FollowingOver(u)
        <4>1. FollowingOver(u)' = FollowingOver(u) \cup {r}
          BY <1>4, <2>0, <2>2, StepTies
        <4>2. r \notin FollowingOver(u)
          BY <1>2 DEF FollowingOver
        <4>3. QED
          BY <4>1, <4>2
      <3>2. FollowedBy(u)' = FollowedBy(u) \ {l} /\ l \in FollowedBy(u)
        BY <1>2, <1>3, <1>4, <2>2, StepLinks DEF FollowedBy
      <3>3. QED
        BY <1>2, <2>1, <3>1, <3>2 DEF ShiftFollowing, Shift
    <2>3. CASE By(r) # u
      <3>0. r \notin FollowingOver(u)
        BY <1>2 DEF FollowingOver
      <3>1. FollowingOver(u)' = FollowingOver(u)
        <4>1. FollowingOver(u)' = FollowingOver(u) \ {r}
          BY <2>3, StepTies
        <4>2. QED
          BY <3>0, <4>1
      <3>2. FollowedBy(u)' = FollowedBy(u)
        BY <1>2, <2>3, StepLinks DEF FollowedBy
      <3>3. QED
        BY <1>2, <2>1, <3>1, <3>2 DEF ShiftFollowing, Shift
    <2>4. QED
      BY <2>2, <2>3
  <1>8. QED
    BY <1>2, <1>5, <1>6, <1>7, TieShifts

LEMMA CountedOne ==
  ASSUME TInv, NEW u \in People, NEW v \in People, profiles[u] # NONE,
         NEW counter \in {"followers", "following", "friends"}, NEW n \in Int,
         profiles' = Counted(v, counter, n)
  PROVE  /\ profiles'[u] # NONE
         /\ profiles'[u].followers =
              IF v = u /\ counter = "followers" THEN profiles[u].followers + n ELSE profiles[u].followers
         /\ profiles'[u].following =
              IF v = u /\ counter = "following" THEN profiles[u].following + n ELSE profiles[u].following
         /\ profiles'[u].friends =
              IF v = u /\ counter = "friends" THEN profiles[u].friends + n ELSE profiles[u].friends
  <1>1. profiles \in [People -> Counters \cup {NONE}] /\ profiles[u] \in Counters
    BY DEF TInv, TypeOK
  <1>2. CASE v # u
    <2>1. profiles'[u] = profiles[u]
      BY <1>1, <1>2 DEF Counted
    <2>2. QED
      BY <1>2, <2>1
  <1>3. CASE v = u
    <2>1. profiles'[u] = [profiles[u] EXCEPT ![counter] = profiles[u][counter] + n]
      BY <1>1, <1>3 DEF Counted
    <2>2. profiles'[u] \in Counters
      BY <1>1, <2>1 DEF Counters
    <2>3. profiles'[u] # NONE
      BY <2>2, SocialAssumption DEF Rows
    <2>4. QED
      BY <1>1, <1>3, <2>1, <2>3 DEF Counters
  <1>4. QED
    BY <1>2, <1>3

LEMMA FollowerTies ==
  ASSUME TInv, TInv', UNCHANGED call, NEW r \in Requests, CountFollower(r), Moves(r),
         NEW u \in People, Balanced(u)
  PROVE  Balanced(u)'
  <1>0. TypeOK /\ profiles[u] # NONE
    BY DEF TInv, Balanced
  <1>1. /\ pc[r] = "followers" /\ pc'[r] = "following" /\ target'[r] = target[r] /\ links' = links
    BY <1>0, Goes, Stays DEF CountFollower, Labels, LinkLabels
  <1>2. Kind(r) = "FOLLOW" /\ To(r) \in People
    BY <1>1, FriendsNamed
  <1>3. Sign(r) \in Int /\ Sign(r) = IF target[r] = NONE THEN 1 ELSE -1
    BY DEF Sign
  <1>4. /\ profiles'[u] # NONE
        /\ profiles'[u].followers =
             IF To(r) = u THEN profiles[u].followers + Sign(r) ELSE profiles[u].followers
        /\ profiles'[u].following = profiles[u].following
        /\ profiles'[u].friends = profiles[u].friends
    BY <1>0, <1>2, <1>3, CountedOne DEF CountFollower
  <1>5. profiles[u].followers \in Int
    BY <1>0 DEF TypeOK, Counters
  <1>6. FollowersOf(u)' = FollowersOf(u) /\ FollowedBy(u)' = FollowedBy(u)
    BY <1>1, SameFollows
  <1>7. /\ FollowersDue(u)' = FollowersDue(u) \ {r} /\ FollowersOver(u)' = FollowersOver(u) \ {r}
    BY <1>1, StepTies
  <1>8. ShiftFollowers(u)
    <2>1. CASE To(r) # u
      <3>1. r \notin FollowersDue(u) /\ r \notin FollowersOver(u)
        BY <2>1 DEF FollowersDue, FollowersOver
      <3>2. QED
        BY <1>4, <1>6, <1>7, <2>1, <3>1 DEF ShiftFollowers, Shift
    <2>2. CASE To(r) = u /\ target[r] = NONE
      <3>1. r \in FollowersDue(u) /\ r \notin FollowersOver(u)
        BY <1>1, <2>2 DEF FollowersDue, FollowersOver
      <3>2. profiles'[u].followers = profiles[u].followers + 1
        BY <1>3, <1>4, <2>2
      <3>3. QED
        BY <1>6, <1>7, <3>1, <3>2 DEF ShiftFollowers, Shift
    <2>3. CASE To(r) = u /\ target[r] # NONE
      <3>1. r \notin FollowersDue(u) /\ r \in FollowersOver(u)
        BY <1>1, <2>3 DEF FollowersDue, FollowersOver
      <3>2. profiles[u].followers = profiles'[u].followers + 1
        BY <1>3, <1>4, <1>5, <2>3
      <3>3. QED
        BY <1>6, <1>7, <3>1, <3>2 DEF ShiftFollowers, Shift
    <2>4. QED
      BY <2>1, <2>2, <2>3
  <1>9. ShiftFollowing(u)
    <2>1. FollowingDue(u)' = FollowingDue(u)
      BY <1>1, StepTies DEF FollowingDue
    <2>2. FollowingOver(u)' = FollowingOver(u)
      BY <1>1, StepTies DEF FollowingOver
    <2>3. QED
      BY <1>4, <1>6, <2>1, <2>2 DEF ShiftFollowing, Shift
  <1>10. ShiftFriends(u)
    BY <1>1, <1>4, QuietFriends
  <1>11. QED
    BY <1>4, <1>8, <1>9, <1>10, TieShifts

LEMMA FollowingTies ==
  ASSUME TInv, TInv', UNCHANGED call, NEW r \in Requests, CountFollowing(r), Moves(r),
         NEW u \in People, Balanced(u)
  PROVE  Balanced(u)'
  <1>0. TypeOK /\ profiles[u] # NONE
    BY DEF TInv, Balanced
  <1>1. /\ pc[r] = "following" /\ pc'[r] \in {"log", "ok"} /\ target'[r] = target[r] /\ links' = links
    BY <1>0, Goes, Stays DEF CountFollowing, Labels, LinkLabels
  <1>2. Sign(r) \in Int /\ Sign(r) = (IF target[r] = NONE THEN 1 ELSE -1) /\ By(r) \in People
    BY FriendsNamed DEF Sign
  <1>3. /\ profiles'[u] # NONE
        /\ profiles'[u].following =
             IF By(r) = u THEN profiles[u].following + Sign(r) ELSE profiles[u].following
        /\ profiles'[u].followers = profiles[u].followers
        /\ profiles'[u].friends = profiles[u].friends
    BY <1>0, <1>2, CountedOne DEF CountFollowing
  <1>4. profiles[u].following \in Int
    BY <1>0 DEF TypeOK, Counters
  <1>5. FollowersOf(u)' = FollowersOf(u) /\ FollowedBy(u)' = FollowedBy(u)
    BY <1>1, SameFollows
  <1>6. /\ FollowingDue(u)' = FollowingDue(u) \ {r} /\ FollowingOver(u)' = FollowingOver(u) \ {r}
    BY <1>1, StepTies
  <1>7. ShiftFollowing(u)
    <2>1. CASE By(r) # u
      <3>1. r \notin FollowingDue(u) /\ r \notin FollowingOver(u)
        BY <2>1 DEF FollowingDue, FollowingOver
      <3>2. QED
        BY <1>3, <1>5, <1>6, <2>1, <3>1 DEF ShiftFollowing, Shift
    <2>2. CASE By(r) = u /\ target[r] = NONE
      <3>1. r \in FollowingDue(u) /\ r \notin FollowingOver(u)
        BY <1>1, <2>2 DEF FollowingDue, FollowingOver
      <3>2. profiles'[u].following = profiles[u].following + 1
        BY <1>2, <1>3, <2>2
      <3>3. QED
        BY <1>5, <1>6, <3>1, <3>2 DEF ShiftFollowing, Shift
    <2>3. CASE By(r) = u /\ target[r] # NONE
      <3>1. r \notin FollowingDue(u) /\ r \in FollowingOver(u)
        BY <1>1, <2>3 DEF FollowingDue, FollowingOver
      <3>2. profiles[u].following = profiles'[u].following + 1
        BY <1>2, <1>3, <1>4, <2>3
      <3>3. QED
        BY <1>5, <1>6, <3>1, <3>2 DEF ShiftFollowing, Shift
    <2>4. QED
      BY <2>1, <2>2, <2>3
  <1>8. ShiftFollowers(u)
    <2>1. FollowersDue(u)' = FollowersDue(u)
      BY <1>1, StepTies DEF FollowersDue
    <2>2. FollowersOver(u)' = FollowersOver(u)
      BY <1>1, StepTies DEF FollowersOver
    <2>3. QED
      BY <1>3, <1>5, <2>1, <2>2 DEF ShiftFollowers, Shift
  <1>9. ShiftFriends(u)
    BY <1>1, <1>3, QuietFriends
  <1>10. QED
    BY <1>3, <1>7, <1>8, <1>9, TieShifts

LEMMA AnswerTies ==
  ASSUME TInv, TInv', UNCHANGED call, NEW r \in Requests, Answer(r), Moves(r), LinkPlaces,
         Smooth', NEW u \in People, Balanced(u)
  PROVE  Balanced(u)'
  <1>0. TypeOK /\ profiles[u] # NONE /\ NONE \notin Rows
    BY SocialAssumption DEF TInv, Balanced
  <1>1. /\ pc[r] = "answer" /\ target[r] = On(r) /\ On(r) \in Requests /\ profiles' = profiles
        /\ seen[r] \in LinkRows /\ Arg(r) \in {"ACCEPTED", "REJECTED"}
    BY FriendsNamed DEF Answer
  <1>2. seen[r].status = "PENDING" /\ Kind(On(r)) = "FRIEND" /\ To(On(r)) = By(r) /\ By(On(r)) # By(r)
    BY <1>1 DEF LinkPlaces, Heading
  <1>3. links[On(r)] = seen[r]
    BY <1>1 DEF Answer, Writes, Smooth
  <1>4. /\ links'[On(r)] = [status |-> Arg(r)]
        /\ \A q \in Requests : q # On(r) => links'[q] = links[q]
    BY <1>0, <1>1 DEF Answer, TypeOK
  <1>5. links'[On(r)] # NONE /\ links'[On(r)].status = Arg(r) /\ links[On(r)] # NONE
    <2>1. links'[On(r)] \in Rows
      BY <1>1, <1>4 DEF Rows, LinkRows, LinkStatuses
    <2>2. links[On(r)] \in Rows
      BY <1>1, <1>3 DEF Rows
    <2>3. QED
      BY <1>0, <1>4, <2>1, <2>2
  <1>6. pc'[r] = IF Arg(r) = "ACCEPTED" THEN "friend" ELSE "ok"
    BY <1>0, Goes DEF Answer, Labels, LinkLabels
  <1>7. ShiftFollowers(u) /\ ShiftFollowing(u)
    <2>1. \A l \in Requests : Kind(l) = "FOLLOW" => (links'[l] = NONE <=> links[l] = NONE)
      BY <1>4, <1>5
    <2>2. QED
      BY <1>1, <1>6, <2>1, QuietFollows
  <1>8. r \notin FriendsDue(u) /\ On(r) \notin FriendsOf(u)
    BY <1>1, <1>2, <1>3 DEF FriendsDue, FriendOwed, FriendsOf
  <1>9. ShiftFriends(u)
    <2>1. CASE Arg(r) = "ACCEPTED" /\ u \in {By(On(r)), By(r)}
      <3>1. FriendsDue(u)' = FriendsDue(u) \cup {r}
        BY <1>6, <2>1, StepTies DEF FriendOwed
      <3>2. FriendsOf(u)' = FriendsOf(u) \cup {On(r)}
        BY <1>1, <1>2, <1>4, <1>5, <2>1, StepLinks
      <3>3. QED
        BY <1>1, <1>8, <3>1, <3>2 DEF ShiftFriends, Shift
    <2>2. CASE ~(Arg(r) = "ACCEPTED" /\ u \in {By(On(r)), By(r)})
      <3>1. FriendsDue(u)' = FriendsDue(u)
        BY <1>6, <1>8, <2>2, StepTies DEF FriendOwed
      <3>2. FriendsOf(u)' = FriendsOf(u)
        <4>1. \A l \in Requests : l # On(r) => (l \in FriendsOf(u)' <=> l \in FriendsOf(u))
          BY <1>4, TiePlaces DEF FriendsOf
        <4>2. On(r) \notin FriendsOf(u)'
          BY <1>1, <1>2, <1>5, <2>2, TiePlaces
        <4>3. FriendsOf(u) \subseteq Requests /\ FriendsOf(u)' \subseteq Requests
          BY TiePlaces DEF FriendsOf
        <4>4. QED
          BY <1>8, <4>1, <4>2, <4>3
      <3>3. QED
        BY <1>1, <3>1, <3>2 DEF ShiftFriends, Shift
    <2>3. QED
      BY <2>1, <2>2
  <1>10. QED
    BY <1>0, <1>1, <1>7, <1>9, TieShifts

LEMMA FriendTies ==
  ASSUME TInv, TInv', UNCHANGED call, NEW r \in Requests, CountFriend(r), Moves(r), LinkPlaces,
         NEW u \in People, Balanced(u)
  PROVE  Balanced(u)'
  <1>0. TypeOK /\ profiles[u] # NONE
    BY DEF TInv, Balanced
  <1>1. /\ pc[r] \in {"friend", "other_friend"} /\ links' = links
        /\ pc'[r] = IF pc[r] = "friend" THEN "other_friend" ELSE "ok"
    BY <1>0, Goes DEF CountFriend, Labels, LinkLabels
  <1>2. /\ target[r] = On(r) /\ By(On(r)) # By(r) /\ By(r) \in People /\ By(On(r)) \in People
    BY <1>1, FriendsNamed DEF LinkPlaces, Heading
  <1> DEFINE v == IF pc[r] = "friend" THEN By(On(r)) ELSE By(r)
  <1>3. v \in People /\ profiles' = Counted(v, "friends", 1)
    BY <1>2 DEF CountFriend
  <1>4. r \in FriendsDue(u) <=> \/ pc[r] = "friend" /\ u \in {By(On(r)), By(r)}
                                \/ pc[r] = "other_friend" /\ u = By(r)
    BY DEF FriendsDue, FriendOwed
  <1>5. FriendsDue(u)' = IF pc[r] = "friend" /\ u = By(r)
                         THEN FriendsDue(u) \cup {r} ELSE FriendsDue(u) \ {r}
    BY <1>1, StepTies DEF FriendOwed
  <1>6. IF u = v THEN r \in FriendsDue(u) /\ FriendsDue(u)' = FriendsDue(u) \ {r}
                 ELSE FriendsDue(u)' = FriendsDue(u)
    BY <1>1, <1>2, <1>4, <1>5
  <1> HIDE DEF v
  <1>7. /\ profiles'[u] # NONE
        /\ profiles'[u].friends = IF v = u THEN profiles[u].friends + 1 ELSE profiles[u].friends
        /\ profiles'[u].followers = profiles[u].followers
        /\ profiles'[u].following = profiles[u].following
    BY <1>0, <1>3, CountedOne
  <1>8. FriendsOf(u)' = FriendsOf(u)
    BY <1>1, SameLinks DEF FriendsOf
  <1>9. ShiftFriends(u)
    BY <1>6, <1>7, <1>8 DEF ShiftFriends, Shift
  <1>10. ShiftFollowers(u) /\ ShiftFollowing(u)
    BY <1>1, <1>7, QuietFollows
  <1>11. QED
    BY <1>7, <1>9, <1>10, TieShifts

LEMMA SavedTies ==
  ASSUME TInv, TInv', UNCHANGED call, NEW r \in Requests, SaveProfile(r), Moves(r),
         Smooth', NEW u \in People, Balanced(u)
  PROVE  Balanced(u)'
  <1>0. TypeOK /\ profiles[u] # NONE
    BY DEF TInv, Balanced
  <1>1. pc[r] = "profile" /\ pc'[r] = "ok" /\ links' = links
    BY <1>0, Goes DEF SaveProfile, Labels, LinkLabels
  <1>2. profiles[By(r)] = seen[r]
    BY DEF SaveProfile, Writes, Smooth
  <1>3. profiles'[u] = profiles[u]
    BY <1>0, <1>2 DEF SaveProfile, TypeOK
  <1>4. QED
    BY <1>1, <1>3, SameTies DEF CountLabels

LEMMA TiesStep ==
  ASSUME TInv, TInv', UNCHANGED call, NEW r \in Requests, ~Ended(r), Step(r), LinkPlaces, TiesBalance
  PROVE  TiesBalance'
  <1>0. TypeOK /\ Moves(r)
    BY Elsewhere, ConnectionMoves DEF TInv
  <1> SUFFICES ASSUME Smooth', Unblocked', NEW u \in People, HasProfile(u)'
               PROVE  Balanced(u)'
    BY DEF TiesBalance
  <1>1. Balanced(u)
    <2>1. Smooth
      BY <1>0 DEF Smooth, Moves, Walk, Hands, Ended
    <2>2. Unblocked
      BY <1>0, SameLinks DEF Unblocked, Moves, Walk
    <2>3. HasProfile(u)
      BY SameLinks
    <2>4. QED
      BY <2>1, <2>2, <2>3 DEF TiesBalance
  <1>2. CASE ~ConnectionStep(r)
    <2>1. pc'[r] # "failed"
      BY DEF Smooth
    <2>2. QED
      BY <1>0, <1>1, <1>2, <2>1, Elsewhere, SameTies DEF linkVars, LinkLabels, CountLabels
  <1>3. CASE Unfollow(r)
    <2>1. Op(r) = "toggleBlock" /\ pc'[r] # "idle"
      BY <1>0, <1>3 DEF Unfollow, TInv, Walks, Fits, Moves, Walk
    <2>2. QED
      BY <2>1, SameLinks DEF Unblocked
  <1>4. CASE FindLink(r) \/ CheckBlock(r) \/ Log(r) \/ FindRequest(r) \/ FindProfile(r) \/ GetUserProfile(r)
             \/ FindTies(r) \/ Suggest(r)
    <2>1. /\ links' = links /\ profiles' = profiles
          /\ pc[r] \in {"idle", "blocked?", "log", "candidates"}
          /\ pc'[r] \in {"drop", "blocked?", "unfollow", "link", "ok", "answer", "profile", "candidates"}
      BY <1>0, <1>4, Goes DEF FindLink, CheckBlock, Log, FindRequest, FindProfile, GetUserProfile,
         FindTies, Suggest, linkVars, Labels, LinkLabels
    <2>2. QED
      BY <1>0, <1>1, <2>1, SameTies DEF CountLabels
  <1>5. QED
    BY <1>0, <1>1, <1>2, <1>3, <1>4, LinkTies, DropTies, FollowerTies, FollowingTies, AnswerTies, FriendTies,
       SavedTies DEF ConnectionStep

LEMMA TiesInit ==
  Init => LinkPlaces /\ TiesBalance
  <1> SUFFICES ASSUME Init PROVE LinkPlaces /\ TiesBalance
    OBVIOUS
  <1>1. /\ TInv /\ CallsInit /\ LinksInit
        /\ \A r \in Requests : pc[r] = IF Made(r) THEN "ok" ELSE "idle"
    BY InitTypes DEF Init, CallsInit
  <1>2. ASSUME NEW r \in Requests PROVE Standing(r) /\ Heading(r)
    <2>1. links[r] # NONE => Made(r) /\ Kind(r) # "NONE"
      BY <1>1 DEF LinksInit
    <2>2. Made(r) /\ Kind(r) # "NONE" => By(r) # To(r)
      <3>1. call \in Plans /\ (Kind(r) # "NONE" => Op(r) \in {"toggleFollow", "sendFriendRequest", "toggleBlock"})
        BY <1>1 DEF CallsInit, Kind
      <3>2. Made(r) /\ Kind(r) # "NONE" => By(r) \notin call[r].to /\ call[r].to = {To(r)}
        BY <3>1, SocialAssumption, CallsTyped DEF Made, By, Op, OfUser
      <3>3. QED
        BY <3>2
    <2>3. QED
      BY <1>1, <2>1, <2>2 DEF Standing, Heading, Unlinked
  <1>3. ASSUME NEW u \in People, HasProfile(u) PROVE Balanced(u)
    <2>1. /\ FollowersDue(u) = {} /\ FollowersOver(u) = {} /\ FollowingDue(u) = {} /\ FollowingOver(u) = {}
          /\ FriendsDue(u) = {}
      BY <1>1 DEF FollowersDue, FollowersOver, FollowingDue, FollowingOver, FriendsDue, FriendOwed
    <2>2. /\ profiles[u] = [followers |-> Cardinality(FollowersOf(u)),
                            following |-> Cardinality(FollowedBy(u)),
                            friends |-> Cardinality(FriendsOf(u))]
      BY <1>1, <1>3 DEF LinksInit
    <2>3. /\ Cardinality(FollowersOf(u)) \in Nat /\ Cardinality(FollowedBy(u)) \in Nat
          /\ Cardinality(FriendsOf(u)) \in Nat /\ Cardinality({}) = 0
      BY Sized DEF FollowersOf, FollowedBy, FriendsOf
    <2>4. profiles[u] \in Counters
      BY <2>2, <2>3 DEF Counters
    <2>5. profiles[u] # NONE
      BY <2>4, SocialAssumption DEF Rows
    <2>6. QED
      BY <2>1, <2>2, <2>3, <2>5 DEF Balanced, Balance
  <1>4. QED
    BY <1>2, <1>3 DEF LinkPlaces, TiesBalance

LEMMA TiesSettled ==
  TInv /\ TiesBalance => TiesCounted
  <1> SUFFICES ASSUME TInv, TiesBalance, AllWell, stale = {},
                      \A b \in Requests : Op(b) = "toggleBlock" => pc[b] = "idle",
                      NEW u \in People, HasProfile(u)
               PROVE  profiles[u] = [followers |-> Cardinality(FollowersOf(u)),
                                     following |-> Cardinality(FollowedBy(u)),
                                     friends |-> Cardinality(FriendsOf(u))]
    BY DEF TiesCounted
  <1>1. Balanced(u)
    BY DEF TiesBalance, Smooth, Unblocked, AllWell
  <1>2. /\ FollowersDue(u) = {} /\ FollowersOver(u) = {} /\ FollowingDue(u) = {} /\ FollowingOver(u) = {}
        /\ FriendsDue(u) = {}
    BY DEF AllWell, FollowersDue, FollowersOver, FollowingDue, FollowingOver, FriendsDue, FriendOwed
  <1>3. /\ Cardinality(FollowersOf(u)) \in Nat /\ Cardinality(FollowedBy(u)) \in Nat
        /\ Cardinality(FriendsOf(u)) \in Nat /\ Cardinality({}) = 0
    BY Sized DEF FollowersOf, FollowedBy, FriendsOf
  <1>4. profiles[u] \in Counters
    BY <1>1 DEF TInv, TypeOK, Balanced
  <1>5. /\ profiles[u].followers = Cardinality(FollowersOf(u))
        /\ profiles[u].following = Cardinality(FollowedBy(u))
        /\ profiles[u].friends = Cardinality(FriendsOf(u))
    BY <1>1, <1>2, <1>3, <1>4 DEF Balanced, Balance, Counters
  <1>6. QED
    BY <1>4, <1>5 DEF Counters

\* The counters of a profile are the numbers of its follows and friends when
\* all calls have ended well and none has overwritten what it had not seen.
THEOREM TiesHold == Spec => []TiesCounted
  <1> DEFINE I == TInv /\ LinkPlaces /\ TiesBalance
  <1>1. Init => I
    BY InitTypes, TiesInit
  <1>2. I /\ [Next]_vars => I'
    <2> SUFFICES ASSUME I, [Next]_vars PROVE I'
      OBVIOUS
    <2>1. TInv'
      BY TypesStep
    <2>2. CASE Next
      <3>1. PICK r \in Requests : ~Ended(r) /\ Step(r) /\ UNCHANGED call
        BY <2>2 DEF Next
      <3>2. LinkPlaces'
        BY <3>1, LinkPlacesStep
      <3>3. TiesBalance'
        BY <2>1, <3>1, TiesStep
      <3>4. QED
        BY <2>1, <3>2, <3>3
    <2>3. CASE UNCHANGED vars
      <3>1. UNCHANGED <<call, pc, target, seen, stale, links, profiles>>
        BY <2>3 DEF vars, callVars, locals, linkVars
      <3>2. LinkPlaces'
        BY <3>1, SameLinks DEF LinkPlaces, Standing, Heading
      <3>3. TiesBalance'
        <4>1. \A u : /\ FollowersDue(u)' = FollowersDue(u) /\ FollowersOver(u)' = FollowersOver(u)
                     /\ FollowersOf(u)' = FollowersOf(u)
          BY <3>1, TiePlaces DEF FollowersDue, FollowersOver, FollowersOf
        <4>2. \A u : /\ FollowingDue(u)' = FollowingDue(u) /\ FollowingOver(u)' = FollowingOver(u)
                     /\ FollowedBy(u)' = FollowedBy(u)
          BY <3>1, TiePlaces DEF FollowingDue, FollowingOver, FollowedBy
        <4>3. \A u : FriendsDue(u)' = FriendsDue(u)
          BY <3>1, TiePlaces DEF FriendsDue
        <4>4. \A u : FriendsOf(u)' = FriendsOf(u)
          BY <3>1, SameLinks DEF FriendsOf
        <4>5. \A u : Balanced(u)' = Balanced(u)
          BY <3>1, <4>1, <4>2, <4>3, <4>4 DEF Balanced, Balance
        <4>6. QED
          BY <3>1, <4>5, SameLinks DEF TiesBalance, Smooth, Unblocked
      <3>4. QED
        BY <2>1, <3>2, <3>3
    <2>4. QED
      BY <2>2, <2>3
  <1>3. I => TiesCounted
    BY TiesSettled
  <1>4. QED
    BY <1>1, <1>2, <1>3, PTL DEF Spec

----------------------------------------------------------------------------
(* The counters of a group *)

\* A step that is about one request moves each set by one, or not at all.
In(x, S) == IF x \in S THEN 1 ELSE 0

LEMMA OneMoves ==
  ASSUME NEW S \in SUBSET Requests, NEW T \in SUBSET Requests, NEW x,
         \A y \in Requests : y # x => (y \in T <=> y \in S)
  PROVE  /\ Cardinality(S) \in Nat /\ Cardinality(T) \in Nat
         /\ Cardinality(T) + In(x, S) = Cardinality(S) + In(x, T)
  <1>1. Cardinality(S) \in Nat /\ Cardinality(T) \in Nat
    BY Sized
  <1>2. CASE x \in S /\ x \notin T
    <2>1. T = S \ {x}
      BY <1>2
    <2>2. Cardinality(T) = Cardinality(S) - 1
      BY <1>2, <2>1, Sized
    <2>3. QED
      BY <1>1, <1>2, <2>2 DEF In
  <1>3. CASE x \notin S /\ x \in T
    <2>1. T = S \cup {x}
      BY <1>3
    <2>2. Cardinality(T) = Cardinality(S) + 1
      BY <1>3, <2>1, Sized
    <2>3. QED
      BY <1>1, <1>3, <2>2 DEF In
  <1>4. CASE x \in S <=> x \in T
    <2>1. T = S
      BY <1>4
    <2>2. In(x, S) = In(x, T) /\ In(x, S) \in Int
      BY <1>4 DEF In
    <2>3. QED
      BY <1>1, <2>1, <2>2
  <1>5. QED
    BY <1>2, <1>3, <1>4

LEMMA Evened ==
  ASSUME NEW n \in Int, NEW m \in Int, NEW d \in Int, NEW d2 \in Int, NEW w \in Int, NEW w2 \in Int,
         NEW o \in Int, NEW o2 \in Int, NEW id \in Int, NEW id2 \in Int, NEW iw \in Int, NEW iw2 \in Int,
         NEW io \in Int, NEW io2 \in Int,
         d2 + id = d + id2, w2 + iw = w + iw2, o2 + io = o + io2,
         m + id2 + iw + io = n + id + iw2 + io2, n + d = w + o
  PROVE  m + d2 = w2 + o2
  OBVIOUS

\* What the step adds to the counter makes up for what it adds to the sets.
LEMMA Rebalanced ==
  ASSUME NEW n \in Int, NEW m \in Int, NEW x, NEW y,
         NEW due \in SUBSET Requests, NEW due2 \in SUBSET Requests,
         NEW rows \in SUBSET Requests, NEW rows2 \in SUBSET Requests,
         NEW over \in SUBSET Requests, NEW over2 \in SUBSET Requests,
         \A z \in Requests : z # x => (z \in due2 <=> z \in due),
         \A z \in Requests : z # y => (z \in rows2 <=> z \in rows),
         \A z \in Requests : z # x => (z \in over2 <=> z \in over),
         m + In(x, due2) + In(y, rows) + In(x, over) = n + In(x, due) + In(y, rows2) + In(x, over2),
         Balance(n, due, rows, over)
  PROVE  Balance(m, due2, rows2, over2)
  <1>1. /\ Cardinality(due) \in Nat /\ Cardinality(due2) \in Nat
        /\ Cardinality(due2) + In(x, due) = Cardinality(due) + In(x, due2)
    BY OneMoves
  <1>2. /\ Cardinality(rows) \in Nat /\ Cardinality(rows2) \in Nat
        /\ Cardinality(rows2) + In(y, rows) = Cardinality(rows) + In(y, rows2)
    BY OneMoves
  <1>3. /\ Cardinality(over) \in Nat /\ Cardinality(over2) \in Nat
        /\ Cardinality(over2) + In(x, over) = Cardinality(over) + In(x, over2)
    BY OneMoves
  <1>4. /\ In(x, due) \in Int /\ In(x, due2) \in Int /\ In(y, rows) \in Int /\ In(y, rows2) \in Int
        /\ In(x, over) \in Int /\ In(x, over2) \in Int
    BY DEF In
  <1>5. n + Cardinality(due) = Cardinality(rows) + Cardinality(over)
    BY DEF Balance
  <1> DEFINE d == Cardinality(due)      d2 == Cardinality(due2)
             w == Cardinality(rows)     w2 == Cardinality(rows2)
             o == Cardinality(over)     o2 == Cardinality(over2)
             id == In(x, due)           id2 == In(x, due2)
             iw == In(y, rows)          iw2 == In(y, rows2)
             io == In(x, over)          io2 == In(x, over2)
  <1>6. /\ d \in Int /\ d2 \in Int /\ w \in Int /\ w2 \in Int /\ o \in Int /\ o2 \in Int
        /\ id \in Int /\ id2 \in Int /\ iw \in Int /\ iw2 \in Int /\ io \in Int /\ io2 \in Int
    BY <1>1, <1>2, <1>3, <1>4
  <1>7. /\ d2 + id = d + id2 /\ w2 + iw = w + iw2 /\ o2 + io = o + io2
        /\ m + id2 + iw + io = n + id + iw2 + io2 /\ n + d = w + o
    BY <1>1, <1>2, <1>3, <1>5
  <1> HIDE DEF d, d2, w, w2, o, o2, id, id2, iw, iw2, io, io2
  <1>8. m + d2 = w2 + o2
    BY <1>6, <1>7, Evened
  <1>9. QED
    BY <1>8 DEF Balance, d2, w2, o2

\* Where the rows of a group come from, and what a call knows of them.
MakesMember == {"createGroup", "joinGroup"}
Grouped == MakesMember \cup MemberOps \cup ReviewOps \cup {"createGroupPost"}
Approval(p) == IF posts[p] = NONE THEN "NONE" ELSE posts[p].approval
Seated(r) ==
  /\ members[r] # NONE =>
       Op(r) \in MakesMember /\ pc[r] \notin {"idle", "slug", "group", "owner", "join"}
  /\ groups[r] # NONE <=> Op(r) = "createGroup" /\ pc[r] \notin {"idle", "slug", "group"}
  /\ Op(r) \in Grouped \ {"createGroup"} /\ pc[r] \notin {"idle", "member"} =>
       GroupOf(r) \in Requests /\ groups[GroupOf(r)] # NONE
  /\ Approval(r) # "NONE" => Op(r) = "createGroupPost"
Holding(r) ==
  /\ pc[r] = "group" => seen[r].members = 1 /\ seen[r].posts = 0
  /\ pc[r] = "member_row" =>
       /\ target[r] \in Requests /\ GroupOf(target[r]) = On(r) /\ Op(target[r]) \in MakesMember
       /\ seen[r].status \in Wanted(r)
  /\ pc[r] = "review" => seen[r].approval = "PENDING"
GroupPlaces == Smooth => \A r \in Requests : Seated(r) /\ Holding(r)

\* What a group has still to be told.
MemberDue(r, g, label) ==
  label = "count_member" /\ Op(r) \in {"joinGroup", "approveMember"} /\ On(r) = g
MemberOver(r, g, label) ==
  \/ label = "count_member" /\ Op(r) \in {"leaveGroup", "removeMember"} /\ On(r) = g
  \/ label = "owner" /\ r = g
PostDue(r, g, label) == label = "count_post" /\ GroupOf(r) = g
MembersDue(g) == {r \in Requests : MemberDue(r, g, pc[r])}
MembersOver(g) == {r \in Requests : MemberOver(r, g, pc[r])}
PostsDue(g) == {r \in Requests : PostDue(r, g, pc[r])}
GroupBalanced(g) ==
  /\ Balance(groups[g].members, MembersDue(g), ActiveMembers(g), MembersOver(g))
  /\ Balance(groups[g].posts, PostsDue(g), ApprovedPosts(g), {})
GroupsBalance == Smooth => \A g \in Requests : groups[g] # NONE => GroupBalanced(g)

SameApprovals == \A p \in Requests : Approval(p)' = Approval(p)

LEMMA SameGroups ==
  ASSUME UNCHANGED call
  PROVE  \A q : /\ GroupOf(q)' = GroupOf(q) /\ On(q)' = On(q) /\ Op(q)' = Op(q) /\ By(q)' = By(q)
                /\ To(q)' = To(q) /\ Arg(q)' = Arg(q) /\ Wanted(q)' = Wanted(q)
                /\ \A g, label : /\ MemberDue(q, g, label)' = MemberDue(q, g, label)
                                 /\ MemberOver(q, g, label)' = MemberOver(q, g, label)
                                 /\ PostDue(q, g, label)' = PostDue(q, g, label)
  <1>1. \A q : /\ On(q)' = On(q) /\ Op(q)' = Op(q) /\ By(q)' = By(q) /\ To(q)' = To(q) /\ Arg(q)' = Arg(q)
    BY DEF On, Op, By, To, Arg
  <1>2. \A q : GroupOf(q)' = GroupOf(q) /\ Wanted(q)' = Wanted(q)
    BY <1>1 DEF GroupOf, Wanted
  <1>3. QED
    BY <1>1, <1>2 DEF MemberDue, MemberOver, PostDue

LEMMA GroupSets ==
  ASSUME UNCHANGED call, NEW g
  PROVE  /\ \A q : q \in MembersDue(g)' <=> q \in Requests /\ MemberDue(q, g, pc'[q])
         /\ \A q : q \in MembersOver(g)' <=> q \in Requests /\ MemberOver(q, g, pc'[q])
         /\ \A q : q \in PostsDue(g)' <=> q \in Requests /\ PostDue(q, g, pc'[q])
         /\ \A m : m \in ActiveMembers(g)' <=>
              m \in Requests /\ members'[m] # NONE /\ GroupOf(m) = g /\ members'[m].status = "ACTIVE"
         /\ \A p : p \in ApprovedPosts(g)' <=>
              p \in Requests /\ Op(p) = "createGroupPost" /\ On(p) = g /\ Approval(p)' = "APPROVED"
         /\ \A p : p \in ApprovedPosts(g) <=>
              p \in Requests /\ Op(p) = "createGroupPost" /\ On(p) = g /\ Approval(p) = "APPROVED"
  <1>1. \A q : q \in MembersDue(g)' <=> q \in Requests /\ MemberDue(q, g, pc'[q])
    BY SameGroups DEF MembersDue, MemberDue
  <1>2. \A q : q \in MembersOver(g)' <=> q \in Requests /\ MemberOver(q, g, pc'[q])
    BY SameGroups DEF MembersOver, MemberOver
  <1>3. \A q : q \in PostsDue(g)' <=> q \in Requests /\ PostDue(q, g, pc'[q])
    BY SameGroups DEF PostsDue, PostDue
  <1>4. \A m : m \in ActiveMembers(g)' <=>
           m \in Requests /\ members'[m] # NONE /\ GroupOf(m) = g /\ members'[m].status = "ACTIVE"
    BY SameGroups DEF ActiveMembers
  <1>5. \A p : p \in ApprovedPosts(g)' <=>
           p \in Requests /\ Op(p) = "createGroupPost" /\ On(p) = g /\ Approval(p)' = "APPROVED"
    BY SameGroups DEF ApprovedPosts, Approval
  <1>6. \A p : p \in ApprovedPosts(g) <=>
           p \in Requests /\ Op(p) = "createGroupPost" /\ On(p) = g /\ Approval(p) = "APPROVED"
    BY DEF ApprovedPosts, Approval
  <1>7. QED
    BY <1>1, <1>2, <1>3, <1>4, <1>5, <1>6

\* A step of r that changes one membership and the approval of one post.
LEMMA GroupTies ==
  ASSUME TInv, TInv', UNCHANGED call, NEW r \in Requests, Moves(r), NEW g \in Requests,
         groups[g] # NONE, groups'[g] # NONE, NEW m, NEW p,
         \A q \in Requests : q # m => members'[q] = members[q],
         \A q \in Requests : q # p => Approval(q)' = Approval(q),
         groups'[g].members + In(r, MembersDue(g)') + In(m, ActiveMembers(g)) + In(r, MembersOver(g))
           = groups[g].members + In(r, MembersDue(g)) + In(m, ActiveMembers(g)') + In(r, MembersOver(g)'),
         groups'[g].posts + In(r, PostsDue(g)') + In(p, ApprovedPosts(g))
           = groups[g].posts + In(r, PostsDue(g)) + In(p, ApprovedPosts(g)'),
         GroupBalanced(g)
  PROVE  GroupBalanced(g)'
  <1>1. /\ groups[g].members \in Int /\ groups'[g].members \in Int
        /\ groups[g].posts \in Int /\ groups'[g].posts \in Int
    BY DEF TInv, TypeOK, GroupRows
  <1>2. \A q \in Requests : q # r => pc'[q] = pc[q]
    BY DEF Moves, Walk
  <1>3. /\ MembersDue(g) \subseteq Requests /\ MembersDue(g)' \subseteq Requests
        /\ MembersOver(g) \subseteq Requests /\ MembersOver(g)' \subseteq Requests
        /\ PostsDue(g) \subseteq Requests /\ PostsDue(g)' \subseteq Requests
        /\ ActiveMembers(g) \subseteq Requests /\ ActiveMembers(g)' \subseteq Requests
        /\ ApprovedPosts(g) \subseteq Requests /\ ApprovedPosts(g)' \subseteq Requests
    BY GroupSets DEF MembersDue, MembersOver, PostsDue, ActiveMembers, ApprovedPosts
  <1>4. /\ \A z \in Requests : z # r => (z \in MembersDue(g)' <=> z \in MembersDue(g))
        /\ \A z \in Requests : z # r => (z \in MembersOver(g)' <=> z \in MembersOver(g))
        /\ \A z \in Requests : z # r => (z \in PostsDue(g)' <=> z \in PostsDue(g))
    BY <1>2, GroupSets DEF MembersDue, MembersOver, PostsDue
  <1>5. \A z \in Requests : z # m => (z \in ActiveMembers(g)' <=> z \in ActiveMembers(g))
    BY GroupSets DEF ActiveMembers
  <1>6. \A z \in Requests : z # p => (z \in ApprovedPosts(g)' <=> z \in ApprovedPosts(g))
    BY GroupSets
  <1>7. Balance(groups'[g].members, MembersDue(g)', ActiveMembers(g)', MembersOver(g)')
    BY <1>1, <1>3, <1>4, <1>5, Rebalanced DEF GroupBalanced
  <1>8. Balance(groups'[g].posts, PostsDue(g)', ApprovedPosts(g)', {})
    <2>1. In(r, {}) = 0 /\ {} \in SUBSET Requests
      BY DEF In
    <2>2. /\ In(r, PostsDue(g)) \in Int /\ In(r, PostsDue(g)') \in Int
          /\ In(p, ApprovedPosts(g)) \in Int /\ In(p, ApprovedPosts(g)') \in Int
      BY DEF In
    <2>3. groups'[g].posts + In(r, PostsDue(g)') + In(p, ApprovedPosts(g)) + In(r, {})
           = groups[g].posts + In(r, PostsDue(g)) + In(p, ApprovedPosts(g)') + In(r, {})
      BY <1>1, <2>1, <2>2
    <2>4. QED
      BY <1>1, <1>3, <1>4, <1>6, <2>1, <2>3, Rebalanced DEF GroupBalanced
  <1>9. QED
    BY <1>7, <1>8 DEF GroupBalanced

GroupPcs == {"slug", "group", "owner", "join", "member", "member_row", "count_member",
             "group_post", "count_post", "pending_post", "review"}

LEMMA BumpApprovals ==
  ASSUME TInv, NEW x, NEW n \in Int, NEW counter \in {"likes", "comments", "shares", "views"},
         posts' = Bump(posts, x, counter, n)
  PROVE  SameApprovals
  <1>1. \A row \in PostRows : /\ [row EXCEPT ![counter] = row[counter] + n].approval = row.approval
                              /\ [row EXCEPT ![counter] = row[counter] + n] \in PostRows
    BY DEF PostRows
  <1>2. NONE \notin PostRows
    BY SocialAssumption DEF Rows
  <1>3. CASE posts[x] = NONE
    BY <1>3 DEF Bump, SameApprovals, Approval
  <1>4. CASE posts[x] # NONE
    <2> DEFINE row == [posts[x] EXCEPT ![counter] = posts[x][counter] + n]
    <2>1. posts' = [posts EXCEPT ![x] = row]
      BY <1>4 DEF Bump
    <2>2. x \in Requests => row \in PostRows /\ row.approval = posts[x].approval
      BY <1>1, <1>4 DEF TInv, TypeOK
    <2> HIDE DEF row
    <2>3. QED
      BY <1>2, <1>4, <2>1, <2>2 DEF TInv, TypeOK, SameApprovals, Approval
  <1>5. QED
    BY <1>3, <1>4

LEMMA InsertApproval ==
  ASSUME TInv, PostsGone, NEW r \in Requests, pc[r] \in {"idle", "repost", "group_post"},
         NEW approval \in Approvals, posts' = [posts EXCEPT ![r] = NewPost(approval)]
  PROVE  /\ \A q \in Requests : q # r => Approval(q)' = Approval(q)
         /\ Approval(r) = "NONE" /\ Approval(r)' = approval
  <1>1. posts[r] = NONE
    BY DEF PostsGone
  <1>2. NewPost(approval) \in PostRows /\ NewPost(approval).approval = approval
    BY DEF NewPost, PostRows
  <1>3. posts'[r] = NewPost(approval) /\ posts'[r] # NONE
    BY <1>2, SocialAssumption DEF TInv, TypeOK, Rows
  <1>4. \A q \in Requests : q # r => posts'[q] = posts[q]
    BY DEF TInv, TypeOK
  <1>5. QED
    BY <1>1, <1>2, <1>3, <1>4 DEF Approval

LEMMA ContentApprovals ==
  ASSUME TInv, PostsGone, NEW r \in Requests, ContentStep(r), stale' = {}
  PROVE  SameApprovals
  <1>1. CASE InsertPost(r) \/ (Repost(r) /\ pc[r] = "repost")
    <2>1. posts' = [posts EXCEPT ![r] = NewPost("NONE")] /\ pc[r] \in {"idle", "repost"}
      BY <1>1 DEF InsertPost, Repost
    <2>2. "NONE" \in Approvals
      BY DEF Approvals
    <2>3. QED
      BY <2>1, <2>2, InsertApproval DEF SameApprovals
  <1>2. CASE Repost(r) /\ pc[r] = "share"
    BY <1>2, BumpApprovals DEF Repost
  <1>3. CASE DeletePost(r)
    <2>1. On(r) \in Requests /\ target[r] = On(r) /\ seen[r] \in PostRows
      BY <1>3, RowNamed DEF DeletePost, TInv, Walks, Carries
    <2>2. posts[On(r)] = seen[r]
      BY <1>3, <2>1 DEF DeletePost, Writes
    <2>3. posts' = [posts EXCEPT ![On(r)] = [seen[r] EXCEPT !.deleted = TRUE]]
      BY <1>3, <2>1 DEF DeletePost
    <2>4. [seen[r] EXCEPT !.deleted = TRUE] \in PostRows /\ [seen[r] EXCEPT !.deleted = TRUE].approval = seen[r].approval
      BY <2>1 DEF PostRows
    <2> DEFINE row == [seen[r] EXCEPT !.deleted = TRUE]
    <2>5. posts' = [posts EXCEPT ![On(r)] = row] /\ row \in PostRows /\ row.approval = seen[r].approval
      BY <2>3, <2>4
    <2> HIDE DEF row
    <2>6. posts'[On(r)] = row /\ \A q \in Requests : q # On(r) => posts'[q] = posts[q]
      BY <2>1, <2>5 DEF TInv, TypeOK
    <2>7. row # NONE /\ seen[r] # NONE
      BY <2>1, <2>5, SocialAssumption DEF Rows
    <2>8. QED
      BY <2>2, <2>5, <2>6, <2>7 DEF SameApprovals, Approval
  <1>4. CASE CountComment(r)
    BY <1>4, BumpApprovals DEF CountComment
  <1>5. CASE UncountComment(r)
    BY <1>5, BumpApprovals DEF UncountComment
  <1>6. CASE CountLike(r)
    BY <1>6, BumpApprovals DEF CountLike, SameApprovals, Approval
  <1>7. ASSUME posts' = posts PROVE SameApprovals
    BY <1>7 DEF SameApprovals, Approval
  <1>8. CASE SaveMedia(r) \/ SaveTags(r) \/ Unindex(r) \/ Index(r) \/ FindOwnPost(r)
             \/ DeleteDocuments(r) \/ FindOriginal(r)
    BY <1>7, <1>8 DEF SaveMedia, SaveTags, Unindex, Index, FindOwnPost, DeleteDocuments, FindOriginal, contentVars
  <1>9. CASE FindPost(r) \/ InsertComment(r) \/ CountReply(r) \/ SaveMentions(r) \/ FindOwnComment(r)
             \/ DeleteComment(r) \/ UncountReply(r)
    BY <1>7, <1>9 DEF FindPost, InsertComment, CountReply, SaveMentions, FindOwnComment, DeleteComment,
       UncountReply, contentVars
  <1>10. CASE FindTarget(r) \/ FindReaction(r) \/ Unreact(r) \/ Rereact(r) \/ React(r) \/ FindOwner(r)
    BY <1>7, <1>10 DEF FindTarget, FindReaction, Unreact, Rereact, React, FindOwner, contentVars
  <1>11. CASE CreateStory(r) \/ FindStory(r) \/ ViewStory(r) \/ DeleteStory(r) \/ CleanStories(r)
    BY <1>7, <1>11 DEF CreateStory, FindStory, ViewStory, DeleteStory, CleanStories, contentVars
  <1>12. CASE Repost(r)
    BY <1>1, <1>2, <1>12 DEF Repost
  <1>13. QED
    BY <1>1, <1>3, <1>4, <1>5, <1>6, <1>8, <1>9, <1>10, <1>11, <1>12 DEF ContentStep

LEMMA FeedApprovals ==
  ASSUME TInv, NEW r \in Requests, FeedStep(r)
  PROVE  SameApprovals
  <1>1. CASE posts' = posts
    BY <1>1 DEF SameApprovals, Approval
  <1>2. CASE CountView(r)
    BY <1>1, <1>2, BumpApprovals DEF CountView
  <1>3. CASE Attach(r)
    BY <1>1, <1>3 DEF Attach
  <1>4. QED
    BY <1>1, <1>2, <1>3 DEF FeedStep

\* A step outside of the groups.
Outlying(r) ==
  /\ Moves(r) /\ groups' = groups /\ members' = members /\ SameApprovals
  /\ pc[r] \notin GroupPcs /\ pc'[r] \notin GroupPcs
  /\ pc[r] = "idle" => Op(r) \notin Grouped

LEMMA SmoothSoFar ==
  ASSUME NEW r \in Requests, ~Ended(r), Moves(r), Smooth'
  PROVE  Smooth /\ stale' = {} /\ pc'[r] # "failed"
  BY DEF Smooth, Ended, Moves, Walk, Hands

LEMMA FarSteps ==
  ASSUME TInv, PostsGone, UNCHANGED call, NEW r \in Requests, Step(r), Smooth',
         ~MembershipStep(r), ~GroupPostStep(r)
  PROVE  Outlying(r)
  <1>0. stale' = {} /\ pc'[r] # "failed"
    BY DEF Smooth
  <1>1. ASSUME posts' = posts PROVE SameApprovals
    BY <1>1 DEF SameApprovals, Approval
  <1> USE DEF Outlying, GroupPcs, Grouped, MakesMember, MemberOps, ReviewOps
  <1>2. CASE ConnectionStep(r) /\ UNCHANGED <<contentVars, groupVars>>
    BY <1>1, <1>2, ConnectionRoute, ConnectionMoves
       DEF contentVars, groupVars, LinkLabels, ConnectionOps, ProfileOps, DiscoveryOps
  <1>3. CASE NoticeStep(r) /\ UNCHANGED <<contentVars, groupVars>>
    BY <1>1, <1>3, NoticeRoute, NoticeMoves DEF contentVars, groupVars, NoticeOps
  <1>4. CASE ContentStep(r) /\ UNCHANGED groupVars
    BY <1>0, <1>4, ContentRoute, ContentMoves, ContentApprovals
       DEF groupVars, ContentLabels, ContentOps, PostOps, CommentOps, ReactionOps, StoryOps
  <1>5. CASE FeedStep(r) /\ UNCHANGED groupVars
    BY <1>5, FeedRoute, FeedMoves, FeedApprovals DEF groupVars, FeedLabels, FeedOps, NewsfeedOps
  <1>6. CASE MessagingStep(r) /\ UNCHANGED <<contentVars, groupVars>>
    BY <1>1, <1>6, MessagingRoute, MessagingMoves DEF contentVars, groupVars, TalkLabels, TalkOps, TalkMakers, PartOps
  <1>7. CASE (ListStep(r) \/ ListMessages(r)) /\ UNCHANGED <<contentVars, groupVars>>
    BY <1>1, <1>7, ListRoute, ListMoves, OtherMoves DEF contentVars, groupVars, Selections
  <1>8. ~Fails(r)
    BY <1>0, FailRoute
  <1>9. QED
    BY <1>2, <1>3, <1>4, <1>5, <1>6, <1>7, <1>8 DEF Step

\* The calls that a step of r does not move keep their place.
LEMMA Seats ==
  ASSUME TInv, UNCHANGED call, NEW r \in Requests, Moves(r), Smooth, GroupPlaces,
         \A g \in Requests : groups[g] # NONE => groups'[g] # NONE,
         \A g \in Requests : g # r /\ groups'[g] # NONE => groups[g] # NONE,
         \A m \in Requests : m # r /\ members'[m] # NONE => members[m] # NONE,
         \A p \in Requests : p # r /\ Approval(p)' # "NONE" => Approval(p) # "NONE",
         Seated(r)', Holding(r)'
  PROVE  GroupPlaces'
  <1>1. ASSUME NEW q \in Requests, q # r PROVE Seated(q)' /\ Holding(q)'
    <2>1. pc'[q] = pc[q] /\ target'[q] = target[q] /\ seen'[q] = seen[q]
      BY <1>1 DEF Moves, Walk, Hands
    <2>2. Seated(q) /\ Holding(q)
      BY DEF GroupPlaces
    <2>3. Seated(q)'
      BY <1>1, <2>1, <2>2, SameGroups DEF Seated
    <2>4. Holding(q)'
      BY <2>1, <2>2, SameGroups DEF Holding
    <2>5. QED
      BY <2>3, <2>4
  <1>2. QED
    BY <1>1 DEF GroupPlaces

LEMMA FarPlaces ==
  ASSUME TInv, UNCHANGED call, NEW r \in Requests, Outlying(r), Smooth, GroupPlaces
  PROVE  GroupPlaces'
  <1>1. Seated(r) /\ Holding(r)
    BY DEF GroupPlaces
  <1>2. Seated(r)'
    BY <1>1, SameGroups DEF Seated, Outlying, SameApprovals, GroupPcs, Grouped, MakesMember, Moves, Walk
  <1>3. Holding(r)'
    BY SameGroups DEF Holding, Outlying, GroupPcs
  <1>4. QED
    BY <1>2, <1>3, Seats DEF Outlying, SameApprovals

LEMMA FarTies ==
  ASSUME TInv, TInv', UNCHANGED call, NEW r \in Requests, Outlying(r), NEW g \in Requests, groups[g] # NONE,
         GroupBalanced(g)
  PROVE  GroupBalanced(g)'
  <1>1. /\ r \notin MembersDue(g) /\ r \notin MembersOver(g) /\ r \notin PostsDue(g)
        /\ r \notin MembersDue(g)' /\ r \notin MembersOver(g)' /\ r \notin PostsDue(g)'
    BY GroupSets DEF Outlying, GroupPcs, MembersDue, MembersOver, PostsDue, MemberDue, MemberOver, PostDue
  <1>2. r \in ActiveMembers(g)' <=> r \in ActiveMembers(g)
    BY GroupSets DEF Outlying, ActiveMembers
  <1>3. r \in ApprovedPosts(g)' <=> r \in ApprovedPosts(g)
    BY GroupSets DEF Outlying, SameApprovals
  <1>4. groups[g].members \in Int /\ groups[g].posts \in Int /\ groups' = groups
    BY DEF TInv, TypeOK, GroupRows, Outlying
  <1>5. /\ groups'[g].members + In(r, MembersDue(g)') + In(r, ActiveMembers(g)) + In(r, MembersOver(g))
             = groups[g].members + In(r, MembersDue(g)) + In(r, ActiveMembers(g)') + In(r, MembersOver(g)')
        /\ groups'[g].posts + In(r, PostsDue(g)') + In(r, ApprovedPosts(g))
             = groups[g].posts + In(r, PostsDue(g)) + In(r, ApprovedPosts(g)')
    BY <1>1, <1>2, <1>3, <1>4 DEF In
  <1>6. QED
    BY <1>4, <1>5, GroupTies DEF Outlying, SameApprovals

LEMMA GroupThere ==
  ASSUME TInv, Smooth, GroupPlaces, NEW m \in Requests, members[m] # NONE
  PROVE  Op(m) \in MakesMember /\ GroupOf(m) \in Requests /\ groups[GroupOf(m)] # NONE
  <1>1. Seated(m) /\ Op(m) \in MakesMember /\ pc[m] \notin {"idle", "slug", "group", "owner", "join", "member"}
    <2>1. Seated(m) /\ Op(m) \in MakesMember
      BY DEF GroupPlaces, Seated
    <2>2. pc[m] # "member"
      BY <2>1 DEF MakesMember, MemberOps, TInv, Walks, Fits
    <2>3. QED
      BY <2>1, <2>2 DEF Seated
  <1>2. CASE Op(m) = "createGroup"
    BY <1>1, <1>2 DEF Seated, GroupOf, ReviewOps
  <1>3. CASE Op(m) = "joinGroup"
    BY <1>1, <1>3 DEF Seated, Grouped, MakesMember
  <1>4. QED
    BY <1>1, <1>2, <1>3 DEF MakesMember

LEMMA GroupBumped ==
  ASSUME TInv, NEW x, NEW n \in Int, NEW counter \in {"members", "posts"}, groups' = Bump(groups, x, counter, n)
  PROVE  \A g \in Requests :
           /\ groups'[g] # NONE <=> groups[g] # NONE
           /\ groups[g] # NONE =>
                /\ groups'[g].members =
                     IF g = x /\ counter = "members" THEN groups[g].members + n ELSE groups[g].members
                /\ groups'[g].posts =
                     IF g = x /\ counter = "posts" THEN groups[g].posts + n ELSE groups[g].posts
  <1>1. \A row \in GroupRows :
          LET new == [row EXCEPT ![counter] = row[counter] + n] IN
          /\ new \in GroupRows
          /\ new.members = IF counter = "members" THEN row.members + n ELSE row.members
          /\ new.posts = IF counter = "posts" THEN row.posts + n ELSE row.posts
    BY DEF GroupRows
  <1>2. NONE \notin GroupRows
    BY SocialAssumption DEF Rows
  <1>3. CASE groups[x] = NONE
    BY <1>3 DEF Bump
  <1>4. CASE groups[x] # NONE
    <2> DEFINE row == [groups[x] EXCEPT ![counter] = groups[x][counter] + n]
    <2>1. groups' = [groups EXCEPT ![x] = row]
      BY <1>4 DEF Bump
    <2>2. x \in Requests =>
            /\ row \in GroupRows
            /\ row.members = IF counter = "members" THEN groups[x].members + n ELSE groups[x].members
            /\ row.posts = IF counter = "posts" THEN groups[x].posts + n ELSE groups[x].posts
      BY <1>1, <1>4 DEF TInv, TypeOK
    <2> HIDE DEF row
    <2>3. \A g \in Requests : groups'[g] = IF g = x THEN row ELSE groups[g]
      BY <2>1 DEF TInv, TypeOK
    <2>4. QED
      BY <1>2, <1>4, <2>2, <2>3
  <1>5. QED
    BY <1>3, <1>4

\* What is saved is what was read, changed.
LEMMA MemberSaved ==
  ASSUME TInv, NEW r \in Requests, SaveMember(r), stale' = {}, Holding(r)
  PROVE  /\ target[r] \in Requests /\ members[target[r]] = seen[r] /\ seen[r] # NONE
         /\ seen[r] \in MemberRows
         /\ members'[target[r]] = Changed(r)
         /\ \A m \in Requests : m # target[r] => members'[m] = members[m]
  <1>1. target[r] \in Requests /\ seen[r] \in MemberRows
    BY DEF SaveMember, Holding, TInv, Walks, Carries
  <1>2. members[target[r]] = seen[r]
    BY DEF SaveMember, Writes
  <1>3. seen[r] # NONE
    BY <1>1, SocialAssumption DEF Rows
  <1>4. QED
    BY <1>1, <1>2, <1>3 DEF SaveMember, TInv, TypeOK

LEMMA MembershipPlaces ==
  ASSUME TInv, UNCHANGED call, NEW r \in Requests, MembershipStep(r), posts' = posts, Smooth, Smooth', GroupPlaces
  PROVE  GroupPlaces'
  <1>0. /\ TypeOK /\ Moves(r) /\ Seated(r) /\ Holding(r) /\ Fits(Op(r), pc[r])
        /\ stale' = {} /\ pc'[r] # "idle"
    BY MembershipMoves DEF TInv, Walks, GroupPlaces, Smooth, Moves, Walk
  <1>1. \A p \in Requests : Approval(p)' = Approval(p)
    BY DEF Approval
  <1> USE DEF Labels, GroupLabels, NoticeLabels
  <1>2. CASE FindSlug(r)
    <2>1. /\ groups' = groups /\ members' = members /\ Op(r) = "createGroup"
          /\ pc[r] \in {"idle", "slug"} /\ pc'[r] \in {"slug", "group"}
      BY <1>0, <1>2, Goes DEF FindSlug, groupVars
    <2>2. seen'[r].members = 1 /\ seen'[r].posts = 0
      <3>1. \E n : seen' = [seen EXCEPT ![r] = [slug |-> n, members |-> 1, posts |-> 0]]
        BY <1>2 DEF FindSlug, Reads
      <3>2. QED
        BY <1>0, <3>1 DEF TypeOK
    <2>3. Seated(r)'
      BY <1>0, <1>1, <2>1, SameGroups DEF Seated
    <2>4. Holding(r)'
      BY <2>1, <2>2 DEF Holding
    <2>5. QED
      BY <1>0, <1>1, <2>1, <2>3, <2>4, Seats
  <1>3. CASE InsertGroup(r)
    <2>1. /\ members' = members /\ pc[r] = "group" /\ pc'[r] = "owner" /\ Op(r) = "createGroup"
          /\ seen[r] \in GroupRows
      BY <1>0, <1>3, Goes DEF InsertGroup, Fits, TInv, Walks, Carries
    <2>2. groups'[r] # NONE /\ \A g \in Requests : g # r => groups'[g] = groups[g]
      BY <1>0, <1>3, <2>1, SocialAssumption DEF InsertGroup, TypeOK, Rows
    <2>3. Seated(r)'
      BY <1>0, <1>1, <2>1, <2>2, SameGroups DEF Seated
    <2>4. Holding(r)'
      BY <2>1 DEF Holding
    <2>5. QED
      BY <1>0, <1>1, <2>1, <2>2, <2>3, <2>4, Seats
  <1>4. CASE InsertOwner(r)
    <2>1. /\ groups' = groups /\ pc[r] = "owner" /\ pc'[r] = "ok" /\ Op(r) = "createGroup"
          /\ \A m \in Requests : m # r => members'[m] = members[m]
      BY <1>0, <1>4, Goes DEF InsertOwner, Fits, TypeOK
    <2>2. Seated(r)'
      BY <1>0, <1>1, <2>1, SameGroups DEF Seated, MakesMember
    <2>3. Holding(r)'
      BY <2>1 DEF Holding
    <2>4. QED
      BY <1>0, <1>1, <2>1, <2>2, <2>3, Seats
  <1>5. CASE JoinGroup(r)
    <2>1. /\ groups' = groups /\ members' = members /\ pc[r] = "idle" /\ pc'[r] \in {"join", "ok"}
          /\ Op(r) = "joinGroup" /\ On(r) \in Requests /\ groups[On(r)] # NONE /\ GroupOf(r) = On(r)
      BY <1>0, <1>5, Goes, CallsTyped DEF JoinGroup, groupVars, GroupOf, TypeOK, OfRow, ReviewOps
    <2>2. Seated(r)'
      BY <1>0, <1>1, <2>1, SameGroups DEF Seated
    <2>3. Holding(r)'
      BY <2>1 DEF Holding
    <2>4. QED
      BY <1>0, <1>1, <2>1, <2>2, <2>3, Seats
  <1>6. CASE InsertMember(r)
    <2>1. /\ groups' = groups /\ pc[r] = "join" /\ pc'[r] \in {"count_member", "moderators"}
          /\ Op(r) = "joinGroup" /\ \A m \in Requests : m # r => members'[m] = members[m]
      BY <1>0, <1>6, Goes DEF InsertMember, Fits, TypeOK
    <2>2. Seated(r)'
      BY <1>0, <1>1, <2>1, SameGroups DEF Seated, MakesMember
    <2>3. Holding(r)'
      BY <2>1 DEF Holding
    <2>4. QED
      BY <1>0, <1>1, <2>1, <2>2, <2>3, Seats
  <1>7. CASE FindModerators(r)
    <2>1. /\ groups' = groups /\ members' = members /\ pc[r] = "moderators" /\ pc'[r] = "notify"
          /\ Op(r) \in {"joinGroup", "createGroupPost"}
      BY <1>0, <1>7, Goes DEF FindModerators, groupVars, Fits
    <2>2. Seated(r)'
      BY <1>0, <1>1, <2>1, SameGroups DEF Seated
    <2>3. Holding(r)'
      BY <2>1 DEF Holding
    <2>4. QED
      BY <1>0, <1>1, <2>1, <2>2, <2>3, Seats
  <1>8. CASE Authorize(r)
    <2>1. /\ groups' = groups /\ members' = members /\ pc[r] = "idle"
          /\ pc'[r] \in {"member", "pending_post", "group_post", "members", "posts"}
          /\ Op(r) \in MemberOps => pc'[r] = "member"
          /\ Op(r) \in (MemberOps \ {"leaveGroup"}) \cup ReviewOps
                       \cup {"createGroupPost", "listGroupPosts", "listMembers"}
      <3> DEFINE label == CASE Op(r) \in MemberOps -> "member"
                            [] Op(r) \in ReviewOps -> "pending_post"
                            [] Op(r) = "createGroupPost" -> "group_post"
                            [] Op(r) = "listMembers" -> "members"
                            [] OTHER -> "posts"
      <3>1. /\ label \in {"member", "pending_post", "group_post", "members", "posts"}
            /\ Op(r) \in MemberOps => label = "member"
        BY DEF MemberOps, ReviewOps
      <3>2. Goto(r, label)
        BY <1>8 DEF Authorize
      <3> HIDE DEF label
      <3>3. pc'[r] = label
        BY <1>0, <3>1, <3>2, Goes
      <3>4. QED
        BY <1>8, <3>1, <3>3 DEF Authorize, groupVars
    <2>2. pc'[r] # "member" => GroupOf(r) \in Requests /\ groups[GroupOf(r)] # NONE
      <3>1. pc'[r] # "member" => \E m \in Requests : members[m] # NONE /\ GroupOf(m) = GroupOf(r)
        BY <1>8, <2>1 DEF Authorize, Authorizing, Membership, MemberOps
      <3>2. QED
        BY <3>1, GroupThere
    <2>3. Seated(r)'
      BY <1>0, <1>1, <2>1, <2>2, SameGroups DEF Seated, MemberOps, ReviewOps
    <2>4. Holding(r)'
      BY <2>1 DEF Holding
    <2>5. QED
      BY <1>0, <1>1, <2>1, <2>3, <2>4, Seats
  <1>9. CASE FindMember(r)
    <2>1. /\ groups' = groups /\ members' = members /\ pc[r] \in {"idle", "member"} /\ pc'[r] = "member_row"
          /\ Op(r) \in MemberOps /\ GroupOf(r) = On(r)
      BY <1>0, <1>9, Goes DEF FindMember, groupVars, GroupOf, MemberOps, ReviewOps
    <2>2. PICK m \in Membership(On(r), Subject(r)) :
             members[m].status \in Wanted(r) /\ Reads(r, m, members[m])
      BY <1>9 DEF FindMember
    <2>3. m \in Requests /\ members[m] # NONE /\ GroupOf(m) = On(r)
      BY <2>2 DEF Membership
    <2>4. Op(m) \in MakesMember /\ On(r) \in Requests /\ groups[On(r)] # NONE
      BY <2>3, GroupThere
    <2>5. target'[r] = m /\ seen'[r] = members[m]
      BY <1>0, <2>2 DEF Reads, TypeOK
    <2>6. Seated(r)'
      BY <1>0, <1>1, <2>1, <2>4, SameGroups DEF Seated, MemberOps
    <2>7. Holding(r)'
      BY <2>1, <2>2, <2>3, <2>4, <2>5, SameGroups DEF Holding
    <2>8. QED
      BY <1>0, <1>1, <2>1, <2>6, <2>7, Seats
  <1>10. CASE SaveMember(r)
    <2>1. /\ groups' = groups /\ pc[r] = "member_row" /\ pc'[r] \in {"count_member", "ok"} /\ Op(r) \in MemberOps
      BY <1>0, <1>10, Goes DEF SaveMember, Fits
    <2>2. /\ target[r] \in Requests /\ members[target[r]] # NONE
          /\ \A m \in Requests : m # target[r] => members'[m] = members[m]
      BY <1>0, <1>10, MemberSaved
    <2>3. Op(target[r]) \in MakesMember /\ members[r] = NONE /\ target[r] # r
      BY <1>0, <2>1, <2>2, GroupThere DEF Seated, MakesMember, MemberOps
    <2>4. members'[r] = NONE
      BY <2>2, <2>3
    <2>5. Seated(r)'
      BY <1>0, <1>1, <2>1, <2>4, SameGroups DEF Seated, MemberOps
    <2>6. Holding(r)'
      BY <2>1 DEF Holding
    <2>7. QED
      BY <1>0, <1>1, <2>1, <2>2, <2>5, <2>6, Seats
  <1>11. CASE CountMember(r)
    <2>1. /\ members' = members /\ pc[r] = "count_member" /\ pc'[r] \in {"notify", "ok"}
          /\ Op(r) \in {"joinGroup", "approveMember", "leaveGroup", "removeMember"}
      BY <1>0, <1>11, Goes DEF CountMember, Fits
    <2>2. \A g \in Requests : groups'[g] # NONE <=> groups[g] # NONE
      BY <1>11, GroupBumped DEF CountMember
    <2>3. Seated(r)'
      BY <1>0, <1>1, <2>1, <2>2, SameGroups DEF Seated
    <2>4. Holding(r)'
      BY <2>1 DEF Holding
    <2>5. QED
      BY <1>0, <1>1, <2>1, <2>2, <2>3, <2>4, Seats
  <1>12. QED
    BY <1>2, <1>3, <1>4, <1>5, <1>6, <1>7, <1>8, <1>9, <1>10, <1>11 DEF MembershipStep

\* The first count of a group: its owner, who has yet to be inserted.
LEMMA GroupOpens ==
  ASSUME TInv, UNCHANGED call, NEW r \in Requests, InsertGroup(r), Moves(r), posts' = posts, PostsGone,
         Smooth, GroupPlaces, groups'[r] # NONE
  PROVE  GroupBalanced(r)'
  <1>1. /\ pc[r] = "group" /\ pc'[r] = "owner" /\ members' = members /\ groups[r] = NONE
        /\ groups'[r] = seen[r] /\ Op(r) = "createGroup" /\ members[r] = NONE
    <2>1. pc[r] = "group" /\ members' = members /\ groups'[r] = seen[r]
      BY DEF InsertGroup, TInv, TypeOK
    <2>2. Op(r) = "createGroup" /\ pc'[r] = "owner"
      BY <2>1, Goes DEF InsertGroup, TInv, Walks, Fits, Labels, GroupLabels
    <2>3. QED
      BY <2>1, <2>2 DEF GroupPlaces, Seated
  <1>2. groups'[r].members = 1 /\ groups'[r].posts = 0
    BY <1>1 DEF GroupPlaces, Holding
  <1>3. \A q \in Requests : q # r /\ pc'[q] \in {"count_member", "count_post"} => GroupOf(q) # r /\
           (pc'[q] = "count_member" => On(q) # r)
    <2> SUFFICES ASSUME NEW q \in Requests, q # r, pc'[q] \in {"count_member", "count_post"}
                 PROVE  GroupOf(q) # r /\ (pc'[q] = "count_member" => On(q) # r)
      OBVIOUS
    <2>1. pc'[q] = pc[q]
      BY DEF Moves, Walk
    <2>2. Op(q) \in Grouped \ {"createGroup"} /\ (pc[q] = "count_member" => GroupOf(q) = On(q))
      BY <2>1 DEF TInv, Walks, Fits, Grouped, MakesMember, MemberOps, ReviewOps, GroupOf
    <2>3. groups[GroupOf(q)] # NONE
      BY <2>1, <2>2 DEF GroupPlaces, Seated
    <2>4. QED
      BY <1>1, <2>1, <2>2, <2>3
  <1>4. MembersDue(r)' = {} /\ PostsDue(r)' = {}
    BY <1>1, <1>3, GroupSets DEF MemberDue, PostDue
  <1>5. MembersOver(r)' = {r}
    <2>1. \A q : q \in MembersOver(r)' <=> q = r
      BY <1>1, <1>3, GroupSets DEF MemberOver
    <2>2. QED
      BY <2>1
  <1>6. ActiveMembers(r)' = {}
    <2>1. ASSUME NEW m \in ActiveMembers(r)' PROVE FALSE
      <3>1. m \in Requests /\ members[m] # NONE /\ GroupOf(m) = r
        BY <1>1, GroupSets
      <3>2. QED
        BY <1>1, <3>1, GroupThere
    <2>2. QED
      BY <2>1
  <1>7. ApprovedPosts(r)' = {}
    <2>1. ASSUME NEW p \in ApprovedPosts(r)' PROVE FALSE
      <3>1. p \in Requests /\ Op(p) = "createGroupPost" /\ On(p) = r /\ posts[p] # NONE
        BY GroupSets DEF Approval
      <3>2. pc[p] \notin {"idle", "member"} /\ GroupOf(p) = r
        BY <3>1 DEF PostsGone, TInv, Walks, Fits, GroupOf, MemberOps, ReviewOps
      <3>3. QED
        BY <1>1, <3>1, <3>2 DEF GroupPlaces, Seated, Grouped
    <2>2. QED
      BY <2>1
  <1>8. Cardinality({}) = 0 /\ Cardinality({r}) = 1
    BY FS_EmptySet, FS_Singleton
  <1>9. QED
    BY <1>2, <1>4, <1>5, <1>6, <1>7, <1>8 DEF GroupBalanced, Balance

LEMMA MembershipTies ==
  ASSUME TInv, TInv', UNCHANGED call, NEW r \in Requests, MembershipStep(r), posts' = posts, PostsGone,
         Smooth, Smooth', GroupPlaces, NEW g \in Requests, groups[g] # NONE => GroupBalanced(g), groups'[g] # NONE
  PROVE  GroupBalanced(g)'
  <1>0. /\ TypeOK /\ Moves(r) /\ Seated(r) /\ Holding(r) /\ Fits(Op(r), pc[r])
        /\ stale' = {} /\ pc'[r] # "idle"
    BY MembershipMoves DEF TInv, Walks, GroupPlaces, Smooth, Moves, Walk
  <1>1. \A p : Approval(p)' = Approval(p)
    BY DEF Approval
  <1> USE DEF Labels, GroupLabels, NoticeLabels
  <1>2. CASE InsertGroup(r) /\ g = r
    BY <1>0, <1>2, GroupOpens
  <1>3. ASSUME groups[g] # NONE, NEW m, \A q \in Requests : q # m => members'[q] = members[q],
               pc[r] # "count_post", pc'[r] # "count_post", groups'[g].posts = groups[g].posts,
               groups'[g].members + In(r, MembersDue(g)') + In(m, ActiveMembers(g)) + In(r, MembersOver(g))
                 = groups[g].members + In(r, MembersDue(g)) + In(m, ActiveMembers(g)') + In(r, MembersOver(g)')
        PROVE  GroupBalanced(g)'
    <2>1. r \notin PostsDue(g) /\ r \notin PostsDue(g)'
      BY <1>3, GroupSets DEF PostsDue, PostDue
    <2>2. groups[g].posts \in Int
      BY <1>0, <1>3 DEF TypeOK, GroupRows
    <2>3. ApprovedPosts(g)' = ApprovedPosts(g)
      BY <1>1, GroupSets DEF ApprovedPosts
    <2>4. In(r, ApprovedPosts(g)) \in Int
      BY DEF In
    <2>5. groups'[g].posts + In(r, PostsDue(g)') + In(r, ApprovedPosts(g))
           = groups[g].posts + In(r, PostsDue(g)) + In(r, ApprovedPosts(g)')
      BY <1>3, <2>1, <2>2, <2>3, <2>4 DEF In
    <2>6. QED
      BY <1>0, <1>1, <1>3, <2>5, GroupTies
  <1>4. ASSUME groups' = groups, members' = members, pc[r] \notin {"owner", "count_member", "count_post"},
               pc'[r] \notin {"owner", "count_member", "count_post"}
        PROVE  GroupBalanced(g)'
    <2>1. /\ r \notin MembersDue(g) /\ r \notin MembersDue(g)'
          /\ r \notin MembersOver(g) /\ r \notin MembersOver(g)'
      BY <1>4, GroupSets DEF MembersDue, MembersOver, MemberDue, MemberOver
    <2>2. groups[g].members \in Int /\ groups[g] # NONE
      BY <1>0, <1>4 DEF TypeOK, GroupRows
    <2>3. ActiveMembers(g)' = ActiveMembers(g)
      BY <1>4, GroupSets DEF ActiveMembers
    <2>4. In(r, ActiveMembers(g)) \in Int
      BY DEF In
    <2>5. groups'[g].members + In(r, MembersDue(g)') + In(r, ActiveMembers(g)) + In(r, MembersOver(g))
           = groups[g].members + In(r, MembersDue(g)) + In(r, ActiveMembers(g)') + In(r, MembersOver(g)')
      BY <1>4, <2>1, <2>2, <2>3, <2>4 DEF In
    <2>6. QED
      BY <1>3, <1>4, <2>2, <2>5
  <1>5. CASE FindSlug(r)
    BY <1>0, <1>4, <1>5, Goes DEF FindSlug, groupVars
  <1>6. CASE InsertGroup(r) /\ g # r
    <2>1. /\ pc[r] = "group" /\ pc'[r] = "owner" /\ members' = members /\ groups'[g] = groups[g]
      BY <1>0, <1>6, Goes DEF InsertGroup, TypeOK
    <2>2. /\ r \notin MembersDue(g) /\ r \notin MembersDue(g)'
          /\ r \notin MembersOver(g) /\ r \notin MembersOver(g)'
      BY <1>6, <2>1, GroupSets DEF MembersDue, MembersOver, MemberDue, MemberOver
    <2>3. groups[g].members \in Int /\ groups[g] # NONE
      BY <1>0, <2>1 DEF TypeOK, GroupRows
    <2>4. ActiveMembers(g)' = ActiveMembers(g) /\ In(r, ActiveMembers(g)) \in Int
      BY <2>1, GroupSets DEF ActiveMembers, In
    <2>5. groups'[g].members + In(r, MembersDue(g)') + In(r, ActiveMembers(g)) + In(r, MembersOver(g))
           = groups[g].members + In(r, MembersDue(g)) + In(r, ActiveMembers(g)') + In(r, MembersOver(g)')
      BY <2>1, <2>2, <2>3, <2>4 DEF In
    <2>6. QED
      BY <1>3, <2>1, <2>3, <2>5
  <1>7. CASE InsertOwner(r)
    <2>1. /\ pc[r] = "owner" /\ pc'[r] = "ok" /\ groups' = groups /\ Op(r) = "createGroup" /\ GroupOf(r) = r
          /\ \A q \in Requests : q # r => members'[q] = members[q]
      BY <1>0, <1>7, Goes DEF InsertOwner, TypeOK, Fits, GroupOf, ReviewOps
    <2>2. members[r] = NONE /\ members'[r] # NONE /\ members'[r].status = "ACTIVE"
      <3>1. members'[r] = [role |-> "OWNER", status |-> "ACTIVE"]
        BY <1>0, <1>7 DEF InsertOwner, TypeOK
      <3>2. [role |-> "OWNER", status |-> "ACTIVE"] \in Rows
        BY DEF Rows, MemberRows, GroupRoles
      <3>3. QED
        BY <1>0, <2>1, <3>1, <3>2, SocialAssumption DEF Seated
    <2>3. r \notin MembersDue(g) /\ r \notin MembersDue(g)' /\ r \notin MembersOver(g)'
      BY <2>1, GroupSets DEF MembersDue, MemberDue, MemberOver
    <2>4. r \in MembersOver(g) <=> r = g
      BY <2>1 DEF MembersOver, MemberOver
    <2>5. r \notin ActiveMembers(g) /\ (r \in ActiveMembers(g)' <=> r = g)
      BY <2>1, <2>2, GroupSets DEF ActiveMembers
    <2>6. groups[g].members \in Int /\ groups[g] # NONE
      BY <1>0, <2>1 DEF TypeOK, GroupRows
    <2>7. groups'[g].members + In(r, MembersDue(g)') + In(r, ActiveMembers(g)) + In(r, MembersOver(g))
           = groups[g].members + In(r, MembersDue(g)) + In(r, ActiveMembers(g)') + In(r, MembersOver(g)')
      BY <2>1, <2>3, <2>4, <2>5, <2>6 DEF In
    <2>8. QED
      BY <1>3, <2>1, <2>6, <2>7
  <1>8. CASE JoinGroup(r) \/ FindModerators(r)
    BY <1>0, <1>4, <1>8, Goes DEF JoinGroup, FindModerators, groupVars
  <1>9. CASE InsertMember(r)
    <2>1. /\ pc[r] = "join" /\ groups' = groups /\ Op(r) = "joinGroup" /\ GroupOf(r) = On(r)
          /\ pc'[r] = (IF JoinStatus(r) = "ACTIVE" THEN "count_member" ELSE "moderators")
          /\ \A q \in Requests : q # r => members'[q] = members[q]
      BY <1>0, <1>9, Goes DEF InsertMember, TypeOK, Fits, GroupOf, ReviewOps
    <2>2. members[r] = NONE /\ members'[r] # NONE /\ members'[r].status = JoinStatus(r)
      <3>1. members'[r] = [role |-> "MEMBER", status |-> JoinStatus(r)]
        BY <1>0, <1>9 DEF InsertMember, TypeOK
      <3>2. [role |-> "MEMBER", status |-> JoinStatus(r)] \in Rows
        BY DEF Rows, MemberRows, GroupRoles, JoinStatus
      <3>3. QED
        BY <1>0, <2>1, <3>1, <3>2, SocialAssumption DEF Seated
    <2>3. r \notin MembersDue(g) /\ r \notin MembersOver(g) /\ r \notin MembersOver(g)' /\ r \notin ActiveMembers(g)
      BY <2>1, <2>2, GroupSets DEF MembersDue, MembersOver, MemberDue, MemberOver, ActiveMembers
    <2>4. r \in MembersDue(g)' <=> On(r) = g /\ JoinStatus(r) = "ACTIVE"
      BY <2>1, GroupSets DEF MemberDue
    <2>5. r \in ActiveMembers(g)' <=> On(r) = g /\ JoinStatus(r) = "ACTIVE"
      BY <2>1, <2>2, GroupSets
    <2>6. groups[g].members \in Int /\ groups[g] # NONE /\ pc'[r] # "count_post"
      BY <1>0, <2>1 DEF TypeOK, GroupRows
    <2>7. groups'[g].members + In(r, MembersDue(g)') + In(r, ActiveMembers(g)) + In(r, MembersOver(g))
           = groups[g].members + In(r, MembersDue(g)) + In(r, ActiveMembers(g)') + In(r, MembersOver(g)')
      BY <2>1, <2>3, <2>4, <2>5, <2>6 DEF In
    <2>8. QED
      BY <1>3, <2>1, <2>6, <2>7
  <1>10. CASE Authorize(r) \/ FindMember(r)
    <2>1. CASE Authorize(r)
      <3>1. pc[r] = "idle" /\ pc'[r] \in {"member", "pending_post", "group_post", "members", "posts"}
        BY <1>0, <2>1, Goes DEF Authorize
      <3>2. QED
        BY <1>4, <2>1, <3>1 DEF Authorize, groupVars
    <2>2. CASE FindMember(r)
      BY <1>0, <1>4, <2>2, Goes DEF FindMember, groupVars
    <2>3. QED
      BY <1>10, <2>1, <2>2
  <1>11. CASE SaveMember(r)
    <2> DEFINE t == target[r]
    <2>1. /\ pc[r] = "member_row" /\ groups' = groups /\ Op(r) \in MemberOps
          /\ pc'[r] = (IF Counts(r) THEN "count_member" ELSE "ok")
      BY <1>0, <1>11, Goes DEF SaveMember, Fits
    <2>2. /\ t \in Requests /\ members[t] = seen[r] /\ seen[r] # NONE /\ seen[r] \in MemberRows
          /\ members'[t] = Changed(r) /\ \A q \in Requests : q # t => members'[q] = members[q]
      BY <1>0, <1>11, MemberSaved
    <2>3. GroupOf(t) = On(r) /\ seen[r].status \in Wanted(r)
      BY <1>0, <2>1 DEF Holding
    <2> HIDE DEF t
    <2>4. r \notin MembersDue(g) /\ r \notin MembersOver(g)
      BY <2>1 DEF MembersDue, MembersOver, MemberDue, MemberOver
    <2>5. t \in ActiveMembers(g) <=> On(r) = g /\ seen[r].status = "ACTIVE"
      BY <2>2, <2>3 DEF ActiveMembers
    <2>6. /\ r \in MembersDue(g)' <=> Counts(r) /\ Op(r) = "approveMember" /\ On(r) = g
          /\ r \in MembersOver(g)' <=> Counts(r) /\ Op(r) \in {"leaveGroup", "removeMember"} /\ On(r) = g
      BY <2>1, GroupSets DEF MemberDue, MemberOver, MemberOps
    <2>7. t \in ActiveMembers(g)' <=> /\ On(r) = g
                                      /\ \/ Op(r) = "approveMember"
                                         \/ Op(r) = "updateMemberRole" /\ seen[r].status = "ACTIVE"
      <3>1. Op(r) = "approveMember" => members'[t].status = "ACTIVE" /\ members'[t] # NONE
        <4>1. Op(r) = "approveMember" => Changed(r) = [seen[r] EXCEPT !.status = "ACTIVE"]
          BY DEF Changed
        <4>2. [seen[r] EXCEPT !.status = "ACTIVE"] \in MemberRows /\ [seen[r] EXCEPT !.status = "ACTIVE"].status = "ACTIVE"
          BY <2>2 DEF MemberRows
        <4>3. Op(r) = "approveMember" => \E row \in MemberRows : members'[t] = row /\ row.status = "ACTIVE"
          BY <2>2, <4>1, <4>2
        <4>4. QED
          BY <4>3, SocialAssumption DEF Rows
      <3>2. Op(r) = "updateMemberRole" => members'[t].status = seen[r].status /\ members'[t] # NONE
        <4>1. Op(r) = "updateMemberRole" => Changed(r) = [seen[r] EXCEPT !.role = Arg(r)] /\ Arg(r) \in GroupRoles
          BY <1>0, CallsTyped DEF Changed, TypeOK, ArgsOf
        <4>2. \A role \in GroupRoles : /\ [seen[r] EXCEPT !.role = role] \in MemberRows
                                       /\ [seen[r] EXCEPT !.role = role].status = seen[r].status
          BY <2>2 DEF MemberRows
        <4>3. Op(r) = "updateMemberRole" =>
                \E row \in MemberRows : members'[t] = row /\ row.status = seen[r].status
          BY <2>2, <4>1, <4>2
        <4>4. QED
          BY <4>3, SocialAssumption DEF Rows
      <3>3. Op(r) = "removeMember" => members'[t].status = "BANNED"
        <4>1. Op(r) = "removeMember" => Changed(r) = [seen[r] EXCEPT !.status = "BANNED"]
          BY DEF Changed
        <4>2. [seen[r] EXCEPT !.status = "BANNED"].status = "BANNED"
          BY <2>2 DEF MemberRows
        <4>3. QED
          BY <2>2, <4>1, <4>2
      <3>4. Op(r) = "leaveGroup" => members'[t] = NONE
        BY <2>2 DEF Changed
      <3>5. QED
        BY <2>1, <2>2, <2>3, <3>1, <3>2, <3>3, <3>4, GroupSets DEF MemberOps
    <2>8. /\ Op(r) = "approveMember" => Counts(r) /\ seen[r].status = "PENDING"
          /\ Op(r) = "updateMemberRole" => ~Counts(r)
          /\ Op(r) = "removeMember" => (Counts(r) <=> seen[r].status = "ACTIVE")
          /\ Op(r) = "leaveGroup" => Counts(r) /\ seen[r].status = "ACTIVE"
      BY <2>3 DEF Counts, Wanted
    <2>9. groups[g].members \in Int /\ groups[g] # NONE /\ pc'[r] # "count_post"
      BY <1>0, <2>1 DEF TypeOK, GroupRows
    <2>10. groups'[g].members + In(r, MembersDue(g)') + In(t, ActiveMembers(g)) + In(r, MembersOver(g))
           = groups[g].members + In(r, MembersDue(g)) + In(t, ActiveMembers(g)') + In(r, MembersOver(g)')
      BY <2>1, <2>4, <2>5, <2>6, <2>7, <2>8, <2>9 DEF In, MemberOps
    <2>11. QED
      BY <1>3, <2>1, <2>2, <2>9, <2>10
  <1>12. CASE CountMember(r)
    <2> DEFINE n == IF Op(r) \in {"joinGroup", "approveMember"} THEN 1 ELSE -1
    <2>1. /\ pc[r] = "count_member" /\ pc'[r] \in {"notify", "ok"} /\ members' = members
          /\ Op(r) \in {"joinGroup", "approveMember", "leaveGroup", "removeMember"}
      BY <1>0, <1>12, Goes DEF CountMember, Fits
    <2>2. groups[g] # NONE /\ groups'[g].posts = groups[g].posts
          /\ groups'[g].members = IF g = On(r) THEN groups[g].members + n ELSE groups[g].members
      BY <1>12, GroupBumped DEF CountMember
    <2>3. r \notin MembersDue(g)' /\ r \notin MembersOver(g)'
      BY <2>1, GroupSets DEF MemberDue, MemberOver
    <2>4. /\ r \in MembersDue(g) <=> Op(r) \in {"joinGroup", "approveMember"} /\ On(r) = g
          /\ r \in MembersOver(g) <=> Op(r) \in {"leaveGroup", "removeMember"} /\ On(r) = g
      BY <2>1 DEF MembersDue, MembersOver, MemberDue, MemberOver
    <2>5. ActiveMembers(g)' = ActiveMembers(g) /\ In(r, ActiveMembers(g)) \in Int
      BY <2>1, GroupSets DEF ActiveMembers, In
    <2>6. groups[g].members \in Int
      BY <1>0, <2>2 DEF TypeOK, GroupRows
    <2>7. groups'[g].members + In(r, MembersDue(g)') + In(r, ActiveMembers(g)) + In(r, MembersOver(g))
           = groups[g].members + In(r, MembersDue(g)) + In(r, ActiveMembers(g)') + In(r, MembersOver(g)')
      BY <2>1, <2>2, <2>3, <2>4, <2>5, <2>6 DEF In
    <2>8. QED
      BY <1>3, <2>1, <2>2, <2>7
  <1>13. QED
    BY <1>2, <1>5, <1>6, <1>7, <1>8, <1>9, <1>10, <1>11, <1>12 DEF MembershipStep

LEMMA PostPlaces ==
  ASSUME TInv, UNCHANGED call, NEW r \in Requests, GroupPostStep(r), PostsGone, Smooth, Smooth', GroupPlaces
  PROVE  GroupPlaces'
  <1>0. /\ TypeOK /\ Moves(r) /\ Seated(r) /\ Holding(r) /\ Fits(Op(r), pc[r])
        /\ stale' = {} /\ pc'[r] # "idle"
    BY GroupPostMoves DEF TInv, Walks, GroupPlaces, Smooth, Moves, Walk
  <1>1. posts' = posts => \A p \in Requests : Approval(p)' = Approval(p)
    BY DEF Approval
  <1> USE DEF Labels, GroupLabels, NoticeLabels, ContentLabels
  <1>2. CASE InsertGroupPost(r)
    <2>1. /\ groups' = groups /\ members' = members /\ pc[r] = "group_post"
          /\ pc'[r] \in {"moderators", "count_post"} /\ Op(r) = "createGroupPost"
      BY <1>0, <1>2, Goes DEF InsertGroupPost, groupVars, Fits
    <2>2. \A q \in Requests : q # r => Approval(q)' = Approval(q)
      <3>1. \E approval \in Approvals : posts' = [posts EXCEPT ![r] = NewPost(approval)]
        BY <1>2 DEF InsertGroupPost, Approvals
      <3>2. QED
        BY <2>1, <3>1, InsertApproval
    <2>3. Seated(r)'
      BY <1>0, <2>1, SameGroups DEF Seated
    <2>4. Holding(r)'
      BY <2>1 DEF Holding
    <2>5. QED
      BY <1>0, <2>1, <2>2, <2>3, <2>4, Seats
  <1>3. CASE CountPost(r)
    <2>1. /\ members' = members /\ posts' = posts /\ pc[r] = "count_post" /\ pc'[r] = "unindex"
          /\ Op(r) \in {"createGroupPost", "approveGroupPost"}
      BY <1>0, <1>3, Goes DEF CountPost, Fits
    <2>2. \A g \in Requests : groups'[g] # NONE <=> groups[g] # NONE
      BY <1>3, GroupBumped DEF CountPost
    <2>3. Seated(r)'
      BY <1>0, <1>1, <2>1, <2>2, SameGroups DEF Seated
    <2>4. Holding(r)'
      BY <2>1 DEF Holding
    <2>5. QED
      BY <1>0, <1>1, <2>1, <2>2, <2>3, <2>4, Seats
  <1>4. CASE FindPendingPost(r)
    <2>1. /\ groups' = groups /\ members' = members /\ posts' = posts /\ pc[r] = "pending_post"
          /\ pc'[r] = "review" /\ Op(r) \in ReviewOps /\ posts[On(r)].approval = "PENDING"
          /\ seen'[r] = posts[On(r)]
      BY <1>0, <1>4, Goes DEF FindPendingPost, Fits, groupVars, Reads, TypeOK
    <2>2. Seated(r)'
      BY <1>0, <1>1, <2>1, SameGroups DEF Seated
    <2>3. Holding(r)'
      BY <2>1 DEF Holding
    <2>4. QED
      BY <1>0, <1>1, <2>1, <2>2, <2>3, Seats
  <1>5. CASE Review(r)
    <2>1. /\ groups' = groups /\ members' = members /\ pc[r] = "review" /\ pc'[r] \in {"count_post", "notify"}
          /\ Op(r) \in ReviewOps
      BY <1>0, <1>5, Goes DEF Review, Fits, groupVars
    <2>2. \A p \in Requests : Approval(p)' # "NONE" => Approval(p) # "NONE"
      <3>1. posts[On(r)] = seen[r] /\ seen[r].approval = "PENDING" /\ seen[r] # NONE
        BY <1>0, <1>5, <2>1, SocialAssumption DEF Review, Holding, TInv, Walks, Carries, Rows
      <3>2. \A p \in Requests : p # On(r) => posts'[p] = posts[p]
        BY <1>0, <1>5 DEF Review, TypeOK
      <3>3. QED
        BY <3>1, <3>2 DEF Approval
    <2>3. Seated(r)'
      BY <1>0, <2>1, <2>2, SameGroups DEF Seated
    <2>4. Holding(r)'
      BY <2>1 DEF Holding
    <2>5. QED
      BY <1>0, <2>1, <2>2, <2>3, <2>4, Seats
  <1>6. CASE ListGroupPosts(r)
    <2>1. /\ groups' = groups /\ members' = members /\ posts' = posts /\ pc[r] = "posts" /\ pc'[r] = "ok"
          /\ Op(r) = "listGroupPosts"
      BY <1>0, <1>6, Goes DEF ListGroupPosts, Fits, groupVars
    <2>2. Seated(r)'
      BY <1>0, <1>1, <2>1, SameGroups DEF Seated
    <2>3. Holding(r)'
      BY <2>1 DEF Holding
    <2>4. QED
      BY <1>0, <1>1, <2>1, <2>2, <2>3, Seats
  <1>7. QED
    BY <1>2, <1>3, <1>4, <1>5, <1>6 DEF GroupPostStep

LEMMA PostTies ==
  ASSUME TInv, TInv', UNCHANGED call, NEW r \in Requests, GroupPostStep(r), PostsGone,
         Smooth, Smooth', GroupPlaces, NEW g \in Requests, groups[g] # NONE => GroupBalanced(g), groups'[g] # NONE
  PROVE  GroupBalanced(g)'
  <1>0. /\ TypeOK /\ Moves(r) /\ Seated(r) /\ Holding(r) /\ Fits(Op(r), pc[r])
        /\ stale' = {} /\ pc'[r] # "idle"
    BY GroupPostMoves DEF TInv, Walks, GroupPlaces, Smooth, Moves, Walk
  <1>1. posts' = posts => \A p : Approval(p)' = Approval(p)
    BY DEF Approval
  <1> USE DEF Labels, GroupLabels, NoticeLabels, ContentLabels
  <1>2. groups[g] # NONE /\ groups'[g].members = groups[g].members /\ members' = members
        /\ pc[r] \notin {"owner", "count_member"} /\ pc'[r] \notin {"owner", "count_member"}
    <2>1. CASE CountPost(r)
      BY <1>0, <2>1, GroupBumped, Goes DEF CountPost
    <2>2. CASE InsertGroupPost(r) \/ FindPendingPost(r)
      BY <1>0, <2>2, Goes DEF InsertGroupPost, FindPendingPost, groupVars
    <2>3. CASE Review(r) \/ ListGroupPosts(r)
      BY <1>0, <2>3, Goes DEF Review, ListGroupPosts, groupVars
    <2>4. QED
      BY <2>1, <2>2, <2>3 DEF GroupPostStep
  <1>3. ASSUME NEW p, \A q \in Requests : q # p => Approval(q)' = Approval(q),
               groups'[g].posts + In(r, PostsDue(g)') + In(p, ApprovedPosts(g))
                 = groups[g].posts + In(r, PostsDue(g)) + In(p, ApprovedPosts(g)')
        PROVE  GroupBalanced(g)'
    <2>1. /\ r \notin MembersDue(g) /\ r \notin MembersDue(g)'
          /\ r \notin MembersOver(g) /\ r \notin MembersOver(g)'
      BY <1>2, GroupSets DEF MembersDue, MembersOver, MemberDue, MemberOver
    <2>2. groups[g].members \in Int
      BY <1>0, <1>2 DEF TypeOK, GroupRows
    <2>3. ActiveMembers(g)' = ActiveMembers(g)
      BY <1>2, GroupSets DEF ActiveMembers
    <2>4. In(r, ActiveMembers(g)) \in Int
      BY DEF In
    <2>5. groups'[g].members + In(r, MembersDue(g)') + In(r, ActiveMembers(g)) + In(r, MembersOver(g))
           = groups[g].members + In(r, MembersDue(g)) + In(r, ActiveMembers(g)') + In(r, MembersOver(g)')
      BY <1>2, <2>1, <2>2, <2>3, <2>4 DEF In
    <2>6. QED
      BY <1>0, <1>2, <1>3, <2>5, GroupTies
  <1>4. groups[g].posts \in Int
    BY <1>0, <1>2 DEF TypeOK, GroupRows
  <1>5. CASE InsertGroupPost(r)
    <2> DEFINE approval == IF NeedsApproval(r) THEN "PENDING" ELSE "APPROVED"
    <2>1. /\ pc[r] = "group_post" /\ groups' = groups /\ Op(r) = "createGroupPost" /\ GroupOf(r) = On(r)
          /\ pc'[r] = (IF approval = "APPROVED" THEN "count_post" ELSE "moderators")
      BY <1>0, <1>5, Goes DEF InsertGroupPost, groupVars, Fits, GroupOf, ReviewOps
    <2>2. /\ \A q \in Requests : q # r => Approval(q)' = Approval(q)
          /\ Approval(r) = "NONE" /\ Approval(r)' = approval
      <3>1. approval \in Approvals
        BY DEF Approvals
      <3>2. posts' = [posts EXCEPT ![r] = NewPost(approval)]
        BY <1>5 DEF InsertGroupPost
      <3> HIDE DEF approval
      <3>3. QED
        BY <2>1, <3>1, <3>2, InsertApproval
    <2> HIDE DEF approval
    <2>3. r \notin PostsDue(g) /\ r \notin ApprovedPosts(g)
      BY <2>1, <2>2, GroupSets DEF PostsDue, PostDue
    <2>4. r \in PostsDue(g)' <=> approval = "APPROVED" /\ On(r) = g
      BY <2>1, GroupSets DEF PostDue
    <2>5. r \in ApprovedPosts(g)' <=> approval = "APPROVED" /\ On(r) = g
      BY <2>1, <2>2, GroupSets
    <2>6. groups'[g].posts + In(r, PostsDue(g)') + In(r, ApprovedPosts(g))
            = groups[g].posts + In(r, PostsDue(g)) + In(r, ApprovedPosts(g)')
      BY <1>4, <2>1, <2>3, <2>4, <2>5 DEF In
    <2>7. QED
      BY <1>3, <2>2, <2>6
  <1>6. CASE CountPost(r)
    <2>1. /\ posts' = posts /\ pc[r] = "count_post" /\ pc'[r] = "unindex"
          /\ groups'[g].posts = IF g = GroupOf(r) THEN groups[g].posts + 1 ELSE groups[g].posts
      BY <1>0, <1>2, <1>6, GroupBumped, Goes DEF CountPost
    <2>2. r \notin PostsDue(g)' /\ (r \in PostsDue(g) <=> GroupOf(r) = g)
      BY <2>1, GroupSets DEF PostsDue, PostDue
    <2>3. ApprovedPosts(g)' = ApprovedPosts(g) /\ In(r, ApprovedPosts(g)) \in Int
      BY <1>1, <2>1, GroupSets DEF ApprovedPosts, In
    <2>4. groups'[g].posts + In(r, PostsDue(g)') + In(r, ApprovedPosts(g))
            = groups[g].posts + In(r, PostsDue(g)) + In(r, ApprovedPosts(g)')
      BY <1>4, <2>1, <2>2, <2>3 DEF In
    <2>5. QED
      BY <1>1, <1>3, <2>1, <2>4
  <1>7. CASE Review(r)
    <2>0. On(r) \in Requests
      BY <1>7, RowNamed DEF Review
    <2>00. PICK p \in Requests : p = On(r)
      BY <2>0
    <2> USE <2>00
    <2>1. /\ groups' = groups /\ pc[r] = "review" /\ Op(r) \in ReviewOps /\ GroupOf(r) = On(p)
          /\ pc'[r] = (IF Op(r) = "approveGroupPost" THEN "count_post" ELSE "notify")
      BY <1>0, <1>7, Goes DEF Review, Fits, groupVars, GroupOf, ReviewOps
    <2>2. /\ posts[p] = seen[r] /\ seen[r].approval = "PENDING" /\ seen[r] \in PostRows /\ seen[r] # NONE
          /\ \A q \in Requests : q # p => posts'[q] = posts[q]
      <3>1. posts[p] = seen[r]
        BY <1>0, <1>7 DEF Review
      <3>2. seen[r].approval = "PENDING" /\ seen[r] \in PostRows
        BY <1>0, <2>1 DEF Holding, TInv, Walks, Carries
      <3>3. seen[r] # NONE
        BY <3>2, SocialAssumption DEF Rows
      <3>4. \A q \in Requests : q # p => posts'[q] = posts[q]
        BY <1>0, <1>7 DEF Review, TypeOK
      <3>5. QED
        BY <3>1, <3>2, <3>3, <3>4
    <2>3. /\ Approval(p) = "PENDING" /\ Approval(p)' \in {"APPROVED", "REJECTED"}
          /\ Approval(p)' = "APPROVED" <=> Op(r) = "approveGroupPost"
      <3>1. \E a \in {"APPROVED", "REJECTED"} :
              /\ a = "APPROVED" <=> Op(r) = "approveGroupPost"
              /\ posts'[p] = [seen[r] EXCEPT !.approval = a]
        BY <1>0, <1>7, <2>1 DEF Review, TypeOK
      <3>2. \A a \in {"APPROVED", "REJECTED"} :
              [seen[r] EXCEPT !.approval = a] \in PostRows /\ [seen[r] EXCEPT !.approval = a].approval = a
        BY <2>2 DEF PostRows, Approvals
      <3>3. \E a \in {"APPROVED", "REJECTED"}, row \in PostRows :
              (a = "APPROVED" <=> Op(r) = "approveGroupPost") /\ posts'[p] = row /\ row.approval = a
        BY <3>1, <3>2
      <3>4. QED
        BY <2>2, <3>3, SocialAssumption DEF Approval, Rows
    <2>4. Op(p) = "createGroupPost"
      BY <2>1, <2>3 DEF GroupPlaces, Seated
    <2>5. r \notin PostsDue(g) /\ p \notin ApprovedPosts(g)
      BY <2>1, <2>3, GroupSets DEF PostsDue, PostDue
    <2>6. r \in PostsDue(g)' <=> Op(r) = "approveGroupPost" /\ On(p) = g
      BY <2>1, GroupSets DEF PostDue
    <2>7. p \in ApprovedPosts(g)' <=> Op(r) = "approveGroupPost" /\ On(p) = g
      BY <2>1, <2>3, <2>4, GroupSets
    <2>8. groups'[g].posts + In(r, PostsDue(g)') + In(p, ApprovedPosts(g))
            = groups[g].posts + In(r, PostsDue(g)) + In(p, ApprovedPosts(g)')
      BY <1>4, <2>1, <2>5, <2>6, <2>7 DEF In
    <2>9. \A q \in Requests : q # p => Approval(q)' = Approval(q)
      BY <2>2 DEF Approval
    <2>10. QED
      BY <1>3, <2>8, <2>9
  <1>8. CASE FindPendingPost(r) \/ ListGroupPosts(r)
    <2>1. /\ posts' = posts /\ groups' = groups /\ pc[r] # "count_post" /\ pc'[r] # "count_post"
      BY <1>0, <1>8, Goes DEF FindPendingPost, ListGroupPosts, groupVars
    <2>2. r \notin PostsDue(g) /\ r \notin PostsDue(g)'
      BY <2>1, GroupSets DEF PostsDue, PostDue
    <2>3. ApprovedPosts(g)' = ApprovedPosts(g) /\ In(r, ApprovedPosts(g)) \in Int
      BY <1>1, <2>1, GroupSets DEF ApprovedPosts, In
    <2>4. groups'[g].posts + In(r, PostsDue(g)') + In(r, ApprovedPosts(g))
            = groups[g].posts + In(r, PostsDue(g)) + In(r, ApprovedPosts(g)')
      BY <1>4, <2>1, <2>2, <2>3 DEF In
    <2>5. QED
      BY <1>1, <1>3, <2>1, <2>4
  <1>9. QED
    BY <1>5, <1>6, <1>7, <1>8 DEF GroupPostStep

----------------------------------------------------------------------------
LEMMA GroupsStep ==
  ASSUME TInv, TInv', UNCHANGED call, NEW r \in Requests, ~Ended(r), Step(r), PostsGone, GroupPlaces, GroupsBalance
  PROVE  GroupPlaces' /\ GroupsBalance'
  <1> SUFFICES ASSUME Smooth' PROVE GroupPlaces' /\ GroupsBalance'
    BY DEF GroupPlaces, GroupsBalance
  <1>1. CASE MembershipStep(r) /\ UNCHANGED contentVars
    <2>1. Moves(r) /\ posts' = posts
      BY <1>1, MembershipMoves DEF contentVars
    <2>2. Smooth
      BY <2>1, SmoothSoFar
    <2>3. \A g \in Requests : groups[g] # NONE => GroupBalanced(g)
      BY <2>2 DEF GroupsBalance
    <2>4. GroupPlaces'
      BY <1>1, <2>1, <2>2, MembershipPlaces
    <2>5. \A g \in Requests : groups'[g] # NONE => GroupBalanced(g)'
      BY <1>1, <2>1, <2>2, <2>3, MembershipTies
    <2>6. QED
      BY <2>4, <2>5 DEF GroupsBalance
  <1>2. CASE GroupPostStep(r)
    <2>1. Smooth
      BY <1>2, GroupPostMoves, SmoothSoFar
    <2>2. \A g \in Requests : groups[g] # NONE => GroupBalanced(g)
      BY <2>1 DEF GroupsBalance
    <2>3. GroupPlaces'
      BY <1>2, <2>1, PostPlaces
    <2>4. \A g \in Requests : groups'[g] # NONE => GroupBalanced(g)'
      BY <1>2, <2>1, <2>2, PostTies
    <2>5. QED
      BY <2>3, <2>4 DEF GroupsBalance
  <1>3. CASE ~MembershipStep(r) /\ ~GroupPostStep(r)
    <2>1. Outlying(r)
      BY <1>3, FarSteps
    <2>2. Smooth
      BY <2>1, SmoothSoFar DEF Outlying
    <2>3. \A g \in Requests : groups[g] # NONE => GroupBalanced(g)
      BY <2>2 DEF GroupsBalance
    <2>4. GroupPlaces'
      BY <2>1, <2>2, FarPlaces
    <2>5. \A g \in Requests : groups'[g] # NONE => groups[g] # NONE
      BY <2>1 DEF Outlying
    <2>6. \A g \in Requests : groups'[g] # NONE => GroupBalanced(g)'
      BY <2>1, <2>3, <2>5, FarTies
    <2>7. QED
      BY <2>4, <2>6 DEF GroupsBalance
  <1>4. MembershipStep(r) => GroupPostStep(r) \/ UNCHANGED contentVars
    <2>1. MembershipStep(r) => ~ContentStep(r)
      BY MembershipRoute, ContentRoute
         DEF GroupOps, MemberOps, ReviewOps, ContentOps, PostOps, CommentOps, ReactionOps, StoryOps, ContentLabels
    <2>2. MembershipStep(r) => ~FeedStep(r)
      BY MembershipRoute, FeedRoute DEF GroupOps, MemberOps, ReviewOps, FeedOps, NewsfeedOps
    <2>3. QED
      BY <2>1, <2>2 DEF Step
  <1>5. QED
    BY <1>1, <1>2, <1>3, <1>4

LEMMA GroupsInitially ==
  ASSUME Init, TInv
  PROVE  GroupPlaces /\ GroupsBalance
  <1>1. /\ pc = [r \in Requests |-> IF Made(r) THEN "ok" ELSE "idle"] /\ call \in Plans
        /\ \A r \in Requests : Made(r) => Op(r) \in Inserting
    BY CallsTyped DEF Init, CallsInit
  <1>2. ASSUME NEW r \in Requests PROVE Approval(r) # "NONE" => Op(r) = "createGroupPost"
    <2>1. CASE Op(r) # "createGroupPost" /\ posts[r] # NONE
      <3>1. \E m, n : posts[r] = [NewPost("NONE") EXCEPT !.likes = m, !.comments = n]
        BY <2>1 DEF Init, ContentInit
      <3>2. posts[r].approval = "NONE"
        BY <3>1 DEF NewPost
      <3>3. QED
        BY <3>2 DEF Approval
    <2>2. QED
      BY <2>1 DEF Approval
  <1>3. ASSUME NEW r \in Requests PROVE Seated(r) /\ Holding(r)
    <2>1. members[r] # NONE => Op(r) \in MakesMember /\ pc[r] = "ok"
      BY <1>1 DEF Init, GroupsInit, MakesMember
    <2>2. groups[r] # NONE <=> Op(r) = "createGroup" /\ pc[r] = "ok"
      <3>1. CASE Made(r) /\ Op(r) = "createGroup"
        <4>1. groups[r] = [slug |-> 0, members |-> Cardinality(ActiveMembers(r)),
                           posts |-> Cardinality(ApprovedPosts(r))]
          BY <3>1 DEF Init, GroupsInit
        <4>2. Cardinality(ActiveMembers(r)) \in Nat /\ Cardinality(ApprovedPosts(r)) \in Nat
          BY Sized DEF ActiveMembers, ApprovedPosts
        <4>3. groups[r] \in GroupRows
          BY <4>1, <4>2 DEF GroupRows
        <4>4. QED
          BY <1>1, <3>1, <4>3, SocialAssumption DEF Rows
      <3>2. CASE ~(Made(r) /\ Op(r) = "createGroup")
        BY <1>1, <3>2 DEF Init, GroupsInit
      <3>3. QED
        BY <3>1, <3>2
    <2>3. ASSUME Op(r) \in Grouped \ {"createGroup"}, pc[r] # "idle"
          PROVE  GroupOf(r) \in Requests /\ groups[GroupOf(r)] # NONE
      <3>1. Made(r) /\ Op(r) \in {"joinGroup", "createGroupPost"}
        BY <1>1, <2>3 DEF Grouped, MakesMember, MemberOps, ReviewOps, Inserting, PostMakers, TalkMakers
      <3>2. On(r) \in Requests /\ GroupOf(r) = On(r)
        BY <1>1, <3>1, CallsTyped DEF OfRow, GroupOf, ReviewOps
      <3>3. Made(On(r)) /\ Op(On(r)) = "createGroup"
        BY <1>1, <3>1, SocialAssumption DEF Grounded, Made, Op, On
      <3>4. groups[On(r)] # NONE
        <4>1. groups[On(r)] = [slug |-> 0, members |-> Cardinality(ActiveMembers(On(r))),
                               posts |-> Cardinality(ApprovedPosts(On(r)))]
          BY <3>2, <3>3 DEF Init, GroupsInit
        <4>2. Cardinality(ActiveMembers(On(r))) \in Nat /\ Cardinality(ApprovedPosts(On(r))) \in Nat
          BY Sized DEF ActiveMembers, ApprovedPosts
        <4>3. groups[On(r)] \in GroupRows
          BY <4>1, <4>2 DEF GroupRows
        <4>4. QED
          BY <4>3, SocialAssumption DEF Rows
      <3>5. QED
        BY <3>2, <3>4
    <2>4. QED
      BY <1>1, <1>2, <2>1, <2>2, <2>3 DEF Seated, Holding
  <1>4. ASSUME NEW g \in Requests, groups[g] # NONE PROVE GroupBalanced(g)
    <2>1. MembersDue(g) = {} /\ MembersOver(g) = {} /\ PostsDue(g) = {}
      BY <1>1 DEF MembersDue, MembersOver, PostsDue, MemberDue, MemberOver, PostDue
    <2>2. /\ groups[g].members = Cardinality(ActiveMembers(g))
          /\ groups[g].posts = Cardinality(ApprovedPosts(g))
      BY <1>4 DEF Init, GroupsInit
    <2>3. Cardinality(ActiveMembers(g)) \in Nat /\ Cardinality(ApprovedPosts(g)) \in Nat /\ Cardinality({}) = 0
      BY Sized DEF ActiveMembers, ApprovedPosts
    <2>4. QED
      BY <2>1, <2>2, <2>3 DEF GroupBalanced, Balance
  <1>5. QED
    BY <1>3, <1>4 DEF GroupPlaces, GroupsBalance

LEMMA GroupsSettled ==
  TInv /\ GroupsBalance => MembersCounted
  <1> SUFFICES ASSUME TInv, GroupsBalance, AllWell, stale = {}, NEW g \in Requests, groups[g] # NONE
               PROVE  /\ groups[g].members = Cardinality(ActiveMembers(g))
                      /\ groups[g].posts = Cardinality(ApprovedPosts(g))
    BY DEF MembersCounted
  <1>1. GroupBalanced(g)
    BY DEF GroupsBalance, Smooth, AllWell
  <1>2. MembersDue(g) = {} /\ MembersOver(g) = {} /\ PostsDue(g) = {}
    BY DEF AllWell, MembersDue, MembersOver, PostsDue, MemberDue, MemberOver, PostDue
  <1>3. Cardinality(ActiveMembers(g)) \in Nat /\ Cardinality(ApprovedPosts(g)) \in Nat /\ Cardinality({}) = 0
    BY Sized DEF ActiveMembers, ApprovedPosts
  <1>4. groups[g].members \in Int /\ groups[g].posts \in Int
    BY DEF TInv, TypeOK, GroupRows
  <1>5. QED
    BY <1>1, <1>2, <1>3, <1>4 DEF GroupBalanced, Balance

LEMMA GroupsStutter ==
  ASSUME TInv, GroupPlaces, GroupsBalance, UNCHANGED vars
  PROVE  GroupPlaces' /\ GroupsBalance'
  <1>1. UNCHANGED <<call, pc, target, seen, stale, posts, groups, members>>
    BY DEF vars, callVars, locals, contentVars, groupVars
  <1>2. \A r : Approval(r)' = Approval(r)
    BY <1>1 DEF Approval
  <1>3. GroupPlaces'
    BY <1>1, <1>2, SameGroups DEF GroupPlaces, Seated, Holding, Smooth
  <1>4. \A g : MembersDue(g)' = MembersDue(g) /\ MembersOver(g)' = MembersOver(g) /\ PostsDue(g)' = PostsDue(g)
    BY <1>1, SameGroups DEF MembersDue, MembersOver, PostsDue
  <1>5. \A g : ActiveMembers(g)' = ActiveMembers(g) /\ ApprovedPosts(g)' = ApprovedPosts(g)
    BY <1>1, SameGroups DEF ActiveMembers, ApprovedPosts
  <1>6. \A g : GroupBalanced(g)' = GroupBalanced(g)
    BY <1>1, <1>4, <1>5 DEF GroupBalanced, Balance
  <1>7. QED
    BY <1>1, <1>3, <1>6 DEF GroupsBalance, Smooth

\* Likewise for a group: its active memberships and its approved posts.
THEOREM MembersHold == Spec => []MembersCounted
  <1> DEFINE I == RInv /\ GroupPlaces /\ GroupsBalance
  <1>1. Init => I
    BY InitTypes, InitGone, GroupsInitially DEF RInv
  <1>2. I /\ [Next]_vars => I'
    <2> SUFFICES ASSUME I, [Next]_vars PROVE I'
      OBVIOUS
    <2>1. RInv'
      BY GoneStep
    <2>2. CASE Next
      <3>1. PICK r \in Requests : ~Ended(r) /\ Step(r) /\ UNCHANGED call
        BY <2>2 DEF Next
      <3>2. GroupPlaces' /\ GroupsBalance'
        BY <2>1, <3>1, GroupsStep DEF RInv, Gone
      <3>3. QED
        BY <2>1, <3>2
    <2>3. CASE UNCHANGED vars
      BY <2>1, <2>3, GroupsStutter DEF RInv
    <2>4. QED
      BY <2>2, <2>3
  <1>3. I => MembersCounted
    BY GroupsSettled DEF RInv
  <1>4. QED
    BY <1>1, <1>2, <1>3, PTL DEF Spec

----------------------------------------------------------------------------
(* The counters of posts and comments *)

\* No comment has been deleted twice, or is about to be.
Deleting(z) == {q \in Requests : Op(q) = "deleteComment" /\ On(q) = z /\ pc[q] # "idle"}
Even == Smooth /\ \A z \in Requests : \A x, y \in Deleting(z) : x = y

\* Where the rows come from, and what they and the calls refer to.
There(x) == IF IsComment(x) THEN comments[x] # NONE ELSE posts[x] # NONE
Likes(x) == IF IsComment(x) THEN comments[x].likes ELSE posts[x].likes
Settled(r) ==
  /\ posts[r] # NONE => Op(r) \in PostMakers
  /\ reactions[r] # NONE =>
       Op(r) = "toggleReaction" /\ pc[r] \in {"count_like", "like_notice", "notify", "ok"}
  /\ comments[r] # NONE => IsComment(r) /\ pc[r] \notin {"idle", "comment"}
  /\ comments[r] # NONE /\ comments[r].deleted => \E q \in Deleting(r) : pc[q] # "del_comment"
  /\ Op(r) = "toggleReaction" /\ pc[r] # "idle" => There(On(r))
  /\ IsComment(r) /\ pc[r] # "idle" => posts[On(r)] # NONE
  /\ IsComment(r) /\ IsReply(r) /\ pc[r] # "idle" => comments[Place(r)] # NONE
  /\ Op(r) = "deleteComment" /\ pc[r] # "idle" => comments[On(r)] # NONE
  /\ pc[r] \in {"unreact", "rereact"} =>
       target[r] \in Requests /\ On(target[r]) = On(r) /\ seen[r] # NONE
ContentPlaces == Even => \A r \in Requests : Settled(r)

\* What a target, a post and a comment have still to be told.
LikeDue(r, x, label) == label = "count_like" /\ On(r) = x
LikeOver(r, x, label) == label = "uncount_like" /\ On(r) = x
CommentDue(r, p, label) == label = "count_comment" /\ On(r) = p
CommentOver(r, p, label) == label = "uncount_comment" /\ On(On(r)) = p
ReplyDue(r, z, label) == label \in {"count_comment", "count_reply"} /\ Place(r) = z
ReplyOver(r, z, label) == label \in {"uncount_comment", "uncount_reply"} /\ Place(On(r)) = z
LikesDue(x) == {r \in Requests : LikeDue(r, x, pc[r])}
LikesOver(x) == {r \in Requests : LikeOver(r, x, pc[r])}
CommentsDue(p) == {r \in Requests : CommentDue(r, p, pc[r])}
CommentsOver(p) == {r \in Requests : CommentOver(r, p, pc[r])}
RepliesDue(z) == {r \in Requests : ReplyDue(r, z, pc[r])}
RepliesOver(z) == {r \in Requests : ReplyOver(r, z, pc[r])}
LikesBalanced(x) == Balance(Likes(x), LikesDue(x), LikesOf(x), LikesOver(x))
CommentsBalanced(p) == Balance(posts[p].comments, CommentsDue(p), CommentsOf(p), CommentsOver(p))
RepliesBalanced(z) == Balance(comments[z].replies, RepliesDue(z), RepliesTo(z), RepliesOver(z))
ContentBalance ==
  Even => \A x \in Requests : /\ There(x) => LikesBalanced(x)
                              /\ posts[x] # NONE => CommentsBalanced(x)
                              /\ comments[x] # NONE => RepliesBalanced(x)

\* What a step of r may do to the counters, the rows and the calls.
LikeDelta(r, x) ==
  IF pc[r] = "count_like" /\ On(r) = x THEN 1 ELSE IF pc[r] = "uncount_like" /\ On(r) = x THEN -1 ELSE 0
CommentDelta(r, p) ==
  IF pc[r] = "count_comment" /\ On(r) = p THEN 1
  ELSE IF pc[r] = "uncount_comment" /\ On(On(r)) = p THEN -1 ELSE 0
ReplyDelta(r, z) ==
  IF pc[r] = "count_reply" /\ Place(r) = z THEN 1
  ELSE IF pc[r] = "uncount_reply" /\ Place(On(r)) = z THEN -1 ELSE 0
PostsTold(r) ==
  \A p \in Requests :
    /\ posts[p] # NONE => /\ posts'[p] # NONE
                          /\ posts'[p].likes = posts[p].likes + LikeDelta(r, p)
                          /\ posts'[p].comments = posts[p].comments + CommentDelta(r, p)
    /\ posts[p] = NONE /\ posts'[p] # NONE =>
         p = r /\ Op(r) \in PostMakers /\ posts'[p].likes = 0 /\ posts'[p].comments = 0
CommentsTold(r) ==
  \A z \in Requests :
    /\ comments[z] # NONE =>
         /\ comments'[z] # NONE
         /\ comments'[z].likes = comments[z].likes + LikeDelta(r, z)
         /\ comments'[z].replies = comments[z].replies + ReplyDelta(r, z)
         /\ comments'[z].deleted <=> comments[z].deleted \/ (pc[r] = "del_comment" /\ z = On(r))
    /\ comments[z] = NONE =>
         /\ comments'[z] # NONE <=> z = r /\ pc[r] = "comment"
         /\ comments'[z] # NONE => comments'[z] = NewComment
ReactionsTold(r) ==
  /\ pc[r] = "unreact" => reactions[target[r]] # NONE
  /\ \A y \in Requests :
       reactions'[y] # NONE <=>
         \/ y = r /\ pc[r] = "react"
         \/ reactions[y] # NONE /\ ~(pc[r] = "unreact" /\ y = target[r])
Advances(r) ==
  /\ pc'[r] = "count_like" <=> pc[r] = "react"
  /\ pc'[r] = "uncount_like" <=> pc[r] = "unreact"
  /\ pc'[r] = "count_comment" <=> pc[r] = "comment"
  /\ pc'[r] = "count_reply" <=> pc[r] = "count_comment" /\ IsReply(r)
  /\ pc'[r] = "uncount_comment" <=> pc[r] = "del_comment"
  /\ pc'[r] = "uncount_reply" <=> pc[r] = "uncount_comment" /\ IsReply(On(r))
Tells(r) == Moves(r) /\ PostsTold(r) /\ CommentsTold(r) /\ ReactionsTold(r) /\ Advances(r)

LEMMA PostCounts ==
  ASSUME TInv, NEW x, NEW n \in Int, NEW counter \in {"likes", "comments", "shares", "views"},
         posts' = Bump(posts, x, counter, n)
  PROVE  \A p \in Requests :
           /\ posts'[p] # NONE <=> posts[p] # NONE
           /\ posts[p] # NONE =>
                /\ posts'[p].likes = posts[p].likes + (IF p = x /\ counter = "likes" THEN n ELSE 0)
                /\ posts'[p].comments = posts[p].comments + (IF p = x /\ counter = "comments" THEN n ELSE 0)
  <1>1. \A row \in PostRows :
          LET new == [row EXCEPT ![counter] = row[counter] + n] IN
          /\ new \in PostRows
          /\ new.likes = row.likes + (IF counter = "likes" THEN n ELSE 0)
          /\ new.comments = row.comments + (IF counter = "comments" THEN n ELSE 0)
    BY DEF PostRows
  <1>2. NONE \notin PostRows
    BY SocialAssumption DEF Rows
  <1>3. \A p \in Requests : posts[p] # NONE => posts[p].likes \in Int /\ posts[p].comments \in Int
    BY DEF TInv, TypeOK, PostRows
  <1>4. CASE posts[x] = NONE
    BY <1>3, <1>4 DEF Bump
  <1>5. CASE posts[x] # NONE
    <2> DEFINE row == [posts[x] EXCEPT ![counter] = posts[x][counter] + n]
    <2>1. posts' = [posts EXCEPT ![x] = row]
      BY <1>5 DEF Bump
    <2>2. x \in Requests =>
            /\ row \in PostRows
            /\ row.likes = posts[x].likes + (IF counter = "likes" THEN n ELSE 0)
            /\ row.comments = posts[x].comments + (IF counter = "comments" THEN n ELSE 0)
      BY <1>1, <1>5 DEF TInv, TypeOK
    <2> HIDE DEF row
    <2>3. \A p \in Requests : posts'[p] = IF p = x THEN row ELSE posts[p]
      BY <2>1 DEF TInv, TypeOK
    <2>4. QED
      BY <1>2, <1>3, <1>5, <2>2, <2>3
  <1>6. QED
    BY <1>4, <1>5

LEMMA CommentCounts ==
  ASSUME TInv, NEW x, NEW n \in Int, NEW counter \in {"likes", "replies"}, comments' = Bump(comments, x, counter, n)
  PROVE  \A z \in Requests :
           /\ comments'[z] # NONE <=> comments[z] # NONE
           /\ comments[z] # NONE =>
                /\ comments'[z].likes = comments[z].likes + (IF z = x /\ counter = "likes" THEN n ELSE 0)
                /\ comments'[z].replies = comments[z].replies + (IF z = x /\ counter = "replies" THEN n ELSE 0)
                /\ comments'[z].deleted = comments[z].deleted
  <1>1. \A row \in CommentRows :
          LET new == [row EXCEPT ![counter] = row[counter] + n] IN
          /\ new \in CommentRows /\ new.deleted = row.deleted
          /\ new.likes = row.likes + (IF counter = "likes" THEN n ELSE 0)
          /\ new.replies = row.replies + (IF counter = "replies" THEN n ELSE 0)
    BY DEF CommentRows
  <1>2. NONE \notin CommentRows
    BY SocialAssumption DEF Rows
  <1>3. \A z \in Requests : comments[z] # NONE => comments[z].likes \in Int /\ comments[z].replies \in Int
    BY DEF TInv, TypeOK, CommentRows
  <1>4. CASE comments[x] = NONE
    BY <1>3, <1>4 DEF Bump
  <1>5. CASE comments[x] # NONE
    <2> DEFINE row == [comments[x] EXCEPT ![counter] = comments[x][counter] + n]
    <2>1. comments' = [comments EXCEPT ![x] = row]
      BY <1>5 DEF Bump
    <2>2. x \in Requests =>
            /\ row \in CommentRows /\ row.deleted = comments[x].deleted
            /\ row.likes = comments[x].likes + (IF counter = "likes" THEN n ELSE 0)
            /\ row.replies = comments[x].replies + (IF counter = "replies" THEN n ELSE 0)
      BY <1>1, <1>5 DEF TInv, TypeOK
    <2> HIDE DEF row
    <2>3. \A z \in Requests : comments'[z] = IF z = x THEN row ELSE comments[z]
      BY <2>1 DEF TInv, TypeOK
    <2>4. QED
      BY <1>2, <1>3, <1>5, <2>2, <2>3
  <1>6. QED
    BY <1>4, <1>5

LEMMA EvenSoFar ==
  ASSUME TInv, UNCHANGED call, NEW r \in Requests, ~Ended(r), Moves(r), Even'
  PROVE  Even /\ Smooth' /\ stale' = {}
  <1>1. Smooth /\ stale' = {} /\ Smooth'
    BY SmoothSoFar DEF Even
  <1>2. \A q : On(q)' = On(q) /\ Op(q)' = Op(q)
    BY SameGroups
  <1>3. \A q \in Requests : pc[q] # "idle" => pc'[q] # "idle"
    BY DEF Moves, Walk
  <1>4. \A z : Deleting(z) \subseteq Deleting(z)'
    BY <1>2, <1>3 DEF Deleting
  <1>5. QED
    BY <1>1, <1>4 DEF Even

SumPcs == {"count_like", "uncount_like", "count_comment", "count_reply", "uncount_comment", "uncount_reply"}
RowPcs == {"react", "unreact", "comment", "del_comment"}
Quiet(r) == pc[r] \notin SumPcs \cup RowPcs /\ pc'[r] \notin SumPcs

LEMMA Untold ==
  ASSUME TInv, NEW r \in Requests, Quiet(r)
  PROVE  /\ Advances(r)
         /\ \A x : LikeDelta(r, x) = 0 /\ CommentDelta(r, x) = 0 /\ ReplyDelta(r, x) = 0
         /\ posts' = posts => PostsTold(r)
         /\ comments' = comments => CommentsTold(r)
         /\ reactions' = reactions => ReactionsTold(r)
  <1>1. Advances(r)
    BY DEF Quiet, SumPcs, RowPcs, Advances
  <1>2. \A x : LikeDelta(r, x) = 0 /\ CommentDelta(r, x) = 0 /\ ReplyDelta(r, x) = 0
    BY DEF Quiet, SumPcs, LikeDelta, CommentDelta, ReplyDelta
  <1>3. posts' = posts => PostsTold(r)
    <2>1. \A p \in Requests : posts[p] # NONE => posts[p].likes \in Int /\ posts[p].comments \in Int
      BY DEF TInv, TypeOK, PostRows
    <2>2. QED
      BY <1>2, <2>1 DEF PostsTold
  <1>4. comments' = comments => CommentsTold(r)
    <2>1. \A z \in Requests : comments[z] # NONE => comments[z].likes \in Int /\ comments[z].replies \in Int
      BY DEF TInv, TypeOK, CommentRows
    <2>2. QED
      BY <1>2, <2>1 DEF CommentsTold, Quiet, RowPcs
  <1>5. reactions' = reactions => ReactionsTold(r)
    BY DEF ReactionsTold, Quiet, RowPcs
  <1>6. QED
    BY <1>1, <1>2, <1>3, <1>4, <1>5

LEMMA PostInserted ==
  ASSUME TInv, PostsGone, NEW r \in Requests, Quiet(r), pc[r] \in {"idle", "repost", "group_post"},
         Op(r) \in PostMakers, NEW approval \in Approvals, posts' = [posts EXCEPT ![r] = NewPost(approval)]
  PROVE  PostsTold(r)
  <1>1. posts[r] = NONE
    BY DEF PostsGone
  <1>2. NewPost(approval).likes = 0 /\ NewPost(approval).comments = 0
    BY DEF NewPost
  <1>3. posts'[r] = NewPost(approval) /\ \A p \in Requests : p # r => posts'[p] = posts[p]
    BY DEF TInv, TypeOK
  <1>4. \A p \in Requests : posts[p] # NONE => posts[p].likes \in Int /\ posts[p].comments \in Int
    BY DEF TInv, TypeOK, PostRows
  <1>5. \A x : LikeDelta(r, x) = 0 /\ CommentDelta(r, x) = 0
    BY Untold
  <1>6. QED
    BY <1>1, <1>2, <1>3, <1>4, <1>5 DEF PostsTold

LEMMA PostSaved ==
  ASSUME TInv, NEW r \in Requests, Quiet(r), NEW x \in Requests, NEW row \in PostRows, posts[x] \in PostRows,
         row.likes = posts[x].likes, row.comments = posts[x].comments, posts' = [posts EXCEPT ![x] = row]
  PROVE  PostsTold(r)
  <1>1. row # NONE /\ posts[x] # NONE
    BY SocialAssumption DEF Rows
  <1>2. posts'[x] = row /\ \A p \in Requests : p # x => posts'[p] = posts[p]
    BY DEF TInv, TypeOK
  <1>3. \A p \in Requests : posts[p] # NONE => posts[p].likes \in Int /\ posts[p].comments \in Int
    BY DEF TInv, TypeOK, PostRows
  <1>4. \A y : LikeDelta(r, y) = 0 /\ CommentDelta(r, y) = 0
    BY Untold
  <1>5. QED
    BY <1>1, <1>2, <1>3, <1>4 DEF PostsTold

LEMMA PostBumped ==
  ASSUME TInv, NEW r \in Requests, Quiet(r), NEW x, NEW n \in Int, NEW counter \in {"shares", "views"},
         posts' = Bump(posts, x, counter, n)
  PROVE  PostsTold(r)
  <1>1. \A p \in Requests : posts[p] # NONE => posts[p].likes \in Int /\ posts[p].comments \in Int
    BY DEF TInv, TypeOK, PostRows
  <1>2. \A y : LikeDelta(r, y) = 0 /\ CommentDelta(r, y) = 0
    BY Untold
  <1>3. QED
    BY <1>1, <1>2, PostCounts DEF PostsTold

\* The steps that touch posts, but neither their comments nor their likes.
LEMMA PostTells ==
  ASSUME TInv, PostsGone, UNCHANGED call, NEW r \in Requests, Moves(r), ContentStep(r), stale' = {},
         pc[r] \in {"idle", "media", "tags", "unindex", "index", "del_post", "del_media", "del_tags", "repost",
                    "share", "mention", "reaction", "like_notice", "view_story", "del_story"}
  PROVE  Quiet(r) /\ PostsTold(r) /\ comments' = comments /\ reactions' = reactions
  <1>0. TypeOK /\ Fits(Op(r), pc[r])
    BY DEF TInv, Walks
  <1> USE DEF Labels, ContentLabels, NoticeLabels
  <1>1. Quiet(r)
    <2>1. pc[r] \notin SumPcs \cup RowPcs
      BY DEF SumPcs, RowPcs
    <2>2. CASE InsertPost(r) \/ SaveMedia(r) \/ SaveTags(r) \/ Unindex(r) \/ Index(r)
      BY <1>0, <2>1, <2>2, Goes DEF InsertPost, SaveMedia, SaveTags, Unindex, Index, Quiet, SumPcs
    <2>3. CASE FindOwnPost(r) \/ DeletePost(r) \/ DeleteDocuments(r) \/ FindOriginal(r) \/ Repost(r)
      BY <1>0, <2>1, <2>3, Goes DEF FindOwnPost, DeletePost, DeleteDocuments, FindOriginal, Repost, Quiet, SumPcs
    <2>4. CASE FindPost(r) \/ SaveMentions(r) \/ FindOwnComment(r) \/ FindTarget(r) \/ FindReaction(r) \/ FindOwner(r)
      BY <1>0, <2>1, <2>4, Goes DEF FindPost, SaveMentions, FindOwnComment, FindTarget, FindReaction, FindOwner,
         Quiet, SumPcs
    <2>5. CASE CreateStory(r) \/ FindStory(r) \/ ViewStory(r) \/ DeleteStory(r) \/ CleanStories(r)
      BY <1>0, <2>1, <2>5, Goes DEF CreateStory, FindStory, ViewStory, DeleteStory, CleanStories, Quiet, SumPcs
    <2>6. QED
      BY <2>2, <2>3, <2>4, <2>5 DEF ContentStep, InsertComment, CountComment, CountReply, DeleteComment,
         UncountComment, UncountReply, Unreact, Rereact, React, CountLike
  <1>2. comments' = comments /\ reactions' = reactions
    BY DEF ContentStep, contentVars, InsertComment, CountComment, CountReply, DeleteComment, UncountComment,
       UncountReply, Unreact, Rereact, React, CountLike, InsertPost, SaveMedia, SaveTags, Unindex, Index,
       FindOwnPost, DeletePost, DeleteDocuments, FindOriginal, Repost, FindPost, SaveMentions, FindOwnComment,
       FindTarget, FindReaction, FindOwner, CreateStory, FindStory, ViewStory, DeleteStory, CleanStories
  <1>3. CASE InsertPost(r) \/ (Repost(r) /\ pc[r] = "repost")
    <2>1. posts' = [posts EXCEPT ![r] = NewPost("NONE")] /\ pc[r] \in {"idle", "repost"} /\ Op(r) \in PostMakers
      BY <1>0, <1>3 DEF InsertPost, Repost, Fits, PostMakers
    <2>2. "NONE" \in Approvals
      BY DEF Approvals
    <2>3. QED
      BY <1>1, <1>2, <2>1, <2>2, PostInserted
  <1>4. CASE Repost(r) /\ pc[r] = "share"
    BY <1>1, <1>2, <1>4, PostBumped DEF Repost
  <1>5. CASE DeletePost(r)
    <2>1. On(r) \in Requests /\ target[r] = On(r) /\ seen[r] \in PostRows
      BY <1>5, RowNamed DEF DeletePost, TInv, Walks, Carries
    <2>2. posts[On(r)] = seen[r]
      BY <1>5, <2>1 DEF DeletePost, Writes
    <2> DEFINE row == [seen[r] EXCEPT !.deleted = TRUE]
    <2>3. posts' = [posts EXCEPT ![On(r)] = row]
      BY <1>5, <2>1 DEF DeletePost
    <2>4. row \in PostRows /\ row.likes = seen[r].likes /\ row.comments = seen[r].comments
      BY <2>1 DEF PostRows
    <2> HIDE DEF row
    <2>5. QED
      BY <1>1, <1>2, <2>1, <2>2, <2>3, <2>4, PostSaved
  <1>6. CASE posts' = posts
    BY <1>1, <1>2, <1>6, Untold
  <1>7. posts' = posts \/ InsertPost(r) \/ Repost(r) \/ DeletePost(r)
    BY DEF ContentStep, contentVars, InsertComment, CountComment, CountReply, DeleteComment, UncountComment,
       UncountReply, Unreact, Rereact, React, CountLike, SaveMedia, SaveTags, Unindex, Index,
       FindOwnPost, DeleteDocuments, FindOriginal, FindPost, SaveMentions, FindOwnComment,
       FindTarget, FindReaction, FindOwner, CreateStory, FindStory, ViewStory, DeleteStory, CleanStories
  <1>8. QED
    BY <1>3, <1>4, <1>5, <1>6, <1>7 DEF Repost

LEMMA CountersTyped ==
  ASSUME TypeOK
  PROVE  /\ \A p \in Requests : posts[p] # NONE => posts[p].likes \in Int /\ posts[p].comments \in Int
         /\ \A z \in Requests : comments[z] # NONE =>
              /\ comments[z] \in CommentRows /\ comments[z].deleted \in BOOLEAN
              /\ comments[z].likes \in Int /\ comments[z].replies \in Int
  BY DEF TypeOK, PostRows, CommentRows

LEMMA RowKinds ==
  ASSUME Even, ContentPlaces
  PROVE  /\ \A x \in Requests : posts[x] # NONE => ~IsComment(x)
         /\ \A x \in Requests : comments[x] # NONE => IsComment(x)
  BY DEF ContentPlaces, Settled, IsComment, PostMakers

LEMMA CommentWays ==
  ASSUME NEW r
  PROVE  IF IsReply(r) THEN CommentCounted(r) = "count_reply" ELSE CommentCounted(r) \in {"mention", "notify"}
  BY DEF CommentCounted

\* The steps that insert, delete and count comments and reactions.
LEMMA CommentTells ==
  ASSUME TInv, UNCHANGED call, NEW r \in Requests, Moves(r), Even, ContentPlaces, stale' = {},
         InsertComment(r) \/ CountComment(r) \/ CountReply(r) \/ DeleteComment(r)
           \/ UncountComment(r) \/ UncountReply(r)
  PROVE  Tells(r)
  <1>0. TypeOK /\ Fits(Op(r), pc[r]) /\ Carries(r)
    BY DEF TInv, Walks
  <1> USE DEF Labels, ContentLabels, NoticeLabels, LikeDelta, CommentDelta, ReplyDelta
  <1>1. CASE InsertComment(r)
    <2>1. /\ pc[r] = "comment" /\ pc'[r] = "count_comment" /\ posts' = posts /\ reactions' = reactions
          /\ comments' = [comments EXCEPT ![r] = NewComment]
      BY <1>0, <1>1, Goes DEF InsertComment
    <2>2. comments[r] = NONE /\ NewComment # NONE
      <3>1. NewComment \in CommentRows
        BY DEF NewComment, CommentRows
      <3>2. QED
        BY <2>1, <3>1, SocialAssumption DEF ContentPlaces, Settled, Rows
    <2>3. comments'[r] = NewComment /\ \A z \in Requests : z # r => comments'[z] = comments[z]
      BY <1>0, <2>1 DEF TypeOK
    <2>4. Advances(r)
      BY <2>1 DEF Advances
    <2>5. PostsTold(r)
      BY <1>0, <2>1, CountersTyped DEF PostsTold
    <2>6. CommentsTold(r)
      BY <1>0, <2>1, <2>2, <2>3, CountersTyped DEF CommentsTold
    <2>7. ReactionsTold(r)
      BY <2>1 DEF ReactionsTold
    <2>8. QED
      BY <2>4, <2>5, <2>6, <2>7 DEF Tells
  <1>2. CASE CountComment(r)
    <2>1. /\ pc[r] = "count_comment" /\ comments' = comments /\ reactions' = reactions
          /\ posts' = Bump(posts, On(r), "comments", 1)
          /\ IF IsReply(r) THEN pc'[r] = "count_reply" ELSE pc'[r] \in {"mention", "notify"}
      <3>1. IF IsReply(r) THEN CommentCounted(r) = "count_reply" ELSE CommentCounted(r) \in {"mention", "notify"}
        BY Zenon, CommentWays
      <3>2. CommentCounted(r) \in Labels \ {"idle"}
        BY <3>1
      <3>3. pc'[r] = CommentCounted(r)
        BY <1>0, <1>2, <3>2, Goes DEF CountComment
      <3>4. QED
        BY <1>2, <3>1, <3>3 DEF CountComment
    <2>4. Advances(r)
      BY <2>1 DEF Advances
    <2>5. PostsTold(r)
      BY <1>0, <2>1, CountersTyped, PostCounts DEF PostsTold
    <2>6. CommentsTold(r)
      BY <1>0, <2>1, CountersTyped DEF CommentsTold
    <2>7. ReactionsTold(r)
      BY <2>1 DEF ReactionsTold
    <2>8. QED
      BY <2>4, <2>5, <2>6, <2>7 DEF Tells
  <1>3. CASE CountReply(r)
    <2>1. /\ pc[r] = "count_reply" /\ posts' = posts /\ reactions' = reactions
          /\ comments' = Bump(comments, Place(r), "replies", 1)
          /\ pc'[r] \in {"mention", "notify"}
      BY <1>0, <1>3, Goes DEF CountReply
    <2>4. Advances(r)
      BY <2>1 DEF Advances
    <2>5. PostsTold(r)
      BY <1>0, <2>1, CountersTyped DEF PostsTold
    <2>6. CommentsTold(r)
      BY <1>0, <2>1, CountersTyped, CommentCounts DEF CommentsTold
    <2>7. ReactionsTold(r)
      BY <2>1 DEF ReactionsTold
    <2>8. QED
      BY <2>4, <2>5, <2>6, <2>7 DEF Tells
  <1>4. CASE DeleteComment(r)
    <2>1. /\ pc[r] = "del_comment" /\ pc'[r] = "uncount_comment" /\ posts' = posts /\ reactions' = reactions
          /\ target[r] = On(r) /\ seen[r] \in CommentRows /\ Op(r) = "deleteComment"
      BY <1>0, <1>4, Goes DEF DeleteComment, Carries, Fits
    <2>2. On(r) \in Requests
      BY <1>0, <2>1, CallsTyped DEF TypeOK, OfRow
    <2>3. comments[On(r)] = seen[r]
      BY <1>4, <2>1 DEF DeleteComment, Writes
    <2> DEFINE row == [seen[r] EXCEPT !.deleted = TRUE]
    <2>4. comments' = [comments EXCEPT ![On(r)] = row]
      BY <1>4, <2>1 DEF DeleteComment
    <2>5. /\ row \in CommentRows /\ row.deleted = TRUE
          /\ row.likes = seen[r].likes /\ row.replies = seen[r].replies
      BY <2>1 DEF CommentRows
    <2> HIDE DEF row
    <2>6. comments'[On(r)] = row /\ \A z \in Requests : z # On(r) => comments'[z] = comments[z]
      BY <1>0, <2>2, <2>4 DEF TypeOK
    <2>7. row # NONE /\ seen[r] # NONE
      BY <2>1, <2>5, SocialAssumption DEF Rows
    <2>8. Advances(r)
      BY <2>1 DEF Advances
    <2>9. PostsTold(r)
      BY <1>0, <2>1, CountersTyped DEF PostsTold
    <2>10. CommentsTold(r)
      BY <1>0, <2>1, <2>3, <2>5, <2>6, <2>7, CountersTyped DEF CommentsTold
    <2>11. ReactionsTold(r)
      BY <2>1 DEF ReactionsTold
    <2>12. QED
      BY <2>8, <2>9, <2>10, <2>11 DEF Tells
  <1>5. CASE UncountComment(r)
    <2>1. /\ pc[r] = "uncount_comment" /\ comments' = comments /\ reactions' = reactions
          /\ target[r] = On(r) /\ posts' = Bump(posts, On(target[r]), "comments", -1)
          /\ pc'[r] = (IF IsReply(target[r]) THEN "uncount_reply" ELSE "ok")
      BY <1>0, <1>5, Goes DEF UncountComment, Carries
    <2>4. Advances(r)
      BY <2>1 DEF Advances
    <2>5. PostsTold(r)
      BY <1>0, <2>1, CountersTyped, PostCounts DEF PostsTold
    <2>6. CommentsTold(r)
      BY <1>0, <2>1, CountersTyped DEF CommentsTold
    <2>7. ReactionsTold(r)
      BY <2>1 DEF ReactionsTold
    <2>8. QED
      BY <2>4, <2>5, <2>6, <2>7 DEF Tells
  <1>6. CASE UncountReply(r)
    <2>1. /\ pc[r] = "uncount_reply" /\ posts' = posts /\ reactions' = reactions /\ pc'[r] = "ok"
          /\ target[r] = On(r) /\ comments' = Bump(comments, Place(target[r]), "replies", -1)
      BY <1>0, <1>6, Goes DEF UncountReply, Carries
    <2>4. Advances(r)
      BY <2>1 DEF Advances
    <2>5. PostsTold(r)
      BY <1>0, <2>1, CountersTyped DEF PostsTold
    <2>6. CommentsTold(r)
      BY <1>0, <2>1, CountersTyped, CommentCounts DEF CommentsTold
    <2>7. ReactionsTold(r)
      BY <2>1 DEF ReactionsTold
    <2>8. QED
      BY <2>4, <2>5, <2>6, <2>7 DEF Tells
  <1>7. QED
    BY <1>1, <1>2, <1>3, <1>4, <1>5, <1>6

LEMMA ReactionTells ==
  ASSUME TInv, UNCHANGED call, NEW r \in Requests, Moves(r), Even, ContentPlaces, stale' = {},
         Unreact(r) \/ Rereact(r) \/ React(r) \/ CountLike(r)
  PROVE  Tells(r)
  <1>0. TypeOK /\ Fits(Op(r), pc[r]) /\ Carries(r) /\ Settled(r)
    BY DEF TInv, Walks, ContentPlaces
  <1> USE DEF Labels, ContentLabels, NoticeLabels
  <1>1. ASSUME posts' = posts, comments' = comments, pc[r] \notin SumPcs \cup {"comment", "del_comment"}
        PROVE  PostsTold(r) /\ CommentsTold(r)
    <2>1. \A x : LikeDelta(r, x) = 0 /\ CommentDelta(r, x) = 0 /\ ReplyDelta(r, x) = 0
      BY <1>1 DEF SumPcs, LikeDelta, CommentDelta, ReplyDelta
    <2>2. QED
      BY <1>0, <1>1, <2>1, CountersTyped DEF PostsTold, CommentsTold
  <1>2. CASE Unreact(r)
    <2>1. /\ pc[r] = "unreact" /\ pc'[r] = "uncount_like" /\ posts' = posts /\ comments' = comments
          /\ reactions' = [reactions EXCEPT ![target[r]] = NONE]
      BY <1>0, <1>2, Goes DEF Unreact
    <2>2. \A y \in Requests : reactions'[y] = IF y = target[r] THEN NONE ELSE reactions[y]
      BY <1>0, <2>1 DEF TypeOK
    <2>3. Advances(r)
      BY <2>1 DEF Advances
    <2>4. reactions[target[r]] # NONE
      BY <1>0, <1>2, <2>1 DEF Unreact, Writes, Settled
    <2>5. ReactionsTold(r)
      BY <2>1, <2>2, <2>4 DEF ReactionsTold
    <2>6. QED
      BY <1>1, <2>1, <2>3, <2>5 DEF Tells, SumPcs
  <1>3. CASE Rereact(r)
    <2>1. /\ pc[r] = "rereact" /\ pc'[r] = "ok" /\ posts' = posts /\ comments' = comments
          /\ Op(r) = "toggleReaction" /\ seen[r] # NONE
      BY <1>0, <1>3, Goes DEF Rereact, Fits, Settled
    <2>2. reactions[target[r]] = seen[r]
      BY <1>3 DEF Rereact, Writes
    <2>3. [type |-> Arg(r)] # NONE
      <3>1. Arg(r) \in {"LIKE", "LOVE"}
        BY <1>0, <2>1, CallsTyped DEF TypeOK, ArgsOf
      <3>2. [type |-> Arg(r)] \in ReactionRows
        BY <3>1 DEF ReactionRows
      <3>3. QED
        BY <3>2, SocialAssumption DEF Rows
    <2>4. \A y \in Requests : reactions'[y] = IF y = target[r] THEN [type |-> Arg(r)] ELSE reactions[y]
      BY <1>0, <1>3 DEF Rereact, TypeOK
    <2>5. Advances(r)
      BY <2>1 DEF Advances
    <2>6. ReactionsTold(r)
      BY <2>1, <2>2, <2>3, <2>4 DEF ReactionsTold
    <2>7. QED
      BY <1>1, <2>1, <2>5, <2>6 DEF Tells, SumPcs
  <1>4. CASE React(r)
    <2>1. /\ pc[r] = "react" /\ pc'[r] = "count_like" /\ posts' = posts /\ comments' = comments
          /\ Op(r) = "toggleReaction"
      BY <1>0, <1>4, Goes DEF React, Fits
    <2>2. [type |-> Arg(r)] # NONE
      <3>1. Arg(r) \in {"LIKE", "LOVE"}
        BY <1>0, <2>1, CallsTyped DEF TypeOK, ArgsOf
      <3>2. [type |-> Arg(r)] \in ReactionRows
        BY <3>1 DEF ReactionRows
      <3>3. QED
        BY <3>2, SocialAssumption DEF Rows
    <2>3. \A y \in Requests : reactions'[y] = IF y = r THEN [type |-> Arg(r)] ELSE reactions[y]
      BY <1>0, <1>4 DEF React, TypeOK
    <2>4. Advances(r)
      BY <2>1 DEF Advances
    <2>5. ReactionsTold(r)
      BY <2>1, <2>2, <2>3 DEF ReactionsTold
    <2>6. QED
      BY <1>1, <2>1, <2>4, <2>5 DEF Tells, SumPcs
  <1>5. CASE CountLike(r)
    <2> DEFINE n == IF pc[r] = "count_like" THEN 1 ELSE -1
    <2>1. /\ pc[r] \in {"count_like", "uncount_like"} /\ pc'[r] \in {"like_notice", "ok"}
          /\ reactions' = reactions /\ Op(r) = "toggleReaction"
      BY <1>0, <1>5, Goes DEF CountLike, Fits
    <2>2. Advances(r) /\ ReactionsTold(r)
      BY <2>1 DEF Advances, ReactionsTold
    <2>3. n \in Int /\ \A x : /\ LikeDelta(r, x) = (IF x = On(r) THEN n ELSE 0)
                              /\ CommentDelta(r, x) = 0 /\ ReplyDelta(r, x) = 0
      BY <2>1 DEF LikeDelta, CommentDelta, ReplyDelta
    <2>4. /\ IsComment(On(r)) => comments' = Bump(comments, On(r), "likes", n) /\ posts' = posts
          /\ ~IsComment(On(r)) => posts' = Bump(posts, On(r), "likes", n) /\ comments' = comments
      BY <1>5 DEF CountLike
    <2> HIDE DEF n
    <2>5. CASE IsComment(On(r))
      <3>1. PostsTold(r)
        BY <1>0, <2>3, <2>4, <2>5, RowKinds, CountersTyped DEF PostsTold
      <3>2. CommentsTold(r)
        BY <1>0, <2>1, <2>3, <2>4, <2>5, CommentCounts, CountersTyped DEF CommentsTold
      <3>3. QED
        BY <2>2, <3>1, <3>2 DEF Tells
    <2>6. CASE ~IsComment(On(r))
      <3>1. PostsTold(r)
        BY <1>0, <2>3, <2>4, <2>6, PostCounts, CountersTyped DEF PostsTold
      <3>2. CommentsTold(r)
        BY <1>0, <2>1, <2>3, <2>4, <2>6, RowKinds, CountersTyped DEF CommentsTold
      <3>3. QED
        BY <2>2, <3>1, <3>2 DEF Tells
    <2>7. QED
      BY <2>5, <2>6
  <1>6. QED
    BY <1>2, <1>3, <1>4, <1>5

LEMMA QuietTells ==
  ASSUME TInv, NEW r \in Requests, Moves(r), Quiet(r), PostsTold(r), UNCHANGED <<comments, reactions>>
  PROVE  Tells(r)
  BY Untold DEF Tells

LEMMA GroupPostTells ==
  ASSUME TInv, PostsGone, UNCHANGED <<call, comments, reactions>>, NEW r \in Requests, GroupPostStep(r), stale' = {}
  PROVE  Tells(r)
  <1>0. TypeOK /\ Fits(Op(r), pc[r]) /\ Carries(r) /\ Moves(r)
    BY GroupPostMoves DEF TInv, Walks
  <1>1. Quiet(r)
    BY GroupPostRoute DEF Quiet, SumPcs, RowPcs
  <1>2. CASE InsertGroupPost(r)
    <2> DEFINE approval == IF NeedsApproval(r) THEN "PENDING" ELSE "APPROVED"
    <2>1. pc[r] = "group_post" /\ posts' = [posts EXCEPT ![r] = NewPost(approval)]
      BY <1>2 DEF InsertGroupPost
    <2>2. approval \in Approvals
      BY DEF Approvals
    <2>3. Op(r) \in PostMakers
      BY <1>0, <2>1 DEF Fits, PostMakers
    <2> HIDE DEF approval
    <2>4. PostsTold(r)
      BY <1>1, <2>1, <2>2, <2>3, PostInserted
    <2>5. QED
      BY <1>0, <1>1, <2>4, QuietTells
  <1>3. CASE Review(r)
    <2> DEFINE verdict == IF Op(r) = "approveGroupPost" THEN "APPROVED" ELSE "REJECTED"
               row == [seen[r] EXCEPT !.approval = verdict]
    <2>1. pc[r] = "review" /\ seen[r] \in PostRows /\ Op(r) \in ReviewOps
      BY <1>0, <1>3 DEF Review, Carries, Fits
    <2>2. On(r) \in Requests
      BY <1>0, <2>1, CallsTyped DEF TypeOK, OfRow
    <2>3. posts[On(r)] = seen[r]
      BY <1>3 DEF Review
    <2>4. posts' = [posts EXCEPT ![On(r)] = row]
      BY <1>3 DEF Review
    <2>5. verdict \in Approvals
      BY DEF Approvals
    <2> HIDE DEF verdict
    <2>6. row \in PostRows /\ row.likes = seen[r].likes /\ row.comments = seen[r].comments
      BY <2>1, <2>5 DEF PostRows
    <2> HIDE DEF row
    <2>7. PostsTold(r)
      BY <1>1, <2>1, <2>2, <2>3, <2>4, <2>6, PostSaved
    <2>8. QED
      BY <1>0, <1>1, <2>7, QuietTells
  <1>4. CASE posts' = posts
    BY <1>0, <1>1, <1>4, Untold, QuietTells
  <1>5. QED
    BY <1>2, <1>3, <1>4 DEF GroupPostStep, CountPost, FindPendingPost, ListGroupPosts

LEMMA FeedTells ==
  ASSUME TInv, UNCHANGED <<call, comments, reactions>>, NEW r \in Requests, FeedStep(r)
  PROVE  Tells(r)
  <1>1. Moves(r)
    BY FeedMoves
  <1>2. Quiet(r)
    BY FeedRoute DEF Quiet, SumPcs, RowPcs, FeedLabels
  <1>3. CASE posts' = posts
    BY <1>1, <1>2, <1>3, Untold, QuietTells
  <1>4. CASE posts' = Bump(posts, On(r), "views", 1)
    <2>1. PostsTold(r)
      BY <1>2, <1>4, PostBumped
    <2>2. QED
      BY <1>1, <1>2, <2>1, QuietTells
  <1>5. QED
    BY <1>3, <1>4 DEF FeedStep, Attach, CountView

LEMMA ContentTells ==
  ASSUME TInv, PostsGone, UNCHANGED call, NEW r \in Requests, ContentStep(r), stale' = {}, Even, ContentPlaces
  PROVE  Tells(r)
  <1>1. Moves(r)
    BY ContentMoves
  <1>2. CASE InsertComment(r) \/ CountComment(r) \/ CountReply(r) \/ DeleteComment(r)
             \/ UncountComment(r) \/ UncountReply(r)
    BY <1>1, <1>2, CommentTells
  <1>3. CASE Unreact(r) \/ Rereact(r) \/ React(r) \/ CountLike(r)
    BY <1>1, <1>3, ReactionTells
  <1>4. CASE pc[r] \in {"idle", "media", "tags", "unindex", "index", "del_post", "del_media", "del_tags", "repost",
                        "share", "mention", "reaction", "like_notice", "view_story", "del_story"}
    BY <1>1, <1>4, PostTells, QuietTells
  <1>5. pc[r] \in {"idle", "media", "tags", "unindex", "index", "del_post", "del_media", "del_tags", "repost",
                   "share", "mention", "reaction", "like_notice", "view_story", "del_story"}
        \/ InsertComment(r) \/ CountComment(r) \/ CountReply(r) \/ DeleteComment(r)
        \/ UncountComment(r) \/ UncountReply(r) \/ Unreact(r) \/ Rereact(r) \/ React(r) \/ CountLike(r)
    BY DEF ContentStep, InsertPost, SaveMedia, SaveTags, Unindex, Index,
       FindOwnPost, DeletePost, DeleteDocuments, FindOriginal, Repost, FindPost, SaveMentions, FindOwnComment,
       FindTarget, FindReaction, FindOwner, CreateStory, FindStory, ViewStory, DeleteStory, CleanStories
  <1>6. QED
    BY <1>2, <1>3, <1>4, <1>5

\* Every step of r, whatever it calls, tells the posts and comments what it does.
LEMMA AllTell ==
  ASSUME TInv, PostsGone, UNCHANGED call, NEW r \in Requests, Step(r), stale' = {}, pc'[r] # "failed",
         Even, ContentPlaces
  PROVE  Tells(r)
  <1>1. ASSUME Moves(r), Quiet(r), UNCHANGED <<posts, comments, reactions>> PROVE Tells(r)
    BY <1>1, Untold, QuietTells
  <1> USE DEF Quiet, SumPcs, RowPcs
  <1>2. CASE ConnectionStep(r) /\ UNCHANGED contentVars
    BY <1>1, <1>2, ConnectionRoute, ConnectionMoves DEF contentVars, LinkLabels
  <1>3. CASE NoticeStep(r) /\ UNCHANGED contentVars
    BY <1>1, <1>3, NoticeRoute, NoticeMoves DEF contentVars
  <1>4. CASE ContentStep(r)
    BY <1>4, ContentTells
  <1>5. CASE FeedStep(r) /\ UNCHANGED <<comments, reactions>>
    BY <1>5, FeedTells
  <1>6. CASE MembershipStep(r) /\ UNCHANGED contentVars
    BY <1>1, <1>6, MembershipRoute, MembershipMoves DEF contentVars, GroupLabels
  <1>7. CASE GroupPostStep(r) /\ UNCHANGED <<comments, reactions>>
    BY <1>7, GroupPostTells
  <1>8. CASE MessagingStep(r) /\ UNCHANGED contentVars
    BY <1>1, <1>8, MessagingRoute, MessagingMoves DEF contentVars, TalkLabels
  <1>9. CASE (ListStep(r) \/ ListMessages(r)) /\ UNCHANGED contentVars
    BY <1>1, <1>9, ListRoute, ListMoves, OtherMoves DEF contentVars
  <1>10. ~Fails(r)
    BY FailRoute
  <1>11. QED
    BY <1>2, <1>3, <1>4, <1>5, <1>6, <1>7, <1>8, <1>9, <1>10 DEF Step

\* What the calls about reactions and comments have looked up, and their order.
Opens(r) ==
  /\ pc'[r] = "del_comment" => pc[r] = "idle"
  /\ pc'[r] = "comment" => pc[r] = "idle"
  /\ pc[r] = "idle" /\ Op(r) = "toggleReaction" => There(On(r)) /\ pc'[r] = "reaction"
  /\ pc[r] = "idle" /\ IsComment(r) => posts[On(r)] # NONE /\ (IsReply(r) => comments[Place(r)] # NONE)
  /\ pc[r] = "idle" /\ Op(r) = "deleteComment" => comments[On(r)] # NONE
  /\ pc'[r] \in {"unreact", "rereact"} =>
       target'[r] \in Requests /\ On(target'[r]) = On(r) /\ seen'[r] # NONE
  /\ Op(r) = "toggleReaction" /\ pc[r] \in {"count_like", "like_notice", "notify"} =>
       pc'[r] \in {"like_notice", "notify", "ok"}

LEMMA ContentOpens ==
  ASSUME TInv, UNCHANGED call, NEW r \in Requests, ContentStep(r), Moves(r)
  PROVE  Opens(r)
  <1>0. TypeOK /\ Fits(Op(r), pc[r])
    BY DEF TInv, Walks
  <1> USE DEF Labels, ContentLabels, NoticeLabels, Opens
  <1>1. CASE FindTarget(r)
    <2>1. pc[r] = "idle" /\ Op(r) = "toggleReaction" /\ pc'[r] = "reaction" /\ LiveTarget(On(r))
      BY <1>0, <1>1, Goes DEF FindTarget
    <2>2. There(On(r))
      BY <2>1 DEF LiveTarget, Live, There
    <2>3. QED
      BY <2>1, <2>2 DEF IsComment
  <1>2. CASE FindReaction(r)
    <2>1. pc[r] = "reaction" /\ Op(r) = "toggleReaction"
      BY <1>0, <1>2 DEF FindReaction, Fits
    <2>2. CASE Reaction(By(r), On(r)) = {} /\ Goto(r, "react")
      <3>1. pc'[r] = "react"
        BY <1>0, <2>2, Goes
      <3>2. QED
        BY <2>1, <3>1
    <2>3. CASE \E y \in Reaction(By(r), On(r)) :
                 Reads(r, y, reactions[y]) /\ Goto(r, IF reactions[y].type = Arg(r) THEN "unreact" ELSE "rereact")
      <3>1. PICK y \in Reaction(By(r), On(r)) :
              Reads(r, y, reactions[y]) /\ Goto(r, IF reactions[y].type = Arg(r) THEN "unreact" ELSE "rereact")
        BY <2>3
      <3>2. y \in Requests /\ reactions[y] # NONE /\ On(y) = On(r)
        BY DEF Reaction
      <3>3. target'[r] = y /\ seen'[r] = reactions[y]
        BY <1>0, <3>1, <3>2, HasRead, RowsSeen
      <3>4. pc'[r] \in {"unreact", "rereact"}
        BY <1>0, <3>1, Goes
      <3>5. QED
        BY <2>1, <3>2, <3>3, <3>4
    <2>4. QED
      BY <1>2, <2>2, <2>3 DEF FindReaction
  <1>3. CASE FindPost(r)
    <2>1. pc[r] = "idle" /\ IsComment(r) /\ pc'[r] = "comment" /\ Live(On(r))
          /\ (IsReply(r) => comments[Place(r)] # NONE)
      BY <1>0, <1>3, Goes DEF FindPost
    <2>2. QED
      BY <2>1 DEF Live, IsComment
  <1>4. CASE FindOwnComment(r)
    <2>1. pc[r] = "idle" /\ Op(r) = "deleteComment" /\ pc'[r] = "del_comment" /\ comments[On(r)] # NONE
      BY <1>0, <1>4, Goes DEF FindOwnComment
    <2>2. QED
      BY <2>1 DEF IsComment
  <1>5. CASE InsertPost(r) \/ FindOwnPost(r) \/ FindOriginal(r)
    BY <1>0, <1>5, Goes DEF InsertPost, FindOwnPost, FindOriginal, IsComment
  <1>6. CASE CreateStory(r) \/ FindStory(r) \/ CleanStories(r)
    BY <1>0, <1>6, Goes DEF CreateStory, FindStory, CleanStories, IsComment
  <1>7. CASE CountLike(r) \/ FindOwner(r) \/ React(r) \/ Unreact(r) \/ Rereact(r)
    BY <1>0, <1>7, Goes DEF CountLike, FindOwner, React, Unreact, Rereact
  <1>8. CASE SaveMedia(r) \/ SaveTags(r) \/ Unindex(r) \/ Index(r)
    BY <1>0, <1>8, Goes DEF SaveMedia, SaveTags, Unindex, Index
  <1>9. CASE DeletePost(r) \/ DeleteDocuments(r) \/ Repost(r)
    BY <1>0, <1>9, Goes DEF DeletePost, DeleteDocuments, Repost
  <1>10. CASE InsertComment(r) \/ CountReply(r) \/ SaveMentions(r)
    BY <1>0, <1>10, Goes DEF InsertComment, CountReply, SaveMentions
  <1>11. CASE CountComment(r)
    <2>1. CommentCounted(r) \in {"count_reply", "mention", "notify"}
      BY CommentWays
    <2>2. pc[r] = "count_comment" /\ pc'[r] = CommentCounted(r)
      BY <1>0, <1>11, <2>1, Goes DEF CountComment
    <2>3. QED
      BY <2>1, <2>2
  <1>12. CASE DeleteComment(r) \/ UncountComment(r) \/ UncountReply(r)
    BY <1>0, <1>12, Goes DEF DeleteComment, UncountComment, UncountReply
  <1>13. CASE ViewStory(r) \/ DeleteStory(r)
    BY <1>0, <1>13, Goes DEF ViewStory, DeleteStory
  <1>14. QED
    BY <1>1, <1>2, <1>3, <1>4, <1>5, <1>6, <1>7, <1>8, <1>9, <1>10, <1>11, <1>12, <1>13 DEF ContentStep

LEMMA AllOpen ==
  ASSUME TInv, UNCHANGED call, NEW r \in Requests, Step(r), Moves(r), pc'[r] # "failed"
  PROVE  Opens(r)
  <1>1. Fits(Op(r), pc'[r])
    BY DEF Moves
  <1> USE DEF Opens, IsComment
  <1>2. CASE ContentStep(r)
    BY <1>2, ContentOpens
  <1>3. CASE NoticeStep(r)
    BY <1>1, <1>3, NoticeRoute DEF NoticeOps, Fits
  <1>4. CASE ConnectionStep(r)
    BY <1>4, ConnectionRoute DEF ConnectionOps, ProfileOps, DiscoveryOps, LinkLabels
  <1>5. CASE FeedStep(r)
    BY <1>5, FeedRoute DEF FeedOps, NewsfeedOps, FeedLabels
  <1>6. CASE MembershipStep(r)
    BY <1>6, MembershipRoute DEF GroupOps, MemberOps, ReviewOps, GroupLabels
  <1>7. CASE GroupPostStep(r)
    BY <1>7, GroupPostRoute DEF GroupOps, MemberOps, ReviewOps
  <1>8. CASE MessagingStep(r)
    BY <1>8, MessagingRoute DEF TalkOps, TalkMakers, PartOps, TalkLabels
  <1>9. CASE ListStep(r) \/ ListMessages(r)
    BY <1>9, ListRoute DEF Selections
  <1>10. ~Fails(r)
    BY FailRoute
  <1>11. QED
    BY <1>2, <1>3, <1>4, <1>5, <1>6, <1>7, <1>8, <1>9, <1>10 DEF Step

LEMMA SameContent ==
  ASSUME UNCHANGED call
  PROVE  \A q : /\ On(q)' = On(q) /\ Op(q)' = Op(q) /\ Place(q)' = Place(q)
                /\ IsComment(q)' = IsComment(q) /\ IsReply(q)' = IsReply(q)
  BY DEF On, Op, Place, IsComment, IsReply

LEMMA TargetStays ==
  ASSUME UNCHANGED call, NEW r \in Requests, Tells(r), NEW x \in Requests, There(x)
  PROVE  There(x)'
  BY SameContent DEF There, Tells, PostsTold, CommentsTold

LEMMA ContentSettles ==
  ASSUME TInv, UNCHANGED call, NEW r \in Requests, ~Ended(r), Tells(r), Opens(r), Even, ContentPlaces
  PROVE  ContentPlaces'
  <1>1. Moves(r) /\ PostsTold(r) /\ CommentsTold(r) /\ ReactionsTold(r) /\ Advances(r)
    BY DEF Tells
  <1>2. \A q \in Requests : q # r => pc'[q] = pc[q] /\ target'[q] = target[q] /\ seen'[q] = seen[q]
    BY <1>1 DEF Moves, Walk, Hands
  <1>3. pc'[r] # "idle" /\ Fits(Op(r), pc[r]) /\ Fits(Op(r), pc'[r])
    BY <1>1 DEF Moves, Walk, TInv, Walks
  <1>4. \A q \in Requests : On(q) \in Requests \cup {NONE} /\ Place(q) \in Requests \cup {NONE}
    BY CallsTyped DEF TInv, TypeOK
  <1>5. ASSUME NEW q \in Requests PROVE Settled(q)'
    <2>0. Settled(q)
      BY DEF ContentPlaces
    <2>1. (posts[q] # NONE => Op(q) \in PostMakers)'
      BY <1>1, <2>0, SameContent DEF PostsTold, Settled
    <2>2. (reactions[q] # NONE =>
             Op(q) = "toggleReaction" /\ pc[q] \in {"count_like", "like_notice", "notify", "ok"})'
      <3>1. CASE q # r
        BY <1>1, <1>2, <2>0, <3>1, SameContent DEF ReactionsTold, Settled
      <3>2. CASE q = r /\ pc[r] = "react"
        BY <1>1, <1>3, <3>2, SameContent DEF Advances, Fits
      <3>3. CASE q = r /\ pc[r] # "react"
        BY <1>1, <2>0, <3>3, SameContent DEF ReactionsTold, Settled, Opens, Ended
      <3>4. QED
        BY <3>1, <3>2, <3>3
    <2>3. (comments[q] # NONE => IsComment(q) /\ pc[q] \notin {"idle", "comment"})'
      <3>1. CASE q # r
        BY <1>1, <1>2, <2>0, <3>1, SameContent DEF CommentsTold, Settled
      <3>2. CASE q = r /\ pc[r] = "comment"
        BY <1>1, <1>3, <3>2, SameContent DEF Advances, Fits, IsComment
      <3>3. CASE q = r /\ pc[r] # "comment"
        BY <1>1, <1>3, <2>0, <3>3, SameContent DEF CommentsTold, Settled, Opens
      <3>4. QED
        BY <3>1, <3>2, <3>3
    <2>4. (comments[q] # NONE /\ comments[q].deleted => \E d \in Deleting(q) : pc[d] # "del_comment")'
      <3> SUFFICES ASSUME comments'[q] # NONE, comments'[q].deleted
                   PROVE  \E d \in Deleting(q)' : pc'[d] # "del_comment"
        OBVIOUS
      <3>1. comments[q] # NONE
        BY <1>1 DEF CommentsTold, NewComment
      <3>2. CASE comments[q].deleted
        <4>1. PICK d \in Deleting(q) : pc[d] # "del_comment"
          BY <2>0, <3>1, <3>2 DEF Settled
        <4>2. d \in Requests /\ Op(d) = "deleteComment" /\ On(d) = q /\ pc[d] # "idle"
          BY DEF Deleting
        <4>3. pc'[d] # "idle" /\ pc'[d] # "del_comment"
          BY <1>2, <1>3, <4>1, <4>2 DEF Opens
        <4>4. QED
          BY <4>2, <4>3, SameContent DEF Deleting
      <3>3. CASE ~comments[q].deleted
        <4>1. pc[r] = "del_comment" /\ q = On(r)
          BY <1>1, <3>1, <3>3 DEF CommentsTold
        <4>2. Op(r) = "deleteComment" /\ pc'[r] # "del_comment"
          BY <1>3, <4>1 DEF Fits, Opens
        <4>3. QED
          BY <1>3, <4>1, <4>2, SameContent DEF Deleting
      <3>4. QED
        BY <3>2, <3>3
    <2>5. (Op(q) = "toggleReaction" /\ pc[q] # "idle" => There(On(q)))'
      <3> SUFFICES ASSUME Op(q) = "toggleReaction", pc'[q] # "idle" PROVE There(On(q))'
        BY SameContent
      <3>1. On(q) \in Requests
        BY CallsTyped DEF TInv, TypeOK, OfRow
      <3>2. There(On(q))
        BY <1>2, <2>0 DEF Settled, Opens
      <3>3. PICK x \in Requests : x = On(q)
        BY <3>1
      <3>4. There(x)'
        BY <3>2, <3>3, TargetStays
      <3>5. QED
        BY <3>3, <3>4, SameContent DEF There
    <2>6. (IsComment(q) /\ pc[q] # "idle" => posts[On(q)] # NONE)'
      <3> SUFFICES ASSUME IsComment(q), pc'[q] # "idle" PROVE posts'[On(q)] # NONE
        BY SameContent
      <3>1. On(q) \in Requests
        BY CallsTyped DEF TInv, TypeOK, OfRow, IsComment
      <3>2. posts[On(q)] # NONE
        BY <1>2, <2>0 DEF Settled, Opens
      <3>3. QED
        BY <1>1, <3>1, <3>2 DEF PostsTold
    <2>7. (IsComment(q) /\ IsReply(q) /\ pc[q] # "idle" => comments[Place(q)] # NONE)'
      <3> SUFFICES ASSUME IsComment(q), IsReply(q), pc'[q] # "idle" PROVE comments'[Place(q)] # NONE
        BY SameContent
      <3>1. Place(q) \in Requests
        BY <1>4 DEF IsReply
      <3>2. comments[Place(q)] # NONE
        BY <1>2, <2>0 DEF Settled, Opens
      <3>3. QED
        BY <1>1, <3>1, <3>2 DEF CommentsTold
    <2>8. (Op(q) = "deleteComment" /\ pc[q] # "idle" => comments[On(q)] # NONE)'
      <3> SUFFICES ASSUME Op(q) = "deleteComment", pc'[q] # "idle" PROVE comments'[On(q)] # NONE
        BY SameContent
      <3>1. On(q) \in Requests
        BY CallsTyped DEF TInv, TypeOK, OfRow
      <3>2. comments[On(q)] # NONE
        BY <1>2, <2>0 DEF Settled, Opens
      <3>3. QED
        BY <1>1, <3>1, <3>2 DEF CommentsTold
    <2>9. (pc[q] \in {"unreact", "rereact"} =>
             target[q] \in Requests /\ On(target[q]) = On(q) /\ seen[q] # NONE)'
      <3>1. CASE q # r
        BY <1>2, <2>0, <3>1, SameContent DEF Settled
      <3>2. CASE q = r
        BY <3>2, SameContent DEF Opens
      <3>3. QED
        BY <3>1, <3>2
    <2>10. QED
      BY <2>1, <2>2, <2>3, <2>4, <2>5, <2>6, <2>7, <2>8, <2>9 DEF Settled
  <1>6. QED
    BY <1>5 DEF ContentPlaces

\* The counters, at zero as long as there is no row.
LikesNow(x) == IF There(x) THEN Likes(x) ELSE 0
CommentsNow(p) == IF posts[p] # NONE THEN posts[p].comments ELSE 0
RepliesNow(z) == IF comments[z] # NONE THEN comments[z].replies ELSE 0
Level(x) ==
  /\ Balance(LikesNow(x), LikesDue(x), LikesOf(x), LikesOver(x))
  /\ Balance(CommentsNow(x), CommentsDue(x), CommentsOf(x), CommentsOver(x))
  /\ Balance(RepliesNow(x), RepliesDue(x), RepliesTo(x), RepliesOver(x))

LEMMA ContentSets ==
  ASSUME UNCHANGED call, NEW x
  PROVE  /\ \A q : q \in LikesDue(x)' <=> q \in Requests /\ LikeDue(q, x, pc'[q])
         /\ \A q : q \in LikesOver(x)' <=> q \in Requests /\ LikeOver(q, x, pc'[q])
         /\ \A q : q \in CommentsDue(x)' <=> q \in Requests /\ CommentDue(q, x, pc'[q])
         /\ \A q : q \in CommentsOver(x)' <=> q \in Requests /\ CommentOver(q, x, pc'[q])
         /\ \A q : q \in RepliesDue(x)' <=> q \in Requests /\ ReplyDue(q, x, pc'[q])
         /\ \A q : q \in RepliesOver(x)' <=> q \in Requests /\ ReplyOver(q, x, pc'[q])
         /\ \A y : y \in LikesOf(x)' <=> y \in Requests /\ reactions'[y] # NONE /\ On(y) = x
         /\ \A c : c \in CommentsOf(x)' <=> c \in Requests /\ comments'[c] # NONE /\ ~comments'[c].deleted /\ On(c) = x
         /\ \A d : d \in RepliesTo(x)' <=> d \in Requests /\ comments'[d] # NONE /\ ~comments'[d].deleted /\ Place(d) = x
  <1>1. \A q : On(q)' = On(q) /\ Place(q)' = Place(q)
    BY SameContent
  <1>2. \A q, label : /\ LikeDue(q, x, label)' = LikeDue(q, x, label)
                      /\ LikeOver(q, x, label)' = LikeOver(q, x, label)
                      /\ CommentDue(q, x, label)' = CommentDue(q, x, label)
                      /\ CommentOver(q, x, label)' = CommentOver(q, x, label)
                      /\ ReplyDue(q, x, label)' = ReplyDue(q, x, label)
                      /\ ReplyOver(q, x, label)' = ReplyOver(q, x, label)
    BY DEF On, Place, LikeDue, LikeOver, CommentDue, CommentOver, ReplyDue, ReplyOver
  <1>3. \A q : /\ q \in LikesDue(x)' <=> q \in Requests /\ LikeDue(q, x, pc'[q])
               /\ q \in LikesOver(x)' <=> q \in Requests /\ LikeOver(q, x, pc'[q])
    BY <1>2 DEF LikesDue, LikesOver
  <1>4. \A q : /\ q \in CommentsDue(x)' <=> q \in Requests /\ CommentDue(q, x, pc'[q])
               /\ q \in CommentsOver(x)' <=> q \in Requests /\ CommentOver(q, x, pc'[q])
    BY <1>2 DEF CommentsDue, CommentsOver
  <1>5. \A q : /\ q \in RepliesDue(x)' <=> q \in Requests /\ ReplyDue(q, x, pc'[q])
               /\ q \in RepliesOver(x)' <=> q \in Requests /\ ReplyOver(q, x, pc'[q])
    BY <1>2 DEF RepliesDue, RepliesOver
  <1>6. /\ \A y : y \in LikesOf(x)' <=> y \in Requests /\ reactions'[y] # NONE /\ On(y) = x
        /\ \A c : c \in CommentsOf(x)' <=> c \in Requests /\ comments'[c] # NONE /\ ~comments'[c].deleted /\ On(c) = x
        /\ \A d : d \in RepliesTo(x)' <=> d \in Requests /\ comments'[d] # NONE /\ ~comments'[d].deleted /\ Place(d) = x
    BY <1>1 DEF LikesOf, CommentsOf, RepliesTo
  <1>7. QED
    BY <1>3, <1>4, <1>5, <1>6

\* Nothing refers to a row that is not there.
LEMMA LevelNow ==
  ASSUME TInv, Even, ContentPlaces, ContentBalance, NEW x \in Requests
  PROVE  Level(x)
  <1>0. \A r \in Requests : Settled(r) /\ Fits(Op(r), pc[r])
    BY DEF ContentPlaces, TInv, Walks
  <1>1. Cardinality({}) = 0
    BY FS_EmptySet
  <1>2. Balance(LikesNow(x), LikesDue(x), LikesOf(x), LikesOver(x))
    <2>1. CASE There(x)
      BY <2>1 DEF ContentBalance, LikesBalanced, LikesNow
    <2>2. CASE ~There(x)
      <3>1. LikesDue(x) = {} /\ LikesOver(x) = {}
        BY <1>0, <2>2 DEF LikesDue, LikesOver, LikeDue, LikeOver, Fits, Settled
      <3>2. LikesOf(x) = {}
        BY <1>0, <2>2 DEF LikesOf, Settled
      <3>3. QED
        BY <1>1, <2>2, <3>1, <3>2 DEF Balance, LikesNow
    <2>3. QED
      BY <2>1, <2>2
  <1>3. Balance(CommentsNow(x), CommentsDue(x), CommentsOf(x), CommentsOver(x))
    <2>1. CASE posts[x] # NONE
      BY <2>1 DEF ContentBalance, CommentsBalanced, CommentsNow
    <2>2. CASE posts[x] = NONE
      <3>1. CommentsDue(x) = {}
        BY <1>0, <2>2 DEF CommentsDue, CommentDue, Fits, Settled, IsComment
      <3>2. CommentsOf(x) = {}
        BY <1>0, <2>2 DEF CommentsOf, Settled
      <3>3. CommentsOver(x) = {}
        <4>1. ASSUME NEW r \in Requests, pc[r] = "uncount_comment", On(On(r)) = x PROVE FALSE
          <5>1. Op(r) = "deleteComment" /\ On(r) \in Requests /\ comments[On(r)] # NONE
            BY <1>0, <4>1, CallsTyped DEF Fits, Settled, OfRow, TInv, TypeOK
          <5>2. PICK c \in Requests : c = On(r)
            BY <5>1
          <5>3. posts[On(c)] # NONE
            BY <1>0, <5>1, <5>2 DEF Settled
          <5>4. QED
            BY <2>2, <4>1, <5>2, <5>3
        <4>2. QED
          BY <4>1 DEF CommentsOver, CommentOver
      <3>4. QED
        BY <1>1, <2>2, <3>1, <3>2, <3>3 DEF Balance, CommentsNow
    <2>3. QED
      BY <2>1, <2>2
  <1>4. Balance(RepliesNow(x), RepliesDue(x), RepliesTo(x), RepliesOver(x))
    <2>0. x # NONE
      BY SocialAssumption
    <2>1. CASE comments[x] # NONE
      BY <2>1 DEF ContentBalance, RepliesBalanced, RepliesNow
    <2>2. CASE comments[x] = NONE
      <3>1. RepliesDue(x) = {}
        BY <1>0, <2>0, <2>2 DEF RepliesDue, ReplyDue, Fits, Settled, IsComment, IsReply
      <3>2. RepliesTo(x) = {}
        BY <1>0, <2>0, <2>2 DEF RepliesTo, Settled, IsReply
      <3>3. RepliesOver(x) = {}
        <4>1. ASSUME NEW r \in Requests, pc[r] \in {"uncount_comment", "uncount_reply"}, Place(On(r)) = x PROVE FALSE
          <5>1. Op(r) = "deleteComment" /\ On(r) \in Requests /\ comments[On(r)] # NONE
            BY <1>0, <4>1, CallsTyped DEF Fits, Settled, OfRow, TInv, TypeOK
          <5>2. PICK c \in Requests : c = On(r)
            BY <5>1
          <5>3. comments[Place(c)] # NONE
            BY <1>0, <2>0, <4>1, <5>1, <5>2 DEF Settled, IsReply
          <5>4. QED
            BY <2>2, <4>1, <5>2, <5>3
        <4>2. QED
          BY <4>1 DEF RepliesOver, ReplyOver
      <3>4. QED
        BY <1>1, <2>2, <3>1, <3>2, <3>3 DEF Balance, RepliesNow
    <2>3. QED
      BY <2>1, <2>2
  <1>5. QED
    BY <1>2, <1>3, <1>4 DEF Level

\* What the counters become.
LEMMA NowTold ==
  ASSUME TInv, UNCHANGED call, NEW r \in Requests, Tells(r), Even, ContentPlaces, NEW x \in Requests
  PROVE  /\ LikesNow(x) \in Int /\ CommentsNow(x) \in Int /\ RepliesNow(x) \in Int
         /\ There(x)' => Likes(x)' = LikesNow(x) + LikeDelta(r, x)
         /\ posts'[x] # NONE => posts'[x].comments = CommentsNow(x) + CommentDelta(r, x)
         /\ comments'[x] # NONE => comments'[x].replies = RepliesNow(x) + ReplyDelta(r, x)
  <1>0. PostsTold(r) /\ CommentsTold(r) /\ Fits(Op(r), pc[r])
    BY DEF Tells, TInv, Walks
  <1>1. LikesNow(x) \in Int /\ CommentsNow(x) \in Int /\ RepliesNow(x) \in Int
    BY CountersTyped DEF TInv, LikesNow, CommentsNow, RepliesNow, There, Likes
  <1>2. NewComment.likes = 0 /\ NewComment.replies = 0
    BY DEF NewComment
  <1>3. IsComment(x)' = IsComment(x)
    BY SameContent
  <1>4. ASSUME There(x)' PROVE Likes(x)' = LikesNow(x) + LikeDelta(r, x)
    <2>1. CASE There(x)
      BY <1>0, <1>3, <2>1 DEF There, Likes, LikesNow, PostsTold, CommentsTold
    <2>2. CASE ~There(x) /\ IsComment(x)
      <3>1. x = r /\ pc[r] = "comment" /\ Likes(x)' = 0
        BY <1>0, <1>2, <1>3, <1>4, <2>2 DEF There, Likes, CommentsTold
      <3>2. QED
        BY <2>2, <3>1 DEF LikesNow, LikeDelta
    <2>3. CASE ~There(x) /\ ~IsComment(x)
      <3>1. x = r /\ Op(r) \in PostMakers /\ Likes(x)' = 0
        BY <1>0, <1>3, <1>4, <2>3 DEF There, Likes, PostsTold
      <3>2. LikeDelta(r, x) = 0
        BY <1>0, <3>1 DEF LikeDelta, Fits, PostMakers
      <3>3. QED
        BY <2>3, <3>1, <3>2 DEF LikesNow
    <2>4. QED
      BY <2>1, <2>2, <2>3
  <1>5. ASSUME posts'[x] # NONE PROVE posts'[x].comments = CommentsNow(x) + CommentDelta(r, x)
    <2>1. CASE posts[x] # NONE
      BY <1>0, <2>1 DEF CommentsNow, PostsTold
    <2>2. CASE posts[x] = NONE
      <3>1. x = r /\ Op(r) \in PostMakers /\ posts'[x].comments = 0
        BY <1>0, <1>5, <2>2 DEF PostsTold
      <3>2. CommentDelta(r, x) = 0
        BY <1>0, <3>1 DEF CommentDelta, Fits, PostMakers
      <3>3. QED
        BY <2>2, <3>1, <3>2 DEF CommentsNow
    <2>3. QED
      BY <2>1, <2>2
  <1>6. ASSUME comments'[x] # NONE PROVE comments'[x].replies = RepliesNow(x) + ReplyDelta(r, x)
    <2>1. CASE comments[x] # NONE
      BY <1>0, <2>1 DEF RepliesNow, CommentsTold
    <2>2. CASE comments[x] = NONE
      <3>1. x = r /\ pc[r] = "comment" /\ comments'[x].replies = 0
        BY <1>0, <1>2, <1>6, <2>2 DEF CommentsTold
      <3>2. QED
        BY <2>2, <3>1 DEF RepliesNow, ReplyDelta
    <2>3. QED
      BY <2>1, <2>2
  <1>7. QED
    BY <1>1, <1>4, <1>5, <1>6

ContentFinite ==
  \A x : /\ LikesDue(x) \in SUBSET Requests /\ LikesOver(x) \in SUBSET Requests /\ LikesOf(x) \in SUBSET Requests
         /\ CommentsDue(x) \in SUBSET Requests /\ CommentsOver(x) \in SUBSET Requests
         /\ CommentsOf(x) \in SUBSET Requests
         /\ RepliesDue(x) \in SUBSET Requests /\ RepliesOver(x) \in SUBSET Requests
         /\ RepliesTo(x) \in SUBSET Requests
LEMMA ContentSubsets ==
  ContentFinite /\ ContentFinite'
  BY DEF ContentFinite, LikesDue, LikesOver, LikesOf, CommentsDue, CommentsOver, CommentsOf, RepliesDue, RepliesOver,
     RepliesTo

LEMMA LikesKeep ==
  ASSUME TInv, UNCHANGED call, NEW r \in Requests, Tells(r), Even, ContentPlaces,
         NEW x \in Requests, There(x)', Level(x)
  PROVE  LikesBalanced(x)'
  <1>0. /\ Moves(r) /\ ReactionsTold(r) /\ Advances(r) /\ Settled(r) /\ Fits(Op(r), pc[r])
        /\ \A q \in Requests : q # r => pc'[q] = pc[q]
    BY DEF Tells, ContentPlaces, TInv, Walks, Moves, Walk
  <1>1. \A q \in Requests : q # r =>
          /\ q \in LikesDue(x)' <=> q \in LikesDue(x)
          /\ q \in LikesOver(x)' <=> q \in LikesOver(x)
    BY <1>0, ContentSets DEF LikesDue, LikesOver
  <1>2. LikesNow(x) \in Int /\ Likes(x)' = LikesNow(x) + LikeDelta(r, x)
    BY NowTold
  <1>3. /\ r \in LikesDue(x) <=> pc[r] = "count_like" /\ On(r) = x
        /\ r \in LikesOver(x) <=> pc[r] = "uncount_like" /\ On(r) = x
        /\ r \in LikesDue(x)' <=> pc[r] = "react" /\ On(r) = x
        /\ r \in LikesOver(x)' <=> pc[r] = "unreact" /\ On(r) = x
    BY <1>0, ContentSets DEF LikesDue, LikesOver, LikeDue, LikeOver, Advances
  <1>4. ASSUME NEW y,
               \A q \in Requests : q # y => (q \in LikesOf(x)' <=> q \in LikesOf(x)),
               Likes(x)' + In(r, LikesDue(x)') + In(y, LikesOf(x)) + In(r, LikesOver(x))
                 = LikesNow(x) + In(r, LikesDue(x)) + In(y, LikesOf(x)') + In(r, LikesOver(x)')
        PROVE  LikesBalanced(x)'
    <2>1. Likes(x)' \in Int
      BY <1>2 DEF LikeDelta
    <2>2. Balance(LikesNow(x), LikesDue(x), LikesOf(x), LikesOver(x))
      BY DEF Level
    <2>3. Balance(Likes(x)', LikesDue(x)', LikesOf(x)', LikesOver(x)')
      BY <1>1, <1>2, <1>4, <2>1, <2>2, ContentSubsets, Rebalanced DEF ContentFinite
    <2>4. QED
      BY <2>3 DEF LikesBalanced, Balance
  <1>5. CASE pc[r] = "react"
    <2>1. r \notin LikesOf(x) /\ (r \in LikesOf(x)' <=> On(r) = x)
      BY <1>0, <1>5, ContentSets DEF LikesOf, Settled, ReactionsTold
    <2>2. \A q \in Requests : q # r => (q \in LikesOf(x)' <=> q \in LikesOf(x))
      BY <1>0, <1>5, ContentSets DEF LikesOf, ReactionsTold
    <2>3. LikeDelta(r, x) = 0
      BY <1>5 DEF LikeDelta
    <2>4. QED
      BY <1>2, <1>3, <1>4, <1>5, <2>1, <2>2, <2>3 DEF In
  <1>6. CASE pc[r] = "unreact"
    <2>1. PICK y \in Requests : y = target[r]
      BY <1>0, <1>6 DEF Settled
    <2>2. On(y) = On(r) /\ reactions[y] # NONE /\ reactions'[y] = NONE
      BY <1>0, <1>6, <2>1 DEF Settled, ReactionsTold
    <2>3. y \notin LikesOf(x)' /\ (y \in LikesOf(x) <=> On(r) = x)
      BY <2>2, ContentSets DEF LikesOf
    <2>4. \A q \in Requests : q # y => (q \in LikesOf(x)' <=> q \in LikesOf(x))
      BY <1>0, <1>6, <2>1, ContentSets DEF LikesOf, ReactionsTold
    <2>5. LikeDelta(r, x) = 0
      BY <1>6 DEF LikeDelta
    <2>6. QED
      BY <1>2, <1>3, <1>4, <1>6, <2>3, <2>4, <2>5 DEF In
  <1>7. CASE pc[r] \notin {"react", "unreact"}
    <2>1. \A q \in Requests : q \in LikesOf(x)' <=> q \in LikesOf(x)
      BY <1>0, <1>7, ContentSets DEF LikesOf, ReactionsTold
    <2>2. In(r, LikesOf(x)') = In(r, LikesOf(x)) /\ In(r, LikesOf(x)) \in Int
      BY <2>1 DEF In
    <2>3. Likes(x)' + In(r, LikesDue(x)') + In(r, LikesOver(x))
            = LikesNow(x) + In(r, LikesDue(x)) + In(r, LikesOver(x)')
      BY <1>2, <1>3, <1>7 DEF In, LikeDelta
    <2>4. /\ Likes(x)' \in Int /\ In(r, LikesDue(x)') \in Int /\ In(r, LikesOver(x)) \in Int
          /\ In(r, LikesDue(x)) \in Int /\ In(r, LikesOver(x)') \in Int
      BY <1>2 DEF In, LikeDelta
    <2>5. Likes(x)' + In(r, LikesDue(x)') + In(r, LikesOf(x)) + In(r, LikesOver(x))
            = LikesNow(x) + In(r, LikesDue(x)) + In(r, LikesOf(x)') + In(r, LikesOver(x)')
      BY <1>2, <2>2, <2>3, <2>4
    <2>6. QED
      BY <1>4, <2>1, <2>5
  <1>8. QED
    BY <1>5, <1>6, <1>7

\* A comment that is deleted was not deleted before.
LEMMA DeletedOnce ==
  ASSUME TInv, NEW r \in Requests, Even, ContentPlaces, pc[r] = "del_comment"
  PROVE  On(r) \in Requests /\ comments[On(r)] # NONE /\ ~comments[On(r)].deleted
  <1>1. Settled(r) /\ Op(r) = "deleteComment"
    BY DEF ContentPlaces, TInv, Walks, Fits
  <1>2. PICK c \in Requests : c = On(r)
    BY <1>1, CallsTyped DEF TInv, TypeOK, OfRow
  <1>3. r \in Deleting(c)
    BY <1>1, <1>2 DEF Deleting
  <1>4. \A q \in Deleting(c) : q = r
    BY <1>3 DEF Even
  <1>5. comments[c] # NONE /\ Settled(c)
    BY <1>1, <1>2 DEF Settled, ContentPlaces
  <1>6. ~comments[c].deleted
    BY <1>4, <1>5 DEF Settled
  <1>7. QED
    BY <1>2, <1>5, <1>6

\* Which comments there are after a step of r.
LEMMA CommentMoves ==
  ASSUME TInv, UNCHANGED call, NEW r \in Requests, Tells(r), Even, ContentPlaces
  PROVE  LET shows(c) == comments[c] # NONE /\ ~comments[c].deleted
             shows2(c) == comments'[c] # NONE /\ ~comments'[c].deleted IN
         /\ pc[r] = "comment" => /\ ~shows(r) /\ shows2(r)
                                 /\ \A c \in Requests : c # r => (shows2(c) <=> shows(c))
         /\ pc[r] = "del_comment" => /\ On(r) \in Requests /\ shows(On(r)) /\ ~shows2(On(r))
                                     /\ \A c \in Requests : c # On(r) => (shows2(c) <=> shows(c))
         /\ pc[r] \notin {"comment", "del_comment"} => \A c \in Requests : shows2(c) <=> shows(c)
  <1>1. CommentsTold(r) /\ Settled(r) /\ ~NewComment.deleted
    BY DEF Tells, ContentPlaces, NewComment
  <1>2. pc[r] = "comment" => comments[r] = NONE
    BY <1>1 DEF Settled
  <1>3. pc[r] = "del_comment" => On(r) \in Requests /\ comments[On(r)] # NONE /\ ~comments[On(r)].deleted
    BY DeletedOnce
  <1>4. QED
    BY <1>1, <1>2, <1>3 DEF CommentsTold

LEMMA CommentsKeep ==
  ASSUME TInv, UNCHANGED call, NEW r \in Requests, Tells(r), Even, ContentPlaces,
         NEW x \in Requests, posts'[x] # NONE, Level(x)
  PROVE  CommentsBalanced(x)'
  <1> DEFINE new == posts'[x].comments
  <1>0. /\ Moves(r) /\ Advances(r) /\ Fits(Op(r), pc[r])
        /\ \A q \in Requests : q # r => pc'[q] = pc[q]
    BY DEF Tells, TInv, Walks, Moves, Walk
  <1>1. \A q \in Requests : q # r =>
          /\ q \in CommentsDue(x)' <=> q \in CommentsDue(x)
          /\ q \in CommentsOver(x)' <=> q \in CommentsOver(x)
    BY <1>0, ContentSets DEF CommentsDue, CommentsOver
  <1>2. CommentsNow(x) \in Int /\ new = CommentsNow(x) + CommentDelta(r, x)
    BY NowTold
  <1> HIDE DEF new
  <1>3. /\ r \in CommentsDue(x) <=> pc[r] = "count_comment" /\ On(r) = x
        /\ r \in CommentsOver(x) <=> pc[r] = "uncount_comment" /\ On(On(r)) = x
        /\ r \in CommentsDue(x)' <=> pc[r] = "comment" /\ On(r) = x
        /\ r \in CommentsOver(x)' <=> pc[r] = "del_comment" /\ On(On(r)) = x
    BY <1>0, ContentSets DEF CommentsDue, CommentsOver, CommentDue, CommentOver, Advances
  <1>4. ASSUME NEW y,
               \A q \in Requests : q # y => (q \in CommentsOf(x)' <=> q \in CommentsOf(x)),
               new + In(r, CommentsDue(x)') + In(y, CommentsOf(x)) + In(r, CommentsOver(x))
                 = CommentsNow(x) + In(r, CommentsDue(x)) + In(y, CommentsOf(x)') + In(r, CommentsOver(x)')
        PROVE  CommentsBalanced(x)'
    <2>1. new \in Int
      BY <1>2 DEF CommentDelta
    <2>2. Balance(CommentsNow(x), CommentsDue(x), CommentsOf(x), CommentsOver(x))
      BY DEF Level
    <2>3. Balance(new, CommentsDue(x)', CommentsOf(x)', CommentsOver(x)')
      BY <1>1, <1>2, <1>4, <2>1, <2>2, ContentSubsets, Rebalanced DEF ContentFinite
    <2>4. QED
      BY <2>3 DEF CommentsBalanced, Balance, new
  <1>5. CASE pc[r] = "comment"
    <2>1. r \notin CommentsOf(x) /\ (r \in CommentsOf(x)' <=> On(r) = x)
      BY <1>5, CommentMoves, ContentSets DEF CommentsOf
    <2>2. \A q \in Requests : q # r => (q \in CommentsOf(x)' <=> q \in CommentsOf(x))
      BY <1>5, CommentMoves, ContentSets DEF CommentsOf
    <2>3. CommentDelta(r, x) = 0
      BY <1>5 DEF CommentDelta
    <2>4. QED
      BY <1>2, <1>3, <1>4, <1>5, <2>1, <2>2, <2>3 DEF In
  <1>6. CASE pc[r] = "del_comment"
    <2>1. PICK y \in Requests : y = On(r)
      BY <1>6, CommentMoves
    <2>2. y \notin CommentsOf(x)' /\ (y \in CommentsOf(x) <=> On(y) = x)
      BY <1>6, <2>1, CommentMoves, ContentSets DEF CommentsOf
    <2>3. \A q \in Requests : q # y => (q \in CommentsOf(x)' <=> q \in CommentsOf(x))
      BY <1>6, <2>1, CommentMoves, ContentSets DEF CommentsOf
    <2>4. CommentDelta(r, x) = 0
      BY <1>6 DEF CommentDelta
    <2>5. QED
      BY <1>2, <1>3, <1>4, <1>6, <2>1, <2>2, <2>3, <2>4 DEF In
  <1>7. CASE pc[r] \notin {"comment", "del_comment"}
    <2>1. \A q \in Requests : q \in CommentsOf(x)' <=> q \in CommentsOf(x)
      BY <1>7, CommentMoves, ContentSets DEF CommentsOf
    <2>2. In(r, CommentsOf(x)') = In(r, CommentsOf(x)) /\ In(r, CommentsOf(x)) \in Int
      BY <2>1 DEF In
    <2>3. new + In(r, CommentsDue(x)') + In(r, CommentsOver(x))
            = CommentsNow(x) + In(r, CommentsDue(x)) + In(r, CommentsOver(x)')
      BY <1>2, <1>3, <1>7 DEF In, CommentDelta
    <2>4. /\ new \in Int /\ In(r, CommentsDue(x)') \in Int /\ In(r, CommentsOver(x)) \in Int
          /\ In(r, CommentsDue(x)) \in Int /\ In(r, CommentsOver(x)') \in Int
      BY <1>2 DEF In, CommentDelta
    <2>5. new + In(r, CommentsDue(x)') + In(r, CommentsOf(x)) + In(r, CommentsOver(x))
            = CommentsNow(x) + In(r, CommentsDue(x)) + In(r, CommentsOf(x)') + In(r, CommentsOver(x)')
      BY <1>2, <2>2, <2>3, <2>4
    <2>6. QED
      BY <1>4, <2>1, <2>5
  <1>8. QED
    BY <1>5, <1>6, <1>7

LEMMA RepliesKeep ==
  ASSUME TInv, UNCHANGED call, NEW r \in Requests, Tells(r), Even, ContentPlaces,
         NEW x \in Requests, comments'[x] # NONE, Level(x)
  PROVE  RepliesBalanced(x)'
  <1> DEFINE new == comments'[x].replies
  <1>0. /\ Moves(r) /\ Advances(r) /\ Fits(Op(r), pc[r]) /\ x # NONE
        /\ \A q \in Requests : q # r => pc'[q] = pc[q]
    BY SocialAssumption DEF Tells, TInv, Walks, Moves, Walk
  <1>1. \A q \in Requests : q # r =>
          /\ q \in RepliesDue(x)' <=> q \in RepliesDue(x)
          /\ q \in RepliesOver(x)' <=> q \in RepliesOver(x)
    BY <1>0, ContentSets DEF RepliesDue, RepliesOver
  <1>2. RepliesNow(x) \in Int /\ new = RepliesNow(x) + ReplyDelta(r, x)
    BY NowTold
  <1> HIDE DEF new
  <1>3. /\ r \in RepliesDue(x) <=> pc[r] \in {"count_comment", "count_reply"} /\ Place(r) = x
        /\ r \in RepliesOver(x) <=> pc[r] \in {"uncount_comment", "uncount_reply"} /\ Place(On(r)) = x
        /\ r \in RepliesDue(x)' <=> pc[r] \in {"comment", "count_comment"} /\ Place(r) = x
        /\ r \in RepliesOver(x)' <=> pc[r] \in {"del_comment", "uncount_comment"} /\ Place(On(r)) = x
    BY <1>0, ContentSets DEF RepliesDue, RepliesOver, ReplyDue, ReplyOver, Advances, IsReply
  <1>4. ASSUME NEW y,
               \A q \in Requests : q # y => (q \in RepliesTo(x)' <=> q \in RepliesTo(x)),
               new + In(r, RepliesDue(x)') + In(y, RepliesTo(x)) + In(r, RepliesOver(x))
                 = RepliesNow(x) + In(r, RepliesDue(x)) + In(y, RepliesTo(x)') + In(r, RepliesOver(x)')
        PROVE  RepliesBalanced(x)'
    <2>1. new \in Int
      BY <1>2 DEF ReplyDelta
    <2>2. Balance(RepliesNow(x), RepliesDue(x), RepliesTo(x), RepliesOver(x))
      BY DEF Level
    <2>3. Balance(new, RepliesDue(x)', RepliesTo(x)', RepliesOver(x)')
      BY <1>1, <1>2, <1>4, <2>1, <2>2, ContentSubsets, Rebalanced DEF ContentFinite
    <2>4. QED
      BY <2>3 DEF RepliesBalanced, Balance, new
  <1>5. CASE pc[r] = "comment"
    <2>1. r \notin RepliesTo(x) /\ (r \in RepliesTo(x)' <=> Place(r) = x)
      BY <1>5, CommentMoves, ContentSets DEF RepliesTo
    <2>2. \A q \in Requests : q # r => (q \in RepliesTo(x)' <=> q \in RepliesTo(x))
      BY <1>5, CommentMoves, ContentSets DEF RepliesTo
    <2>3. ReplyDelta(r, x) = 0
      BY <1>5 DEF ReplyDelta
    <2>4. QED
      BY <1>2, <1>3, <1>4, <1>5, <2>1, <2>2, <2>3 DEF In
  <1>6. CASE pc[r] = "del_comment"
    <2>1. PICK y \in Requests : y = On(r)
      BY <1>6, CommentMoves
    <2>2. y \notin RepliesTo(x)' /\ (y \in RepliesTo(x) <=> Place(y) = x)
      BY <1>6, <2>1, CommentMoves, ContentSets DEF RepliesTo
    <2>3. \A q \in Requests : q # y => (q \in RepliesTo(x)' <=> q \in RepliesTo(x))
      BY <1>6, <2>1, CommentMoves, ContentSets DEF RepliesTo
    <2>4. ReplyDelta(r, x) = 0
      BY <1>6 DEF ReplyDelta
    <2>5. QED
      BY <1>2, <1>3, <1>4, <1>6, <2>1, <2>2, <2>3, <2>4 DEF In
  <1>7. CASE pc[r] \notin {"comment", "del_comment"}
    <2>1. \A q \in Requests : q \in RepliesTo(x)' <=> q \in RepliesTo(x)
      BY <1>7, CommentMoves, ContentSets DEF RepliesTo
    <2>2. In(r, RepliesTo(x)') = In(r, RepliesTo(x)) /\ In(r, RepliesTo(x)) \in Int
      BY <2>1 DEF In
    <2>3. new + In(r, RepliesDue(x)') + In(r, RepliesOver(x))
            = RepliesNow(x) + In(r, RepliesDue(x)) + In(r, RepliesOver(x)')
      BY <1>2, <1>3, <1>7 DEF In, ReplyDelta
    <2>4. /\ new \in Int /\ In(r, RepliesDue(x)') \in Int /\ In(r, RepliesOver(x)) \in Int
          /\ In(r, RepliesDue(x)) \in Int /\ In(r, RepliesOver(x)') \in Int
      BY <1>2 DEF In, ReplyDelta
    <2>5. new + In(r, RepliesDue(x)') + In(r, RepliesTo(x)) + In(r, RepliesOver(x))
            = RepliesNow(x) + In(r, RepliesDue(x)) + In(r, RepliesTo(x)') + In(r, RepliesOver(x)')
      BY <1>2, <2>2, <2>3, <2>4
    <2>6. QED
      BY <1>4, <2>1, <2>5
  <1>8. QED
    BY <1>5, <1>6, <1>7

LEMMA StepMoves ==
  ASSUME TInv, UNCHANGED call, NEW r \in Requests, Step(r)
  PROVE  Moves(r)
  BY ConnectionMoves, NoticeMoves, ContentMoves, FeedMoves, MembershipMoves, GroupPostMoves, MessagingMoves,
     ListMoves, OtherMoves DEF Step

LEMMA ContentKeeps ==
  ASSUME TInv, TInv', PostsGone, UNCHANGED call, NEW r \in Requests, ~Ended(r), Step(r), ContentPlaces, ContentBalance
  PROVE  ContentPlaces' /\ ContentBalance'
  <1> SUFFICES ASSUME Even' PROVE ContentPlaces' /\ ContentBalance'
    BY DEF ContentPlaces, ContentBalance
  <1>1. Moves(r)
    BY StepMoves
  <1>2. Even /\ stale' = {} /\ pc'[r] # "failed"
    BY <1>1, EvenSoFar DEF Smooth
  <1>3. Tells(r) /\ Opens(r)
    BY <1>1, <1>2, AllTell, AllOpen
  <1>4. ContentPlaces'
    BY <1>2, <1>3, ContentSettles
  <1>5. \A x \in Requests : Level(x)
    BY <1>2, LevelNow
  <1>6. ContentBalance'
    BY <1>2, <1>3, <1>5, LikesKeep, CommentsKeep, RepliesKeep DEF ContentBalance
  <1>7. QED
    BY <1>4, <1>6

----------------------------------------------------------------------------
(* The hashtag index *)

\* One call at a time indexes a post, from an index that does not hold it.
Indexing(r) == pc[r] \in {"count_post", "unindex", "index"}
IndexPlaces ==
  Smooth =>
    /\ \A r, s \in Requests : Indexing(r) /\ Indexing(s) /\ Indexed(r) = Indexed(s) => r = s
    /\ \A r \in Requests : Indexing(r) => Indexed(r) \in Requests
    /\ \A r \in Requests : Indexing(r) /\ Op(r) # "createPost" => Approval(Indexed(r)) = "APPROVED"
    /\ \A r \in Requests : pc[r] = "index" => docs[Indexed(r)].hashtags = 0
    /\ \A p \in Requests : docs[p].hashtags <= 1

\* What a step of r does to the index and the approvals.
DocsTold(r) ==
  \A p \in Requests :
    IF p = Indexed(r) /\ pc[r] = "index" THEN docs'[p].hashtags = docs[p].hashtags + 1
    ELSE IF p = Indexed(r) /\ pc[r] = "unindex" THEN docs'[p].hashtags = 0
    ELSE docs'[p].hashtags <= docs[p].hashtags
Approves(r, p) == p \in Requests /\ Approval(p) \in {"NONE", "PENDING"} /\ Approval(p)' = "APPROVED"
Trails(r) ==
  /\ pc'[r] = "index" <=> pc[r] = "unindex"
  /\ pc'[r] = "unindex" => pc[r] = "count_post" \/ Op(r) = "createPost"
  /\ pc'[r] = "count_post" =>
       \/ Op(r) = "createGroupPost" /\ Approves(r, r)
       \/ Op(r) = "approveGroupPost" /\ Approves(r, On(r)) /\ Approval(On(r)) = "PENDING"
  /\ \A p \in Requests : Approval(p) = "APPROVED" => Approval(p)' = "APPROVED"
Indexes(r) == Moves(r) /\ DocsTold(r) /\ Trails(r)

LEMMA DocsSame ==
  ASSUME TInv, NEW r, docs' = docs, pc[r] \notin {"index", "unindex"}
  PROVE  DocsTold(r)
  <1>1. \A p \in Requests : docs[p].hashtags \in Nat
    BY DEF TInv, TypeOK, Documents
  <1>2. QED
    BY <1>1 DEF DocsTold

LEMMA DocsSaved ==
  ASSUME TInv, NEW r, NEW x, NEW row, docs' = [docs EXCEPT ![x] = row], pc[r] \notin {"index", "unindex"},
         x \in Requests => row.hashtags <= docs[x].hashtags
  PROVE  DocsTold(r)
  <1>1. \A p \in Requests : docs[p].hashtags \in Nat
    BY DEF TInv, TypeOK, Documents
  <1>2. \A p \in Requests : docs'[p] = IF p = x THEN row ELSE docs[p]
    BY DEF TInv, TypeOK
  <1>3. QED
    BY <1>1, <1>2 DEF DocsTold

LEMMA DocsMarked ==
  ASSUME TInv, NEW x \in Requests
  PROVE  /\ docs[x] \in Documents /\ docs[x].hashtags \in Nat
         /\ \A b \in BOOLEAN : [docs[x] EXCEPT !.media = b].hashtags = docs[x].hashtags
         /\ \A b \in BOOLEAN : [docs[x] EXCEPT !.people = b].hashtags = docs[x].hashtags
         /\ [docs[x] EXCEPT !.people = FALSE, !.hashtags = 0].hashtags = 0
         /\ \A n \in Nat : [docs[x] EXCEPT !.hashtags = n].hashtags = n
  <1>1. docs[x] \in Documents
    BY DEF TInv, TypeOK
  <1>2. QED
    BY <1>1 DEF Documents

LEMMA ContentDocs ==
  ASSUME TInv, NEW r \in Requests, ContentStep(r), pc[r] \in {"index", "unindex"} => Indexed(r) \in Requests
  PROVE  DocsTold(r)
  <1>0. Fits(Op(r), pc[r]) /\ Carries(r)
    BY DEF TInv, Walks
  <1>1. CASE SaveMedia(r)
    <2>1. docs' = [docs EXCEPT ![r] = [docs[r] EXCEPT !.media = TRUE]] /\ pc[r] = "media"
      BY <1>1 DEF SaveMedia
    <2>2. [docs[r] EXCEPT !.media = TRUE].hashtags = docs[r].hashtags /\ docs[r].hashtags \in Nat
      BY DocsMarked
    <2> DEFINE row == [docs[r] EXCEPT !.media = TRUE]
    <2>3. docs' = [docs EXCEPT ![r] = row] /\ row.hashtags <= docs[r].hashtags
      BY <2>1, <2>2
    <2> HIDE DEF row
    <2>4. QED
      BY <2>1, <2>3, DocsSaved
  <1>2. CASE SaveTags(r) \/ SaveMentions(r)
    <2> DEFINE row == [docs[r] EXCEPT !.people = TRUE]
    <2>1. docs' = [docs EXCEPT ![r] = row] /\ pc[r] \in {"tags", "mention"}
      BY <1>2 DEF SaveTags, SaveMentions
    <2>2. row.hashtags = docs[r].hashtags /\ docs[r].hashtags \in Nat
      BY DocsMarked
    <2> HIDE DEF row
    <2>3. row.hashtags <= docs[r].hashtags
      BY <2>2
    <2>4. pc[r] \notin {"index", "unindex"}
      BY <2>1
    <2>5. QED
      BY <2>1, <2>3, <2>4, DocsSaved
  <1>3. CASE DeleteDocuments(r)
    <2>1. pc[r] \in {"del_media", "del_tags"} /\ On(r) \in Requests /\ target[r] = On(r)
      BY <1>0, <1>3, CallsTyped DEF DeleteDocuments, Carries, Fits, OfRow, TInv, TypeOK
    <2>2. PICK x \in Requests : x = target[r]
      BY <2>1
    <2> DEFINE media == [docs[x] EXCEPT !.media = FALSE]
               tags == [docs[x] EXCEPT !.people = FALSE, !.hashtags = 0]
    <2>3. docs' = [docs EXCEPT ![x] = media] \/ docs' = [docs EXCEPT ![x] = tags]
      BY <1>3, <2>2 DEF DeleteDocuments
    <2>4. media.hashtags <= docs[x].hashtags /\ tags.hashtags <= docs[x].hashtags
      BY DocsMarked
    <2> HIDE DEF media, tags
    <2>5. QED
      BY <2>1, <2>3, <2>4, DocsSaved
  <1>4. CASE Unindex(r) \/ Index(r)
    <2>1. PICK x \in Requests : x = Indexed(r)
      BY <1>4 DEF Unindex, Index
    <2> DEFINE n == IF pc[r] = "index" THEN docs[x].hashtags + 1 ELSE 0
               row == [docs[x] EXCEPT !.hashtags = n]
    <2>2. docs' = [docs EXCEPT ![x] = row] /\ pc[r] \in {"index", "unindex"}
      BY <1>4, <2>1 DEF Unindex, Index
    <2>3. row.hashtags = n
      <3>1. n \in Nat
        BY DocsMarked
      <3> HIDE DEF n
      <3>2. QED
        BY <3>1, DocsMarked
    <2> HIDE DEF row
    <2>4. \A p \in Requests : docs'[p] = IF p = x THEN row ELSE docs[p]
      BY <2>2 DEF TInv, TypeOK
    <2>5. \A p \in Requests : docs[p].hashtags \in Nat
      BY DocsMarked
    <2>6. QED
      BY <2>1, <2>2, <2>3, <2>4, <2>5 DEF DocsTold
  <1>5. CASE docs' = docs /\ pc[r] \notin {"index", "unindex"}
    BY <1>5, DocsSame
  <1>6. \/ docs' = docs /\ pc[r] \notin {"index", "unindex"}
        \/ SaveMedia(r) \/ SaveTags(r) \/ SaveMentions(r) \/ DeleteDocuments(r) \/ Unindex(r) \/ Index(r)
    BY DEF ContentStep, contentVars, InsertPost, FindOwnPost, DeletePost, FindOriginal, Repost, FindPost,
       InsertComment, CountComment, CountReply, FindOwnComment, DeleteComment, UncountComment, UncountReply,
       FindTarget, FindReaction, Unreact, Rereact, React, CountLike, FindOwner,
       CreateStory, FindStory, ViewStory, DeleteStory, CleanStories
  <1>7. QED
    BY <1>1, <1>2, <1>3, <1>4, <1>5, <1>6

LEMMA ContentTrails ==
  ASSUME TInv, PostsGone, NEW r \in Requests, ContentStep(r), Moves(r), stale' = {}
  PROVE  Trails(r)
  <1>0. TypeOK /\ Fits(Op(r), pc[r])
    BY DEF TInv, Walks
  <1>1. \A p \in Requests : Approval(p)' = Approval(p)
    BY ContentApprovals DEF SameApprovals
  <1>2. pc'[r] # "count_post"
    BY ContentRoute, <1>0 DEF Moves, ContentLabels
  <1> USE DEF Labels, ContentLabels, NoticeLabels
  <1>3. pc'[r] = "unindex" => Op(r) = "createPost" \/ pc[r] = "count_post"
    <2>1. CASE InsertPost(r) \/ SaveMedia(r) \/ SaveTags(r) \/ Unindex(r) \/ Index(r)
      BY <1>0, <2>1, Goes DEF InsertPost, SaveMedia, SaveTags, Unindex, Index, Fits
    <2>2. CASE FindOwnPost(r) \/ DeletePost(r) \/ DeleteDocuments(r) \/ FindOriginal(r) \/ Repost(r)
      BY <1>0, <2>2, Goes DEF FindOwnPost, DeletePost, DeleteDocuments, FindOriginal, Repost
    <2>3. CASE ~(InsertPost(r) \/ SaveMedia(r) \/ SaveTags(r) \/ Unindex(r) \/ Index(r))
               /\ ~(FindOwnPost(r) \/ DeletePost(r) \/ DeleteDocuments(r) \/ FindOriginal(r) \/ Repost(r))
      <3>1. Op(r) \notin {"createGroupPost", "approveGroupPost"}
        BY <1>0, <2>3 DEF ContentStep, Fits, FindPost, InsertComment, CountComment, CountReply, SaveMentions,
           FindOwnComment, DeleteComment, UncountComment, UncountReply, FindTarget, FindReaction, Unreact, Rereact,
           React, CountLike, FindOwner, CreateStory, FindStory, ViewStory, DeleteStory, CleanStories, IsComment
      <3>2. QED
        BY <3>1 DEF Moves, Fits
    <2>4. QED
      BY <2>1, <2>2, <2>3
  <1>4. pc'[r] = "index" <=> pc[r] = "unindex"
    <2>1. CASE InsertPost(r) \/ SaveMedia(r) \/ SaveTags(r) \/ Unindex(r) \/ Index(r)
      BY <1>0, <2>1, Goes DEF InsertPost, SaveMedia, SaveTags, Unindex, Index, Fits
    <2>2. CASE FindOwnPost(r) \/ DeletePost(r) \/ DeleteDocuments(r) \/ FindOriginal(r) \/ Repost(r)
      BY <1>0, <2>2, Goes DEF FindOwnPost, DeletePost, DeleteDocuments, FindOriginal, Repost
    <2>3. CASE ~(InsertPost(r) \/ SaveMedia(r) \/ SaveTags(r) \/ Unindex(r) \/ Index(r))
               /\ ~(FindOwnPost(r) \/ DeletePost(r) \/ DeleteDocuments(r) \/ FindOriginal(r) \/ Repost(r))
      <3>1. Op(r) \notin {"createPost", "createGroupPost", "approveGroupPost"}
        BY <1>0, <2>3 DEF ContentStep, Fits, FindPost, InsertComment, CountComment, CountReply, SaveMentions,
           FindOwnComment, DeleteComment, UncountComment, UncountReply, FindTarget, FindReaction, Unreact, Rereact,
           React, CountLike, FindOwner, CreateStory, FindStory, ViewStory, DeleteStory, CleanStories, IsComment
      <3>2. QED
        BY <1>0, <3>1 DEF Moves, Fits
    <2>4. QED
      BY <2>1, <2>2, <2>3
  <1>5. QED
    BY <1>1, <1>2, <1>3, <1>4 DEF Trails

LEMMA GroupPostTrails ==
  ASSUME TInv, PostsGone, UNCHANGED call, NEW r \in Requests, GroupPostStep(r), Moves(r), stale' = {}, Holding(r)
  PROVE  Trails(r)
  <1>0. TypeOK /\ Fits(Op(r), pc[r]) /\ Carries(r)
    BY DEF TInv, Walks
  <1> USE DEF Labels, GroupLabels, NoticeLabels
  <1>1. pc[r] \notin {"unindex", "index"} /\ pc'[r] # "index"
    BY GroupPostRoute
  <1>2. CASE InsertGroupPost(r)
    <2> DEFINE approval == IF NeedsApproval(r) THEN "PENDING" ELSE "APPROVED"
    <2>1. pc[r] = "group_post" /\ posts' = [posts EXCEPT ![r] = NewPost(approval)] /\ Op(r) = "createGroupPost"
      BY <1>0, <1>2 DEF InsertGroupPost, Fits
    <2>2. approval \in Approvals
      BY DEF Approvals
    <2>3. pc'[r] = IF NeedsApproval(r) THEN "moderators" ELSE "count_post"
      BY <1>0, <1>2, Goes DEF InsertGroupPost
    <2>4. pc'[r] # "unindex" /\ (pc'[r] = "count_post" => approval = "APPROVED")
      BY <2>3
    <2> HIDE DEF approval
    <2>5. /\ \A q \in Requests : q # r => Approval(q)' = Approval(q)
          /\ Approval(r) = "NONE" /\ Approval(r)' = approval
      BY <2>1, <2>2, InsertApproval
    <2>6. QED
      BY <1>1, <2>1, <2>4, <2>5 DEF Trails, Approves
  <1>3. CASE Review(r)
    <2> DEFINE verdict == IF Op(r) = "approveGroupPost" THEN "APPROVED" ELSE "REJECTED"
               row == [seen[r] EXCEPT !.approval = verdict]
    <2>1. pc[r] = "review" /\ seen[r] \in PostRows /\ Op(r) \in ReviewOps /\ seen[r].approval = "PENDING"
      BY <1>0, <1>3 DEF Review, Carries, Fits, Holding
    <2>2. PICK x \in Requests : x = On(r)
      BY <1>0, <2>1, CallsTyped DEF TypeOK, OfRow
    <2>3. posts[x] = seen[r] /\ seen[r] # NONE
      BY <1>3, <2>1, <2>2, SocialAssumption DEF Review, Rows
    <2>4. posts' = [posts EXCEPT ![x] = row]
      BY <1>3, <2>2 DEF Review
    <2>5. verdict \in Approvals /\ (pc'[r] = "count_post" => Op(r) = "approveGroupPost" /\ verdict = "APPROVED")
          /\ pc'[r] # "unindex"
      BY <1>0, <1>3, Goes DEF Review, Approvals
    <2> HIDE DEF verdict
    <2>6. row \in PostRows /\ row.approval = verdict
      BY <2>1, <2>5 DEF PostRows
    <2> HIDE DEF row
    <2>7. row # NONE
      BY <2>6, SocialAssumption DEF Rows
    <2>8. posts'[x] = row /\ \A q \in Requests : q # x => posts'[q] = posts[q]
      BY <1>0, <2>4 DEF TypeOK
    <2>9. /\ Approval(x) = "PENDING" /\ Approval(x)' = verdict
          /\ \A q \in Requests : q # x => Approval(q)' = Approval(q)
      BY <2>1, <2>3, <2>6, <2>7, <2>8 DEF Approval
    <2>10. pc'[r] = "count_post" => Approves(r, x)
      BY <2>5, <2>9 DEF Approves
    <2>11. pc'[r] = "count_post" => Approves(r, On(r)) /\ Approval(On(r)) = "PENDING"
      BY <2>2, <2>9, <2>10
    <2>12. QED
      BY <1>1, <2>1, <2>5, <2>9, <2>11 DEF Trails
  <1>4. CASE CountPost(r) \/ FindPendingPost(r) \/ ListGroupPosts(r)
    <2>1. \A q \in Requests : Approval(q)' = Approval(q)
      BY <1>4 DEF CountPost, FindPendingPost, ListGroupPosts, Approval
    <2>2. /\ pc'[r] # "count_post"
          /\ pc'[r] = "unindex" => pc[r] = "count_post"
      BY <1>0, <1>4, Goes DEF CountPost, FindPendingPost, ListGroupPosts, ContentLabels
    <2>3. QED
      BY <1>1, <2>1, <2>2 DEF Trails
  <1>5. QED
    BY <1>2, <1>3, <1>4 DEF GroupPostStep

LEMMA AllIndex ==
  ASSUME TInv, PostsGone, UNCHANGED call, NEW r \in Requests, Step(r), Smooth, stale' = {}, pc'[r] # "failed",
         GroupPlaces, IndexPlaces
  PROVE  Indexes(r)
  <1>0. Moves(r) /\ Fits(Op(r), pc[r]) /\ Fits(Op(r), pc'[r])
    BY StepMoves DEF TInv, Walks, Moves
  <1>1. ASSUME docs' = docs, SameApprovals, pc[r] \notin {"unindex", "index"},
               pc'[r] \notin {"index", "count_post"}, pc'[r] = "unindex" => Op(r) = "createPost"
        PROVE  Indexes(r)
    BY <1>0, <1>1, DocsSame DEF Indexes, Trails, SameApprovals
  <1>2. posts' = posts => SameApprovals
    BY DEF SameApprovals, Approval
  <1>3. CASE ConnectionStep(r) /\ UNCHANGED contentVars
    BY <1>1, <1>2, <1>3, ConnectionRoute DEF contentVars, LinkLabels
  <1>4. CASE NoticeStep(r) /\ UNCHANGED contentVars
    <2>1. pc[r] \notin {"unindex", "index"} /\ pc'[r] \notin {"index", "count_post"}
      BY <1>4, NoticeRoute
    <2>2. pc'[r] = "unindex" => Op(r) = "createPost"
      <3>1. TypeOK
        BY DEF TInv
      <3>2. QED
        BY <1>4, <3>1, Goes DEF NoticeStep, Dispatch, Dispatched, FindNotice, MarkRead, MarkAllRead,
           Labels, NoticeLabels, ContentLabels
    <2>3. QED
      BY <1>1, <1>2, <1>4, <2>1, <2>2 DEF contentVars
  <1>5. CASE ContentStep(r)
    <2>1. pc[r] \in {"index", "unindex"} => Indexed(r) \in Requests
      BY DEF IndexPlaces, Indexing
    <2>2. QED
      BY <1>0, <1>5, <2>1, ContentDocs, ContentTrails DEF Indexes
  <1>6. CASE FeedStep(r) /\ UNCHANGED docs
    BY <1>1, <1>6, FeedRoute, FeedApprovals DEF FeedLabels
  <1>7. CASE MembershipStep(r) /\ UNCHANGED contentVars
    BY <1>1, <1>2, <1>7, MembershipRoute DEF contentVars, GroupLabels
  <1>8. CASE GroupPostStep(r) /\ UNCHANGED docs
    BY <1>0, <1>8, GroupPostTrails, GroupPostRoute, DocsSame DEF Indexes, GroupPlaces
  <1>9. CASE MessagingStep(r) /\ UNCHANGED contentVars
    BY <1>1, <1>2, <1>9, MessagingRoute DEF contentVars, TalkLabels
  <1>10. CASE (ListStep(r) \/ ListMessages(r)) /\ UNCHANGED contentVars
    BY <1>1, <1>2, <1>10, ListRoute DEF contentVars
  <1>11. ~Fails(r)
    BY FailRoute
  <1>12. QED
    BY <1>3, <1>4, <1>5, <1>6, <1>7, <1>8, <1>9, <1>10, <1>11 DEF Step

LEMMA IndexStep ==
  ASSUME TInv, TInv', PostsGone, UNCHANGED call, NEW r \in Requests, ~Ended(r), Step(r), GroupPlaces, IndexPlaces
  PROVE  IndexPlaces'
  <1> SUFFICES ASSUME Smooth' PROVE IndexPlaces'
    BY DEF IndexPlaces
  <1>1. Smooth /\ stale' = {} /\ pc'[r] # "failed"
    BY StepMoves, SmoothSoFar
  <1>2. Indexes(r)
    BY <1>1, AllIndex
  <1>3. DocsTold(r) /\ Trails(r) /\ \A q \in Requests : q # r => pc'[q] = pc[q]
    BY <1>2 DEF Indexes, Moves, Walk
  <1>4. \A q : Indexed(q)' = Indexed(q) /\ Op(q)' = Op(q)
    BY DEF Indexed, Op, On
  <1>5. \A q \in Requests : Approval(q) \notin {"NONE"} => Op(q) = "createGroupPost"
    BY <1>1 DEF GroupPlaces, Seated
  <1>6. \A q \in Requests : Fits(Op(q), pc[q]) /\ Fits(Op(q), pc'[q])
    BY <1>2, <1>3 DEF TInv, Walks, Indexes, Moves
  <1>7. \A q \in Requests : docs[q].hashtags \in Nat /\ docs'[q].hashtags \in Nat
    BY DEF TInv, TypeOK, Documents
  <1>8. /\ \A q, s \in Requests : Indexing(q) /\ Indexing(s) /\ Indexed(q) = Indexed(s) => q = s
        /\ \A q \in Requests : Indexing(q) => Indexed(q) \in Requests
        /\ \A q \in Requests : Indexing(q) /\ Op(q) # "createPost" => Approval(Indexed(q)) = "APPROVED"
        /\ \A q \in Requests : pc[q] = "index" => docs[Indexed(q)].hashtags = 0
        /\ \A p \in Requests : docs[p].hashtags <= 1
    BY <1>1 DEF IndexPlaces
  \* No other call has begun to index what r begins to.
  <1>9. ASSUME Indexing(r)', NEW s \in Requests, s # r, Indexing(s), Indexed(s) = Indexed(r) PROVE FALSE
    <2>1. CASE Indexing(r)
      BY <1>8, <1>9, <2>1
    <2>2. CASE pc'[r] = "unindex" /\ Op(r) = "createPost"
      <3>1. Indexed(s) = r
        BY <1>9, <2>2 DEF Indexed
      <3>2. Op(s) \notin {"createPost", "createGroupPost"}
        BY <1>9, <3>1 DEF Indexed
      <3>3. Approval(r) = "APPROVED"
        BY <1>8, <1>9, <3>1, <3>2
      <3>4. QED
        BY <1>5, <2>2, <3>3
    <2>3. CASE pc'[r] = "count_post" /\ Op(r) = "createGroupPost" /\ Approves(r, r)
      <3>1. Indexed(s) = r
        BY <1>9, <2>3 DEF Indexed
      <3>2. Op(s) \notin {"createPost", "createGroupPost"}
        BY <1>9, <3>1 DEF Indexed
      <3>3. Approval(r) = "APPROVED"
        BY <1>8, <1>9, <3>1, <3>2
      <3>4. QED
        BY <2>3, <3>3 DEF Approves
    <2>4. CASE Op(r) = "approveGroupPost" /\ Approves(r, On(r)) /\ Approval(On(r)) = "PENDING"
      <3>1. PICK x \in Requests : x = On(r)
        BY <2>4 DEF Approves
      <3>2. Indexed(s) = x /\ Approval(x) = "PENDING" /\ Op(x) = "createGroupPost"
        BY <1>5, <1>9, <2>4, <3>1 DEF Indexed
      <3>3. Op(s) # "createPost"
        BY <3>2 DEF Indexed
      <3>4. Approval(x) = "APPROVED"
        BY <1>8, <1>9, <3>2, <3>3
      <3>5. QED
        BY <3>2, <3>4
    <2>5. pc'[r] \in {"count_post", "unindex", "index"}
      BY <1>9 DEF Indexing
    <2>6. QED
      BY <1>3, <2>1, <2>2, <2>3, <2>4, <2>5 DEF Trails, Indexing
  <1>10. \A q \in Requests : q # r => (Indexing(q)' <=> Indexing(q))
    BY <1>3 DEF Indexing
  <1>11. Indexing(r)' => /\ Indexed(r) \in Requests
                         /\ Op(r) # "createPost" => Approval(Indexed(r))' = "APPROVED"
    <2>1. CASE Indexing(r)
      <3>1. Indexed(r) \in Requests /\ (Op(r) # "createPost" => Approval(Indexed(r)) = "APPROVED")
        BY <1>8, <2>1
      <3>2. PICK x \in Requests : x = Indexed(r)
        BY <3>1
      <3>3. Op(r) # "createPost" => Approval(x)' = "APPROVED"
        BY <1>3, <3>1, <3>2 DEF Trails
      <3>4. QED
        BY <1>4, <3>2, <3>3 DEF Approval
    <2>2. CASE pc'[r] = "unindex" /\ Op(r) = "createPost"
      BY <2>2 DEF Indexed
    <2>3. CASE pc'[r] = "count_post" /\ Op(r) = "createGroupPost" /\ Approves(r, r)
      <3>1. Approval(r)' = "APPROVED" /\ Indexed(r) = r
        BY <2>3 DEF Indexed, Approves
      <3>2. QED
        BY <1>4, <3>1 DEF Approval
    <2>4. CASE Op(r) = "approveGroupPost" /\ Approves(r, On(r)) /\ Approval(On(r)) = "PENDING"
      <3>1. PICK x \in Requests : x = On(r)
        BY <2>4 DEF Approves
      <3>2. On(r)' = On(r)
        BY DEF On
      <3>3. Approval(x)' = "APPROVED" /\ Indexed(r) = x
        BY <2>4, <3>1, <3>2 DEF Indexed, Approves, Approval
      <3>4. QED
        BY <1>4, <3>3 DEF Approval
    <2>5. Indexing(r)' => pc'[r] \in {"count_post", "unindex", "index"}
      BY DEF Indexing
    <2>6. QED
      BY <1>3, <2>1, <2>2, <2>3, <2>4, <2>5 DEF Trails, Indexing
  <1>12. \A q \in Requests : Indexing(q)' => Indexed(q)' \in Requests
    BY <1>4, <1>8, <1>10, <1>11
  <1>13. ASSUME NEW q \in Requests, NEW s \in Requests, Indexing(q)', Indexing(s)', Indexed(q)' = Indexed(s)'
         PROVE  q = s
    BY <1>4, <1>8, <1>9, <1>10, <1>13
  <1>14. ASSUME NEW q \in Requests, Indexing(q)', Op(q)' # "createPost"
         PROVE  (Approval(Indexed(q)) = "APPROVED")'
    <2>1. CASE q = r
      BY <1>4, <1>11, <1>14, <2>1
    <2>2. CASE q # r
      <3>1. Indexed(q) \in Requests /\ Approval(Indexed(q)) = "APPROVED"
        BY <1>4, <1>8, <1>10, <1>14, <2>2
      <3>2. PICK x \in Requests : x = Indexed(q)
        BY <3>1
      <3>3. Approval(x)' = "APPROVED"
        BY <1>3, <3>1, <3>2 DEF Trails
      <3>4. QED
        BY <1>4, <3>2, <3>3 DEF Approval
    <2>3. QED
      BY <2>1, <2>2
  <1>15. ASSUME NEW q \in Requests, pc'[q] = "index" PROVE docs'[Indexed(q)].hashtags = 0
    <2>1. CASE q = r
      <3>1. pc[r] = "unindex" /\ Indexed(r) \in Requests
        BY <1>3, <1>8, <1>15, <2>1 DEF Trails, Indexing
      <3>2. QED
        BY <1>3, <2>1, <3>1 DEF DocsTold
    <2>2. CASE q # r
      <3>1. pc[q] = "index" /\ Indexed(q) \in Requests /\ docs[Indexed(q)].hashtags = 0
        BY <1>3, <1>8, <1>15, <2>2 DEF Indexing
      <3>2. pc[r] = "index" => Indexed(q) # Indexed(r)
        BY <1>8, <2>2, <3>1 DEF Indexing
      <3>3. QED
        BY <1>3, <1>7, <3>1, <3>2 DEF DocsTold
    <2>3. QED
      BY <2>1, <2>2
  <1>16. \A p \in Requests : docs'[p].hashtags <= 1
    BY <1>3, <1>7, <1>8 DEF DocsTold
  <1>17. QED
    BY <1>4, <1>12, <1>13, <1>14, <1>15, <1>16 DEF IndexPlaces

LEMMA ContentBegins ==
  ASSUME Init, TInv
  PROVE  /\ \A x \in Requests : posts[x] # NONE <=> Made(x) /\ Op(x) \in PostMakers
         /\ \A x \in Requests : reactions[x] # NONE <=> Made(x) /\ Op(x) = "toggleReaction"
         /\ \A x \in Requests : comments[x] # NONE <=> Made(x) /\ IsComment(x)
         /\ \A x \in Requests : comments[x] # NONE =>
              /\ ~comments[x].deleted /\ comments[x].likes = Cardinality(LikesOf(x))
              /\ comments[x].replies = Cardinality(RepliesTo(x))
         /\ \A x \in Requests : posts[x] # NONE =>
              /\ posts[x].likes = Cardinality(LikesOf(x)) /\ posts[x].comments = Cardinality(CommentsOf(x))
  <1>0. ContentInit /\ call \in Plans
    BY DEF Init, CallsInit
  <1>1. \A x : /\ Cardinality(LikesOf(x)) \in Nat /\ Cardinality(CommentsOf(x)) \in Nat
               /\ Cardinality(RepliesTo(x)) \in Nat
    BY Sized DEF LikesOf, CommentsOf, RepliesTo
  <1>2. ASSUME NEW x \in Requests PROVE reactions[x] # NONE <=> Made(x) /\ Op(x) = "toggleReaction"
    <2>1. CASE Made(x) /\ Op(x) = "toggleReaction"
      <3>1. reactions[x] = [type |-> Arg(x)]
        BY <1>0, <2>1 DEF ContentInit
      <3>2. Arg(x) \in {"LIKE", "LOVE"}
        BY <1>0, <2>1, CallsTyped DEF ArgsOf
      <3>3. reactions[x] \in ReactionRows
        BY <3>1, <3>2 DEF ReactionRows
      <3>4. QED
        BY <2>1, <3>3, SocialAssumption DEF Rows
    <2>2. CASE ~(Made(x) /\ Op(x) = "toggleReaction")
      BY <1>0, <2>2 DEF ContentInit
    <2>3. QED
      BY <2>1, <2>2
  <1> DEFINE Answers(c) == {d \in Requests : Made(d) /\ IsComment(d) /\ Place(d) = c}
  <1>3. \A c : Cardinality(Answers(c)) \in Nat
    BY Sized
  <1>4. ASSUME NEW x \in Requests
        PROVE  /\ comments[x] # NONE <=> Made(x) /\ IsComment(x)
               /\ comments[x] # NONE => /\ ~comments[x].deleted /\ comments[x].likes = Cardinality(LikesOf(x))
                                        /\ comments[x].replies = Cardinality(Answers(x))
    <2>1. CASE Made(x) /\ IsComment(x)
      <3> DEFINE m == Cardinality(LikesOf(x))
                 n == Cardinality(Answers(x))
      <3>1. comments[x] = [NewComment EXCEPT !.likes = m, !.replies = n]
        BY <1>0, <2>1 DEF ContentInit
      <3>2. m \in Nat /\ n \in Nat
        BY <1>1, <1>3
      <3> HIDE DEF m, n
      <3>3. comments[x] = [deleted |-> FALSE, likes |-> m, replies |-> n]
        BY <3>1 DEF NewComment
      <3>4. comments[x] \in CommentRows
        BY <3>2, <3>3 DEF CommentRows
      <3>5. comments[x] # NONE
        BY <3>4, SocialAssumption DEF Rows
      <3>6. QED
        BY <2>1, <3>3, <3>5 DEF m, n
    <2>2. CASE ~(Made(x) /\ IsComment(x))
      BY <1>0, <2>2 DEF ContentInit
    <2>3. QED
      BY <2>1, <2>2
  <1>5. ASSUME NEW x \in Requests
        PROVE  /\ posts[x] # NONE <=> Made(x) /\ Op(x) \in PostMakers
               /\ posts[x] # NONE => /\ posts[x].likes = Cardinality(LikesOf(x))
                                     /\ posts[x].comments = Cardinality(CommentsOf(x))
    <2>1. CASE Made(x) /\ Op(x) \in PostMakers
      <3> DEFINE m == Cardinality(LikesOf(x))
                 n == Cardinality(CommentsOf(x))
                 approval == IF Op(x) = "createGroupPost" THEN Arg(x) ELSE "NONE"
      <3>1. posts[x] = [NewPost(approval) EXCEPT !.likes = m, !.comments = n]
        BY <1>0, <2>1 DEF ContentInit
      <3>2. m \in Nat /\ n \in Nat
        BY <1>1
      <3>3. approval \in Approvals
        BY <1>0, <2>1, CallsTyped DEF ArgsOf, Approvals
      <3> HIDE DEF m, n, approval
      <3>4. posts[x] = [deleted |-> FALSE, approval |-> approval, likes |-> m, comments |-> n,
                        shares |-> 0, views |-> 0]
        BY <3>1 DEF NewPost
      <3>5. posts[x] \in PostRows
        BY <3>2, <3>3, <3>4 DEF PostRows
      <3>6. posts[x] # NONE
        BY <3>5, SocialAssumption DEF Rows
      <3>7. QED
        BY <2>1, <3>4, <3>6 DEF m, n
    <2>2. CASE ~(Made(x) /\ Op(x) \in PostMakers)
      BY <1>0, <2>2 DEF ContentInit
    <2>3. QED
      BY <2>1, <2>2
  <1>6. \A c : RepliesTo(c) = Answers(c)
    BY <1>4 DEF RepliesTo
  <1>7. QED
    BY <1>2, <1>4, <1>5, <1>6

LEMMA ContentInitially ==
  ASSUME Init, TInv
  PROVE  ContentPlaces /\ ContentBalance /\ IndexPlaces
  <1>1. /\ pc = [r \in Requests |-> IF Made(r) THEN "ok" ELSE "idle"] /\ call \in Plans
        /\ \A r \in Requests : Made(r) => Op(r) \in Inserting
    BY CallsTyped DEF Init, CallsInit
  <1>2. \A r \in Requests : Op(r) = "deleteComment" => pc[r] = "idle"
    BY <1>1 DEF Inserting, PostMakers, TalkMakers
  <1>3. ASSUME NEW r \in Requests, Made(r), Op(r) = "toggleReaction" PROVE There(On(r))
    <2>1. On(r) \in Requests
      BY <1>1, <1>3, CallsTyped DEF OfRow
    <2>2. PICK x \in Requests : x = On(r)
      BY <2>1
    <2>3. Made(x) /\ Op(x) \in PostMakers \cup {"createComment"}
      BY <1>1, <1>3, <2>2, SocialAssumption DEF Grounded, Made, Op, On
    <2>4. There(x)
      BY <2>3, ContentBegins DEF There, IsComment
    <2>5. QED
      BY <2>2, <2>4
  <1>4. ASSUME NEW r \in Requests, Made(r), IsComment(r)
        PROVE  posts[On(r)] # NONE /\ (IsReply(r) => comments[Place(r)] # NONE)
    <2>1. On(r) \in Requests /\ Place(r) \in Requests \cup {NONE}
      BY <1>1, <1>4, CallsTyped DEF OfRow, IsComment
    <2>2. Made(On(r)) /\ Op(On(r)) \in PostMakers
      BY <1>1, <1>4, SocialAssumption DEF Grounded, Made, Op, On, IsComment
    <2>3. PICK x \in Requests : x = On(r)
      BY <2>1
    <2>4. posts[x] # NONE
      BY <2>2, <2>3, ContentBegins
    <2>5. IsReply(r) => Made(Place(r)) /\ IsComment(Place(r)) /\ Place(r) \in Requests
      BY <1>1, <1>4, <2>1, SocialAssumption DEF Grounded, Made, Op, On, Place, IsComment, IsReply
    <2>6. IsReply(r) => comments[Place(r)] # NONE
      BY <2>5, ContentBegins
    <2>7. QED
      BY <2>3, <2>4, <2>6
  <1>5. \A r \in Requests : pc[r] \in {"idle", "ok"} /\ (pc[r] = "ok" <=> Made(r))
    BY <1>1
  <1>6. ASSUME NEW r \in Requests PROVE Settled(r)
    BY <1>2, <1>3, <1>4, <1>5, ContentBegins DEF Settled
  <1>7. Cardinality({}) = 0
    BY FS_EmptySet
  <1>8. \A x : /\ LikesDue(x) = {} /\ LikesOver(x) = {} /\ CommentsDue(x) = {} /\ CommentsOver(x) = {}
               /\ RepliesDue(x) = {} /\ RepliesOver(x) = {}
    BY <1>5 DEF LikesDue, LikesOver, CommentsDue, CommentsOver, RepliesDue, RepliesOver,
       LikeDue, LikeOver, CommentDue, CommentOver, ReplyDue, ReplyOver
  <1>9. \A x : /\ Cardinality(LikesOf(x)) \in Nat /\ Cardinality(CommentsOf(x)) \in Nat
               /\ Cardinality(RepliesTo(x)) \in Nat
    BY Sized DEF LikesOf, CommentsOf, RepliesTo
  <1>10. ASSUME NEW x \in Requests
         PROVE  /\ There(x) => LikesBalanced(x)
                /\ posts[x] # NONE => CommentsBalanced(x)
                /\ comments[x] # NONE => RepliesBalanced(x)
    <2>1. There(x) => Likes(x) = Cardinality(LikesOf(x))
      BY ContentBegins DEF There, Likes
    <2>2. There(x) => LikesBalanced(x)
      BY <1>7, <1>8, <1>9, <2>1 DEF LikesBalanced, Balance
    <2>3. posts[x] # NONE => CommentsBalanced(x)
      BY <1>7, <1>8, <1>9, ContentBegins DEF CommentsBalanced, Balance
    <2>4. comments[x] # NONE => RepliesBalanced(x)
      BY <1>7, <1>8, <1>9, ContentBegins DEF RepliesBalanced, Balance
    <2>5. QED
      BY <2>2, <2>3, <2>4
  <1>11. \A p \in Requests : docs[p].hashtags <= 1
    <2> TAKE p \in Requests
    <2>1. PICK n \in {0, 1}, b \in BOOLEAN : docs[p] = [media |-> b, people |-> FALSE, hashtags |-> n]
      BY DEF Init, ContentInit
    <2>2. docs[p].hashtags = n
      BY <2>1
    <2>3. n <= 1
      OBVIOUS
    <2>4. QED
      BY <2>2, <2>3
  <1>12. IndexPlaces
    BY <1>5, <1>11 DEF IndexPlaces, Indexing
  <1>13. QED
    BY <1>6, <1>10, <1>12 DEF ContentPlaces, ContentBalance

LEMMA Alone ==
  ASSUME NEW S, IsFiniteSet(S), Cardinality(S) <= 1, NEW x \in S, NEW y \in S
  PROVE  x = y
  <1> SUFFICES ASSUME x # y PROVE FALSE
    OBVIOUS
  <1>1. IsFiniteSet(S \ {x}) /\ Cardinality(S \ {x}) = Cardinality(S) - 1
    BY FS_RemoveElement
  <1>2. Cardinality(S \ {x}) \in Nat
    BY <1>1, FS_CardinalityType
  <1>3. Cardinality(S) \in Nat
    BY FS_CardinalityType
  <1>4. Cardinality(S \ {x}) = 0
    BY <1>1, <1>2, <1>3
  <1>5. S \ {x} = {}
    BY <1>1, <1>4, FS_EmptySet
  <1>6. QED
    BY <1>5

LEMMA ContentSettled ==
  TInv /\ ContentPlaces /\ ContentBalance /\ IndexPlaces => ReactionsCounted
  <1> SUFFICES ASSUME TInv, ContentPlaces, ContentBalance, IndexPlaces, AllWell, stale = {},
                      \A c \in Requests : Cardinality(Deletes(c)) <= 1
               PROVE  /\ \A p \in Requests : posts[p] # NONE =>
                           /\ posts[p].likes = Cardinality(LikesOf(p))
                           /\ posts[p].comments = Cardinality(CommentsOf(p))
                           /\ docs[p].hashtags <= 1
                      /\ \A c \in Requests : comments[c] # NONE =>
                           /\ comments[c].likes = Cardinality(LikesOf(c))
                           /\ comments[c].replies = Cardinality(RepliesTo(c))
    BY DEF ReactionsCounted
  <1>1. Smooth
    BY DEF Smooth, AllWell
  <1>2. ASSUME NEW z \in Requests, NEW x \in Deleting(z), NEW y \in Deleting(z) PROVE x = y
    <2>1. x \in Deletes(z) /\ y \in Deletes(z)
      BY DEF Deleting, Deletes, AllWell
    <2>2. Cardinality(Deletes(z)) <= 1 /\ IsFiniteSet(Deletes(z))
      BY SocialAssumption, FS_Subset DEF Deletes
    <2>3. QED
      BY <2>1, <2>2, Alone
  <1>3. Even
    BY <1>1, <1>2 DEF Even
  <1>4. \A x : /\ LikesDue(x) = {} /\ LikesOver(x) = {} /\ CommentsDue(x) = {} /\ CommentsOver(x) = {}
               /\ RepliesDue(x) = {} /\ RepliesOver(x) = {}
    BY DEF AllWell, LikesDue, LikesOver, CommentsDue, CommentsOver, RepliesDue, RepliesOver,
       LikeDue, LikeOver, CommentDue, CommentOver, ReplyDue, ReplyOver
  <1>5. \A x : /\ Cardinality(LikesOf(x)) \in Nat /\ Cardinality(CommentsOf(x)) \in Nat
               /\ Cardinality(RepliesTo(x)) \in Nat
    BY Sized DEF LikesOf, CommentsOf, RepliesTo
  <1>6. Cardinality({}) = 0
    BY FS_EmptySet
  <1>7. ASSUME NEW p \in Requests, posts[p] # NONE
        PROVE  /\ posts[p].likes = Cardinality(LikesOf(p))
               /\ posts[p].comments = Cardinality(CommentsOf(p))
               /\ docs[p].hashtags <= 1
    <2>1. posts[p].likes \in Int /\ posts[p].comments \in Int
      BY <1>7, CountersTyped DEF TInv
    <2>2. There(p) /\ Likes(p) = posts[p].likes
      BY <1>3, <1>7, RowKinds DEF There, Likes
    <2>3. LikesBalanced(p) /\ CommentsBalanced(p)
      BY <1>3, <1>7, <2>2 DEF ContentBalance
    <2>4. posts[p].likes = Cardinality(LikesOf(p))
      BY <1>4, <1>5, <1>6, <2>1, <2>2, <2>3 DEF LikesBalanced, Balance
    <2>5. posts[p].comments = Cardinality(CommentsOf(p))
      BY <1>4, <1>5, <1>6, <2>1, <2>3 DEF CommentsBalanced, Balance
    <2>6. QED
      BY <1>1, <2>4, <2>5 DEF IndexPlaces
  <1>8. ASSUME NEW c \in Requests, comments[c] # NONE
        PROVE  /\ comments[c].likes = Cardinality(LikesOf(c))
               /\ comments[c].replies = Cardinality(RepliesTo(c))
    <2>1. comments[c].likes \in Int /\ comments[c].replies \in Int
      BY <1>8, CountersTyped DEF TInv
    <2>2. There(c) /\ Likes(c) = comments[c].likes
      BY <1>3, <1>8, RowKinds DEF There, Likes
    <2>3. LikesBalanced(c) /\ RepliesBalanced(c)
      BY <1>3, <1>8, <2>2 DEF ContentBalance
    <2>4. QED
      BY <1>4, <1>5, <1>6, <2>1, <2>2, <2>3 DEF LikesBalanced, RepliesBalanced, Balance
  <1>9. QED
    BY <1>7, <1>8

LEMMA ContentStutter ==
  ASSUME TInv, ContentPlaces, ContentBalance, IndexPlaces, UNCHANGED vars
  PROVE  ContentPlaces' /\ ContentBalance' /\ IndexPlaces'
  <1>1. UNCHANGED <<call, pc, target, seen, stale, posts, comments, reactions, docs>>
    BY DEF vars, callVars, locals, contentVars
  <1>2. \A q : /\ On(q)' = On(q) /\ Op(q)' = Op(q) /\ Place(q)' = Place(q) /\ Indexed(q)' = Indexed(q)
               /\ IsComment(q)' = IsComment(q) /\ IsReply(q)' = IsReply(q) /\ Indexing(q)' = Indexing(q)
    BY <1>1 DEF On, Op, Place, IsComment, IsReply, Indexed, Indexing
  <1>3. \A z : Deleting(z)' = Deleting(z) /\ There(z)' = There(z) /\ Likes(z)' = Likes(z) /\ Approval(z)' = Approval(z)
    BY <1>1, <1>2 DEF Deleting, There, Likes, Approval
  <1>4. Even' = Even /\ Smooth' = Smooth
    BY <1>1, <1>3 DEF Even, Smooth
  <1>5. ASSUME NEW q \in Requests, Settled(q) PROVE Settled(q)'
    <2>1. There(On(q))' = There(On(q)) /\ On(target[q])' = On(target[q])
      BY <1>1, <1>2, <1>3 DEF There
    <2>2. QED
      BY <1>1, <1>2, <1>3, <1>5, <2>1 DEF Settled
  <1>6. \A x : /\ LikesDue(x)' = LikesDue(x) /\ LikesOver(x)' = LikesOver(x) /\ LikesOf(x)' = LikesOf(x)
               /\ CommentsDue(x)' = CommentsDue(x) /\ CommentsOver(x)' = CommentsOver(x)
               /\ CommentsOf(x)' = CommentsOf(x)
               /\ RepliesDue(x)' = RepliesDue(x) /\ RepliesOver(x)' = RepliesOver(x)
               /\ RepliesTo(x)' = RepliesTo(x)
    BY <1>1 DEF LikesDue, LikesOver, LikesOf, CommentsDue, CommentsOver, CommentsOf, RepliesDue, RepliesOver,
       RepliesTo, LikeDue, LikeOver, CommentDue, CommentOver, ReplyDue, ReplyOver, On, Place
  <1>7. \A x : /\ LikesBalanced(x)' = LikesBalanced(x) /\ CommentsBalanced(x)' = CommentsBalanced(x)
               /\ RepliesBalanced(x)' = RepliesBalanced(x)
    BY <1>1, <1>3, <1>6 DEF LikesBalanced, CommentsBalanced, RepliesBalanced, Balance
  <1>8. ContentPlaces'
    BY <1>4, <1>5 DEF ContentPlaces
  <1>9. ContentBalance'
    BY <1>1, <1>3, <1>4, <1>7 DEF ContentBalance
  <1>10. IndexPlaces'
    BY <1>1, <1>2, <1>3, <1>4 DEF IndexPlaces
  <1>11. QED
    BY <1>8, <1>9, <1>10

\* And for posts and comments: their likes, comments and replies, and the
\* hashtag that a post is listed under at most once.
THEOREM ReactionsHold == Spec => []ReactionsCounted
  <1> DEFINE I == RInv /\ GroupPlaces /\ GroupsBalance /\ ContentPlaces /\ ContentBalance /\ IndexPlaces
  <1>1. Init => I
    BY InitTypes, InitGone, GroupsInitially, ContentInitially DEF RInv
  <1>2. I /\ [Next]_vars => I'
    <2> SUFFICES ASSUME I, [Next]_vars PROVE I'
      OBVIOUS
    <2>1. RInv'
      BY GoneStep
    <2>2. CASE Next
      <3>1. PICK r \in Requests : ~Ended(r) /\ Step(r) /\ UNCHANGED call
        BY <2>2 DEF Next
      <3>2. GroupPlaces' /\ GroupsBalance'
        BY <2>1, <3>1, GroupsStep DEF RInv, Gone
      <3>3. ContentPlaces' /\ ContentBalance'
        BY <2>1, <3>1, ContentKeeps DEF RInv, Gone
      <3>4. IndexPlaces'
        BY <2>1, <3>1, IndexStep DEF RInv, Gone
      <3>5. QED
        BY <2>1, <3>2, <3>3, <3>4
    <2>3. CASE UNCHANGED vars
      BY <2>1, <2>3, GroupsStutter, ContentStutter DEF RInv
    <2>4. QED
      BY <2>2, <2>3
  <1>3. I => ReactionsCounted
    BY ContentSettled DEF RInv
  <1>4. QED
    BY <1>1, <1>2, <1>3, PTL DEF Spec
=============================================================================
