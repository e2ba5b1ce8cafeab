---------------------------- MODULE ServicesProofs ----------------------------
(***************************************************************************)
(* Proofs about Services.  Each step of a call is a stride: it moves that  *)
(* call alone, along an await of its operation, and writes no rows but     *)
(* those the operation may write.  Once that is known of every action, the *)
(* properties need only the actions of the operations they are about.  The *)
(* invariants are defined in ServicesInvariants.                           *)
(***************************************************************************)
EXTENDS ServicesInvariants, FiniteSetTheorems, TLAPS

\* What the routes and the bodies of the calls name.
LEMMA CallsTyped ==
  ASSUME call \in Plans
  PROVE  /\ DOMAIN call = Requests
         /\ \A r \in Requests :
              /\ Op(r) \in Ops /\ By(r) \in People /\ call[r].to \subseteq Keys \cup People
              /\ On(r) \in Requests \cup {NONE} /\ Made(r) \in BOOLEAN
              /\ Made(r) => Op(r) \in Inserting \cup {"none"}
              /\ On(r) # NONE => Names(Op(r), Op(On(r)))
              /\ call[r].ids \in Seq(Requests)
              /\ \A i \in 1 .. Len(call[r].ids) :
                   call[r].ids[i] \in Requests /\ Op(call[r].ids[i]) = Reordered(Op(r))
<1>1. call \in [Requests -> ServiceCalls]
  BY ServicesAssumption
<1>2. QED
  BY <1>1, ServicesAssumption DEF ServiceCalls, Op, By, On, Made
--------------------
\* What the operators of a step do
LEMMA Goes ==
  ASSUME LocalsTyped, NEW r \in Requests, NEW label, label # "idle", Goto(r, label)
  PROVE  Paces(r) /\ pc'[r] = label
BY DEF LocalsTyped, Goto, Paces
LEMMA Waits ==
  ASSUME LocalsTyped, NEW r \in Requests, pc[r] # "idle", UNCHANGED <<pc, before>>
  PROVE  Paces(r) /\ pc'[r] = pc[r]
BY DEF LocalsTyped, Paces
LEMMA Stays ==
  ASSUME LocalsTyped, NEW r \in Requests, UNCHANGED locals
  PROVE  Bears(r) /\ target'[r] = target[r] /\ seen'[r] = seen[r] /\ todo'[r] = todo[r]
BY DEF LocalsTyped, locals, Bears
LEMMA HasRead ==
  ASSUME LocalsTyped, NEW r \in Requests, NEW id, NEW row, Reads(r, id, row)
  PROVE  Bears(r) /\ target'[r] = id /\ seen'[r] = row /\ todo'[r] = todo[r]
BY DEF LocalsTyped, Reads, Bears
LEMMA HasWritten ==
  ASSUME LocalsTyped, NEW r \in Requests, NEW row, Writes(r, row)
  PROVE  Bears(r) /\ target'[r] = target[r] /\ seen'[r] = seen[r] /\ todo'[r] = todo[r]
BY DEF LocalsTyped, Writes, Bears
LEMMA HasSeen ==
  ASSUME LocalsTyped, NEW r \in Requests, NEW people, Sees(r, people)
  PROVE  Bears(r) /\ target'[r] = target[r] /\ seen'[r] = seen[r] /\ todo'[r] = people
BY DEF LocalsTyped, Sees, Bears
LEMMA HasHeld ==
  ASSUME LocalsTyped, NEW r \in Requests, NEW value, Hold(r, value)
  PROVE  Holds(r) /\ held'[r] = value
BY DEF LocalsTyped, Hold, Holds
LEMMA KeepsHeld ==
  ASSUME LocalsTyped, NEW r \in Requests, UNCHANGED held
  PROVE  Holds(r) /\ held'[r] = held[r]
BY DEF LocalsTyped, Holds
LEMMA KeepsRows ==
  ASSUME LocalsTyped, NEW r \in Requests, UNCHANGED rows
  PROVE  Touches(r)
BY DEF LocalsTyped, Touches
LEMMA HasPut ==
  ASSUME LocalsTyped, NEW r \in Requests, NEW x, NEW row, Put(x, row),
         x \in Requests => Reaches(Op(r), Op(x))
  PROVE  Touches(r)
BY DEF LocalsTyped, Put, Touches
LEMMA HasPutOwn ==
  ASSUME LocalsTyped, NEW r \in Requests, NEW row, Put(r, row)
  PROVE  Touches(r)
BY HasPut DEF Reaches

\* What a call asks for does not change.
LEMMA SameCalls ==
  ASSUME UNCHANGED call
  PROVE  \A q \in Requests : /\ Op(q)' = Op(q) /\ On(q)' = On(q) /\ By(q)' = By(q)
                             /\ Arg(q)' = Arg(q) /\ Key(q)' = Key(q) /\ Made(q)' = Made(q)
BY DEF Op, On, By, Arg, Key, Made

\* The request has found what its id names, ...
LEMMA FoundNamed ==
  ASSUME OnTheWay, UNCHANGED call, NEW r \in Requests, NEW label, label \notin {"idle", "reorder"},
         Op(r) # "processScheduledPosts", Find(r, label)
  PROVE  Own(r) /\ Touches(r) /\ pc'[r] = label /\ Grips(r)'
<1>0. LocalsTyped
  BY DEF OnTheWay
<1>1. Own(r) /\ Touches(r) /\ pc'[r] = label /\ target'[r] = On(r)
  BY <1>0, Goes, HasRead, KeepsHeld, KeepsRows DEF Find, recordVars, Own
<1>2. On(r) \in Requests /\ Names(Op(r), Op(On(r)))
  BY CallsTyped DEF OnTheWay, Find, Live
<1>3. Reaches(Op(r), Op(On(r)))
  BY <1>2 DEF Reaches
<1>4. QED
  BY <1>1, <1>2, <1>3 DEF Grips, Op, On
\* ... keeps what it has found, ...
LEMMA GripKept ==
  ASSUME OnTheWay, UNCHANGED call, NEW r \in Requests, pc'[r] # "reorder",
         pc'[r] \in Finders => pc[r] \in Finders,
         target'[r] = target[r], todo'[r] = todo[r] \/ Op(r) # "processScheduledPosts"
  PROVE  Grips(r)'
<1>1. Grips(r) /\ \A q \in Requests : Op(q)' = Op(q) /\ On(q)' = On(q)
  BY SameCalls DEF OnTheWay
<1>2. QED
  BY <1>1 DEF Grips
\* ... and saves it.
LEMMA SavedFound ==
  ASSUME OnTheWay, UNCHANGED call, NEW r \in Requests, NEW row, NEW label,
         label \notin {"idle", "reorder"}, label \in Finders => pc[r] \in Finders,
         Op(r) \notin AbandonedOps, Save(r, row, label)
  PROVE  Own(r) /\ Touches(r) /\ pc'[r] = label /\ Grips(r)'
<1>0. LocalsTyped /\ Grips(r)
  BY DEF OnTheWay
<1>1. target[r] \in Requests => Reaches(Op(r), Op(target[r]))
  BY <1>0 DEF Grips
<1>2. Own(r) /\ pc'[r] = label /\ target'[r] = target[r] /\ todo'[r] = todo[r]
  BY <1>0, Goes, HasWritten, KeepsHeld DEF Save, Own
<1>3. Touches(r)
  BY <1>0, <1>1, HasPut DEF Save
<1>4. QED
  BY <1>2, <1>3, GripKept
\* It may find another row of its own operation, too.
LEMMA GripTaken ==
  ASSUME OnTheWay, UNCHANGED call, NEW r \in Requests, pc'[r] \notin Finders \cup {"reorder"},
         NEW x,
         target'[r] = x, todo'[r] = todo[r] \/ Op(r) # "processScheduledPosts",
         x \in Requests => Reaches(Op(r), Op(x))
  PROVE  Grips(r)'
<1>1. Grips(r) /\ Op(r)' = Op(r)
  BY SameCalls DEF OnTheWay
<1>2. QED
  BY <1>1 DEF Grips, Op
LEMMA Marks ==
  ASSUME LocalsTyped, NEW r \in Requests, UNCHANGED <<target, seen, todo>>,
         stale' \in {stale, stale \cup {r}}
  PROVE  Bears(r) /\ target'[r] = target[r] /\ seen'[r] = seen[r] /\ todo'[r] = todo[r]
BY DEF LocalsTyped, Bears
\* The rows of the abandoned carts are kept apart.
LEMMA GripFree ==
  ASSUME UNCHANGED call, NEW r \in Requests, pc'[r] \notin Finders \cup {"reorder"},
         Op(r) \in AbandonedOps
  PROVE  Grips(r)'
BY SameCalls DEF Grips, AbandonedOps
--------------------
\* Every step is a stride: content, ...
LEMMA ContentStrides ==
  ASSUME OnTheWay, UNCHANGED call, NEW r \in Requests, ContentStep(r)
  PROVE  Strides(r)
<1>0. LocalsTyped /\ Fits(Op(r), pc[r]) /\ Grips(r)
  BY DEF OnTheWay
<1> USE <1>0
<1>1. CASE CreateFind(r)
  BY <1>1, Goes, Stays, KeepsHeld, KeepsRows, GripKept DEF CreateFind, recordVars,
     Creates, Own, Fits, Finders, Strides
<1>2. CASE CreateInsert(r)
  BY <1>2, Goes, HasRead, KeepsHeld, HasPutOwn, GripTaken,
     ServicesAssumption DEF CreateInsert, Own, Fits, Reaches, Finders, Strides
<1>3. CASE CreateDetail(r)
  BY <1>3, Goes, Stays, KeepsHeld, KeepsRows, GripKept DEF CreateDetail, recordVars, Own,
     Fits, Finders, Strides
<1>4. CASE DetailRejected(r)
  BY <1>4, Goes, Stays, KeepsHeld, KeepsRows, GripKept DEF DetailRejected, recordVars,
     Own, Fits, Finders, Strides
<1>5. CASE UndoCreate(r)
  BY <1>5, Goes, HasRead, KeepsHeld, HasPutOwn, GripTaken,
     ServicesAssumption DEF UndoCreate, Own, Fits, Reaches, Finders, Strides
<1>6. CASE UpdateFind(r)
  BY <1>6, FoundNamed DEF UpdateFind, Updates, Fits, Own, Finders, Strides
<1>7. CASE FindDetail(r)
  BY <1>7, Goes, Stays, HasHeld, KeepsRows, GripKept DEF FindDetail, Own, Fits, Finders,
     Strides
<1>8. CASE createRevision(r)
  BY <1>8, Goes, Stays, KeepsHeld, KeepsRows, GripKept DEF createRevision, recordVars,
     Own, Fits, Finders, Strides
<1>9. CASE SaveContent(r)
  BY <1>9, SavedFound DEF SaveContent, Fits, Own, Finders, AbandonedOps, Updates, Singles,
     Statuses, Strides
<1>10. CASE SaveRedirect(r)
  BY <1>10, Goes, Stays, KeepsHeld, KeepsRows, GripKept DEF SaveRedirect, recordVars, Own,
     Fits, Finders, Strides
<1>11. CASE RefindDetail(r)
  BY <1>11, Goes, Stays, HasHeld, KeepsRows, GripKept DEF RefindDetail, Own, Fits,
     Finders, Strides
<1>12. CASE SaveDetail(r)
  BY <1>12, Goes, Marks, KeepsHeld, KeepsRows, GripKept DEF SaveDetail, recordVars, Own,
     Fits, Finders, Strides
<1>13. CASE DeleteFind(r)
  BY <1>13, FoundNamed DEF DeleteFind, Deletes, Fits, Own, Finders, Strides
<1>14. CASE DeleteRow(r)
  BY <1>14, Goes, Stays, KeepsHeld, HasPut, GripKept DEF DeleteRow, OfProducts, Own, Fits,
     Grips, AbandonedOps, Deletes, Finders, Strides
<1>15. CASE DeleteDetail(r)
  <2> USE <1>15 DEF DeleteDetail
  <2>1. Own(r)
    BY Goes, Stays, KeepsHeld DEF recordVars, Own
  <2>2. Fits(Op(r), pc'[r])
    <3>1. Op(r) \in Deletes /\ Reaches(Op(r), Op(target[r]))
      BY DEF Fits, Grips, Finders, AbandonedOps, Deletes
    <3>2. IsArticle(target[r]) => Op(r) = "deleteArticle"
      BY <3>1 DEF IsArticle, Reaches, Names, Deletes, ArticleCreates, OfProducts
    <3>3. QED
      BY <3>2, Goes DEF recordVars, Fits
  <2>3. Touches(r)
    BY KeepsRows DEF recordVars
  <2>4. Grips(r)'
    BY GripKept, Goes, Stays DEF recordVars, Finders
  <2>5. QED
    BY <2>1, <2>2, <2>3, <2>4 DEF Strides
<1>16. CASE DeleteRevisions(r)
  BY <1>16, Goes, Stays, KeepsHeld, KeepsRows, GripKept DEF DeleteRevisions, recordVars,
     Own, Fits, Finders, Strides
<1>17. CASE DeleteRedirects(r)
  BY <1>17, Goes, Stays, KeepsHeld, KeepsRows, GripKept DEF DeleteRedirects, recordVars,
     Own, Fits, Finders, Strides
<1>18. CASE DeleteShortlinks(r)
  BY <1>18, Goes, Stays, KeepsHeld, GripKept DEF DeleteShortlinks, Own, Fits, LocalsTyped,
     Touches, Table, Reaches, Finders, Strides
<1>19. CASE PublishFind(r)
  <2> USE <1>19 DEF PublishFind
  <2>1. Own(r)
    BY Goes, KeepsHeld DEF Began, recordVars, Own, Bears, LocalsTyped
  <2>2. Fits(Op(r), pc'[r])
    BY Goes DEF Began, recordVars, Fits
  <2>3. Touches(r)
    BY KeepsRows DEF Began, recordVars
  <2>4. Grips(r)'
    <3>1. \A x \in todo'[r] : x \in Requests /\ Op(x) \in Creates
      BY DEF LocalsTyped, Contents
    <3>2. pc'[r] = "publish" /\ \A q \in Requests : Op(q)' = Op(q)
      BY Goes, SameCalls
    <3>3. QED
      BY <3>1, <3>2 DEF Grips, Finders
  <2>5. QED
    BY <2>1, <2>2, <2>3, <2>4 DEF Strides
<1>20. CASE PublishEnd(r)
  BY <1>20, Goes, Stays, KeepsHeld, KeepsRows, GripKept DEF PublishEnd, recordVars, Own,
     Fits, Finders, Strides
<1>21. CASE cleanupOldRevisions(r)
  BY <1>21, Goes, Stays, KeepsHeld, KeepsRows, GripKept DEF cleanupOldRevisions, Began,
     recordVars, Own, Fits, Finders, Strides
<1>22. ASSUME NEW x \in Requests, Publish(r, x)
      PROVE  Strides(r)
  <2> USE <1>22 DEF Publish
  <2>1. Own(r)
    BY Waits, KeepsHeld DEF Own, Bears, LocalsTyped
  <2>2. Fits(Op(r), pc'[r])
    BY Goes, Waits DEF Fits
  <2>3. Touches(r)
    <3>1. Op(r) = "processScheduledPosts" /\ Op(x) \in Creates
      BY DEF Fits, Grips
    <3>2. QED
      BY <3>1, HasPut DEF Reaches
  <2>4. Grips(r)'
    <3>1. \A y \in todo'[r] : y \in Requests /\ Op(y) \in Creates
      BY DEF LocalsTyped, Fits, Grips
    <3>2. pc'[r] = "publish" /\ \A q \in Requests : Op(q)' = Op(q)
      BY SameCalls
    <3>3. QED
      BY <3>1, <3>2 DEF Grips, Finders
  <2>5. QED
    BY <2>1, <2>2, <2>3, <2>4 DEF Strides
<1>23. CASE GetContent(r)
  BY <1>23, FoundNamed DEF GetContent, Fits, Own, Finders, Strides
<1>24. CASE GetDetail(r)
  BY <1>24, Goes, Stays, HasHeld, KeepsRows, GripKept DEF GetDetail, Own, Fits, Finders,
     Strides
<1>25. CASE ListContent(r)
  BY <1>25, Goes, HasSeen, KeepsHeld, KeepsRows, GripKept DEF ListContent, Answer, Began,
     recordVars, Own, Fits, Finders, Strides
<1>26. CASE SearchRows(r)
  BY <1>26, Goes, HasSeen, KeepsHeld, KeepsRows, GripKept DEF SearchRows, Began,
     recordVars, Own, Fits, Finders, Strides
<1>27. CASE SearchDetails(r)
  BY <1>27, Goes, HasSeen, KeepsHeld, KeepsRows, GripKept DEF SearchDetails, recordVars,
     Own, Fits, Finders, Strides
<1>28. CASE SearchBoth(r)
  BY <1>28, Goes, HasSeen, KeepsHeld, KeepsRows, GripKept DEF SearchBoth, recordVars, Own,
     Fits, Finders, Strides
<1>29. CASE logSearch(r)
  BY <1>29, Goes, Stays, KeepsHeld, HasPutOwn, GripKept DEF logSearch, Own, Fits, Finders,
     Strides
<1>30. CASE createShortlink(r)
  BY <1>30, Goes, Stays, KeepsHeld, HasPutOwn, GripKept DEF createShortlink, Insert,
     Began, Own, Fits, Finders, Strides
<1>31. CASE resolveShortlink(r)
  BY <1>31, FoundNamed, SavedFound DEF resolveShortlink, Began, Fits, Own, Finders,
     AbandonedOps, Updates, Singles, Statuses, Strides
<1>32. QED
  BY <1>1, <1>2, <1>3, <1>4, <1>5, <1>6, <1>7, <1>8, <1>9, <1>10, <1>11, <1>12, <1>13,
       <1>14, <1>15, <1>16, <1>17, <1>18, <1>19, <1>20, <1>21, <1>22, <1>23, <1>24, <1>25,
       <1>26, <1>27, <1>28, <1>29, <1>30, <1>31 DEF ContentStep, CreateStep, UpdateStep,
       DeleteStep, JobStep, ReadStep
--------------------
\* ... what is cached, ...
LEMMA CacheStrides ==
  ASSUME OnTheWay, UNCHANGED call, NEW r \in Requests, CacheStep(r)
  PROVE  Strides(r)
<1>0. LocalsTyped /\ Fits(Op(r), pc[r]) /\ Grips(r)
  BY DEF OnTheWay
<1> USE <1>0
<1>1. CASE CacheGet(r)
  BY <1>1, Goes, Stays, HasHeld, KeepsRows, GripKept DEF CacheGet, CacheReads, Own, Fits,
     Validates, Finders, Strides
<1>2. CASE CacheQuery(r)
  BY <1>2, Goes, Stays, HasHeld, KeepsRows, GripKept DEF CacheQuery, Own, Fits, Finders,
     Strides
<1>3. CASE CacheSet(r)
  BY <1>3, Goes, Stays, KeepsHeld, KeepsRows, GripKept DEF CacheSet, recordVars, Own,
     Fits, Validates, Finders, Strides
<1>4. CASE LogCoupon(r)
  BY <1>4, Goes, Stays, KeepsHeld, HasPutOwn, GripKept DEF LogCoupon, Own, Fits, Finders,
     Strides
<1>5. CASE createCoupon(r)
  BY <1>5, Goes, Stays, HasHeld, HasPutOwn, GripKept DEF createCoupon, Began, Own, Fits,
     Finders, Strides
<1>6. CASE CouponFind(r)
  BY <1>6, FoundNamed DEF CouponFind, Fits, Own, Finders, Strides
<1>7. CASE SaveCoupon(r)
  BY <1>7, Goes, HasWritten, HasHeld, HasPut, GripKept DEF SaveCoupon, Own, Fits, Grips,
     AbandonedOps, Deletes, Finders, Strides
<1>8. CASE createPromotion(r)
  BY <1>8, Goes, Stays, KeepsHeld, HasPutOwn, GripKept DEF createPromotion, Began, Own,
     Fits, Finders, Strides
<1>9. CASE PromotionFind(r)
  BY <1>9, FoundNamed DEF PromotionFind, Fits, Own, Finders, Strides
<1>10. CASE SavePromotion(r)
  BY <1>10, SavedFound DEF SavePromotion, Fits, Own, Finders, AbandonedOps, Updates,
     Singles, Statuses, Strides
<1>11. CASE MenuFind(r)
  <2> USE <1>11 DEF MenuFind
  <2>1. Own(r)
    BY Goes, HasRead, KeepsHeld DEF Began, recordVars, Own
  <2>2. Fits(Op(r), pc'[r])
    BY Goes DEF Began, recordVars, Fits
  <2>3. Touches(r)
    BY KeepsRows DEF Began, recordVars
  <2>4. Grips(r)'
    <3> DEFINE found == {z \in Table("saveMenu") : rows[z].slug = Key(r)}
               x == IF found = {} THEN r ELSE CHOOSE y \in found : TRUE
    <3>1. x \in Requests /\ Op(x) = "saveMenu"
      BY DEF Table, Began, ProgressOn
    <3>2. Reads(r, x, rows[x]) /\ Op(r) = "saveMenu"
      BY DEF Began
    <3> HIDE DEF x
    <3>3. target'[r] = x /\ todo'[r] = todo[r]
      BY <3>2, HasRead
    <3>4. pc'[r] \notin Finders \cup {"reorder"}
      BY Goes DEF Finders
    <3>5. QED
      BY <3>1, <3>2, <3>3, <3>4, GripTaken DEF Reaches
  <2>5. QED
    BY <2>1, <2>2, <2>3, <2>4 DEF Strides
<1>12. CASE SaveMenu(r)
  BY <1>12, SavedFound DEF SaveMenu, Fits, Own, Finders, AbandonedOps, Updates, Singles,
     Statuses, Strides
<1>13. CASE CacheDel(r)
  BY <1>13, Goes, Stays, KeepsHeld, KeepsRows, GripKept DEF CacheDel, recordVars, Own,
     Fits, Finders, Strides
<1>14. CASE CacheListStep(r)
  BY <1>14, Goes, HasSeen, KeepsHeld, KeepsRows, GripKept DEF CacheListStep, Answer,
     Began, recordVars, Own, Fits, Finders, Strides
<1>15. QED
  BY <1>1, <1>2, <1>3, <1>4, <1>5, <1>6, <1>7, <1>8, <1>9, <1>10, <1>11, <1>12, <1>13,
       <1>14 DEF CacheStep, CacheReadStep, CouponStep, PromotionStep, MenuStep
--------------------
\* ... learning, ...
LEMMA LearningStrides ==
  ASSUME OnTheWay, UNCHANGED call, NEW r \in Requests, LearningStep(r)
  PROVE  Strides(r)
<1>0. LocalsTyped /\ Fits(Op(r), pc[r]) /\ Grips(r)
  BY DEF OnTheWay
<1> USE <1>0
<1>1. CASE createCourse(r)
  BY <1>1, Goes, Stays, KeepsHeld, HasPutOwn, KeepsRows, GripKept DEF createCourse, Began,
     recordVars, Own, Fits, Finders, Strides
<1>2. CASE updateThumbnail(r)
  BY <1>2, FoundNamed, SavedFound, Goes, Stays, KeepsHeld, KeepsRows,
     GripKept DEF updateThumbnail, Began, recordVars, Fits, Own, Finders, AbandonedOps, Updates,
     Singles, Statuses, Strides
<1>3. CASE deleteCourse(r)
  <2>1. CASE Began(r, "deleteCourse") /\ Find(r, "delete_course")
    BY <2>1, FoundNamed DEF Began, Fits, Strides
  <2>2. CASE pc[r] = "delete_course"
    <3> USE <1>3, <2>2 DEF deleteCourse
    <3> DEFINE gone == {target[r]} \cup ChaptersOf(target[r]) \cup LessonsOf(target[r])
    <3>1. /\ rows' = [x \in Requests |-> IF x \in gone THEN NONE ELSE rows[x]]
          /\ Goto(r, "ok") /\ UNCHANGED <<locals, held>>
      BY DEF Began
    <3>2. Own(r) /\ Fits(Op(r), pc'[r])
      BY <3>1, Goes, Stays, KeepsHeld DEF Fits, Own
    <3>3. \A x \in gone : x \in Requests => Reaches(Op(r), Op(x))
      BY DEF Fits, Grips, ChaptersOf, LessonsOf, Table, Reaches, AbandonedOps
    <3> HIDE DEF gone
    <3>4. Touches(r)
      BY <3>1, <3>3 DEF Touches
    <3>5. Grips(r)'
      BY <3>1, GripKept, Goes, Stays DEF Finders
    <3>6. QED
      BY <3>2, <3>4, <3>5 DEF Strides
  <2>3. QED
    BY <1>3, <2>1, <2>2 DEF deleteCourse
<1>4. CASE addChapter(r)
  BY <1>4, Goes, Stays, KeepsHeld, HasPutOwn, GripKept DEF addChapter, Insert, Began, Own,
     Fits, Finders, Strides
<1>5. CASE addLesson(r)
  BY <1>5, Goes, Stays, KeepsHeld, HasPutOwn, GripKept DEF addLesson, Insert, Began, Own,
     Fits, Finders, Strides
<1>6. CASE Reorder(r)
  <2> USE <1>6 DEF Reorder
  <2>1. Own(r)
    BY Goes, Waits, Stays, HasHeld, KeepsHeld DEF Began, Own
  <2>2. Fits(Op(r), pc'[r])
    BY Goes, Waits DEF Began, Fits
  <2>3. Touches(r)
    <3>1. CASE pc[r] = "reorder"
      <4> DEFINE x == call[r].ids[held[r]]
      <4>1. held[r] \in 1 .. Len(call[r].ids) /\ Op(r) \in {"reorderLessons", "reorderChapters"}
        BY <3>1 DEF Grips, Fits
      <4>2. Op(x) \in {"addLesson", "addChapter"}
        BY <4>1, CallsTyped DEF OnTheWay, Reordered
      <4>3. Reaches(Op(r), Op(x))
        BY <4>1, <4>2 DEF Reaches
      <4> DEFINE row == IF rows[x] = NONE THEN NONE ELSE [rows[x] EXCEPT !.order = held[r] - 1]
      <4>4. Put(x, row)
        BY <3>1 DEF Began, Put
      <4> HIDE DEF x, row
      <4>5. QED
        BY <4>3, <4>4, HasPut
    <3>2. QED
      BY <3>1, KeepsRows DEF Began
  <2>4. Grips(r)'
    <3>1. target'[r] = target[r] /\ todo'[r] = todo[r]
      BY Stays
    <3>2. CASE pc'[r] # "reorder"
      BY <3>1, <3>2, GripKept, Goes, Waits DEF Began, Finders
    <3>3. CASE pc'[r] = "reorder"
      <4>1. call[r].ids \in Seq(Requests) /\ call'[r] = call[r]
        BY CallsTyped DEF OnTheWay
      <4>2. CASE pc[r] = "reorder"
        <5>1. held[r] \in 1 .. Len(call[r].ids)
          BY <4>2 DEF Grips
        <5>2. held'[r] = held[r] + 1 /\ held[r] < Len(call[r].ids)
          BY <3>3, <4>2, Goes, HasHeld DEF Began
        <5>3. held'[r] \in 1 .. Len(call[r].ids)
          BY <4>1, <5>1, <5>2
        <5>4. QED
          BY <3>1, <3>3, <4>1, <5>3, SameCalls DEF Grips, Finders
      <4>3. CASE pc[r] # "reorder"
        <5>1. held'[r] = 1 /\ call[r].ids # <<>>
          BY <3>3, <4>3, Goes, HasHeld DEF Began
        <5>2. held'[r] \in 1 .. Len(call[r].ids)
          BY <4>1, <5>1
        <5>3. QED
          BY <3>1, <3>3, <4>1, <5>2, SameCalls DEF Grips, Finders
      <4>4. QED
        BY <4>2, <4>3
    <3>4. QED
      BY <3>2, <3>3
  <2>5. QED
    BY <2>1, <2>2, <2>3, <2>4 DEF Strides
<1>7. CASE FindLesson(r)
  BY <1>7, FoundNamed DEF FindLesson, Began, Fits, Own, Finders, Strides
<1>8. CASE FindEnrollment(r)
  BY <1>8, Goes, Stays, HasHeld, KeepsRows, GripKept DEF FindEnrollment, Own, Fits,
     Finders, Strides
<1>9. CASE FindCourse(r)
  BY <1>9, Goes, Stays, KeepsHeld, KeepsRows, GripKept DEF FindCourse, recordVars, Own,
     Fits, Finders, Strides
<1>10. CASE FindPrevious(r)
  BY <1>10, Goes, Stays, HasHeld, KeepsHeld, KeepsRows, GripKept DEF FindPrevious, Own,
     Fits, Finders, Strides
<1>11. CASE CheckPrevious(r)
  BY <1>11, Goes, Stays, KeepsHeld, KeepsRows, GripKept DEF CheckPrevious, recordVars,
     Own, Fits, Finders, Strides
<1>12. CASE FindProgress(r)
  <2> USE <1>12 DEF FindProgress
  <2>1. Own(r)
    BY Goes, HasRead, KeepsHeld DEF Began, recordVars, Own
  <2>2. Fits(Op(r), pc'[r])
    BY Goes DEF Began, recordVars, Fits
  <2>3. Touches(r)
    BY KeepsRows DEF Began, recordVars
  <2>4. Grips(r)'
    <3> DEFINE found == ProgressOn(On(r), By(r))
               x == IF found = {} THEN r ELSE CHOOSE y \in found : TRUE
    <3>1. x \in Requests /\ Op(x) = "updateProgress"
      BY DEF Table, Began, ProgressOn
    <3>2. Reads(r, x, rows[x]) /\ Op(r) = "updateProgress"
      BY DEF Began
    <3> HIDE DEF x
    <3>3. target'[r] = x /\ todo'[r] = todo[r]
      BY <3>2, HasRead
    <3>4. pc'[r] \notin Finders \cup {"reorder"}
      BY Goes DEF Finders
    <3>5. QED
      BY <3>1, <3>2, <3>3, <3>4, GripTaken DEF Reaches
  <2>5. QED
    BY <2>1, <2>2, <2>3, <2>4 DEF Strides
<1>13. CASE FindPoints(r)
  BY <1>13, Goes, Stays, HasHeld, KeepsRows, GripKept DEF FindPoints, Own, Fits, Finders,
     Strides
<1>14. CASE awardXP(r)
  BY <1>14, Goes, Stays, KeepsHeld, KeepsRows, GripKept DEF awardXP, recordVars, Own,
     Fits, Finders, Strides
<1>15. CASE AwardFails(r)
  BY <1>15, Goes, Stays, KeepsHeld, KeepsRows, GripKept DEF AwardFails, recordVars, Own,
     Fits, Finders, Strides
<1>16. CASE SaveProgress(r)
  BY <1>16, SavedFound DEF SaveProgress, Fits, Own, Finders, AbandonedOps, Updates,
     Singles, Statuses, Strides
<1>17. CASE FindCertificate(r)
  BY <1>17, Goes, Stays, KeepsHeld, KeepsRows, GripKept DEF FindCertificate, Began,
     recordVars, Own, Fits, Finders, Strides
<1>18. CASE CountLessons(r)
  BY <1>18, Goes, Stays, HasHeld, KeepsRows, GripKept DEF CountLessons, Own, Fits,
     Finders, Strides
<1>19. CASE CountCompleted(r)
  BY <1>19, Goes, Stays, KeepsHeld, KeepsRows, GripKept DEF CountCompleted, recordVars,
     Own, Fits, Finders, Strides
<1>20. CASE InsertCertificate(r)
  BY <1>20, Goes, Stays, KeepsHeld, HasPutOwn, GripKept DEF InsertCertificate, Own, Fits,
     Finders, Strides
<1>21. CASE createReview(r)
  BY <1>21, Goes, Stays, KeepsHeld, HasPutOwn, KeepsRows, GripKept DEF createReview,
     recordVars, Own, Fits, Finders, Strides
<1>22. CASE FindAssessment(r)
  BY <1>22, FoundNamed DEF FindAssessment, Began, Fits, Own, Finders, Strides
<1>23. CASE CountAttempts(r)
  BY <1>23, Goes, Stays, KeepsHeld, KeepsRows, GripKept DEF CountAttempts, recordVars,
     Own, Fits, Finders, Strides
<1>24. CASE InsertAttempt(r)
  BY <1>24, Goes, Stays, KeepsHeld, HasPutOwn, GripKept DEF InsertAttempt, Own, Fits,
     Finders, Strides
<1>25. CASE FindAttempt(r)
  BY <1>25, FoundNamed DEF FindAttempt, Began, Fits, Own, Finders, Strides
<1>26. CASE FindQuestions(r)
  BY <1>26, Goes, Stays, KeepsHeld, KeepsRows, GripKept DEF FindQuestions, recordVars,
     Own, Fits, Finders, Strides
<1>27. CASE InsertSubmission(r)
  BY <1>27, Goes, Stays, KeepsHeld, HasPutOwn, GripKept DEF InsertSubmission, Own, Fits,
     Finders, Strides
<1>28. CASE SaveAttempt(r)
  BY <1>28, SavedFound DEF SaveAttempt, Fits, Own, Finders, AbandonedOps, Updates,
     Singles, Statuses, Strides
<1>29. CASE uploadAssignment(r)
  <2> USE <1>29 DEF uploadAssignment
  <2>1. CASE pc[r] = "idle"
    <3>1. Own(r) /\ Fits(Op(r), pc'[r]) /\ Touches(r)
      BY <2>1, Goes, Stays, KeepsHeld, KeepsRows DEF Began, recordVars, Fits, Own
    <3>2. Grips(r)'
      BY <2>1, GripKept, Goes, Stays DEF Began, Finders
    <3>3. QED
      BY <3>1, <3>2 DEF Strides
  <2>2. CASE pc[r] = "find_submission"
    <3>1. PICK x, row : /\ Reads(r, x, row) /\ Goto(r, "save_submission") /\ UNCHANGED recordVars
                        /\ x = r \/ x \in Submissions(On(r))
      BY <2>2 DEF Began
    <3>2. Own(r) /\ Fits(Op(r), pc'[r]) /\ Touches(r)
      BY <2>2, <3>1, Goes, HasRead, KeepsHeld, KeepsRows DEF recordVars, Fits, Own
    <3>3. Op(r) = "uploadAssignment" /\ Op(x) \in {"submitAssessment", "uploadAssignment"}
      BY <2>2, <3>1 DEF Fits, Submissions, Table
    <3>4. Grips(r)'
      BY <3>1, <3>3, GripTaken, Goes, HasRead DEF Reaches, Finders
    <3>5. QED
      BY <3>2, <3>4 DEF Strides
  <2>3. CASE pc[r] = "save_submission"
    BY <2>3, SavedFound DEF Began, Fits, AbandonedOps, Finders, Strides
  <2>4. QED
    BY <2>1, <2>2, <2>3 DEF Began
<1>30. CASE updateEnrollmentStatus(r)
  BY <1>30, FoundNamed, SavedFound DEF updateEnrollmentStatus, Began, Fits, Own, Finders,
     AbandonedOps, Updates, Singles, Statuses, Strides
<1>31. CASE AddRemark(r)
  BY <1>31, FoundNamed, Goes, Stays, KeepsHeld, HasPutOwn, KeepsRows,
     GripKept DEF AddRemark, Insert, Began, recordVars, Fits, Own, Finders, Strides
<1>32. CASE DeleteNote(r)
  <2> USE <1>32 DEF DeleteNote
  <2>1. CASE pc[r] = "idle"
    <3>1. /\ Op(r) = "deleteNote" /\ Reads(r, On(r), rows[On(r)]) /\ UNCHANGED recordVars
          /\ Goto(r, IF Live(On(r)) THEN "remove_note" ELSE "ok")
      BY <2>1 DEF Began
    <3>2. Own(r) /\ Fits(Op(r), pc'[r]) /\ Touches(r)
      BY <2>1, <3>1, Goes, HasRead, KeepsHeld, KeepsRows DEF recordVars, Fits, Own
    <3>3. CASE Live(On(r))
      <4>1. Find(r, "remove_note")
        BY <3>1, <3>3 DEF Find
      <4>2. QED
        BY <3>1, <3>2, <4>1, FoundNamed DEF Strides
    <3>4. CASE ~Live(On(r))
      <4>1. On(r) \in Requests => Reaches(Op(r), Op(On(r)))
        BY CallsTyped, ServicesAssumption DEF OnTheWay, Reaches
      <4>2. target'[r] = On(r) /\ todo'[r] = todo[r] /\ pc'[r] = "ok"
        BY <3>1, <3>4, Goes, HasRead
      <4>3. Grips(r)'
        BY <4>1, <4>2, GripTaken DEF Finders
      <4>4. QED
        BY <3>2, <4>3 DEF Strides
    <3>5. QED
      BY <3>3, <3>4
  <2>2. CASE pc[r] = "remove_note"
    BY <2>2, SavedFound DEF Began, Fits, AbandonedOps, Finders, Strides
  <2>3. QED
    BY <2>1, <2>2 DEF Began
<1>33. CASE Report(r)
  BY <1>33, Goes, HasSeen, KeepsHeld, KeepsRows, GripKept DEF Report, Began, recordVars,
     Own, Fits, Finders, Strides
<1>34. CASE AnswerLearner(r)
  BY <1>34, Goes, HasSeen, KeepsHeld, KeepsRows, GripKept DEF AnswerLearner, Answer,
     Began, recordVars, Own, Fits, LearningAnswers, Finders, Strides
<1>35. QED
  BY <1>1, <1>2, <1>3, <1>4, <1>5, <1>6, <1>7, <1>8, <1>9, <1>10, <1>11, <1>12, <1>13,
       <1>14, <1>15, <1>16, <1>17, <1>18, <1>19, <1>20, <1>21, <1>22, <1>23, <1>24, <1>25,
       <1>26, <1>27, <1>28, <1>29, <1>30, <1>31, <1>32, <1>33, <1>34 DEF LearningStep,
       CourseStep, PlayerStep, CredentialStep, AssessmentStep
--------------------
\* ... modules, ...
LEMMA RegistryStrides ==
  ASSUME OnTheWay, UNCHANGED call, NEW r \in Requests, RegistryStep(r)
  PROVE  Strides(r)
<1>0. LocalsTyped /\ Fits(Op(r), pc[r]) /\ Grips(r)
  BY DEF OnTheWay
<1> USE <1>0
<1>1. CASE createModule(r)
  BY <1>1, Goes, Stays, KeepsHeld, HasPutOwn, GripKept DEF createModule, Insert, Began,
     Own, Fits, Finders, Strides
<1>2. CASE FindModules(r)
  BY <1>2, Goes, Stays, HasHeld, KeepsRows, GripKept DEF FindModules, Began, Own, Fits,
     Finders, Strides
<1>3. CASE FindInstalled(r)
  BY <1>3, Goes, Stays, KeepsHeld, KeepsRows, GripKept DEF FindInstalled, recordVars, Own,
     Fits, Finders, Strides
<1>4. CASE InsertRegistry(r)
  BY <1>4, Goes, Stays, KeepsHeld, HasPutOwn, GripKept DEF InsertRegistry, Own, Fits,
     Finders, Strides
<1>5. CASE FindRegistry(r)
  BY <1>5, FoundNamed DEF FindRegistry, Began, Fits, Own, Finders, Strides
<1>6. CASE FindDependents(r)
  BY <1>6, Goes, Stays, HasHeld, KeepsRows, GripKept DEF FindDependents, Own, Fits,
     Finders, Strides
<1>7. CASE FindActive(r)
  BY <1>7, Goes, Stays, KeepsHeld, KeepsRows, GripKept DEF FindActive, recordVars, Own,
     Fits, Finders, Strides
<1>8. CASE SaveRegistry(r)
  BY <1>8, SavedFound DEF SaveRegistry, Fits, Own, Finders, AbandonedOps, Updates,
     Singles, Statuses, Strides
<1>9. CASE AnswerRegistry(r)
  BY <1>9, Goes, HasSeen, KeepsHeld, KeepsRows, GripKept DEF AnswerRegistry, Answer,
     Began, recordVars, Own, Fits, RegistryAnswers, Finders, Strides
<1>10. QED
  BY <1>1, <1>2, <1>3, <1>4, <1>5, <1>6, <1>7, <1>8, <1>9 DEF RegistryStep
--------------------
\* ... marketing, ...
LEMMA MarketingStrides ==
  ASSUME OnTheWay, UNCHANGED call, NEW r \in Requests, MarketingStep(r)
  PROVE  Strides(r)
<1>0. LocalsTyped /\ Fits(Op(r), pc[r]) /\ Grips(r)
  BY DEF OnTheWay
<1> USE <1>0
<1>1. CASE createBundle(r)
  BY <1>1, Goes, Stays, KeepsHeld, HasPutOwn, KeepsRows, GripKept DEF createBundle, Began,
     recordVars, Own, Fits, Finders, Strides
<1>2. CASE changeBundle(r)
  BY <1>2, FoundNamed, SavedFound DEF changeBundle, Fits, Own, Finders, AbandonedOps,
     Updates, Singles, Statuses, Strides
<1>3. CASE Insert(r, "createProgram", [active |-> TRUE])
  BY <1>3, Goes, Stays, KeepsHeld, HasPutOwn, GripKept DEF Insert, Began, Own, Fits,
     Finders, Strides
<1>4. CASE createLink(r)
  BY <1>4, Goes, Stays, KeepsHeld, HasPutOwn, GripKept DEF createLink, Insert, Began, Own,
     Fits, Finders, Strides
<1>5. CASE findLinkByCode(r)
  BY <1>5, Goes, HasSeen, Stays, KeepsHeld, KeepsRows, GripKept DEF findLinkByCode, Began,
     recordVars, Logs, Own, Fits, Finders, Strides
<1>6. CASE logConversion(r)
  BY <1>6, Goes, Stays, KeepsHeld, KeepsRows, GripKept DEF logConversion, Began,
     recordVars, Logs, Own, Fits, Finders, Strides
<1>7. CASE Insert(r, "createTier", [tier |-> Key(r)])
  BY <1>7, Goes, Stays, KeepsHeld, HasPutOwn, GripKept DEF Insert, Began, Own, Fits,
     Finders, Strides
<1>8. CASE addPoints(r)
  BY <1>8, Goes, Stays, KeepsHeld, HasPutOwn, GripKept DEF addPoints, Began, Own, Fits,
     Finders, Strides
<1>9. CASE TrackCarts(r)
  BY <1>9, Goes, HasSeen, KeepsHeld, KeepsRows, GripKept DEF TrackCarts, Began,
     recordVars, Own, Fits, Finders, Strides
<1>10. ASSUME NEW u \in People, TrackFind(r, u)
      PROVE  Strides(r)
  <2> USE <1>10 DEF TrackFind
  <2>1. Own(r)
    BY Goes, KeepsHeld DEF recordVars, Own, Bears, LocalsTyped
  <2>2. Fits(Op(r), pc'[r])
    BY Goes DEF recordVars, Fits
  <2>3. Touches(r)
    BY KeepsRows DEF recordVars
  <2>4. Grips(r)'
    BY GripFree, Goes DEF Fits, AbandonedOps, Finders
  <2>5. QED
    BY <2>1, <2>2, <2>3, <2>4 DEF Strides
<1>11. CASE TrackInsert(r)
  BY <1>11, Goes, Stays, KeepsHeld, KeepsRows, GripKept DEF TrackInsert, recordVars, Own,
     Fits, Finders, Strides
<1>12. CASE TrackEnd(r)
  BY <1>12, Goes, Stays, KeepsHeld, KeepsRows, GripKept DEF TrackEnd, recordVars, Own,
     Fits, Finders, Strides
<1>13. CASE markRecovered(r)
  <2> USE <1>13 DEF markRecovered
  <2>1. Own(r)
    <3>1. Bears(r)
      BY DEF Bears, LocalsTyped, locals
    <3>2. QED
      BY <3>1, Goes, KeepsHeld DEF Began, recordVars, Own
  <2>2. Fits(Op(r), pc'[r])
    BY Goes DEF Began, recordVars, Fits
  <2>3. Touches(r)
    BY KeepsRows DEF Began, recordVars
  <2>4. Grips(r)'
    BY GripFree, Goes DEF Began, Fits, AbandonedOps, Finders
  <2>5. QED
    BY <2>1, <2>2, <2>3, <2>4 DEF Strides
<1>14. CASE AnswerMarketing(r)
  BY <1>14, Goes, HasSeen, KeepsHeld, KeepsRows, GripKept DEF AnswerMarketing, Answer,
     Began, recordVars, Own, Fits, MarketingAnswers, Finders, Strides
<1>15. QED
  BY <1>1, <1>2, <1>3, <1>4, <1>5, <1>6, <1>7, <1>8, <1>9, <1>10, <1>11, <1>12, <1>13,
       <1>14 DEF MarketingStep, BundleStep, AffiliateStep, LoyaltyStep, AbandonedStep
--------------------
\* ... and the back office.
LEMMA BackofficeStrides ==
  ASSUME OnTheWay, UNCHANGED call, NEW r \in Requests, BackofficeStep(r)
  PROVE  Strides(r)
<1>0. LocalsTyped /\ Fits(Op(r), pc[r]) /\ Grips(r)
  BY DEF OnTheWay
<1> USE <1>0
<1>1. CASE InsertSlip(r)
  BY <1>1, Goes, Stays, KeepsHeld, HasPutOwn, GripKept DEF InsertSlip, Insert, Began,
     Singles, Slips, OfProducts, Numbered, Own, Fits, Finders, Strides
<1>2. CASE ChangeSlip(r)
  BY <1>2, FoundNamed, SavedFound DEF ChangeSlip, Statuses, Fits, Own, Finders,
     AbandonedOps, Updates, Singles, Strides
<1>3. CASE UpdateSlip(r)
  <2> USE <1>3 DEF UpdateSlip
  <2>1. Own(r)
    BY Goes, Stays, KeepsHeld DEF UpdatedTo, Own
  <2>2. Fits(Op(r), pc'[r])
    BY Goes DEF UpdatedTo, Fits
  <2>3. Touches(r)
    <3>1. CASE Live(On(r))
      <4>1. On(r) # NONE => Reaches(Op(r), Op(On(r)))
        BY CallsTyped DEF OnTheWay, Reaches
      <4> DEFINE row == [rows[On(r)] EXCEPT !.status = UpdatedTo[Op(r)]]
      <4>2. Put(On(r), row)
        BY <3>1
      <4> HIDE DEF row
      <4>3. QED
        BY <3>1, <4>1, <4>2, HasPut DEF Live
    <3>2. QED
      BY <3>1, KeepsRows
  <2>4. Grips(r)'
    BY GripKept, Goes, Stays DEF UpdatedTo, Finders
  <2>5. QED
    BY <2>1, <2>2, <2>3, <2>4 DEF Strides
<1>4. CASE updateHeartbeat(r)
  BY <1>4, FoundNamed, SavedFound DEF updateHeartbeat, Began, Fits, Own, Finders,
     AbandonedOps, Updates, Singles, Statuses, Strides
<1>5. CASE UseZone(r)
  BY <1>5, FoundNamed, Goes, Stays, HasHeld, KeepsHeld, HasPutOwn, KeepsRows,
     GripKept DEF UseZone, Fits, Own, Finders, Strides
<1>6. CASE saveSingle(r)
  <2>1. CASE pc[r] = "save_single"
    BY <1>6, <2>1, SavedFound DEF saveSingle, Fits, AbandonedOps, Singles, Finders, Strides
  <2>2. CASE pc[r] = "idle"
    <3>1. PICK x, row : /\ Reads(r, x, row) /\ Goto(r, "save_single") /\ UNCHANGED recordVars
                        /\ x = r \/ x \in ToReplace(r)
      BY <1>6, <2>2 DEF saveSingle
    <3>2. Op(r) \in Singles
      BY <1>6, <2>2 DEF saveSingle
    <3>3. Own(r) /\ Fits(Op(r), pc'[r]) /\ Touches(r)
      BY <2>2, <3>1, <3>2, Goes, HasRead, KeepsHeld, KeepsRows DEF recordVars, Fits, Own
    <3>4. Op(x) = Op(r)
      BY <3>1 DEF ToReplace, Table
    <3>5. Grips(r)'
      BY <3>1, <3>4, GripTaken, Goes, HasRead DEF Reaches, Finders
    <3>6. QED
      BY <3>3, <3>5 DEF Strides
  <2>3. QED
    BY <1>6, <2>1, <2>2 DEF saveSingle
<1>7. CASE saveRule(r)
  <2> USE <1>7 DEF saveRule
  <2>1. Own(r)
    BY Goes, Stays, KeepsHeld DEF Began, Own
  <2>2. Fits(Op(r), pc'[r])
    BY Goes DEF Began, Fits
  <2>3. Touches(r)
    <3> DEFINE x == IF On(r) = NONE THEN r ELSE On(r)
    <3>1. Reaches(Op(r), Op(x))
      BY CallsTyped DEF OnTheWay, Reaches
    <3>2. Put(x, Slip(r))
      OBVIOUS
    <3> HIDE DEF x
    <3>3. QED
      BY <3>1, <3>2, HasPut
  <2>4. Grips(r)'
    BY GripKept, Goes, Stays DEF Began, Finders
  <2>5. QED
    BY <2>1, <2>2, <2>3, <2>4 DEF Strides
<1>8. CASE calculateTax(r)
  BY <1>8, Goes, Waits, Stays, HasHeld, KeepsHeld, KeepsRows, GripKept DEF calculateTax,
     Began, recordVars, Own, Fits, Finders, Strides
<1>9. CASE convert(r)
  BY <1>9, Goes, Stays, HasHeld, KeepsHeld, KeepsRows, GripKept DEF convert, Began,
     recordVars, Own, Fits, Finders, Strides
<1>10. CASE createTicket(r)
  BY <1>10, Goes, Stays, KeepsHeld, HasPutOwn, KeepsRows, GripKept DEF createTicket,
     Began, recordVars, Own, Fits, Finders, Strides
<1>11. CASE FindDialog(r)
  BY <1>11, Goes, Stays, HasHeld, KeepsRows, GripKept DEF FindDialog, Began, Own, Fits,
     Finders, Strides
<1>12. CASE SaveDialog(r)
  BY <1>12, Goes, Marks, KeepsHeld, KeepsRows, GripKept DEF SaveDialog, recordVars,
     SavesAs, Own, Fits, Finders, Strides
<1>13. CASE FindProduct(r)
  BY <1>13, Goes, Stays, KeepsHeld, KeepsRows, GripKept DEF FindProduct, Began,
     recordVars, Own, Fits, Finders, Strides
<1>14. CASE FindWishes(r)
  BY <1>14, Goes, Stays, HasHeld, KeepsRows, GripKept DEF FindWishes, Began, NextWish,
     Own, Fits, WishOps, Finders, Strides
<1>15. CASE CreateWishes(r)
  BY <1>15, Goes, Stays, HasHeld, KeepsRows, GripKept DEF CreateWishes, NextWish, Own,
     Fits, WishOps, Finders, Strides
<1>16. CASE SaveWishes(r)
  BY <1>16, Goes, Marks, KeepsHeld, KeepsRows, GripKept DEF SaveWishes, recordVars, Own,
     Fits, Finders, Strides
<1>17. CASE AnswerBackoffice(r)
  BY <1>17, Goes, HasSeen, KeepsHeld, KeepsRows, GripKept DEF AnswerBackoffice, Answer,
     Began, recordVars, Own, Fits, BackofficeAnswers, Finders, Strides
<1>18. QED
  BY <1>1, <1>2, <1>3, <1>4, <1>5, <1>6, <1>7, <1>8, <1>9, <1>10, <1>11, <1>12, <1>13,
       <1>14, <1>15, <1>16, <1>17 DEF BackofficeStep, SlipStep, FinanceStep, DocumentStep
--------------------
\* Whose step it is, by the operation
LEMMA ContentFamily ==
  ASSUME OnTheWay, NEW r \in Requests, ContentStep(r)
  PROVE  Op(r) \in ContentCalls
<1> USE DEF ContentCalls, ArticleOps, ProductOps, AdvancedOps, JobOps, Creates, ArticleCreates,
     Updates, Deletes
<1>0. Fits(Op(r), pc[r])
  BY DEF OnTheWay
<1> USE <1>0
<1>1. CASE CreateFind(r) \/ CreateInsert(r) \/ CreateDetail(r)
  BY <1>1 DEF CreateFind, CreateInsert, CreateDetail, Fits
<1>2. CASE DetailRejected(r) \/ UndoCreate(r) \/ UpdateFind(r)
  BY <1>2 DEF DetailRejected, UndoCreate, UpdateFind, Fits
<1>3. CASE FindDetail(r) \/ createRevision(r) \/ SaveContent(r)
  BY <1>3 DEF FindDetail, createRevision, SaveContent, Fits
<1>4. CASE SaveRedirect(r) \/ RefindDetail(r) \/ SaveDetail(r)
  BY <1>4 DEF SaveRedirect, RefindDetail, SaveDetail, Fits
<1>5. CASE DeleteFind(r) \/ DeleteRow(r) \/ DeleteDetail(r)
  BY <1>5 DEF DeleteFind, DeleteRow, DeleteDetail, Fits
<1>6. CASE DeleteRevisions(r) \/ DeleteRedirects(r) \/ DeleteShortlinks(r)
  BY <1>6 DEF DeleteRevisions, DeleteRedirects, DeleteShortlinks, Fits
<1>7. CASE PublishFind(r) \/ PublishEnd(r) \/ cleanupOldRevisions(r)
  BY <1>7 DEF PublishFind, Began, PublishEnd, cleanupOldRevisions, Fits
<1>8. CASE (\E x \in Requests : Publish(r, x)) \/ GetContent(r) \/ GetDetail(r)
  BY <1>8 DEF Publish, GetContent, GetDetail, Fits
<1>9. CASE ListContent(r) \/ SearchRows(r) \/ SearchDetails(r)
  BY <1>9 DEF ListContent, Answer, SearchRows, Began, SearchDetails, Fits
<1>10. CASE SearchBoth(r) \/ logSearch(r) \/ createShortlink(r)
  BY <1>10 DEF SearchBoth, logSearch, createShortlink, Insert, Began, Fits
<1>11. CASE resolveShortlink(r)
  BY <1>11 DEF resolveShortlink, Began, Fits
<1>12. QED
  BY <1>1, <1>2, <1>3, <1>4, <1>5, <1>6, <1>7, <1>8, <1>9, <1>10, <1>11 DEF ContentStep,
       CreateStep, UpdateStep, DeleteStep, JobStep, ReadStep

LEMMA CacheFamily ==
  ASSUME OnTheWay, NEW r \in Requests, CacheStep(r)
  PROVE  Op(r) \in CacheCalls
<1> USE DEF CacheCalls, CouponOps, PromotionOps, MenuOps, FeedOps, CacheReads
<1>0. Fits(Op(r), pc[r])
  BY DEF OnTheWay
<1>1. CASE CacheGet(r) \/ CacheQuery(r) \/ CacheSet(r)
  BY <1>0, <1>1 DEF CacheGet, CacheQuery, CacheSet, Fits
<1>2. CASE LogCoupon(r) \/ createCoupon(r) \/ CouponFind(r)
  BY <1>0, <1>2 DEF LogCoupon, createCoupon, Began, CouponFind, Fits
<1>3. CASE SaveCoupon(r) \/ createPromotion(r) \/ PromotionFind(r)
  BY <1>0, <1>3 DEF SaveCoupon, createPromotion, Began, PromotionFind, Fits
<1>4. CASE SavePromotion(r) \/ MenuFind(r) \/ SaveMenu(r)
  BY <1>0, <1>4 DEF SavePromotion, MenuFind, Began, SaveMenu, Fits
<1>5. CASE CacheDel(r) \/ CacheListStep(r)
  BY <1>0, <1>5 DEF CacheDel, CacheListStep, Answer, Began, Fits
<1>6. QED
  BY <1>1, <1>2, <1>3, <1>4, <1>5 DEF CacheStep, CacheReadStep, CouponStep, PromotionStep,
       MenuStep

LEMMA LearningFamily ==
  ASSUME OnTheWay, NEW r \in Requests, LearningStep(r)
  PROVE  Op(r) \in LearningCalls
<1> USE DEF LearningCalls, CourseOps, CurriculumOps, PlayerOps, AssessmentOps, CredentialOps,
     ForumOps, ReviewOps, OperationOps, AdvancedLearningOps, ReportingOps
<1>0. Fits(Op(r), pc[r])
  BY DEF OnTheWay
<1> USE <1>0
<1>1. CASE createCourse(r) \/ updateThumbnail(r) \/ deleteCourse(r)
  BY <1>1 DEF createCourse, Began, updateThumbnail, deleteCourse, Fits
<1>2. CASE addChapter(r) \/ addLesson(r) \/ Reorder(r)
  BY <1>2 DEF addChapter, Insert, addLesson, Reorder, Began, Fits
<1>3. CASE FindLesson(r) \/ FindEnrollment(r) \/ FindCourse(r)
  BY <1>3 DEF FindLesson, Began, FindEnrollment, FindCourse, Fits
<1>4. CASE FindPrevious(r) \/ CheckPrevious(r) \/ FindProgress(r)
  BY <1>4 DEF FindPrevious, CheckPrevious, FindProgress, Began, Fits
<1>5. CASE FindPoints(r) \/ awardXP(r) \/ AwardFails(r)
  BY <1>5 DEF FindPoints, awardXP, AwardFails, Fits
<1>6. CASE SaveProgress(r) \/ FindCertificate(r) \/ CountLessons(r)
  BY <1>6 DEF SaveProgress, FindCertificate, Began, CountLessons, Fits
<1>7. CASE CountCompleted(r) \/ InsertCertificate(r) \/ createReview(r)
  BY <1>7 DEF CountCompleted, InsertCertificate, createReview, Fits
<1>8. CASE FindAssessment(r) \/ CountAttempts(r) \/ InsertAttempt(r)
  BY <1>8 DEF FindAssessment, Began, CountAttempts, InsertAttempt, Fits
<1>9. CASE FindAttempt(r) \/ FindQuestions(r) \/ InsertSubmission(r)
  BY <1>9 DEF FindAttempt, Began, FindQuestions, InsertSubmission, Fits
<1>10. CASE SaveAttempt(r) \/ uploadAssignment(r) \/ updateEnrollmentStatus(r)
  BY <1>10 DEF SaveAttempt, uploadAssignment, Began, updateEnrollmentStatus, Fits
<1>11. CASE AddRemark(r) \/ DeleteNote(r) \/ Report(r)
  BY <1>11 DEF AddRemark, Insert, Began, DeleteNote, Report, Fits
<1>12. CASE AnswerLearner(r)
  BY <1>12 DEF AnswerLearner, Answer, LearningAnswers, Began, Fits
<1>13. QED
  BY <1>1, <1>2, <1>3, <1>4, <1>5, <1>6, <1>7, <1>8, <1>9, <1>10, <1>11, <1>12 DEF
       LearningStep, CourseStep, PlayerStep, CredentialStep, AssessmentStep

LEMMA RegistryFamily ==
  ASSUME OnTheWay, NEW r \in Requests, RegistryStep(r)
  PROVE  Op(r) \in RegistryOps
<1> USE DEF RegistryOps
<1>0. Fits(Op(r), pc[r])
  BY DEF OnTheWay
<1>1. CASE createModule(r) \/ FindModules(r) \/ FindInstalled(r)
  BY <1>0, <1>1 DEF createModule, Insert, FindModules, Began, FindInstalled, Fits
<1>2. CASE InsertRegistry(r) \/ FindRegistry(r) \/ FindDependents(r)
  BY <1>0, <1>2 DEF InsertRegistry, FindRegistry, Began, FindDependents, Fits
<1>3. CASE FindActive(r) \/ SaveRegistry(r) \/ AnswerRegistry(r)
  BY <1>0, <1>3 DEF FindActive, SaveRegistry, AnswerRegistry, Answer, RegistryAnswers,
       Began, Fits
<1>4. QED
  BY <1>1, <1>2, <1>3 DEF RegistryStep

LEMMA MarketingFamily ==
  ASSUME OnTheWay, NEW r \in Requests, MarketingStep(r)
  PROVE  Op(r) \in MarketingCalls
<1> USE DEF MarketingCalls, BundleOps, AffiliateOps, LoyaltyOps, AbandonedOps
<1>0. Fits(Op(r), pc[r])
  BY DEF OnTheWay
<1>1. CASE createBundle(r) \/ changeBundle(r) \/ Insert(r, "createProgram", [active |-> TRUE])
  BY <1>0, <1>1 DEF createBundle, Began, changeBundle, Insert, Fits
<1>2. CASE createLink(r) \/ findLinkByCode(r) \/ logConversion(r)
  BY <1>0, <1>2 DEF createLink, Insert, findLinkByCode, Began, Logs, logConversion, Fits
<1>3. CASE Insert(r, "createTier", [tier |-> Key(r)]) \/ addPoints(r) \/ TrackCarts(r)
  BY <1>0, <1>3 DEF Insert, addPoints, Began, TrackCarts, Fits
<1>4. CASE (\E u \in People : TrackFind(r, u)) \/ TrackInsert(r) \/ TrackEnd(r)
  BY <1>0, <1>4 DEF TrackFind, TrackInsert, TrackEnd, Fits
<1>5. CASE markRecovered(r) \/ AnswerMarketing(r)
  BY <1>0, <1>5 DEF markRecovered, Began, AnswerMarketing, Answer, MarketingAnswers, Fits
<1>6. QED
  BY <1>1, <1>2, <1>3, <1>4, <1>5 DEF MarketingStep, BundleStep, AffiliateStep,
       LoyaltyStep, AbandonedStep

LEMMA BackofficeFamily ==
  ASSUME OnTheWay, NEW r \in Requests, BackofficeStep(r)
  PROVE  Op(r) \in BackofficeCalls
<1> USE DEF BackofficeCalls, Slips, Statuses, UpdatedTo, Singles, WishOps
<1>0. Fits(Op(r), pc[r])
  BY DEF OnTheWay
<1>1. CASE InsertSlip(r) \/ ChangeSlip(r) \/ UpdateSlip(r)
  BY <1>0, <1>1 DEF InsertSlip, Insert, ChangeSlip, UpdateSlip, Began, Fits
<1>2. CASE updateHeartbeat(r) \/ UseZone(r) \/ saveSingle(r)
  BY <1>0, <1>2 DEF updateHeartbeat, Began, UseZone, saveSingle, Fits
<1>3. CASE saveRule(r) \/ calculateTax(r) \/ convert(r)
  BY <1>0, <1>3 DEF saveRule, Began, calculateTax, convert, Fits
<1>4. CASE createTicket(r) \/ FindDialog(r) \/ SaveDialog(r)
  BY <1>0, <1>4 DEF createTicket, Began, FindDialog, SaveDialog, SavesAs, Fits
<1>5. CASE FindProduct(r) \/ FindWishes(r) \/ CreateWishes(r)
  BY <1>0, <1>5 DEF FindProduct, Began, FindWishes, CreateWishes, Fits
<1>6. CASE SaveWishes(r) \/ AnswerBackoffice(r)
  BY <1>0, <1>6 DEF SaveWishes, AnswerBackoffice, Answer, BackofficeAnswers, Began, Fits
<1>7. QED
  BY <1>1, <1>2, <1>3, <1>4, <1>5, <1>6 DEF BackofficeStep, SlipStep, FinanceStep,
       DocumentStep
--------------------
\* A call fails where it stands.
LEMMA FailsStrides ==
  ASSUME OnTheWay, UNCHANGED call, NEW r \in Requests, Fails(r), UNCHANGED recordVars
  PROVE  Strides(r)
<1>0. LocalsTyped
  BY DEF OnTheWay
<1>1. Own(r) /\ pc'[r] = "failed" /\ target'[r] = target[r] /\ todo'[r] = todo[r]
  BY <1>0, Goes, Stays, KeepsHeld DEF Fails, recordVars, Own
<1>2. Touches(r)
  BY <1>0, KeepsRows DEF recordVars
<1>3. Fits(Op(r), pc'[r])
  BY <1>1 DEF Fits
<1>4. Grips(r)'
  BY <1>1, GripKept DEF Finders
<1>5. QED
  BY <1>1, <1>2, <1>3, <1>4 DEF Strides

LEMMA StepStrides ==
  ASSUME OnTheWay, UNCHANGED call, NEW r \in Requests, Step(r)
  PROVE  Strides(r)
BY ContentStrides, CacheStrides, LearningStrides, RegistryStrides, MarketingStrides,
   BackofficeStrides, FailsStrides DEF Step

\* Where the other calls stand is theirs.
LEMMA Strode ==
  ASSUME OnTheWay, UNCHANGED call, NEW r \in Requests, Strides(r)
  PROVE  OnTheWay'
<1>1. LocalsTyped /\ call \in Plans /\ \A q \in Requests : Fits(Op(q), pc[q]) /\ Grips(q)
  BY DEF OnTheWay
<1>2. LocalsTyped'
  BY <1>1 DEF LocalsTyped, Strides, Own, Paces, Bears, Holds, Touches
<1>3. \A q \in Requests : Op(q)' = Op(q) /\ On(q)' = On(q)
  BY SameCalls
<1>4. ASSUME NEW q \in Requests, q # r
      PROVE  (Fits(Op(q), pc[q]) /\ Grips(q))'
  <2>1. pc'[q] = pc[q] /\ target'[q] = target[q] /\ todo'[q] = todo[q] /\ held'[q] = held[q]
    BY <1>4 DEF Strides, Own, Paces, Bears, Holds
  <2>2. Grips(q)'
    BY <1>1, <1>3, <2>1 DEF Grips
  <2>3. QED
    BY <1>1, <1>3, <2>1, <2>2
<1>5. (Fits(Op(r), pc[r]) /\ Grips(r))'
  BY <1>3 DEF Strides
<1>6. QED
  BY <1>1, <1>2, <1>4, <1>5 DEF OnTheWay

LEMMA Rests ==
  ASSUME OnTheWay, UNCHANGED <<callVars, rows, held>>
  PROVE  OnTheWay'
BY DEF OnTheWay, callVars, locals, LocalsTyped, Grips, Fits, Op, On

\* A step of the system is one of a call, or leaves the calls where they are.
LEMMA Moves ==
  ASSUME [Next]_vars
  PROVE  \/ \E r \in Requests : ~Ended(r) /\ Step(r) /\ UNCHANGED call
         \/ UNCHANGED <<callVars, rows, held, contentVars, points, marketingVars, backofficeVars>>
BY DEF Next, vars, recordVars, CacheExpires

LEMMA InitOnTheWay == Init => OnTheWay
<1> SUFFICES ASSUME Init PROVE OnTheWay
  OBVIOUS
<1> USE DEF Init, CallsInit
<1>1. LocalsTyped
  BY DEF LocalsTyped
<1>2. ASSUME NEW r \in Requests PROVE Fits(Op(r), pc[r]) /\ Grips(r)
  <2>1. pc[r] \in {"ok", "idle"} /\ target[r] = NONE /\ todo[r] = {}
    OBVIOUS
  <2>2. QED
    BY <2>1, ServicesAssumption DEF Fits, Grips, Finders
<1>3. QED
  BY <1>1, <1>2 DEF OnTheWay
LEMMA NextOnTheWay == OnTheWay /\ [Next]_vars => OnTheWay'
BY Moves, StepStrides, Strode, Rests
--------------------
\* What ended ended before
LEMMA InitTimely == Init => Timely
BY DEF Init, CallsInit, Timely, Made
LEMMA StepTimely ==
  ASSUME OnTheWay, Timely, UNCHANGED call, NEW r \in Requests, ~Ended(r), Strides(r)
  PROVE  Timely'
<1>1. \A q \in Requests : Made(q)' = Made(q)
  BY SameCalls
<1>2. \A q \in Requests : pc[q] = "ok" => pc'[q] = "ok"
  BY DEF Strides, Own, Paces, Ended
<1>3. \A q \in Requests : Made(q) => pc'[q] = "ok"
  BY <1>2 DEF Timely
<1>4. ASSUME NEW q \in Requests PROVE before'[q] \subseteq {s \in Requests : pc'[s] = "ok"}
  BY <1>2, <1>4 DEF Strides, Own, Paces, Timely
<1>5. QED
  BY <1>1, <1>3, <1>4 DEF Timely
LEMMA NextTimely == OnTheWay /\ Timely /\ [Next]_vars => Timely'
<1> SUFFICES ASSUME OnTheWay, Timely, [Next]_vars PROVE Timely'
  OBVIOUS
<1>1. CASE UNCHANGED callVars
  BY <1>1 DEF Timely, callVars, Made
<1>2. QED
  BY <1>1, Moves, StepStrides, StepTimely

\* Calls that have overlapped have done so for good.
LEMMA StaysBegun ==
  ASSUME OnTheWay, UNCHANGED call, NEW r \in Requests, Strides(r), NEW q \in Requests, Begun(q)
  PROVE  Begun(q)' /\ before'[q] = before[q]
BY SameCalls DEF Begun, Strides, Own, Paces
LEMMA StaysTogether ==
  ASSUME OnTheWay, UNCHANGED call, NEW r \in Requests, Strides(r),
         NEW q \in Requests, NEW s \in Requests, Together(q, s)
  PROVE  Together(q, s)'
BY StaysBegun DEF Together, Overlap
LEMMA StaysOverlapped ==
  ASSUME OnTheWay, UNCHANGED call, NEW r \in Requests, Strides(r), NEW op, Overlapped(op)
  PROVE  Overlapped(op)'
<1>1. PICK q \in Requests, s \in Requests : Op(q) = op /\ Op(s) = op /\ Together(q, s)
  BY DEF Overlapped
<1>2. Together(q, s)'
  BY <1>1, StaysTogether
<1>3. Op(q)' = op /\ Op(s)' = op
  BY <1>1, SameCalls
<1>4. QED
  BY <1>2, <1>3 DEF Overlapped
\* Two calls that are under way have overlapped.
LEMMA UnderWay ==
  ASSUME Timely, NEW r \in Requests, NEW s \in Requests, r # s,
         pc[r] \notin {"idle", "ok"}, pc[s] \notin {"idle", "ok"}
  PROVE  Together(r, s)
BY DEF Timely, Together, Begun, Overlap
--------------------
\* The operations that keep one row of a key are those of saveSingle.
LEMMA SinglesSaved ==
  ASSUME OnTheWay, NEW r \in Requests, Step(r), Op(r) \in Singles
  PROVE  saveSingle(r) \/ (Fails(r) /\ UNCHANGED rows)
<1>1. Op(r) \notin ContentCalls \cup CacheCalls
  BY DEF Singles, ContentCalls, CacheCalls, ArticleOps, ProductOps, AdvancedOps, JobOps,
     CouponOps, PromotionOps, MenuOps, FeedOps
<1>2. Op(r) \notin LearningCalls
  BY DEF Singles, LearningCalls, CourseOps, CurriculumOps, PlayerOps, AssessmentOps,
     CredentialOps, ForumOps, ReviewOps, OperationOps, AdvancedLearningOps, ReportingOps
<1>3. Op(r) \notin RegistryOps \cup MarketingCalls
  BY DEF Singles, RegistryOps, MarketingCalls, BundleOps, AffiliateOps, LoyaltyOps,
     AbandonedOps
<1>4. BackofficeStep(r) \/ (Fails(r) /\ UNCHANGED rows)
  BY <1>1, <1>2, <1>3, ContentFamily, CacheFamily, LearningFamily, RegistryFamily,
     MarketingFamily DEF Step, recordVars
<1>5. Fits(Op(r), pc[r])
  BY DEF OnTheWay
<1> USE DEF Singles
<1>6. ~InsertSlip(r) /\ ~ChangeSlip(r) /\ ~UpdateSlip(r) /\ ~updateHeartbeat(r)
  BY <1>5 DEF InsertSlip, ChangeSlip, UpdateSlip, updateHeartbeat, Began, Fits, Statuses,
     UpdatedTo
<1>7. ~UseZone(r) /\ ~saveRule(r) /\ ~calculateTax(r) /\ ~convert(r)
  BY <1>5 DEF UseZone, saveRule, calculateTax, convert, Began, Fits
<1>8. ~createTicket(r) /\ ~FindDialog(r) /\ ~SaveDialog(r)
  BY <1>5 DEF createTicket, FindDialog, SaveDialog, SavesAs, Began, Fits
<1>9. ~FindProduct(r) /\ ~FindWishes(r) /\ ~CreateWishes(r) /\ ~SaveWishes(r)
  BY <1>5 DEF FindProduct, FindWishes, CreateWishes, SaveWishes, Began, Fits, WishOps
<1>10. ~AnswerBackoffice(r)
  BY DEF AnswerBackoffice, BackofficeAnswers
<1>11. QED
  BY <1>4, <1>6, <1>7, <1>8, <1>9, <1>10 DEF BackofficeStep, SlipStep, FinanceStep,
     DocumentStep

LEMMA InitSinglesHeld == Init => SinglesHeld
<1> SUFFICES ASSUME Init PROVE SinglesHeld
  OBVIOUS
<1>1. ASSUME NEW op \in Singles, NEW x \in Table(op), NEW y \in Table(op)
      PROVE  Alone(x, y, op)
  <2>1. /\ x \in Requests /\ Op(x) = op /\ y \in Requests /\ Op(y) = op
        /\ rows[x] # NONE /\ rows[y] # NONE /\ call \in Plans
    BY DEF Table, Init, CallsInit
  <2>2. Made(x) /\ Made(y) /\ rows[x] = Inserted(x) /\ rows[y] = Inserted(y)
    BY <2>1 DEF Init
  <2>3. op \in Slips \ (Creates \cup {"createShortlink", "createCoupon", "createPromotion",
          "createBundle", "saveMenu", "createCourse", "addChapter", "addLesson", "enroll",
          "assess", "updateProgress", "startAttempt", "createModule", "createRegistry"})
    BY DEF Singles, Slips, Creates, ArticleCreates
  <2>4. \A z \in {x, y} : rows[z] = Slip(z)
    BY <2>1, <2>2, <2>3 DEF Inserted
  <2>5. rows[x].key = Key(x) /\ rows[y].key = Key(y)
    BY <2>4 DEF Slip
  <2>6. Key(x) = Key(y) => x = y
    BY <2>1, <2>2, ServicesAssumption DEF Key, Made, Op
  <2>7. QED
    BY <2>5, <2>6 DEF Alone
<1>2. \A r \in Requests : Replacing(r)
  BY DEF Init, CallsInit, Replacing
<1>3. QED
  BY <1>1, <1>2 DEF SinglesHeld

\* The rows of these operations are written by saving them.
LEMMA SinglesLeft ==
  ASSUME OnTheWay, UNCHANGED call, NEW r \in Requests, Strides(r), NEW op \in Singles,
         Op(r) # op, NEW x \in Requests, Op(x) = op
  PROVE  rows'[x] = rows[x]
BY DEF Strides, Touches, Reaches, Names, Singles, Creates, ArticleCreates, OfProducts
LEMMA SinglesAside ==
  ASSUME OnTheWay, UNCHANGED call, NEW r \in Requests, Strides(r), NEW op \in Singles,
         SinglesHeld, \A x \in Requests : Op(x) = op => rows'[x] = rows[x]
  PROVE  /\ Table(op)' = Table(op)
         /\ \A x, y \in Table(op) : Alone(x, y, op)'
         /\ \A q \in Requests \ {r} : Op(q) = op => Replacing(q)'
<1>1. \A q \in Requests : Op(q)' = Op(q) /\ Key(q)' = Key(q)
  BY SameCalls
<1>2. Table(op)' = Table(op)
  BY <1>1 DEF Table
<1>3. \A x \in Table(op) : rows'[x] = rows[x]
  BY DEF Table
<1>4. Overlapped(op) => Overlapped(op)'
  BY StaysOverlapped
<1>5. \A x, y \in Table(op) : Alone(x, y, op)'
  BY <1>3, <1>4 DEF SinglesHeld, Alone
<1>6. ASSUME NEW q \in Requests \ {r}, Op(q) = op PROVE Replacing(q)'
  BY <1>1, <1>2, <1>3, <1>4, <1>6 DEF Strides, Own, Paces, Bears, SinglesHeld, Replacing
<1>7. QED
  BY <1>2, <1>5, <1>6

LEMMA SingleLookedUp ==
  ASSUME OnTheWay, SinglesHeld, UNCHANGED <<call, rows>>, NEW r \in Requests, Strides(r),
         NEW op, Op(r) = op, pc[r] = "idle", saveSingle(r)
  PROVE  Replacing(r)'
<1>0. LocalsTyped
  BY DEF OnTheWay
<1>1. op \in Singles /\ Op(r)' = op /\ Key(r)' = Key(r) /\ Table(op)' = Table(op)
  BY SameCalls DEF saveSingle, Table
<1>2. Overlapped(op) => Overlapped(op)'
  BY StaysOverlapped
<1>3. CASE ToReplace(r) = {}
  BY <1>1, <1>3 DEF Replacing, ToReplace
<1>4. CASE \E x \in ToReplace(r) : Reads(r, x, rows[x])
  <2>1. PICK x \in ToReplace(r) : Reads(r, x, rows[x])
    BY <1>4
  <2>2. target'[r] = x /\ x \in Table(op) /\ rows[x].key = Key(r)
    BY <1>0, <2>1, HasRead DEF ToReplace
  <2>3. \A y \in Table(op) : rows[y].key = Key(r) => y = x \/ Overlapped(op)
    BY <1>1, <2>2 DEF SinglesHeld, Alone
  <2>4. QED
    BY <1>1, <1>2, <2>2, <2>3 DEF Replacing
<1>5. QED
  BY <1>3, <1>4 DEF saveSingle

LEMMA SingleSaved ==
  ASSUME OnTheWay, Timely, SinglesHeld, UNCHANGED call, NEW r \in Requests, Strides(r),
         NEW op \in Singles, Op(r) = op, pc[r] = "save_single", Save(r, Slip(r), "ok")
  PROVE  /\ \A x, y \in Table(op)' : Alone(x, y, op)'
         /\ \A q \in Requests \ {r} : Op(q) = op => Replacing(q)'
<1>0. LocalsTyped /\ Grips(r)
  BY DEF OnTheWay
<1>1. \A q \in Requests : Op(q)' = Op(q) /\ Key(q)' = Key(q)
  BY SameCalls
<1>2. Overlapped(op) => Overlapped(op)'
  BY StaysOverlapped
<1> DEFINE z == target[r]
<1>3. /\ \A x \in Requests \ {z} : rows'[x] = rows[x]
      /\ z \in Requests => rows'[z].key = Key(r)
  BY <1>0 DEF Save, Put, LocalsTyped, Slip
<1>4. ASSUME NEW x \in Table(op)', rows'[x].key = Key(r)
      PROVE  x = z \/ Overlapped(op)'
  BY <1>1, <1>3, <1>2, <1>4 DEF Table, SinglesHeld, Replacing
<1>5. ASSUME NEW x \in Table(op)', NEW y \in Table(op)'
      PROVE  Alone(x, y, op)'
  BY <1>1, <1>3, <1>2, <1>4, <1>5 DEF Table, SinglesHeld, Alone
<1>6. ASSUME NEW q \in Requests \ {r}, Op(q) = op PROVE Replacing(q)'
  <2>1. pc'[q] = pc[q] /\ target'[q] = target[q]
    BY DEF Strides, Own, Paces, Bears
  <2>2. CASE Key(q) = Key(r) /\ pc[q] = "save_single"
    BY <1>6, <2>2, <1>1, <1>2, UnderWay DEF Overlapped, Replacing
  <2>3. CASE Key(q) # Key(r)
    <3>1. ASSUME NEW x \in Table(op)', rows'[x].key = Key(q)
          PROVE  x \in Table(op) /\ rows'[x] = rows[x]
      BY <1>1, <1>3, <2>3, <3>1 DEF Table
    <3>2. Replacing(q)
      BY DEF SinglesHeld
    <3>3. QED
      BY <1>1, <1>2, <1>6, <2>1, <3>1, <3>2 DEF Replacing
  <2>4. QED
    BY <2>1, <2>2, <2>3 DEF Replacing
<1>7. QED
  BY <1>5, <1>6

LEMMA StepSinglesHeld ==
  ASSUME OnTheWay, Timely, SinglesHeld, UNCHANGED call, NEW r \in Requests, Strides(r), Step(r)
  PROVE  SinglesHeld'
<1>0. LocalsTyped
  BY DEF OnTheWay
<1>1. \A q \in Requests : Op(q)' = Op(q)
  BY SameCalls
<1>2. ASSUME NEW op \in Singles
      PROVE  /\ \A x, y \in Table(op)' : Alone(x, y, op)'
             /\ \A q \in Requests \ {r} : Op(q) = op => Replacing(q)'
  BY <1>2, SinglesLeft, SinglesAside, SingleSaved, SinglesSaved DEF saveSingle, recordVars
<1>3. Replacing(r)'
  BY <1>0, <1>1, SingleLookedUp, Goes, SinglesSaved DEF saveSingle, recordVars, Save, Replacing,
     Fails, Strides, Fits
<1>4. \A q \in Requests \ {r} : Replacing(q)'
  <2>1. ASSUME NEW q \in Requests \ {r}, Op(q) \notin Singles PROVE Replacing(q)'
    BY <2>1 DEF OnTheWay, Strides, Own, Paces, Fits, Replacing
  <2>2. QED
    BY <1>2, <2>1
<1>5. QED
  BY <1>2, <1>3, <1>4 DEF SinglesHeld
--------------------
\* Only the calls about abandoned carts write what is noted of them, ...
LEMMA AbandonedLeft ==
  ASSUME OnTheWay, NEW r \in Requests, Step(r)
  PROVE  \/ UNCHANGED abandoned
         \/ TrackInsert(r)
         \/ pc[r] = "save_abandoned" /\ markRecovered(r)
<1>1. CASE MarketingStep(r)
  BY <1>1 DEF BundleStep, AffiliateStep, LoyaltyStep, AnswerMarketing, marketingVars,
     createLink, findLinkByCode, logConversion, Logs, addPoints, TrackCarts, TrackEnd,
     markRecovered, TrackFind, AbandonedStep, MarketingStep
<1>2. CASE ~MarketingStep(r)
  BY <1>2 DEF Step, marketingVars
<1>3. QED
  BY <1>1, <1>2
\* ... and only they look for it.
LEMMA AbandonedSought ==
  ASSUME OnTheWay, NEW r \in Requests, Step(r), Strides(r), pc'[r] = "insert_abandoned"
  PROVE  \E u \in People : TrackFind(r, u)
<1>0. Fits(Op(r), pc[r]) /\ Op(r) = "trackAbandonedCarts" /\ LocalsTyped
  BY DEF Strides, Fits, OnTheWay
<1>1. Op(r) \notin ContentCalls \cup CacheCalls
  BY <1>0 DEF ContentCalls, CacheCalls, ArticleOps, ProductOps, AdvancedOps, JobOps,
     CouponOps, PromotionOps, MenuOps, FeedOps
<1>2. Op(r) \notin LearningCalls
  BY <1>0 DEF LearningCalls, CourseOps, CurriculumOps, PlayerOps, AssessmentOps,
     CredentialOps, ForumOps, ReviewOps, OperationOps, AdvancedLearningOps, ReportingOps
<1>3. Op(r) \notin RegistryOps \cup BackofficeCalls
  BY <1>0 DEF RegistryOps, BackofficeCalls, Slips, Statuses, UpdatedTo, WishOps
<1>4. MarketingStep(r) \/ Fails(r)
  BY <1>1, <1>2, <1>3, ContentFamily, CacheFamily, LearningFamily, RegistryFamily,
     BackofficeFamily DEF Step
<1>5. ~BundleStep(r) /\ ~AffiliateStep(r) /\ ~LoyaltyStep(r) /\ ~AnswerMarketing(r)
  BY <1>0 DEF BundleStep, createBundle, changeBundle, AffiliateStep, LoyaltyStep,
     AnswerMarketing, Answer, createLink, findLinkByCode, logConversion, addPoints,
     Insert, Began, Fits, MarketingAnswers
<1>6. ~TrackCarts(r) /\ ~TrackInsert(r) /\ ~TrackEnd(r) /\ ~markRecovered(r) /\ ~Fails(r)
  BY <1>0, Goes DEF TrackCarts, TrackInsert, TrackEnd, markRecovered, Fails, Began, Fits
<1>7. QED
  BY <1>4, <1>5, <1>6 DEF MarketingStep, AbandonedStep

LEMMA InitAbandonedHeld == Init => AbandonedHeld
<1> SUFFICES ASSUME Init PROVE AbandonedHeld
  OBVIOUS
<1>1. abandoned \in [Requests \X People -> {"PENDING", "RECOVERED", NONE}]
  BY DEF Init, MarketingInit
<1>2. NONE # "PENDING"
  BY ServicesAssumption
<1>3. \A u \in People : Pending(u) = {}
  BY <1>2 DEF Init, MarketingInit, Pending
<1>4. \A r \in Requests : pc[r] # "insert_abandoned"
  BY DEF Init, CallsInit
<1>5. QED
  BY <1>1, <1>3, <1>4 DEF AbandonedHeld

LEMMA StepAbandonedHeld ==
  ASSUME OnTheWay, Timely, AbandonedHeld, UNCHANGED call, NEW r \in Requests, Strides(r), Step(r)
  PROVE  AbandonedHeld'
<1>0. LocalsTyped /\ Fits(Op(r), pc[r])
  BY DEF OnTheWay
<1> DEFINE over == Overlapped("trackAbandonedCarts")
<1>1. over => over'
  BY StaysOverlapped
<1>2. \A q \in Requests \ {r} : pc'[q] = pc[q] /\ target'[q] = target[q]
  BY DEF Strides, Own, Paces, Bears
<1>3. TrackInsert(r) => /\ pc[r] = "insert_abandoned" /\ target[r] \in People
                        /\ abandoned' = [abandoned EXCEPT ![<<r, target[r]>>] = "PENDING"]
                        /\ Tracked(r, target[r])
  BY DEF TrackInsert, AbandonedHeld
<1>4. \A u \in People : Pending(u)' \subseteq
        Pending(u) \cup {x \in {r} : pc[r] = "insert_abandoned" /\ u = target[r]}
  BY <1>3, AbandonedLeft DEF Pending, AbandonedHeld, markRecovered, Began
<1>5. abandoned' \in [Requests \X People -> {"PENDING", "RECOVERED", NONE}]
  BY <1>3, AbandonedLeft DEF AbandonedHeld, markRecovered, Began
<1>6. ASSUME NEW u \in People, NEW x \in Requests, NEW y \in Requests,
             x \in Pending(u)', y \in Pending(u)'
      PROVE  x = y \/ over'
  BY <1>1, <1>4, <1>6 DEF AbandonedHeld, Tracked
<1>7. ASSUME NEW q \in Requests, pc'[q] = "insert_abandoned"
      PROVE  target'[q] \in People /\ Tracked(q, target[q])'
  <2>1. CASE q # r
    <3>1. target'[q] = target[q] /\ target[q] \in People /\ Tracked(q, target[q])
      BY <1>2, <1>7, <2>1 DEF AbandonedHeld
    <3>2. pc[r] = "insert_abandoned" => over
      <4>1. ASSUME pc[r] = "insert_abandoned" PROVE over
        BY <1>2, <1>7, <2>1, <4>1, UnderWay DEF OnTheWay, Fits, Overlapped
      <4>2. QED
        BY <4>1
    <3>3. QED
      BY <1>1, <1>4, <3>1, <3>2 DEF Tracked
  <2>2. CASE q = r
    <3>1. PICK u \in People : TrackFind(r, u)
      BY <1>7, <2>2, AbandonedSought
    <3>2. target'[r] = u /\ Pending(u) = {} /\ UNCHANGED abandoned
      BY <1>0, <1>7, <2>2, <3>1, Goes DEF TrackFind, marketingVars, LocalsTyped
    <3>3. Pending(u)' = {}
      BY <3>2 DEF Pending
    <3>4. QED
      BY <2>2, <3>2, <3>3 DEF Tracked
  <2>3. QED
    BY <2>1, <2>2
<1>8. QED
  BY <1>5, <1>6, <1>7 DEF AbandonedHeld

LEMMA FewPending ==
  ASSUME AbandonedHeld, NEW u \in People, Cardinality(Pending(u)) > 1
  PROVE  Overlapped("trackAbandonedCarts")
<1> SUFFICES ASSUME ~Overlapped("trackAbandonedCarts") PROVE FALSE
  OBVIOUS
<1>1. \A x, y \in Pending(u) : x = y
  BY DEF AbandonedHeld, Pending
<1>2. CASE Pending(u) = {}
  BY <1>2, FS_EmptySet
<1>3. CASE Pending(u) # {}
  <2>1. PICK x \in Pending(u) : TRUE
    BY <1>3
  <2>2. Pending(u) = {x}
    BY <1>1, <2>1
  <2>3. QED
    BY <2>2, FS_Singleton
<1>4. QED
  BY <1>2, <1>3

LEMMA InitSinglesInv == Init => SinglesInv
BY InitOnTheWay, InitTimely, InitSinglesHeld, InitAbandonedHeld DEF SinglesInv
LEMMA NextSinglesInv == SinglesInv /\ [Next]_vars => SinglesInv'
<1> SUFFICES ASSUME SinglesInv, [Next]_vars PROVE SinglesInv'
  OBVIOUS
<1> USE DEF SinglesInv
<1>1. OnTheWay' /\ Timely'
  BY NextOnTheWay, NextTimely
<1>2. CASE \E r \in Requests : ~Ended(r) /\ Step(r) /\ UNCHANGED call
  BY <1>1, <1>2, StepStrides, StepSinglesHeld, StepAbandonedHeld
<1>3. CASE UNCHANGED <<callVars, rows, abandoned>>
  BY <1>3, <1>1 DEF callVars, locals, Overlapped, Together, Begun, Overlap, Op, Made,
     SinglesHeld, Alone, Replacing, Table, Key, AbandonedHeld, Pending, Tracked
<1>4. QED
  BY <1>2, <1>3, Moves DEF marketingVars

\* What is looked for before it is inserted is single, unless calls of the
\* operation that inserts it overlapped.
THEOREM SinglesStaySingle == Spec => []SinglesKept
<1>1. SinglesInv => SinglesKept
  BY FewPending DEF SinglesInv, SinglesHeld, Alone, SinglesKept
<1>2. QED
  BY <1>1, InitSinglesInv, NextSinglesInv, PTL DEF Spec
--------------------
\* Documents
LEMMA DocumentsKept ==
  ASSUME OnTheWay, NEW r \in Requests, Step(r)
  PROVE  \/ /\ Op(r) \in Documents
            /\ \/ createTicket(r) \/ FindDialog(r) \/ SaveDialog(r)
               \/ FindProduct(r) \/ FindWishes(r) \/ CreateWishes(r) \/ SaveWishes(r)
               \/ Fails(r) /\ UNCHANGED <<held, backofficeVars>>
         \/ Op(r) \notin Documents /\ UNCHANGED backofficeVars
<1> USE DEF Documents
<1>0. Fits(Op(r), pc[r])
  BY DEF OnTheWay
<1>1. CASE Op(r) \in Documents
  <2>1. Op(r) \notin ContentCalls \cup CacheCalls
    BY <1>1 DEF ContentCalls, CacheCalls, ArticleOps, ProductOps, AdvancedOps, JobOps,
       CouponOps, PromotionOps, MenuOps, FeedOps
  <2>2. Op(r) \notin LearningCalls
    BY <1>1 DEF LearningCalls, CourseOps, CurriculumOps, PlayerOps, AssessmentOps,
       CredentialOps, ForumOps, ReviewOps, OperationOps, AdvancedLearningOps, ReportingOps
  <2>3. Op(r) \notin RegistryOps \cup MarketingCalls
    BY <1>1 DEF RegistryOps, MarketingCalls, BundleOps, AffiliateOps, LoyaltyOps, AbandonedOps
  <2>4. BackofficeStep(r) \/ (Fails(r) /\ UNCHANGED <<held, backofficeVars>>)
    BY <2>1, <2>2, <2>3, ContentFamily, CacheFamily, LearningFamily, RegistryFamily,
       MarketingFamily DEF Step, recordVars
  <2>5. ~InsertSlip(r) /\ ~ChangeSlip(r) /\ ~UpdateSlip(r) /\ ~updateHeartbeat(r)
    BY <1>0, <1>1 DEF InsertSlip, ChangeSlip, UpdateSlip, updateHeartbeat, Began, Fits,
       Statuses, UpdatedTo, Slips
  <2>6. ~UseZone(r) /\ ~saveSingle(r) /\ ~saveRule(r) /\ ~calculateTax(r) /\ ~convert(r)
    BY <1>0, <1>1 DEF UseZone, saveSingle, Singles, saveRule, calculateTax, convert, Began, Fits
  <2>7. ~AnswerBackoffice(r)
    BY <1>1 DEF AnswerBackoffice, BackofficeAnswers
  <2>8. QED
    BY <1>1, <2>4, <2>5, <2>6, <2>7 DEF BackofficeStep, SlipStep, FinanceStep, DocumentStep
<1>2. CASE Op(r) \notin Documents
  BY <1>0, <1>2 DEF createTicket, FindDialog, SaveDialog, SavesAs, Began, Fits, FindProduct,
     FindWishes, CreateWishes, SaveWishes, WishOps, Step, BackofficeStep, SlipStep, FinanceStep,
     DocumentStep, AnswerBackoffice
<1>3. QED
  BY <1>1, <1>2
--------------------
\* Messages
LEMMA NotMade ==
  ASSUME Init, NEW r \in Requests, Op(r) \in Added \cup DOMAIN Opposite
  PROVE  pc[r] = "idle"
<1>1. Op(r) \notin Inserting \cup {"none"}
  BY DEF Added, Opposite, Inserting, Creates, ArticleCreates, Slips
<1>2. ~Made(r)
  BY <1>1, CallsTyped DEF Init, CallsInit
<1>3. QED
  BY <1>2 DEF Init, CallsInit

LEMMA InitDialogsHeld == Init => DialogsHeld
<1> SUFFICES ASSUME Init PROVE DialogsHeld
  OBVIOUS
<1>1. \A r \in Requests : Op(r) \in Added => pc[r] = "idle"
  BY NotMade
<1>2. \A t \in Requests : Op(t) = "createTicket" => Heard(t, t)
  BY DEF Init, CallsInit, BackofficeInit, Heard
<1>3. DOMAIN dialogs = Requests
  BY DEF Init, BackofficeInit
<1>4. QED
  BY <1>1, <1>2, <1>3 DEF DialogsHeld, Rooted, Heard, Added

LEMMA RootsStay ==
  ASSUME OnTheWay, UNCHANGED call, NEW r \in Requests, ~Ended(r), Strides(r),
         NEW q \in Requests, Rooted(q),
         q # r \/ pc[q] # "idle" \/ (On(q) \in Requests /\ Ended(On(q)))
  PROVE  Rooted(q)'
<1>1. Op(q)' = Op(q) /\ On(q)' = On(q)
  BY SameCalls
<1>2. \A x \in Requests \ {r} : pc'[x] = pc[x]
  BY DEF Strides, Own, Paces
<1>3. Op(q) \in Added /\ pc'[q] # "idle" => On(q) \in Requests \ {r} /\ Ended(On(q))
  BY <1>2 DEF Rooted
<1>4. QED
  BY <1>1, <1>2, <1>3 DEF Rooted, Ended

LEMMA StepDialogsHeld ==
  ASSUME OnTheWay, Timely, DialogsHeld, UNCHANGED call, NEW r \in Requests, ~Ended(r),
         Strides(r), Step(r), \A q \in Requests : Op(q) = "resolveShortlink" => Rooted(q)'
  PROVE  DialogsHeld'
<1>0. LocalsTyped /\ Fits(Op(r), pc[r])
  BY DEF OnTheWay
<1>1. \A q \in Requests : Op(q)' = Op(q) /\ On(q)' = On(q)
  BY SameCalls
<1>2. \A q \in Requests \ {r} : pc'[q] = pc[q]
  BY DEF Strides, Own, Paces
<1>3. \A t : Spoiled(t) => Spoiled(t)'
  BY <1>1, <1>0 DEF Spoiled, Strides, Own, Bears, LocalsTyped
<1>4. DOMAIN dialogs' = Requests
  BY DocumentsKept DEF createTicket, backofficeVars, DialogsHeld, SaveDialog, SavesAs,
     FindDialog, FindProduct, FindWishes, CreateWishes, SaveWishes
<1>5. ASSUME NEW q \in Requests PROVE Rooted(q)'
  BY <1>1, <1>5, RootsStay, DocumentsKept, ServicesAssumption DEF DialogsHeld, Documents,
     createTicket, SaveDialog, SavesAs, FindProduct, FindWishes, CreateWishes, SaveWishes,
     Began, Fails, FindDialog, Talked, Rooted, Added
\* A message or a ticket is heard in the step that adds it, ...
<1>6. ASSUME NEW t \in Requests, NEW w \in Requests, w # r, Heard(w, t),
             (Op(w) = "createTicket" /\ t = w) \/ (Op(w) = "addMessage" /\ t = On(w))
      PROVE  Heard(w, t)'
  BY <1>2, <1>6, <1>3, <1>0, <1>1, DocumentsKept DEF Heard, DialogsHeld, Rooted, Added, Ended,
     createTicket, Began, SaveDialog, SavesAs, Fits, Spoiled, FindDialog, FindProduct,
     FindWishes, CreateWishes, SaveWishes, backofficeVars
<1>7. Op(r) = "createTicket" => Heard(r, r)'
  BY <1>0, DocumentsKept, Goes DEF createTicket, Began, DialogsHeld, Heard, Documents,
     FindDialog, SaveDialog, SavesAs, FindProduct, FindWishes, CreateWishes, SaveWishes, Fails,
     Fits, WishOps
<1>8. Op(r) = "addMessage" => Heard(r, On(r))'
  BY <1>0, <1>1, DocumentsKept, Goes DEF SaveDialog, SavesAs, Fits, DialogsHeld, Rooted, Added,
     Heard, Documents, createTicket, FindDialog, FindProduct, FindWishes, CreateWishes,
     SaveWishes, Began, Fails, WishOps
<1>9. \A w \in Requests : Op(w)' = "addMessage" => Heard(w, On(w))'
  <2>1. ASSUME NEW w \in Requests, Op(w) = "addMessage", w # r PROVE Heard(w, On(w))'
    <3>1. CASE On(w) \in Requests
      <4>1. Heard(w, On(w))
        BY <2>1 DEF DialogsHeld
      <4>2. PICK t \in Requests : t = On(w)
        BY <3>1
      <4>3. Heard(w, t)'
        BY <1>6, <2>1, <4>1, <4>2
      <4>4. QED
        BY <1>1, <4>2, <4>3 DEF Heard, Spoiled
    <3>2. CASE On(w) \notin Requests
      BY <1>1, <1>5, <2>1, <3>2 DEF Rooted, Added, Heard
    <3>3. QED
      BY <3>1, <3>2
  <2>2. QED
    BY <1>1, <1>8, <2>1
<1>10. \A t \in Requests : Op(t)' = "createTicket" => Heard(t, t)'
  <2>1. ASSUME NEW t \in Requests, Op(t) = "createTicket", t # r PROVE Heard(t, t)'
    BY <1>6, <2>1 DEF DialogsHeld
  <2>2. QED
    BY <1>1, <1>7, <2>1
<1>11. QED
  BY <1>4, <1>5, <1>9, <1>10 DEF DialogsHeld
--------------------
\* Wishes
LEMMA InitWishesHeld == Init => WishesHeld
<1> SUFFICES ASSUME Init PROVE WishesHeld
  OBVIOUS
<1>1. \A r \in Requests : Op(r) \in DOMAIN Opposite => pc[r] = "idle"
  BY NotMade
<1>2. \A r \in Requests : pc[r] \in {"idle", "ok"}
  BY DEF Init, CallsInit
<1>3. \A r \in Requests : Wishing(r)
  BY <1>1, <1>2 DEF Wishing, Opposite
<1>4. \A r \in Requests : Wished(r)
  BY <1>1 DEF Wished
<1>5. QED
  BY <1>3, <1>4 DEF Init, BackofficeInit, WishesHeld

\* A list that is there stays there; others are left alone.
LEMMA ListsWritten ==
  ASSUME OnTheWay, WishesHeld, NEW r \in Requests, Step(r)
  PROVE  /\ DOMAIN wishes' = People
         /\ \A u \in People : /\ wishes'[u] = wishes[u] \/ wishes'[u] \subseteq Requests
                              /\ wishes[u] # NONE => wishes'[u] # NONE
                              /\ u # By(r) => wishes'[u] = wishes[u]
<1>0. Fits(Op(r), pc[r]) /\ By(r) \in People /\ Wishing(r)
  BY CallsTyped DEF OnTheWay, WishesHeld
<1>1. CASE CreateWishes(r)
  BY <1>0, <1>1 DEF CreateWishes, WishesHeld
<1>2. CASE SaveWishes(r)
  <2> DEFINE list == IF Op(r) = "addToWishlist" THEN held[r] \cup {On(r)} ELSE held[r] \ {On(r)}
  <2>1. wishes' = [wishes EXCEPT ![By(r)] = list]
    BY <1>2 DEF SaveWishes
  <2>2. list \subseteq Requests
    BY <1>0, <1>2 DEF SaveWishes, Wishing
  <2>3. list # NONE
    BY <2>2, ServicesAssumption
  <2> HIDE DEF list
  <2>4. QED
    BY <1>0, <2>1, <2>2, <2>3 DEF WishesHeld
<1>3. CASE UNCHANGED wishes
  BY <1>3 DEF WishesHeld
<1>4. QED
  BY <1>1, <1>2, <1>3, DocumentsKept DEF createTicket, FindDialog, SaveDialog, SavesAs,
     FindProduct, FindWishes, backofficeVars

LEMMA WishFound ==
  ASSUME OnTheWay, WishesHeld, UNCHANGED call, NEW r \in Requests, ~Ended(r), Strides(r), Step(r),
         Op(r) \in Documents
  PROVE  Wishing(r)'
<1>0. LocalsTyped /\ Fits(Op(r), pc[r]) /\ Wishing(r) /\ By(r) \in People
  BY CallsTyped DEF OnTheWay, WishesHeld
<1>1. Op(r)' = Op(r) /\ On(r)' = On(r) /\ By(r)' = By(r)
  BY SameCalls
<1>2. CASE createTicket(r) \/ FindDialog(r) \/ SaveDialog(r)
  BY <1>0, <1>2, <1>1, Goes DEF createTicket, FindDialog, SaveDialog, SavesAs, Began, Fits,
     Wishing
<1>3. CASE FindProduct(r)
  BY <1>0, <1>3, <1>1, Goes, CallsTyped DEF FindProduct, Live, OnTheWay, Wishing
<1>4. CASE FindWishes(r)
  BY <1>0, <1>4, <1>1, Goes, HasHeld DEF FindWishes, NextWish, backofficeVars, Began, Fits,
     WishOps, WishesHeld, Wishing
<1>5. CASE CreateWishes(r)
  BY <1>0, <1>5, <1>1, Goes, HasHeld, ServicesAssumption DEF CreateWishes, NextWish, WishesHeld,
     Wishing
<1>6. CASE SaveWishes(r)
  BY <1>0, <1>6, <1>1, Goes DEF SaveWishes, Wishing
<1>7. CASE Fails(r)
  BY <1>0, <1>7, Goes DEF Fails, Wishing
<1>8. QED
  BY <1>2, <1>3, <1>4, <1>5, <1>6, <1>7, DocumentsKept

LEMMA StaysMixed ==
  ASSUME OnTheWay, UNCHANGED call, NEW r \in Requests, Strides(r), NEW u, Mixed(u)
  PROVE  Mixed(u)'
<1>1. \A s \in stale : s \in stale' /\ Op(s)' = Op(s) /\ By(s)' = By(s)
  BY SameCalls DEF Strides, Own, Bears, OnTheWay, LocalsTyped
<1>2. QED
  BY <1>1 DEF Mixed
LEMMA StaysUndone ==
  ASSUME OnTheWay, UNCHANGED call, NEW r \in Requests, Strides(r), NEW w \in Requests,
         pc[w] # "idle", Undone(w)
  PROVE  Undone(w)'
<1>1. PICK s \in Requests : /\ Op(s) = Opposite[Op(w)] /\ Begun(s) /\ s \notin before[w]
                            /\ On(s) = On(w) /\ By(s) = By(w)
  BY DEF Undone
<1>2. Begun(s)' /\ before'[w] = before[w]
  BY <1>1, StaysBegun DEF Strides, Own, Paces
<1>3. \A q \in Requests : Op(q)' = Op(q) /\ On(q)' = On(q) /\ By(q)' = By(q)
  BY SameCalls
<1>4. QED
  BY <1>1, <1>2, <1>3 DEF Undone

\* A list is saved over one that was read before, after one for another
\* product, or after a call for the opposite.
LEMMA WishOverwritten ==
  ASSUME OnTheWay, Timely, WishesHeld, UNCHANGED call, NEW r \in Requests, Strides(r),
         SaveWishes(r), NEW w \in Requests \ {r}, Op(w) \in DOMAIN Opposite, pc[w] = "ok",
         By(w) = By(r)
  PROVE  (On(w) \in wishes'[By(w)] <=> Op(w) = "addToWishlist") \/ Mixed(By(w))' \/ Undone(w)'
<1>0. Fits(Op(r), pc[r]) /\ By(r) \in People /\ Wished(w) /\ LocalsTyped
  BY CallsTyped DEF OnTheWay, WishesHeld
<1>1. \A q \in Requests : Op(q)' = Op(q) /\ On(q)' = On(q) /\ By(q)' = By(q)
  BY SameCalls
<1>2. Op(r) \in DOMAIN Opposite /\ Op(r) \in WishOps
  BY <1>0 DEF SaveWishes, Fits, Opposite, WishOps
<1>3. wishes'[By(r)] = IF Op(r) = "addToWishlist" THEN held[r] \cup {On(r)} ELSE held[r] \ {On(r)}
  BY <1>0 DEF SaveWishes, WishesHeld
<1>4. CASE wishes[By(r)] # held[r]
  BY <1>1, <1>2, <1>4 DEF SaveWishes, Mixed
<1>5. CASE wishes[By(r)] = held[r] /\ (On(w) # On(r) \/ Op(w) = Op(r))
  BY <1>0, <1>1, <1>2, <1>3, <1>5, StaysMixed, StaysUndone DEF Wished, Mixed, Opposite
<1>6. CASE On(w) = On(r) /\ Op(w) # Op(r)
  BY <1>2, <1>6, StaysUndone DEF Opposite, SaveWishes, Begun, Timely, Undone
<1>7. QED
  BY <1>4, <1>5, <1>6

LEMMA WishKept ==
  ASSUME OnTheWay, Timely, WishesHeld, UNCHANGED call, NEW r \in Requests, Strides(r), Step(r),
         NEW w \in Requests \ {r}
  PROVE  Wished(w)'
<1>1. Op(w)' = Op(w) /\ On(w)' = On(w) /\ By(w)' = By(w)
  BY SameCalls
<1>2. Wished(w) /\ pc'[w] = pc[w] /\ By(w) \in People
  BY CallsTyped DEF WishesHeld, Strides, Own, Paces, OnTheWay
<1> SUFFICES ASSUME Op(w) \in DOMAIN Opposite, pc[w] = "ok" PROVE Wished(w)'
  BY <1>1, <1>2 DEF Wished
<1>3. wishes[By(w)] # NONE /\ wishes'[By(w)] # NONE
  BY <1>2, ListsWritten DEF Wished
<1>4. CASE SaveWishes(r) /\ By(w) = By(r)
  BY <1>4, <1>1, <1>3, WishOverwritten DEF Wished
<1>5. CASE wishes'[By(w)] = wishes[By(w)]
  BY <1>1, <1>2, <1>3, <1>5, StaysMixed, StaysUndone DEF Mixed, Wished
<1>6. CASE CreateWishes(r)
  BY <1>2, <1>3, <1>5, <1>6, ListsWritten DEF CreateWishes
<1>7. QED
  BY <1>2, <1>4, <1>5, <1>6, ListsWritten, DocumentsKept DEF createTicket, FindDialog,
     SaveDialog, SavesAs, FindProduct, FindWishes, backofficeVars

LEMMA WishSaved ==
  ASSUME OnTheWay, WishesHeld, UNCHANGED call, NEW r \in Requests, ~Ended(r), Strides(r), Step(r)
  PROVE  Wished(r)'
<1>0. LocalsTyped /\ Fits(Op(r), pc[r]) /\ Wishing(r) /\ By(r) \in People
  BY CallsTyped DEF OnTheWay, WishesHeld
<1>1. Op(r)' = Op(r) /\ On(r)' = On(r) /\ By(r)' = By(r)
  BY SameCalls
<1>2. CASE SaveWishes(r)
  BY <1>0, <1>2, <1>1, ListsWritten DEF SaveWishes, WishesHeld, Wishing, Wished
<1>3. CASE Op(r) \notin DOMAIN Opposite \/ pc'[r] # "ok"
  BY <1>1, <1>3 DEF Wished
<1>4. QED
  BY <1>0, <1>2, <1>3, DocumentsKept, Goes DEF Documents, Opposite, createTicket, FindDialog,
     SaveDialog, SavesAs, FindProduct, FindWishes, CreateWishes, NextWish, Fails, Began, Fits

LEMMA StepWishesHeld ==
  ASSUME OnTheWay, Timely, WishesHeld, UNCHANGED call, NEW r \in Requests, ~Ended(r),
         Strides(r), Step(r)
  PROVE  WishesHeld'
<1>1. \A q \in Requests : Op(q)' = Op(q) /\ On(q)' = On(q) /\ By(q)' = By(q)
  BY SameCalls
<1>2. \A u \in People : /\ wishes'[u] = wishes[u] \/ wishes'[u] \subseteq Requests
                        /\ wishes[u] # NONE => wishes'[u] # NONE
  BY ListsWritten
<1>3. DOMAIN wishes' = People
  BY ListsWritten
<1>4. ASSUME NEW q \in Requests \ {r} PROVE Wishing(q)'
  BY <1>1, <1>2, <1>4, CallsTyped DEF WishesHeld, Strides, Own, Paces, Holds, OnTheWay, Wishing
<1>5. Wishing(r)'
  BY <1>1, WishFound DEF Strides, Fits, Documents, Wishing, WishOps
<1>6. \A q \in Requests : Wished(q)'
  BY WishKept, WishSaved
<1>7. QED
  BY <1>2, <1>3, <1>4, <1>5, <1>6 DEF WishesHeld
--------------------
\* Only these calls write short links.
LEMMA LinksWritten ==
  ASSUME OnTheWay, NEW r \in Requests, Step(r), Op(r) \in Linkers
  PROVE  \/ createShortlink(r) \/ resolveShortlink(r)
         \/ Fails(r) /\ UNCHANGED rows
         \/ /\ Op(r) = "deleteArticle"
            /\ \A x \in Requests : Op(x) = "createShortlink" => rows'[x] \in {rows[x], NONE}
<1> USE DEF Linkers
<1>0. Fits(Op(r), pc[r]) /\ LocalsTyped /\ Grips(r)
  BY DEF OnTheWay
<1>1. Op(r) \notin CacheCalls \cup BackofficeCalls
  BY DEF CacheCalls, CouponOps, PromotionOps, MenuOps, FeedOps, BackofficeCalls, Slips,
     Statuses, UpdatedTo, WishOps
<1>2. Op(r) \notin LearningCalls
  BY DEF LearningCalls, CourseOps, CurriculumOps, PlayerOps, AssessmentOps,
     CredentialOps, ForumOps, ReviewOps, OperationOps, AdvancedLearningOps, ReportingOps
<1>3. Op(r) \notin RegistryOps \cup MarketingCalls
  BY DEF RegistryOps, MarketingCalls, BundleOps, AffiliateOps, LoyaltyOps, AbandonedOps
<1>4. ContentStep(r) \/ (Fails(r) /\ UNCHANGED rows)
  BY <1>1, <1>2, <1>3, CacheFamily, LearningFamily, RegistryFamily, MarketingFamily,
     BackofficeFamily DEF Step, recordVars
<1>5. ~CreateStep(r) /\ ~UpdateStep(r)
  BY <1>0 DEF CreateStep, UpdateStep, CreateFind, CreateInsert, CreateDetail, DetailRejected,
     UndoCreate, UpdateFind, FindDetail, createRevision, SaveContent, SaveRedirect,
     RefindDetail, SaveDetail, Fits, Creates, ArticleCreates, Updates
<1>6. ~JobStep(r) /\ ~ReadStep(r)
  BY <1>0 DEF JobStep, ReadStep, PublishFind, Publish, PublishEnd, cleanupOldRevisions,
     GetContent, GetDetail, ListContent, Answer, SearchRows, SearchDetails, SearchBoth,
     logSearch, Began, Fits
<1>7. ASSUME DeleteStep(r)
      PROVE  /\ Op(r) = "deleteArticle"
             /\ \A x \in Requests : Op(x) = "createShortlink" => rows'[x] \in {rows[x], NONE}
  BY <1>0, <1>7 DEF DeleteStep, DeleteFind, DeleteRow, DeleteDetail, DeleteRevisions,
     DeleteRedirects, DeleteShortlinks, Fits, Deletes, Put, LocalsTyped, Find, recordVars
<1>8. QED
  BY <1>4, <1>5, <1>6, <1>7 DEF ContentStep

LEMMA KeysTyped ==
  ASSUME call \in Plans
  PROVE  \A r \in Requests : Key(r) \in Keys \cup {NONE}
BY ServicesAssumption DEF ServiceCalls, Key

LEMMA InitLinksHeld == Init => LinksHeld
<1> SUFFICES ASSUME Init PROVE LinksHeld
  OBVIOUS
<1>1. \A r \in Requests : Op(r) = "resolveShortlink" => pc[r] = "idle"
  BY NotMade DEF Added
<1>2. ASSUME NEW l \in Requests, Op(l) = "createShortlink", rows[l] # NONE PROVE Counted(l)
  BY <1>2, <1>1, KeysTyped, FS_EmptySet DEF Init, Inserted, Creates, ArticleCreates, Slips,
     CallsInit, Acknowledged, Clicks, Counted, Links
<1>3. QED
  BY <1>1, <1>2 DEF LinksHeld, Rooted, Clicking, Counted

\* A click is counted for good, and so is the loss of one.
LEMMA StaysLost ==
  ASSUME OnTheWay, UNCHANGED call, NEW r \in Requests, ~Ended(r), Strides(r), NEW l, Lost(l)
  PROVE  Lost(l)'
<1>1. PICK s \in stale : Op(s) = "resolveShortlink" /\ target[s] = l /\ pc[s] = "ok"
  BY DEF Lost
<1>2. s \in Requests \ {r} /\ s \in stale'
  BY <1>1 DEF OnTheWay, LocalsTyped, Ended, Strides, Own, Bears
<1>3. target'[s] = l /\ pc'[s] = "ok" /\ Op(s)' = Op(s)
  BY <1>1, <1>2, SameCalls DEF Strides, Own, Bears, Paces
<1>4. QED
  BY <1>1, <1>2, <1>3 DEF Lost
LEMMA SameClicks ==
  ASSUME OnTheWay, UNCHANGED call, NEW r \in Requests, ~Ended(r), Strides(r), NEW l,
         Op(r) # "resolveShortlink" \/ On(r) # l \/ pc'[r] # "ok"
  PROVE  Clicks(l)' = Clicks(l)
<1>1. \A q \in Requests : Op(q)' = Op(q) /\ On(q)' = On(q)
  BY SameCalls
<1>2. \A q \in Requests \ {r} : pc'[q] = pc[q]
  BY DEF Strides, Own, Paces
<1>3. ASSUME NEW q \in Requests PROVE q \in Clicks(l)' <=> q \in Clicks(l)
  BY <1>1, <1>2 DEF Acknowledged, Clicks, Ended
<1>4. QED
  BY <1>3 DEF Acknowledged, Clicks
LEMMA OneMoreClick ==
  ASSUME OnTheWay, UNCHANGED call, NEW r \in Requests, ~Ended(r), Strides(r), NEW l,
         Op(r) = "resolveShortlink", On(r) = l, pc'[r] = "ok"
  PROVE  Cardinality(Clicks(l))' = Cardinality(Clicks(l)) + 1
<1>1. \A q \in Requests : Op(q)' = Op(q) /\ On(q)' = On(q)
  BY SameCalls
<1>2. \A q \in Requests \ {r} : pc'[q] = pc[q]
  BY DEF Strides, Own, Paces
<1>3. ASSUME NEW q \in Requests PROVE q \in Clicks(l)' <=> q \in Clicks(l) \cup {r}
  BY <1>1, <1>2, <1>3 DEF Acknowledged, Clicks
<1>4. Clicks(l)' = Clicks(l) \cup {r}
  BY <1>3 DEF Acknowledged, Clicks
<1>5. r \notin Clicks(l) /\ IsFiniteSet(Clicks(l))
  BY ServicesAssumption, FS_Subset DEF Acknowledged, Clicks, Ended
<1>6. QED
  BY <1>4, <1>5, FS_AddElement

LEMMA LinkUntouched ==
  ASSUME OnTheWay, UNCHANGED call, NEW r \in Requests, ~Ended(r), Strides(r),
         NEW l \in Requests, Counted(l), rows'[l] = rows[l],
         Clicks(l)' = Clicks(l)
  PROVE  Counted(l)'
BY StaysLost DEF Counted

LEMMA Clicked ==
  ASSUME OnTheWay, LinksHeld, UNCHANGED call, NEW r \in Requests, ~Ended(r), Strides(r),
         Op(r) = "resolveShortlink", pc[r] = "click", resolveShortlink(r),
         NEW l \in Requests, Op(l) = "createShortlink"
  PROVE  Counted(l)'
<1>0. LocalsTyped /\ Grips(r) /\ Counted(l) /\ Clicking(r)
  BY DEF OnTheWay, LinksHeld
<1> DEFINE row == [seen[r] EXCEPT !.clicks = @ + 1]
<1>1. Save(r, row, "ok")
  BY DEF resolveShortlink, Began
<1>2. row \in Links /\ row.clicks = seen[r].clicks + 1 /\ seen[r] \in Links
  BY <1>0 DEF Clicking, Links
<1> HIDE DEF row
<1>3. target[r] = On(r) /\ target[r] \in Requests /\ pc'[r] = "ok" /\ target'[r] = target[r]
  BY <1>0, <1>1, Goes, HasWritten DEF Grips, Finders, Save
<1>4. CASE l # On(r)
  BY <1>0, <1>1, <1>3, <1>4, SameClicks, LinkUntouched DEF Save, Put, LocalsTyped
<1>5. CASE l = On(r)
  BY <1>0, <1>1, <1>3, <1>5, <1>2, SameCalls, OneMoreClick, StaysLost DEF Save, Put,
     LocalsTyped, Writes, Lost, Counted, Clicking
<1>6. QED
  BY <1>4, <1>5

LEMMA StepLinksHeld ==
  ASSUME OnTheWay, LinksHeld, UNCHANGED call, NEW r \in Requests, ~Ended(r), Strides(r), Step(r)
  PROVE  LinksHeld'
<1>0. LocalsTyped /\ Fits(Op(r), pc[r])
  BY DEF OnTheWay
<1>1. \A q \in Requests : Op(q)' = Op(q) /\ On(q)' = On(q)
  BY SameCalls
<1>2. \A q \in Requests \ {r} : pc'[q] = pc[q] /\ seen'[q] = seen[q]
  BY DEF Strides, Own, Paces, Bears
<1>3. \A q \in Requests \ {r} : Op(q) = "resolveShortlink" => Rooted(q)' /\ Clicking(q)'
  <2>1. ASSUME NEW q \in Requests \ {r}, Op(q) = "resolveShortlink"
        PROVE  Rooted(q)' /\ Clicking(q)'
    BY <2>1, <1>1, <1>2, RootsStay DEF LinksHeld, Clicking
  <2>2. QED
    BY <2>1
<1>4. ASSUME Op(r) = "resolveShortlink" PROVE Rooted(r)' /\ Clicking(r)'
  <2>1. Rooted(r)
    BY <1>4 DEF LinksHeld
  <2>2. resolveShortlink(r) \/ Fails(r)
    BY <1>4, LinksWritten DEF Linkers, createShortlink, Insert, Began
  <2>3. CASE pc[r] = "idle"
    <3>1. Began(r, "resolveShortlink") /\ Find(r, "click")
      BY <2>2, <2>3 DEF resolveShortlink, Fails
    <3>2. On(r) \in Requests /\ Ended(On(r)) /\ rows[On(r)] # NONE
      BY <3>1, CallsTyped DEF Find, Live, Began, OnTheWay
    <3>3. Names("resolveShortlink", Op(On(r)))
      BY <1>4, <3>2, CallsTyped, ServicesAssumption DEF OnTheWay
    <3>4. Op(On(r)) = "createShortlink"
      BY <3>3 DEF Names, OfProducts
    <3>5. rows[On(r)] \in Links \ {NONE}
      BY <3>2, <3>4 DEF LinksHeld, Counted
    <3>6. seen'[r] = rows[On(r)]
      BY <1>0, <3>1, HasRead DEF Find
    <3>7. Rooted(r)'
      BY <2>1, <3>2, RootsStay
    <3>8. QED
      BY <3>5, <3>6, <3>7 DEF Clicking
  <2>4. CASE pc[r] # "idle"
    BY <1>0, <2>2, <2>4, <2>1, Goes, RootsStay DEF resolveShortlink, Began, Save, Fails, Clicking
  <2>5. QED
    BY <2>3, <2>4
<1>5. ASSUME NEW l \in Requests, Op(l) = "createShortlink" PROVE Counted(l)'
  <2>0. Counted(l)
    BY <1>5 DEF LinksHeld
  <2>1. CASE Op(r) \notin Linkers
    BY <1>5, <2>1, <2>0, SameClicks, LinkUntouched DEF Strides, Touches, Reaches, Names,
       Linkers, Creates, ArticleCreates, OfProducts
  <2>2. CASE Fails(r) /\ UNCHANGED rows
    BY <1>0, <2>2, <2>0, Goes, SameClicks, LinkUntouched DEF Fails
  <2>3. CASE createShortlink(r)
    BY <2>3, <1>0, <2>0, SameClicks, LinkUntouched, KeysTyped, FS_EmptySet DEF createShortlink,
       Insert, Began, Put, LocalsTyped, OnTheWay, Clicks, Acknowledged, LinksHeld, Rooted,
       Added, Ended, Counted, Links
  <2>4. CASE resolveShortlink(r)
    BY <1>0, <1>5, <2>4, <2>0, Clicked, Goes, SameClicks, LinkUntouched DEF Fits,
       resolveShortlink, Find, recordVars
  <2>5. CASE Op(r) = "deleteArticle" /\ rows'[l] \in {rows[l], NONE}
    BY <2>0, <2>5, SameClicks, LinkUntouched DEF Counted
  <2>6. QED
    BY <1>5, <2>1, <2>2, <2>3, <2>4, <2>5, LinksWritten
<1>6. QED
  BY <1>1, <1>3, <1>4, <1>5 DEF LinksHeld

LEMMA InitEntriesInv == Init => EntriesInv
BY InitOnTheWay, InitTimely, InitDialogsHeld, InitWishesHeld, InitLinksHeld DEF EntriesInv
LEMMA NextEntriesInv == EntriesInv /\ [Next]_vars => EntriesInv'
<1> SUFFICES ASSUME EntriesInv, [Next]_vars PROVE EntriesInv'
  OBVIOUS
<1> USE DEF EntriesInv
<1>1. OnTheWay' /\ Timely'
  BY NextOnTheWay, NextTimely
<1>2. CASE \E r \in Requests : ~Ended(r) /\ Step(r) /\ UNCHANGED call
  <2>1. PICK r \in Requests : ~Ended(r) /\ Step(r) /\ UNCHANGED call
    BY <1>2
  <2>2. Strides(r)
    BY <2>1, StepStrides
  <2>3. LinksHeld' /\ WishesHeld'
    BY <2>1, <2>2, StepLinksHeld, StepWishesHeld
  <2>4. \A q \in Requests : Op(q) = "resolveShortlink" => Rooted(q)'
    BY <2>1, <2>3, SameCalls DEF LinksHeld
  <2>5. DialogsHeld'
    BY <2>1, <2>2, <2>4, StepDialogsHeld
  <2>6. QED
    BY <1>1, <2>3, <2>5
<1>3. CASE UNCHANGED <<callVars, rows, held, backofficeVars>>
  BY <1>3, <1>1 DEF callVars, locals, backofficeVars, Op, On, By, Made, DialogsHeld, Rooted,
     Heard, Spoiled, Ended, WishesHeld, Wishing, Wished, Mixed, Undone, Begun, LinksHeld,
     Clicking, Counted, Lost, Clicks, Acknowledged
<1>4. QED
  BY <1>2, <1>3, Moves

\* Messages, wishes and clicks that were acknowledged are kept, unless a whole
\* was saved that had been read before another save of it.
THEOREM EntriesStay == Spec => []EntriesKept
<1>1. EntriesInv => EntriesKept
  <2> SUFFICES ASSUME EntriesInv PROVE EntriesKept
    OBVIOUS
  <2>1. ASSUME NEW t \in Table("createTicket"), NEW w \in Requests, pc[w] = "ok",
               w = t \/ (Op(w) = "addMessage" /\ On(w) = t)
        PROVE  w \in dialogs[t] \/ Spoiled(t)
    BY <2>1 DEF EntriesInv, DialogsHeld, Heard, Table
  <2>2. ASSUME NEW w \in Requests, Op(w) \in DOMAIN Opposite, pc[w] = "ok"
        PROVE  (On(w) \in wishes[By(w)] <=> Op(w) = "addToWishlist") \/ Mixed(By(w)) \/ Undone(w)
    BY <2>2 DEF EntriesInv, WishesHeld, Wished
  <2>3. ASSUME NEW l \in Table("createShortlink")
        PROVE  rows[l].clicks = Cardinality(Clicks(l)) \/ \E s \in stale : target[s] = l
    BY <2>3 DEF EntriesInv, LinksHeld, Counted, Lost, Table
  <2>4. QED
    BY <2>1, <2>2, <2>3 DEF EntriesKept, Spoiled, Mixed, Undone, Clicks
<1>2. QED
  BY <1>1, InitEntriesInv, NextEntriesInv, PTL DEF Spec
--------------------
\* What the bodies of the calls carry.
LEMMA BodiesTyped ==
  ASSUME call \in Plans, NEW r \in Requests
  PROVE  /\ Key(r) \in Keys \cup {NONE} /\ Place(r) \in Keys \cup Requests \cup {NONE}
         /\ call[r].no \in Nat /\ By(r) \in People /\ On(r) \in Requests \cup {NONE}
         /\ Op(r) \in OnRow => On(r) \in Requests
         /\ Op(r) \in Keyed => Key(r) \in Keys
         /\ Op(r) = "saveMenu" => Place(r) \in Keys
         /\ Op(r) = "updateProgress" => Place(r) \in Requests
         /\ Op(r) = "createModule" => call[r].to \subseteq Keys
         /\ Op(r) = "trackAbandonedCarts" => call[r].to \subseteq People
         /\ Op(r) \in DOMAIN Bodies => Arg(r) \in Bodies[Op(r)]
         /\ Op(r) \in DOMAIN Statuses => Arg(r) \in Statuses[Op(r)]
<1>1. call \in [Requests -> ServiceCalls]
  BY ServicesAssumption
<1>2. call[r] \in ServiceCalls
  BY <1>1
<1>3. /\ call[r].op \in OnRow => call[r].on # NONE
      /\ call[r].op \in Keyed => call[r].key # NONE
      /\ call[r].op = "saveMenu" => call[r].at \in Keys
      /\ call[r].op = "updateProgress" => call[r].at \in Requests
      /\ call[r].op = "createModule" => call[r].to \subseteq Keys
      /\ call[r].op = "trackAbandonedCarts" => call[r].to \subseteq People
      /\ call[r].op \in DOMAIN Bodies => call[r].arg \in Bodies[call[r].op]
      /\ call[r].op \in DOMAIN Statuses => call[r].arg \in Statuses[call[r].op]
  BY ServicesAssumption
<1>4. QED
  BY <1>2, <1>3 DEF ServiceCalls, Op, By, On, Key, Place, Arg

LEMMA Fitting ==
  ASSUME NEW op, NEW row,
         \/ op \in ArticleCreates /\ row \in ArticleRows
         \/ op = "createProduct" /\ row \in ProductRows
         \/ op = "createShortlink" /\ row \in Shortlinks
         \/ op = "searchArticles" /\ row \in [found : Nat]
         \/ op = "createCoupon" /\ row \in Coupons
         \/ op = "validateCoupon" /\ row \in [valid : BOOLEAN]
         \/ op = "createPromotion" /\ row \in Promotions
         \/ op = "saveMenu" /\ row \in Menus
         \/ op = "createModule" /\ row \in ModuleRows
         \/ op = "createRegistry" /\ row \in RegistryRows
         \/ op = "createBundle" /\ row \in BundleRows
         \/ op = "createProgram" /\ row \in ProgramRows
         \/ op = "createLink" /\ row \in LinkRows
         \/ op = "createTier" /\ row \in TierRows
         \/ op = "addPoints" /\ row \in PointRows
  PROVE  RowFits(op, row)
<1>1. row \in Rows
  BY DEF Rows
<1>2. QED
  BY <1>1 DEF RowFits, ArticleCreates, Slips
LEMMA LearningFitting ==
  ASSUME NEW op, NEW row,
         \/ op = "createCourse" /\ row \in CourseRows
         \/ op = "addChapter" /\ row \in ChapterRows
         \/ op = "addLesson" /\ row \in LessonRows
         \/ op = "enroll" /\ row \in EnrollmentRows
         \/ op = "updateProgress" /\ row \in ProgressRows
         \/ op = "checkAndGenerate" /\ row \in CertificateRows
         \/ op = "assess" /\ row \in AssessmentRows
         \/ op = "startAttempt" /\ row \in AttemptRows
         \/ op \in {"submitAssessment", "uploadAssignment"} /\ row \in SubmissionRows
         \/ op = "createReview" /\ row \in ReviewRows
         \/ op \in {"createNote", "createThread", "addComment", "uploadMaterial"} /\ row \in Remarks
  PROVE  RowFits(op, row)
<1>1. row \in Rows
  BY DEF Rows
<1>2. QED
  BY <1>1 DEF RowFits, ArticleCreates, Slips
LEMMA SlipFitting ==
  ASSUME NEW op \in Slips, NEW row \in SlipRows
  PROVE  RowFits(op, row)
<1>1. row \in Rows
  BY DEF Rows
<1>2. QED
  BY <1>1 DEF RowFits, ArticleCreates, Slips
LEMMA SlipTyped ==
  ASSUME call \in Plans, NEW r \in Requests, Op(r) \in Slips
  PROVE  Slip(r) \in SlipRows
<1>1. FirstStatus[Op(r)] \in SlipStatuses
  BY DEF SlipStatuses
<1>2. QED
  BY <1>1, BodiesTyped DEF Slip, SlipRows
LEMMA ContentTyped ==
  ASSUME call \in Plans, NEW r \in Requests, Op(r) \in Creates
  PROVE  RowFits(Op(r), NewContent(r))
<1>1. Key(r) \in Keys
  BY BodiesTyped DEF Keyed
<1>2. CASE Op(r) = "createProduct"
  BY <1>2, <1>1, BodiesTyped, Fitting DEF Bodies, NewContent, ProductRows
<1>3. CASE Op(r) \in ArticleCreates
  BY <1>1, <1>3, BodiesTyped, Fitting DEF Bodies, NewContent, ArticleRows, ArticleCreates
<1>4. QED
  BY <1>2, <1>3 DEF Creates

LEMMA RowNotNone ==
  ASSUME NEW op, NEW row, RowFits(op, row)
  PROVE  row # NONE
BY ServicesAssumption DEF RowFits

LEMMA KeepsRowsTyped ==
  ASSUME OnTheWay, RowsTyped, UNCHANGED call, NEW r \in Requests, Strides(r), Keeps(r)
  PROVE  RowsTyped'
<1>1. \A q : Op(q)' = Op(q)
  BY DEF Op
<1>2. ASSUME NEW x \in Requests PROVE (rows[x] = NONE \/ RowFits(Op(x), rows[x]))'
  <2>1. rows'[x] \in {rows[x], NONE} \/ RowFits(Op(x), rows'[x])
    BY DEF Keeps, RowsKeep
  <2>2. rows[x] = NONE \/ RowFits(Op(x), rows[x])
    BY DEF RowsTyped
  <2>3. rows'[x] = NONE \/ RowFits(Op(x), rows'[x])
    BY <2>1, <2>2
  <2>4. PICK op : op = Op(x)
    OBVIOUS
  <2>5. QED
    BY <2>3, <1>1 DEF RowFits
<1>3. ASSUME NEW q \in Requests \ {r} PROVE Sight(q)' /\ Facing(q)'
  BY <1>1, <1>3 DEF Strides, Own, Paces, Bears, RowsTyped, Sight, RowFits, Facing, IsArticle,
     Resumes
<1>4. QED
  BY <1>2, <1>3 DEF Keeps, RowsTyped

\* It keeps what it has seen, ...
LEMMA SightKept ==
  ASSUME RowsTyped, UNCHANGED call, NEW r \in Requests,
         target'[r] = target[r], seen'[r] = seen[r],
         pc'[r] \in Finders => pc[r] \in Finders,
         pc'[r] \in Returners => pc[r] \in Returners, pc'[r] \notin Searchers
  PROVE  Sight(r)' /\ Facing(r)'
<1>1. \A q : Op(q)' = Op(q)
  BY DEF Op
<1>2. Sight(r) /\ Facing(r)
  BY DEF RowsTyped
<1>3. Sight(r)'
  BY <1>1, <1>2 DEF Sight, RowFits
<1>4. Facing(r)'
  BY <1>1, <1>2 DEF Facing, Searchers, Resumes
<1>5. QED
  BY <1>3, <1>4
\* ... or sees another row.
LEMMA SightTaken ==
  ASSUME RowsTyped, UNCHANGED call, NEW r \in Requests, NEW x, NEW row,
         target'[r] = x, seen'[r] = row,
         row = NONE \/ (x \in Requests /\ RowFits(Op(x), row)),
         pc'[r] \in Finders => row # NONE,
         pc'[r] \in Returners => x = r \/ (row # NONE /\ Resumes(Op(r), Op(x))),
         pc'[r] \notin Searchers, Op(r) \notin AbandonedOps
  PROVE  Sight(r)' /\ Facing(r)'
<1>1. \A q : Op(q)' = Op(q)
  BY DEF Op
<1>2. Sight(r)'
  BY <1>1 DEF Sight, RowFits
<1>3. Facing(r)'
  BY <1>1 DEF Facing, Searchers, Resumes
<1>4. QED
  BY <1>2, <1>3

LEMMA SameRows == ASSUME UNCHANGED rows PROVE RowsKeep
BY DEF RowsKeep
LEMMA PutFits ==
  ASSUME LocalsTyped, NEW x \in Requests, NEW row, Put(x, row), row = NONE \/ RowFits(Op(x), row)
  PROVE  RowsKeep
BY DEF LocalsTyped, Put, RowsKeep

\* A row is inserted and answered, ...
LEMMA InsertsFit ==
  ASSUME OnTheWay, RowsTyped, UNCHANGED call, NEW r \in Requests, NEW op, NEW row,
         Insert(r, op, row), RowFits(op, row)
  PROVE  Keeps(r)
<1>1. LocalsTyped /\ Op(r) = op
  BY DEF OnTheWay, Insert, Began
<1>2. target'[r] = target[r] /\ seen'[r] = seen[r] /\ pc'[r] = "ok"
  BY <1>1, Goes, Stays DEF Insert
<1>3. Sight(r)' /\ Facing(r)'
  BY <1>2, SightKept DEF Finders, Returners, Searchers
<1>4. RowsKeep
  BY <1>1, PutFits DEF Insert
<1>5. QED
  BY <1>3, <1>4 DEF Keeps
\* ... or found, ...
LEMMA FindsFit ==
  ASSUME OnTheWay, RowsTyped, UNCHANGED call, NEW r \in Requests, NEW label,
         label \notin {"idle"} \cup Returners \cup Searchers, Op(r) \notin AbandonedOps, Find(r,
         label)
  PROVE  Keeps(r)
<1>1. LocalsTyped /\ On(r) \in Requests \cup {NONE}
  BY CallsTyped DEF OnTheWay
<1>2. On(r) \in Requests /\ rows[On(r)] # NONE
  BY <1>1 DEF Find, Live
<1>3. RowFits(Op(On(r)), rows[On(r)])
  BY <1>2 DEF RowsTyped
<1>4. target'[r] = On(r) /\ seen'[r] = rows[On(r)] /\ pc'[r] = label
  BY <1>1, Goes, HasRead DEF Find
<1>5. Sight(r)' /\ Facing(r)'
  BY <1>2, <1>3, <1>4, SightTaken DEF Searchers
<1>6. QED
  BY <1>5, SameRows DEF Keeps, Find, recordVars
\* ... or saved, ...
LEMMA SavesFit ==
  ASSUME OnTheWay, RowsTyped, UNCHANGED call, NEW r \in Requests, NEW row, NEW label,
         label \notin {"idle"} \cup Searchers, label \in Finders => pc[r] \in Finders,
         label \in Returners => pc[r] \in Returners,
         Save(r, row, label), target[r] \in Requests,
         row = NONE \/ RowFits(Op(target[r]), row)
  PROVE  Keeps(r)
<1>1. LocalsTyped
  BY DEF OnTheWay
<1>2. target'[r] = target[r] /\ seen'[r] = seen[r] /\ pc'[r] = label
  BY <1>1, Goes, HasWritten DEF Save
<1>3. Sight(r)' /\ Facing(r)'
  BY <1>2, SightKept
<1>4. RowsKeep
  BY <1>1, PutFits DEF Save
<1>5. QED
  BY <1>3, <1>4 DEF Keeps
\* ... or read only.
LEMMA PassesBy ==
  ASSUME RowsTyped, UNCHANGED <<call, rows>>, NEW r \in Requests,
         target'[r] = target[r], seen'[r] = seen[r],
         pc'[r] \in Finders => pc[r] \in Finders,
         pc'[r] \in Returners => pc[r] \in Returners, pc'[r] \notin Searchers
  PROVE  Keeps(r)
BY SightKept, SameRows DEF Keeps
\* The text of an update is saved as a row of the kind that was found.
LEMMA TextFits ==
  ASSUME OnTheWay, RowsTyped, NEW r \in Requests, pc[r] = "save_content"
  PROVE  /\ target[r] \in Requests /\ target[r] = On(r) /\ seen[r] # NONE
         /\ Op(target[r]) \in Creates
         /\ Op(r) = "updateArticle" <=> IsArticle(target[r])
         /\ RowFits(Op(target[r]),
                    [slug |-> NewSlug(r),
                     status |-> IF Arg(r) = "NONE" THEN seen[r].status ELSE Arg(r),
                     text |-> r])
<1>0. call \in Plans /\ Fits(Op(r), pc[r]) /\ Grips(r) /\ Sight(r) /\ Facing(r)
  BY DEF OnTheWay, RowsTyped
<1>1. Op(r) \in Updates /\ target[r] \in Requests /\ target[r] = On(r) /\ seen[r] # NONE
  BY <1>0 DEF Fits, Grips, Finders, Facing
<1>2. Op(target[r]) \in Creates /\ RowFits(Op(target[r]), seen[r])
      /\ (IsArticle(target[r]) <=> Op(r) = "updateArticle")
  BY <1>0, <1>1, CallsTyped, ServicesAssumption DEF Names, Updates, Creates, ArticleCreates,
     OfProducts, Sight, IsArticle
<1> DEFINE status == IF Arg(r) = "NONE" THEN seen[r].status ELSE Arg(r)
           row == [slug |-> NewSlug(r), status |-> status, text |-> r]
<1>3. Key(r) \in Keys \cup {NONE} /\ Arg(r) \in Bodies[Op(r)]
  BY <1>0, <1>1, BodiesTyped DEF Bodies, Updates
<1>4. CASE Op(r) = "updateArticle"
  BY <1>2, <1>4, <1>3, <1>1, Fitting DEF RowFits, IsArticle, NewSlug, ArticleRows, Bodies
<1>5. CASE Op(r) = "updateProduct"
  BY <1>2, <1>5, <1>3, <1>1, Fitting DEF RowFits, IsArticle, Creates, NewSlug, ProductRows, Bodies
<1>6. QED
  BY <1>1, <1>4, <1>5 DEF Updates
--------------------
\* Every step keeps the types: content, ...
LEMMA ContentKeepsRows ==
  ASSUME OnTheWay, RowsTyped, UNCHANGED call, NEW r \in Requests, ContentStep(r)
  PROVE  Keeps(r)
<1>0. LocalsTyped /\ call \in Plans /\ Fits(Op(r), pc[r]) /\ Grips(r) /\ Sight(r) /\ Facing(r)
  BY DEF OnTheWay, RowsTyped
<1> USE <1>0
<1>1. CASE CreateFind(r)
  BY <1>1, Goes, Stays, PassesBy DEF CreateFind, recordVars, Finders, Returners,
     Searchers
<1>2. CASE CreateInsert(r)
  BY <1>2, ContentTyped, Goes, HasRead, SightTaken, PutFits DEF CreateInsert, Fits,
     Finders, Returners, Searchers, Creates, ArticleCreates, AbandonedOps, Keeps
<1>3. CASE CreateDetail(r)
  BY <1>3, Goes, Stays, PassesBy DEF CreateDetail, recordVars, Finders, Returners,
     Searchers
<1>4. CASE DetailRejected(r)
  BY <1>4, Goes, Stays, PassesBy DEF DetailRejected, recordVars, Finders,
     Returners, Searchers
<1>5. CASE UndoCreate(r)
  BY <1>5, Goes, HasRead, SightTaken, PutFits DEF UndoCreate, Fits, Finders, Returners,
     Searchers, Creates, ArticleCreates, AbandonedOps, Keeps
<1>6. CASE UpdateFind(r)
  BY <1>6, FindsFit DEF UpdateFind, AbandonedOps, Returners, Searchers, Updates
<1>7. CASE FindDetail(r)
  BY <1>7, Goes, Stays, PassesBy DEF FindDetail, Finders, Returners, Searchers
<1>8. CASE createRevision(r)
  BY <1>8, Goes, Stays, PassesBy DEF createRevision, recordVars, Finders,
     Returners, Searchers
<1>9. CASE SaveContent(r)
  BY <1>9, TextFits, SavesFit DEF SaveContent, Finders, Returners, Searchers
<1>10. CASE SaveRedirect(r)
  BY <1>10, Goes, Stays, PassesBy DEF SaveRedirect, recordVars, Finders, Returners,
     Searchers
<1>11. CASE RefindDetail(r)
  BY <1>11, Goes, Stays, PassesBy DEF RefindDetail, recordVars, Finders, Returners,
     Searchers
<1>12. CASE SaveDetail(r)
  BY <1>12, Goes, PassesBy DEF SaveDetail, recordVars, Finders, Returners,
     Searchers
<1>13. CASE DeleteFind(r)
  BY <1>13, FindsFit DEF DeleteFind, AbandonedOps, Returners, Searchers, Deletes
<1>14. CASE DeleteRow(r)
  BY <1>14, Goes, Stays, SightKept, PutFits DEF DeleteRow, Finders, Returners, Searchers,
     Grips, Keeps
<1>15. CASE DeleteDetail(r)
  BY <1>15, Goes, Stays, PassesBy DEF DeleteDetail, recordVars, Finders, Returners,
     Searchers
<1>16. CASE DeleteRevisions(r)
  BY <1>16, Goes, Stays, PassesBy DEF DeleteRevisions, recordVars, Finders,
     Returners, Searchers
<1>17. CASE DeleteRedirects(r)
  BY <1>17, Goes, Stays, PassesBy DEF DeleteRedirects, recordVars, Finders,
     Returners, Searchers
<1>18. CASE DeleteShortlinks(r)
  BY <1>18, Goes, Stays, SightKept DEF DeleteShortlinks, Finders, Returners, Searchers,
     RowsKeep, Keeps
<1>19. CASE PublishFind(r)
  <2> USE <1>19 DEF PublishFind, Began
  <2>1. target'[r] = target[r] /\ seen'[r] = rows /\ pc'[r] = "publish"
        /\ todo'[r] = {x \in Contents : rows[x].status = "SCHEDULED"}
    BY Goes DEF LocalsTyped
  <2>2. \A q : Op(q)' = Op(q)
    BY DEF Op
  <2>3. Sight(r)'
    BY <2>2 DEF Sight
  <2>4. \A x \in todo'[r] : x \in Requests /\ IsArticle(x) /\ RowFits(Op(x), rows[x])
    <3> SUFFICES ASSUME NEW x \in Requests, Op(x) \in Creates, rows[x] # NONE,
                        rows[x].status = "SCHEDULED"
                 PROVE  IsArticle(x) /\ RowFits(Op(x), rows[x])
      BY <2>1 DEF Contents
    <3>1. RowFits(Op(x), rows[x])
      BY DEF RowsTyped
    <3>2. QED
      BY <3>1 DEF RowFits, ProductRows, IsArticle, Creates
  <2>5. Facing(r)'
    BY <2>1, <2>2, <2>4 DEF Facing, Finders, Returners, Searchers, AbandonedOps, RowFits,
    IsArticle
  <2>6. QED
    BY <2>3, <2>5, SameRows DEF Keeps, recordVars
<1>20. CASE PublishEnd(r)
  BY <1>20, Goes, Stays, PassesBy DEF PublishEnd, recordVars, Finders, Returners,
     Searchers
<1>21. CASE cleanupOldRevisions(r)
  BY <1>21, Goes, Stays, PassesBy DEF cleanupOldRevisions, Began, recordVars,
     Finders, Returners, Searchers
<1>22. ASSUME NEW x \in Requests, Publish(r, x)
      PROVE  Keeps(r)
  <2> USE <1>22 DEF Publish
  <2> DEFINE row == [seen[r][x] EXCEPT !.status = "PUBLISHED"]
  <2>1. Op(r) = "processScheduledPosts" /\ x \in Requests /\ Op(x) \in Creates
    BY DEF Fits, Grips
  <2>2. IsArticle(x) /\ RowFits(Op(x), seen[r][x])
    BY DEF Facing
  <2>3. RowFits(Op(x), row)
    BY <2>2, Fitting DEF RowFits, ArticleRows, IsArticle
  <2>4. target'[r] = target[r] /\ seen'[r] = seen[r] /\ pc'[r] = "publish"
        /\ todo'[r] = todo[r] \ {x}
    BY DEF LocalsTyped
  <2>5. \A q : Op(q)' = Op(q)
    BY DEF Op
  <2>6. Sight(r)'
    BY <2>1, <2>5 DEF Sight
  <2>7. Facing(r)'
    BY <2>1, <2>4, <2>5 DEF Facing, Finders, Returners, Searchers, AbandonedOps, RowFits,
    IsArticle
  <2>8. QED
    BY <2>1, <2>3, <2>6, <2>7, PutFits DEF Keeps
<1>23. CASE GetContent(r)
  BY <1>23, FindsFit DEF GetContent, AbandonedOps, Returners, Searchers
<1>24. CASE GetDetail(r)
  BY <1>24, Goes, Stays, PassesBy DEF GetDetail, recordVars, Finders, Returners,
     Searchers
<1>25. CASE ListContent(r)
  BY <1>25, Goes, HasSeen, PassesBy DEF ListContent, Answer, Began, recordVars,
     Finders, Returners, Searchers
<1>26. CASE SearchRows(r)
  BY <1>26, Goes, HasSeen, SameRows DEF SearchRows, Began, Contents, Facing, Searchers,
     Op, Sight, RowFits, Finders, Returners, Keeps, recordVars
<1>27. CASE SearchDetails(r)
  BY <1>27, Goes, HasSeen, SameRows DEF SearchDetails, Contents, Facing, Searchers, Op,
     Sight, RowFits, Finders, Returners, Keeps, recordVars
<1>28. CASE SearchBoth(r)
  BY <1>28, Goes, HasSeen, SameRows DEF SearchBoth, Contents, Facing, Searchers, Op,
     Sight, RowFits, Finders, Returners, Keeps, recordVars
<1>29. CASE logSearch(r)
  BY <1>29, Goes, Stays, SightKept, ServicesAssumption, FS_Subset, FS_CardinalityType,
     Fitting, PutFits DEF logSearch, Finders, Returners, Searchers, Fits, Facing, Keeps
<1>30. CASE createShortlink(r)
  BY <1>30, BodiesTyped, Fitting, InsertsFit DEF createShortlink, Insert, Began, Keyed,
     Shortlinks
<1>31. CASE resolveShortlink(r)
  <2> USE <1>31 DEF resolveShortlink
  <2>1. CASE pc[r] = "click"
    <3>1. Op(r) = "resolveShortlink" /\ target[r] \in Requests /\ target[r] = On(r)
         /\ seen[r] # NONE
      BY <2>1 DEF Fits, Grips, Finders, Facing
    <3>2. Op(target[r]) = "createShortlink" /\ RowFits("createShortlink", seen[r])
      BY <3>1, CallsTyped, ServicesAssumption DEF Names, OfProducts, Sight
    <3>3. [seen[r] EXCEPT !.clicks = @ + 1] \in Shortlinks
      BY <3>2 DEF RowFits, Shortlinks
    <3>4. RowFits(Op(target[r]), [seen[r] EXCEPT !.clicks = @ + 1])
      BY <3>2, <3>3, Fitting
    <3>5. Save(r, [seen[r] EXCEPT !.clicks = @ + 1], "ok")
      BY <2>1 DEF Began
    <3>6. QED
      BY <3>1, <3>4, <3>5, SavesFit DEF Finders, Returners, Searchers
  <2>2. CASE pc[r] # "click"
    BY <2>2, FindsFit DEF Began, AbandonedOps, Returners, Searchers
  <2>3. QED
    BY <2>1, <2>2
<1>32. QED
  BY <1>1, <1>2, <1>3, <1>4, <1>5, <1>6, <1>7, <1>8, <1>9, <1>10, <1>11, <1>12, <1>13,
       <1>14, <1>15, <1>16, <1>17, <1>18, <1>19, <1>20, <1>21, <1>22, <1>23, <1>24, <1>25,
       <1>26, <1>27, <1>28, <1>29, <1>30, <1>31 DEF ContentStep, CreateStep, UpdateStep,
       DeleteStep, JobStep, ReadStep
--------------------
\* ... what is cached, ...
LEMMA CacheKeepsRows ==
  ASSUME OnTheWay, RowsTyped, UNCHANGED call, NEW r \in Requests, CacheStep(r)
  PROVE  Keeps(r)
<1>0. LocalsTyped /\ call \in Plans /\ Fits(Op(r), pc[r]) /\ Grips(r) /\ Sight(r) /\ Facing(r)
  BY DEF OnTheWay, RowsTyped
<1> USE <1>0
<1>1. CASE CacheGet(r)
  BY <1>1, Goes, Stays, PassesBy DEF CacheGet, Finders, Returners, Searchers
<1>2. CASE CacheQuery(r)
  BY <1>2, Goes, Stays, PassesBy DEF CacheQuery, Finders, Returners, Searchers
<1>3. CASE CacheSet(r)
  BY <1>3, Goes, Stays, PassesBy DEF CacheSet, recordVars, Finders, Returners, Searchers
<1>4. CASE LogCoupon(r)
  <2> USE <1>4 DEF LogCoupon
  <2>1. target'[r] = target[r] /\ seen'[r] = seen[r] /\ pc'[r] = "ok"
    BY Goes, Stays
  <2>2. Sight(r)' /\ Facing(r)'
    BY <2>1, SightKept DEF Finders, Returners, Searchers
  <2>3. Op(r) = "validateCoupon"
    BY DEF Fits
  <2>4. PICK valid \in BOOLEAN : Put(r, [valid |-> valid])
    OBVIOUS
  <2>5. RowFits(Op(r), [valid |-> valid])
    BY <2>3, Fitting
  <2>6. QED
    BY <2>2, <2>4, <2>5, PutFits DEF Keeps
<1>5. CASE createCoupon(r)
  <2> USE <1>5 DEF createCoupon
  <2>1. target'[r] = target[r] /\ seen'[r] = seen[r] /\ pc'[r] = "cache_set"
    BY Goes, Stays
  <2>2. Sight(r)' /\ Facing(r)'
    BY <2>1, SightKept DEF Finders, Returners, Searchers
  <2>3. Op(r) = "createCoupon" /\ Key(r) \in Keys
    BY BodiesTyped DEF Began, Keyed
  <2>4. [code |-> Key(r), active |-> TRUE, text |-> r] \in Coupons
    BY <2>3 DEF Coupons
  <2>5. RowFits(Op(r), [code |-> Key(r), active |-> TRUE, text |-> r])
    BY <2>3, <2>4, Fitting
  <2>6. QED
    BY <2>2, <2>5, PutFits DEF Keeps
<1>6. CASE CouponFind(r)
  BY <1>6, FindsFit DEF CouponFind, AbandonedOps, Returners, Searchers
<1>7. CASE SaveCoupon(r)
  <2> USE <1>7 DEF SaveCoupon
  <2>1. Op(r) \in {"updateCoupon", "removeCoupon"} /\ target[r] \in Requests
        /\ target[r] = On(r) /\ seen[r] # NONE
    BY DEF Fits, Grips, Finders, Facing
  <2>2. Op(target[r]) = "createCoupon" /\ RowFits("createCoupon", seen[r])
    BY <2>1, CallsTyped, ServicesAssumption DEF Names, OfProducts, Sight
  <2>3. NewCoupon(r) \in Coupons
    BY <2>2, <2>1, BodiesTyped DEF RowFits, NewCoupon, Coupons, Keyed
  <2>4. RowFits(Op(target[r]), NewCoupon(r))
    BY <2>2, <2>3, Fitting
  <2>5. target'[r] = target[r] /\ seen'[r] = seen[r] /\ pc'[r] \in {"cache_del", "cache_set"}
    BY Goes, HasWritten
  <2>6. Sight(r)' /\ Facing(r)'
    BY <2>5, SightKept DEF Finders, Returners, Searchers
  <2>7. QED
    BY <2>1, <2>4, <2>6, PutFits DEF Keeps
<1>8. CASE createPromotion(r)
  <2> USE <1>8 DEF createPromotion
  <2>1. target'[r] = target[r] /\ seen'[r] = seen[r] /\ pc'[r] = "cache_del"
    BY Goes, Stays
  <2>2. Sight(r)' /\ Facing(r)'
    BY <2>1, SightKept DEF Finders, Returners, Searchers
  <2>3. Op(r) = "createPromotion" /\ [active |-> TRUE, text |-> r] \in Promotions
    BY DEF Began, Promotions
  <2>4. RowFits(Op(r), [active |-> TRUE, text |-> r])
    BY <2>3, Fitting
  <2>5. QED
    BY <2>2, <2>4, PutFits DEF Keeps
<1>9. CASE PromotionFind(r)
  BY <1>9, FindsFit DEF PromotionFind, AbandonedOps, Returners, Searchers
<1>10. CASE SavePromotion(r)
  <2> USE <1>10 DEF SavePromotion
  <2> DEFINE row == IF Op(r) = "removePromotion" THEN [seen[r] EXCEPT !.active = FALSE]
                    ELSE [active |-> Arg(r) = "ACTIVE", text |-> r]
  <2>1. Op(r) \in {"updatePromotion", "removePromotion"} /\ target[r] \in Requests
        /\ target[r] = On(r) /\ seen[r] # NONE
    BY DEF Fits, Grips, Finders, Facing
  <2>2. Op(target[r]) = "createPromotion" /\ RowFits("createPromotion", seen[r])
    BY <2>1, CallsTyped, ServicesAssumption DEF Names, OfProducts, Sight
  <2>3. row \in Promotions
    BY <2>2 DEF RowFits, Promotions
  <2>4. RowFits(Op(target[r]), row)
    BY <2>2, <2>3, Fitting
  <2>5. QED
    BY <2>1, <2>4, SavesFit DEF Finders, Returners, Searchers
<1>11. CASE MenuFind(r)
  <2> USE <1>11 DEF MenuFind, Began
  <2> DEFINE found == {x \in Table("saveMenu") : rows[x].slug = Key(r)}
             x == IF found = {} THEN r ELSE CHOOSE y \in found : TRUE
  <2>1. x \in Requests /\ Op(x) = "saveMenu"
    BY DEF Table
  <2> HIDE DEF x
  <2>2. rows[x] = NONE \/ RowFits(Op(x), rows[x])
    BY <2>1 DEF RowsTyped
  <2>3. Reads(r, x, rows[x])
    BY DEF x
  <2>4. target'[r] = x /\ seen'[r] = rows[x] /\ pc'[r] = "save_menu"
    BY <2>3, Goes, HasRead
  <2>5. Sight(r)' /\ Facing(r)'
    BY <2>1, <2>2, <2>4, SightTaken DEF Finders, Returners, Searchers, AbandonedOps
  <2>6. QED
    BY <2>5, SameRows DEF Keeps, recordVars
<1>12. CASE SaveMenu(r)
  <2> USE <1>12 DEF SaveMenu
  <2> DEFINE row == [slug |-> Key(r), location |-> Place(r), text |-> r]
  <2>1. Op(r) = "saveMenu" /\ Key(r) \in Keys /\ Place(r) \in Keys
    BY BodiesTyped DEF Fits, Keyed
  <2>2. row \in Menus
    BY <2>1 DEF Menus
  <2>3. CASE target[r] \in Requests
    BY <2>1, <2>3, <2>2, Fitting, SavesFit DEF Grips, Reaches, Names, AbandonedOps,
       OfProducts, ArticleCreates, Finders, Returners, Searchers
  <2>4. CASE target[r] \notin Requests
    BY <2>4, Goes, HasWritten, SightKept DEF Save, Finders, Returners, Searchers, Put,
       RowsKeep, LocalsTyped, Keeps
  <2>5. QED
    BY <2>3, <2>4
<1>13. CASE CacheDel(r)
  BY <1>13, Goes, Stays, PassesBy DEF CacheDel, recordVars, Finders, Returners, Searchers
<1>14. CASE CacheListStep(r)
  BY <1>14, Goes, HasSeen, PassesBy DEF CacheListStep, Answer, recordVars, Finders,
     Returners, Searchers
<1>15. QED
  BY <1>1, <1>2, <1>3, <1>4, <1>5, <1>6, <1>7, <1>8, <1>9, <1>10, <1>11, <1>12, <1>13,
       <1>14 DEF CacheStep, CacheReadStep, CouponStep, PromotionStep, MenuStep
--------------------
\* ... learning, ...
LEMMA LearningKeepsRows ==
  ASSUME OnTheWay, RowsTyped, UNCHANGED call, NEW r \in Requests, LearningStep(r)
  PROVE  Keeps(r)
<1>0. LocalsTyped /\ call \in Plans /\ Fits(Op(r), pc[r]) /\ Grips(r) /\ Sight(r) /\ Facing(r)
  BY DEF OnTheWay, RowsTyped
<1> USE <1>0
<1>1. CASE createCourse(r)
  <2> USE <1>1 DEF createCourse
  <2>1. CASE pc[r] = "insert_course"
    <3>1. target'[r] = target[r] /\ seen'[r] = seen[r] /\ pc'[r] = "ok"
      BY <2>1, Goes, Stays DEF Began
    <3>2. Sight(r)' /\ Facing(r)'
      BY <3>1, SightKept DEF Finders, Returners, Searchers
    <3> DEFINE row == [slug |-> Key(r), strict |-> Arg(r) = "STRICT", thumbnail |-> NONE]
    <3>3. Op(r) = "createCourse" /\ Key(r) \in Keys
      BY <2>1, BodiesTyped DEF Fits, Keyed
    <3>4. row \in CourseRows
      BY <3>3 DEF CourseRows
    <3>5. RowFits(Op(r), row)
      BY <3>3, <3>4, LearningFitting
    <3>6. Put(r, row)
      BY <2>1 DEF Began
    <3>7. QED
      BY <3>2, <3>5, <3>6, PutFits DEF Keeps
  <2>2. CASE pc[r] # "insert_course"
    BY <2>2, Goes, Stays, PassesBy DEF Began, recordVars, Finders, Returners, Searchers
  <2>3. QED
    BY <2>1, <2>2
<1>2. CASE updateThumbnail(r)
  <2> USE <1>2 DEF updateThumbnail
  <2>1. CASE pc[r] = "save_thumbnail"
    BY <2>1, CallsTyped, ServicesAssumption, LearningFitting, SavesFit DEF Fits, Grips,
       Finders, Facing, Names, OfProducts, Sight, RowFits, CourseRows, Began, Returners, Searchers
  <2>2. CASE pc[r] = "upload_thumbnail"
    BY <2>2, Goes, Stays, PassesBy DEF Began, recordVars, Finders, Returners, Searchers
  <2>3. CASE pc[r] \notin {"upload_thumbnail", "save_thumbnail"}
    BY <2>3, FindsFit DEF Began, AbandonedOps, Returners, Searchers
  <2>4. QED
    BY <2>1, <2>2, <2>3
<1>3. CASE deleteCourse(r)
  BY <1>3, Goes, Stays, SightKept, FindsFit DEF deleteCourse, Began, Finders, Returners,
     Searchers, RowsKeep, Keeps, AbandonedOps
<1>4. CASE addChapter(r)
  BY <1>4, BodiesTyped, LearningFitting, InsertsFit DEF addChapter, Insert, Began,
     ChapterRows, OnRow
<1>5. CASE addLesson(r)
  <2> USE <1>5 DEF addLesson
  <2>1. Op(r) = "addLesson"
    BY DEF Insert, Began
  <2>2. [chapter |-> On(r), order |-> call[r].no,
         preview |-> Arg(r) = "PREVIEW"] \in LessonRows
    BY <2>1, BodiesTyped DEF LessonRows, OnRow
  <2>3. RowFits("addLesson", [chapter |-> On(r), order |-> call[r].no,
         preview |-> Arg(r) = "PREVIEW"])
    BY <2>2, LearningFitting
  <2>4. QED
    BY <2>3, InsertsFit
<1>6. CASE Reorder(r)
  <2> USE <1>6 DEF Reorder
  <2>1. CASE pc[r] = "reorder"
    <3>1. target'[r] = target[r] /\ seen'[r] = seen[r]
      BY <2>1, Stays DEF Began
    <3>2. pc'[r] \in {"reorder", "ok"}
      BY <2>1, Goes DEF Began
    <3>3. Sight(r)' /\ Facing(r)'
      BY <3>1, <3>2, SightKept DEF Finders, Returners, Searchers
    <3>4. Op(r) \in {"reorderLessons", "reorderChapters"} /\ held[r] \in 1 .. Len(call[r].ids)
          /\ call[r].ids \in Seq(Requests)
      BY <2>1, CallsTyped DEF Fits, Grips
    <3>5. PICK x \in Requests : x = call[r].ids[held[r]]
      BY <3>4
    <3>6. Op(x) \in {"addLesson", "addChapter"}
      BY <3>4, <3>5, CallsTyped DEF Reordered
    <3>7. held[r] - 1 \in Nat
      BY <3>4
    <3> DEFINE row == IF rows[x] = NONE THEN NONE ELSE [rows[x] EXCEPT !.order = held[r] - 1]
    <3>8. Put(x, row)
      BY <2>1, <3>5 DEF Began, Put
    <3>9. row = NONE \/ RowFits(Op(x), row)
      BY <3>7, <3>6, LearningFitting DEF RowsTyped, RowFits, LessonRows, ChapterRows
    <3> HIDE DEF row
    <3>10. QED
      BY <3>3, <3>8, <3>9, PutFits DEF Keeps
  <2>2. CASE pc[r] # "reorder"
    BY <2>2, Goes, Stays, PassesBy DEF Finders, Returners, Searchers
  <2>3. QED
    BY <2>1, <2>2
<1>7. CASE FindLesson(r)
  <2>1. PICK label \in {"ok", "find_enrollment"} : Find(r, label)
    BY <1>7 DEF FindLesson
  <2>2. QED
    BY <1>7, <2>1, FindsFit DEF FindLesson, Began, AbandonedOps, Returners, Searchers
<1>8. CASE FindEnrollment(r)
  BY <1>8, Goes, Stays, PassesBy DEF FindEnrollment, recordVars, Finders,
     Returners, Searchers
<1>9. CASE FindCourse(r)
  BY <1>9, Goes, Stays, PassesBy DEF FindCourse, recordVars, Finders, Returners, Searchers
<1>10. CASE FindPrevious(r)
  BY <1>10, Goes, Stays, PassesBy DEF FindPrevious, Finders, Returners, Searchers
<1>11. CASE CheckPrevious(r)
  BY <1>11, Goes, Stays, PassesBy DEF CheckPrevious, recordVars, Finders,
     Returners, Searchers
<1>12. CASE FindProgress(r)
  <2> USE <1>12 DEF FindProgress, Began
  <2> DEFINE found == ProgressOn(On(r), By(r))
             x == IF found = {} THEN r ELSE CHOOSE y \in found : TRUE
  <2>1. x \in Requests /\ Op(x) = "updateProgress" /\ (x = r \/ rows[x] # NONE)
        /\ Resumes(Op(r), Op(x))
    BY DEF Table, ProgressOn, Resumes
  <2> HIDE DEF x
  <2>2. rows[x] = NONE \/ RowFits(Op(x), rows[x])
    BY <2>1 DEF RowsTyped
  <2>3. Reads(r, x, rows[x])
    BY DEF x
  <2>4. target'[r] = x /\ seen'[r] = rows[x]
    BY <2>3, HasRead
  <2>5. pc'[r] \in {"find_points", "save_progress"}
    BY Goes
  <2>6. Sight(r)' /\ Facing(r)'
    BY <2>1, <2>2, <2>4, <2>5, SightTaken DEF Finders, Returners, Searchers, AbandonedOps
  <2>7. QED
    BY <2>6, SameRows DEF Keeps, recordVars
<1>13. CASE FindPoints(r)
  BY <1>13, Goes, Stays, PassesBy DEF FindPoints, recordVars, Finders, Returners,
     Searchers
<1>14. CASE awardXP(r)
  BY <1>14, Goes, Stays, PassesBy DEF awardXP, recordVars, Finders, Returners,
     Searchers
<1>15. CASE AwardFails(r)
  BY <1>15, Goes, Stays, PassesBy DEF AwardFails, recordVars, Finders, Returners,
     Searchers
<1>16. CASE SaveProgress(r)
  <2> USE <1>16 DEF SaveProgress
  <2> DEFINE row == IF target[r] = r
                    THEN [user |-> By(r), course |-> Place(r), lesson |-> On(r),
                          done |-> Arg(r) = "DONE"]
                    ELSE [seen[r] EXCEPT !.done = @ \/ Arg(r) = "DONE"]
  <2>1. Op(r) = "updateProgress" /\ On(r) \in Requests /\ Place(r) \in Requests
        /\ By(r) \in People
    BY BodiesTyped DEF Fits, OnRow
  <2>2. CASE target[r] = r
    <3>1. row \in ProgressRows
      BY <2>1, <2>2 DEF ProgressRows
    <3>2. RowFits(Op(target[r]), row)
      BY <2>1, <2>2, <3>1, LearningFitting
    <3>3. QED
      BY <2>2, <3>2, SavesFit DEF Finders, Returners, Searchers
  <2>3. CASE target[r] # r
    BY <2>1, <2>3, LearningFitting, SavesFit DEF Facing, Sight, Returners, Resumes,
       RowFits, ProgressRows, Finders, Searchers
  <2>4. QED
    BY <2>2, <2>3
<1>17. CASE FindCertificate(r)
  BY <1>17, Goes, Stays, PassesBy DEF FindCertificate, recordVars, Finders, Returners,
     Searchers
<1>18. CASE CountLessons(r)
  BY <1>18, Goes, Stays, PassesBy DEF CountLessons, recordVars, Finders, Returners,
     Searchers
<1>19. CASE CountCompleted(r)
  BY <1>19, Goes, Stays, PassesBy DEF CountCompleted, recordVars, Finders, Returners,
     Searchers
<1>20. CASE InsertCertificate(r)
  BY <1>20, Goes, Stays, SightKept, BodiesTyped, LearningFitting,
     PutFits DEF InsertCertificate, Finders, Returners, Searchers, Fits, CertificateRows, Live,
     Keeps
<1>21. CASE createReview(r)
  BY <1>21, Goes, Stays, SightKept, BodiesTyped, LearningFitting, PutFits,
     PassesBy DEF createReview, Finders, Returners, Searchers, Fits, ReviewRows, OnRow, Keeps,
     recordVars
<1>22. CASE FindAssessment(r)
  BY <1>22, FindsFit DEF FindAssessment, Began, AbandonedOps, Returners, Searchers
<1>23. CASE CountAttempts(r)
  BY <1>23, Goes, Stays, PassesBy DEF CountAttempts, recordVars, Finders,
     Returners, Searchers
<1>24. CASE InsertAttempt(r)
  BY <1>24, Goes, Stays, SightKept, BodiesTyped, LearningFitting,
     PutFits DEF InsertAttempt, Finders, Returners, Searchers, Fits, Grips, AttemptRows, Keeps
<1>25. CASE FindAttempt(r)
  BY <1>25, FindsFit DEF FindAttempt, Began, AbandonedOps, Returners, Searchers
<1>26. CASE FindQuestions(r)
  BY <1>26, Goes, Stays, PassesBy DEF FindQuestions, recordVars, Finders,
     Returners, Searchers
<1>27. CASE InsertSubmission(r)
  BY <1>27, Goes, Stays, SightKept, LearningFitting, PutFits DEF InsertSubmission,
     Finders, Returners, Searchers, Fits, Grips, SubmissionRows, Keeps
<1>28. CASE SaveAttempt(r)
  <2> USE <1>28 DEF SaveAttempt
  <2>1. Op(r) \in {"submitAssessment"} /\ target[r] \in Requests /\ target[r] = On(r)
        /\ seen[r] # NONE
    BY DEF Fits, Grips, Finders, Facing
  <2>2. Op(target[r]) = "startAttempt" /\ RowFits("startAttempt", seen[r])
    BY <2>1, CallsTyped, ServicesAssumption DEF Names, OfProducts, Sight
  <2>3. [seen[r] EXCEPT !.status = "COMPLETED"] \in AttemptRows
    BY <2>1, <2>2 DEF RowFits, AttemptRows
  <2>4. RowFits(Op(target[r]), [seen[r] EXCEPT !.status = "COMPLETED"])
    BY <2>2, <2>3, LearningFitting
  <2>5. QED
    BY <2>1, <2>4, SavesFit DEF Finders, Returners, Searchers
<1>29. CASE uploadAssignment(r)
  <2> USE <1>29 DEF uploadAssignment
  <2>1. CASE pc[r] \notin {"find_submission", "save_submission"}
    BY <2>1, Goes, Stays, PassesBy DEF Began, recordVars, Finders, Returners, Searchers
  <2>2. CASE pc[r] = "find_submission"
    <3>1. Op(r) = "uploadAssignment" /\ pc'[r] = "save_submission" /\ UNCHANGED rows
      BY <2>2, Goes DEF Fits, Began, recordVars
    <3>2. \E x \in Requests : \E row :
            Reads(r, x, row) /\ ((x = r /\ row = NONE) \/ (x \in Submissions(On(r))
            /\ row = rows[x]))
      BY <2>2 DEF Began, Submissions, Table
    <3>8. PICK x \in Requests : \E row :
            Reads(r, x, row) /\ ((x = r /\ row = NONE) \/ (x \in Submissions(On(r))
            /\ row = rows[x]))
      BY <3>2
    <3>9. PICK row :
            Reads(r, x, row) /\ ((x = r /\ row = NONE) \/ (x \in Submissions(On(r))
            /\ row = rows[x]))
      BY <3>8
    <3>3. row = NONE \/ RowFits(Op(x), row)
      BY <3>9 DEF RowsTyped
    <3>4. x = r \/ (row # NONE /\ Resumes(Op(r), Op(x)))
      BY <3>1, <3>9 DEF Submissions, Table, Resumes
    <3>5. target'[r] = x /\ seen'[r] = row
      BY <3>9, HasRead
    <3>6. Sight(r)' /\ Facing(r)'
      BY <3>1, <3>3, <3>4, <3>5, SightTaken DEF Finders, Returners, Searchers, AbandonedOps
    <3>7. QED
      BY <3>1, <3>6, SameRows DEF Keeps
  <2>3. CASE pc[r] = "save_submission"
    <3> DEFINE row == IF target[r] = r THEN [attempt |-> On(r), answers |-> NONE, files |-> {r}]
                      ELSE [seen[r] EXCEPT !.files = @ \cup {r}]
    <3>1. Op(r) = "uploadAssignment" /\ On(r) \in Requests
      BY <2>3, BodiesTyped DEF Fits, OnRow
    <3>2. Save(r, row, "ok")
      BY <2>3 DEF Began
    <3>3. CASE target[r] = r
      BY <3>1, <3>3, <3>2, LearningFitting, SavesFit DEF SubmissionRows, Finders, Returners,
         Searchers
    <3>4. CASE target[r] # r
      BY <2>3, <3>1, <3>4, <3>2, LearningFitting, SavesFit DEF Facing, Sight, Returners,
         Resumes, RowFits, SubmissionRows, Finders, Searchers
    <3>5. QED
      BY <3>3, <3>4
  <2>4. QED
    BY <2>1, <2>2, <2>3
<1>30. CASE updateEnrollmentStatus(r)
  <2> USE <1>30 DEF updateEnrollmentStatus
  <2>1. CASE pc[r] = "save_enrollment"
    <3>1. Op(r) \in {"updateEnrollmentStatus"} /\ target[r] \in Requests
          /\ target[r] = On(r) /\ seen[r] # NONE
      BY <2>1 DEF Fits, Grips, Finders, Facing
    <3>2. Op(target[r]) = "enroll" /\ RowFits("enroll", seen[r])
      BY <3>1, CallsTyped, ServicesAssumption DEF Names, OfProducts, Sight
    <3>3. [seen[r] EXCEPT !.status = Arg(r)] \in EnrollmentRows
      BY <3>1, <3>2, BodiesTyped DEF RowFits, EnrollmentRows, Bodies
    <3>4. RowFits(Op(target[r]), [seen[r] EXCEPT !.status = Arg(r)])
      BY <3>2, <3>3, LearningFitting
    <3>5. Save(r, [seen[r] EXCEPT !.status = Arg(r)], "ok")
      BY <2>1 DEF Began
    <3>6. QED
      BY <3>1, <3>4, <3>5, SavesFit DEF Finders, Returners, Searchers
  <2>2. CASE pc[r] # "save_enrollment"
    BY <2>2, FindsFit DEF Began, AbandonedOps, Returners, Searchers
  <2>3. QED
    BY <2>1, <2>2
<1>31. CASE AddRemark(r)
  <2> USE <1>31 DEF AddRemark
  <2>1. ASSUME Op(r) \in {"createNote", "createThread", "addComment", "uploadMaterial"},
               On(r) \in Requests
        PROVE  RowFits(Op(r), Remark(r))
    BY <2>1, BodiesTyped, LearningFitting DEF Remark, Remarks
  <2>2. CASE Insert(r, "createNote", Remark(r))
    BY <2>1, <2>2, BodiesTyped, InsertsFit DEF Insert, Began, OnRow
  <2>3. CASE Insert(r, "createThread", Remark(r))
    BY <2>1, <2>3, BodiesTyped, InsertsFit DEF Insert, Began, OnRow
  <2>4. CASE Began(r, "addComment") /\ Find(r, "insert_remark")
    BY <2>4, FindsFit DEF Began, AbandonedOps, Returners, Searchers
  <2>5. CASE Began(r, "uploadMaterial") /\ Goto(r, "insert_remark")
             /\ UNCHANGED <<recordVars, locals>>
    BY <2>5, Goes, Stays, PassesBy DEF recordVars, Finders, Returners, Searchers
  <2>6. CASE pc[r] = "insert_remark" /\ Put(r, Remark(r)) /\ Goto(r, "ok")
             /\ UNCHANGED <<held, locals>>
    BY <2>6, <2>1, Goes, Stays, SightKept, BodiesTyped, PutFits DEF Finders, Returners,
       Searchers, Fits, OnRow, Keeps
  <2>7. QED
    BY <2>2, <2>3, <2>4, <2>5, <2>6
<1>32. CASE DeleteNote(r)
  BY <1>32, SavesFit, HasRead, Goes, BodiesTyped, SightTaken, SameRows DEF DeleteNote,
     Grips, Finders, Began, Returners, Searchers, recordVars, OnRow, RowsTyped, Live,
     AbandonedOps, Keeps
<1>33. CASE Report(r)
  BY <1>33, HasSeen, Goes, PassesBy DEF Report, recordVars, Finders, Returners, Searchers
<1>34. CASE AnswerLearner(r)
  BY <1>34, Goes, HasSeen, PassesBy DEF AnswerLearner, Answer, recordVars, Finders,
     Returners, Searchers
<1>35. QED
  BY <1>1, <1>2, <1>3, <1>4, <1>5, <1>6, <1>7, <1>8, <1>9, <1>10, <1>11, <1>12, <1>13,
       <1>14, <1>15, <1>16, <1>17, <1>18, <1>19, <1>20, <1>21, <1>22, <1>23, <1>24, <1>25,
       <1>26, <1>27, <1>28, <1>29, <1>30, <1>31, <1>32, <1>33, <1>34 DEF LearningStep,
       CourseStep, PlayerStep, CredentialStep, AssessmentStep
--------------------
\* ... modules, ...
LEMMA RegistryKeepsRows ==
  ASSUME OnTheWay, RowsTyped, UNCHANGED call, NEW r \in Requests, RegistryStep(r)
  PROVE  Keeps(r)
<1>0. LocalsTyped /\ call \in Plans /\ Fits(Op(r), pc[r]) /\ Grips(r) /\ Sight(r) /\ Facing(r)
  BY DEF OnTheWay, RowsTyped
<1> USE <1>0
<1>1. CASE createModule(r)
  BY <1>1, BodiesTyped, Fitting, InsertsFit DEF createModule, Insert, Began, ModuleRows,
     Keyed
<1>2. CASE FindModules(r)
  BY <1>2, Goes, Stays, PassesBy DEF FindModules, Finders, Returners, Searchers
<1>3. CASE FindInstalled(r)
  BY <1>3, Goes, Stays, PassesBy DEF FindInstalled, recordVars, Finders, Returners,
     Searchers
<1>4. CASE InsertRegistry(r)
  <2> USE <1>4 DEF InsertRegistry
  <2>1. target'[r] = target[r] /\ seen'[r] = seen[r] /\ pc'[r] = "ok"
    BY Goes, Stays
  <2>2. Sight(r)' /\ Facing(r)'
    BY <2>1, SightKept DEF Finders, Returners, Searchers
  <2>3. Op(r) = "createRegistry"
    BY DEF Fits
  <2>4. [key |-> Key(r), active |-> Arg(r) # "OFF"] \in RegistryRows
    BY <2>3, BodiesTyped DEF RegistryRows, Keyed
  <2>5. RowFits(Op(r), [key |-> Key(r), active |-> Arg(r) # "OFF"])
    BY <2>3, <2>4, Fitting
  <2>6. QED
    BY <2>2, <2>5, PutFits DEF Keeps
<1>5. CASE FindRegistry(r)
  <2>1. PICK label \in {"find_dependents", "save_registry"} : Find(r, label)
    BY <1>5 DEF FindRegistry
  <2>2. QED
    BY <1>5, <2>1, FindsFit DEF FindRegistry, Began, AbandonedOps, Returners, Searchers
<1>6. CASE FindDependents(r)
  BY <1>6, Goes, Stays, PassesBy DEF FindDependents, recordVars, Finders,
     Returners, Searchers
<1>7. CASE FindActive(r)
  BY <1>7, Goes, Stays, PassesBy DEF FindActive, recordVars, Finders, Returners,
     Searchers
<1>8. CASE SaveRegistry(r)
  <2> USE <1>8 DEF SaveRegistry
  <2> DEFINE row == [seen[r] EXCEPT !.active = CASE Arg(r) = "ON" -> TRUE
                                                 [] Arg(r) = "OFF" -> FALSE
                                                 [] OTHER -> @]
  <2>1. Op(r) = "updateRegistry" /\ target[r] \in Requests /\ target[r] = On(r)
        /\ seen[r] # NONE
    BY DEF Fits, Grips, Finders, Facing
  <2>2. Op(target[r]) = "createRegistry" /\ RowFits("createRegistry", seen[r])
    BY <2>1, CallsTyped, ServicesAssumption DEF Names, OfProducts, Sight
  <2>3. seen[r] \in RegistryRows
    BY <2>2 DEF RowFits
  <2>4. row \in RegistryRows
    BY <2>3 DEF RegistryRows
  <2>5. RowFits(Op(target[r]), row)
    BY <2>2, <2>4, Fitting
  <2>6. Save(r, row, "ok")
    OBVIOUS
  <2> HIDE DEF row
  <2>7. QED
    BY <2>1, <2>5, <2>6, SavesFit DEF Finders, Returners, Searchers
<1>9. CASE AnswerRegistry(r)
  BY <1>9, Goes, HasSeen, PassesBy DEF AnswerRegistry, Answer, recordVars, Finders,
     Returners, Searchers
<1>10. QED
  BY <1>1, <1>2, <1>3, <1>4, <1>5, <1>6, <1>7, <1>8, <1>9 DEF RegistryStep
--------------------
\* ... marketing, ...
LEMMA MarketingKeepsRows ==
  ASSUME OnTheWay, RowsTyped, UNCHANGED call, NEW r \in Requests, MarketingStep(r)
  PROVE  Keeps(r)
<1>0. LocalsTyped /\ call \in Plans /\ Fits(Op(r), pc[r]) /\ Grips(r) /\ Sight(r) /\ Facing(r)
  BY DEF OnTheWay, RowsTyped
<1> USE <1>0
<1>1. CASE createBundle(r)
  <2> USE <1>1 DEF createBundle
  <2>1. CASE pc[r] = "commit_bundle"
    <3>1. target'[r] = target[r] /\ seen'[r] = seen[r] /\ pc'[r] = "find_bundle"
      BY <2>1, Goes, Stays DEF Began
    <3>2. Sight(r)' /\ Facing(r)'
      BY <3>1, SightKept DEF Finders, Returners, Searchers
    <3>3. Op(r) = "createBundle"
      BY <2>1 DEF Fits
    <3>4. [active |-> TRUE, text |-> r] \in BundleRows
      BY DEF BundleRows
    <3>5. RowFits(Op(r), [active |-> TRUE, text |-> r])
      BY <3>3, <3>4, Fitting
    <3>6. Put(r, [active |-> TRUE, text |-> r])
      BY <2>1 DEF Began
    <3>7. QED
      BY <3>2, <3>5, <3>6, PutFits DEF Keeps
  <2>2. CASE pc[r] # "commit_bundle"
    BY <2>2, Goes, Stays, PassesBy DEF Began, recordVars, Finders, Returners, Searchers
  <2>3. QED
    BY <2>1, <2>2
<1>2. CASE changeBundle(r)
  <2> USE <1>2 DEF changeBundle
  <2>1. CASE pc[r] = "save_bundle"
    <3> DEFINE row == IF Op(r) = "removeBundle" THEN [seen[r] EXCEPT !.active = FALSE]
                      ELSE [active |-> Arg(r) = "ACTIVE", text |-> r]
    <3>1. Op(r) \in {"updateBundle", "removeBundle"} /\ target[r] \in Requests
          /\ target[r] = On(r) /\ seen[r] # NONE
      BY <2>1 DEF Fits, Grips, Finders, Facing
    <3>2. Op(target[r]) = "createBundle" /\ RowFits("createBundle", seen[r])
      BY <3>1, CallsTyped, ServicesAssumption DEF Names, OfProducts, Sight
    <3>3. seen[r] \in BundleRows
      BY <3>2 DEF RowFits
    <3>4. row \in BundleRows
      BY <3>3 DEF BundleRows
    <3>5. RowFits(Op(target[r]), row)
      BY <3>2, <3>4, Fitting
    <3>6. Save(r, row, "ok")
      BY <2>1
    <3> HIDE DEF row
    <3>7. QED
      BY <3>1, <3>5, <3>6, SavesFit DEF Finders, Returners, Searchers
  <2>2. CASE pc[r] # "save_bundle"
    BY <2>2, FindsFit DEF AbandonedOps, Returners, Searchers
  <2>3. QED
    BY <2>1, <2>2
<1>3. CASE Insert(r, "createProgram", [active |-> TRUE])
  <2> USE <1>3
  <2>1. Op(r) = "createProgram"
    BY DEF Insert, Began
  <2>2. [active |-> TRUE] \in ProgramRows
    BY <2>1, BodiesTyped DEF ProgramRows
  <2>3. RowFits("createProgram", [active |-> TRUE])
    BY <2>2, Fitting
  <2>4. QED
    BY <2>3, InsertsFit
<1>4. CASE createLink(r)
  <2> USE <1>4 DEF createLink
  <2>1. Op(r) = "createLink"
    BY DEF Insert, Began
  <2>2. [code |-> Key(r), user |-> By(r), active |-> TRUE] \in LinkRows
    BY <2>1, BodiesTyped DEF LinkRows, Keyed
  <2>3. RowFits("createLink", [code |-> Key(r), user |-> By(r), active |-> TRUE])
    BY <2>2, Fitting
  <2>4. QED
    BY <2>3, InsertsFit
<1>5. CASE findLinkByCode(r)
  BY <1>5, HasSeen, Stays, Goes, PassesBy DEF findLinkByCode, Logs, recordVars, Finders,
     Returners, Searchers
<1>6. CASE logConversion(r)
  BY <1>6, Goes, Stays, PassesBy DEF logConversion, Began, recordVars, Logs,
     Finders, Returners, Searchers
<1>7. CASE Insert(r, "createTier", [tier |-> Key(r)])
  BY <1>7, BodiesTyped, Fitting, InsertsFit DEF Insert, Began, TierRows, Keyed
<1>8. CASE addPoints(r)
  BY <1>8, Goes, Stays, SightKept, BodiesTyped, Fitting, PutFits DEF addPoints, Began,
     Finders, Returners, Searchers, Bodies, PointRows, Keeps
<1>9. CASE TrackCarts(r)
  BY <1>9, Goes, HasSeen, PassesBy DEF TrackCarts, recordVars, Finders, Returners, Searchers
<1>10. ASSUME NEW u \in People, TrackFind(r, u)
      PROVE  Keeps(r)
  BY <1>10, Goes, SameRows DEF TrackFind, Fits, AbandonedOps, Facing, Sight, Finders,
     Returners, Searchers, Keeps, recordVars
<1>11. CASE TrackInsert(r)
  BY <1>11, Goes, Stays, PassesBy DEF TrackInsert, recordVars, Finders, Returners,
     Searchers
<1>12. CASE TrackEnd(r)
  BY <1>12, Goes, Stays, PassesBy DEF TrackEnd, recordVars, Finders, Returners,
     Searchers
<1>13. CASE markRecovered(r)
  BY <1>13, Stays, Goes, SameRows DEF markRecovered, Began, Fits, AbandonedOps, Facing,
     Sight, Finders, Returners, Searchers, Keeps, recordVars
<1>14. CASE AnswerMarketing(r)
  BY <1>14, Goes, HasSeen, PassesBy DEF AnswerMarketing, Answer, recordVars, Finders,
     Returners, Searchers
<1>15. QED
  BY <1>1, <1>2, <1>3, <1>4, <1>5, <1>6, <1>7, <1>8, <1>9, <1>10, <1>11, <1>12, <1>13,
       <1>14 DEF MarketingStep, BundleStep, AffiliateStep, LoyaltyStep, AbandonedStep
--------------------
\* ... and the back office.
LEMMA BackofficeKeepsRows ==
  ASSUME OnTheWay, RowsTyped, UNCHANGED call, NEW r \in Requests, BackofficeStep(r)
  PROVE  Keeps(r)
<1>0. LocalsTyped /\ call \in Plans /\ Fits(Op(r), pc[r]) /\ Grips(r) /\ Sight(r) /\ Facing(r)
  BY DEF OnTheWay, RowsTyped
<1> USE <1>0
<1>1. CASE InsertSlip(r)
  BY <1>1, SlipTyped, SlipFitting, InsertsFit DEF InsertSlip
<1>2. CASE ChangeSlip(r)
  <2> USE <1>2 DEF ChangeSlip
  <2>1. CASE pc[r] = "save_slip"
    <3>1. Op(r) \in DOMAIN Statuses /\ target[r] \in Requests
          /\ target[r] = On(r) /\ seen[r] # NONE
      BY <2>1 DEF Fits, Grips, Finders, Facing, Statuses
    <3>2. Op(target[r]) \in Slips /\ RowFits(Op(target[r]), seen[r])
      BY <3>1, CallsTyped, ServicesAssumption DEF Names, OfProducts, Sight, Statuses, Slips
    <3>3. Arg(r) \in SlipStatuses
      BY <3>1, BodiesTyped DEF SlipStatuses
    <3>4. [seen[r] EXCEPT !.status = Arg(r)] \in SlipRows
      BY <3>2, <3>3 DEF RowFits, SlipRows
    <3>5. RowFits(Op(target[r]), [seen[r] EXCEPT !.status = Arg(r)])
      BY <3>2, <3>4, SlipFitting
    <3>6. QED
      BY <2>1, <3>1, <3>5, SavesFit DEF Finders, Returners, Searchers
  <2>2. CASE pc[r] # "save_slip"
    BY <2>2, FindsFit DEF AbandonedOps, Returners, Searchers, Statuses
  <2>3. QED
    BY <2>1, <2>2
<1>3. CASE UpdateSlip(r)
  <2> USE <1>3 DEF UpdateSlip
  <2>1. target'[r] = target[r] /\ seen'[r] = seen[r] /\ pc'[r] = "ok"
    BY Goes, Stays
  <2>2. Sight(r)' /\ Facing(r)'
    BY <2>1, SightKept DEF Finders, Returners, Searchers
  <2>3. CASE ~Live(On(r))
    BY <2>2, <2>3, SameRows DEF Keeps
  <2>4. CASE Live(On(r))
    <3>1. On(r) \in Requests /\ rows[On(r)] # NONE /\ Op(On(r)) \in Slips
      BY <2>4, CallsTyped, BodiesTyped DEF Live, Names, OfProducts, UpdatedTo, Slips
    <3>2. rows[On(r)] \in SlipRows
      BY <3>1 DEF RowsTyped, RowFits
    <3>3. UpdatedTo[Op(r)] \in SlipStatuses
      BY DEF SlipStatuses
    <3>4. [rows[On(r)] EXCEPT !.status = UpdatedTo[Op(r)]] \in SlipRows
      BY <3>2, <3>3 DEF SlipRows
    <3>5. RowFits(Op(On(r)), [rows[On(r)] EXCEPT !.status = UpdatedTo[Op(r)]])
      BY <3>1, <3>4, SlipFitting
    <3>6. QED
      BY <2>2, <2>4, <3>1, <3>5, PutFits DEF Keeps
  <2>5. QED
    BY <2>3, <2>4
<1>4. CASE updateHeartbeat(r)
  BY <1>4, SavesFit, FindsFit DEF updateHeartbeat, Fits, Grips, Finders, Facing, Sight,
     Began, Returners, Searchers, AbandonedOps
<1>5. CASE UseZone(r)
  BY <1>5, Goes, Stays, SightKept, SameRows, SlipTyped, SlipFitting, PutFits,
     FindsFit DEF UseZone, Finders, Returners, Searchers, Keeps, Slips, AbandonedOps
<1>6. CASE saveSingle(r)
  <2> USE <1>6 DEF saveSingle
  <2>1. CASE pc[r] = "save_single"
    BY <2>1, ServicesAssumption, SlipTyped, SlipFitting, SavesFit DEF Fits, Singles,
       Slips, Facing, Sight, Returners, Resumes, Finders, Searchers
  <2>2. CASE pc[r] # "save_single"
    <3>1. \E x \in Requests : \E row :
            Reads(r, x, row)
            /\ ((x = r /\ row = NONE) \/ (x \in ToReplace(r) /\ row = rows[x]))
      BY <2>2 DEF ToReplace, Table
    <3>2. PICK x \in Requests : \E row :
            Reads(r, x, row)
            /\ ((x = r /\ row = NONE) \/ (x \in ToReplace(r) /\ row = rows[x]))
      BY <3>1
    <3>3. PICK row :
            Reads(r, x, row)
            /\ ((x = r /\ row = NONE) \/ (x \in ToReplace(r) /\ row = rows[x]))
      BY <3>2
    <3>4. row = NONE \/ RowFits(Op(x), row)
      BY <3>3 DEF RowsTyped
    <3>5. x = r \/ (row # NONE /\ Resumes(Op(r), Op(x)))
      BY <3>3 DEF ToReplace, Table, Resumes
    <3>6. target'[r] = x /\ seen'[r] = row /\ pc'[r] = "save_single" /\ UNCHANGED rows
      BY <2>2, <3>3, HasRead, Goes DEF recordVars
    <3>7. Op(r) \notin AbandonedOps
      BY <2>2 DEF Singles, AbandonedOps
    <3>8. Sight(r)' /\ Facing(r)'
      BY <3>4, <3>5, <3>6, <3>7, SightTaken DEF Finders, Returners, Searchers
    <3>9. QED
      BY <3>6, <3>8, SameRows DEF Keeps
  <2>3. QED
    BY <2>1, <2>2
<1>7. CASE saveRule(r)
  <2> USE <1>7 DEF saveRule, Began
  <2> DEFINE x == IF On(r) = NONE THEN r ELSE On(r)
  <2>1. target'[r] = target[r] /\ seen'[r] = seen[r] /\ pc'[r] = "ok"
    BY Goes, Stays
  <2>2. Sight(r)' /\ Facing(r)'
    BY <2>1, SightKept DEF Finders, Returners, Searchers
  <2>3. x \in Requests /\ Op(x) = "saveRule"
    BY CallsTyped, BodiesTyped DEF Names, OfProducts
  <2>4. Put(x, Slip(r))
    OBVIOUS
  <2> HIDE DEF x
  <2>5. RowFits(Op(x), Slip(r))
    BY <2>3, SlipTyped, SlipFitting DEF Slips
  <2>6. QED
    BY <2>2, <2>3, <2>4, <2>5, PutFits DEF Keeps
<1>8. CASE calculateTax(r)
  BY <1>8, Goes, Stays, PassesBy DEF calculateTax, Began, recordVars, Finders,
     Returners, Searchers
<1>9. CASE convert(r)
  BY <1>9, Goes, Stays, PassesBy DEF convert, Began, recordVars, Finders,
     Returners, Searchers
<1>10. CASE createTicket(r)
  BY <1>10, Goes, Stays, PassesBy, SightKept, SlipTyped, SlipFitting,
     PutFits DEF createTicket, Began, recordVars, Finders, Returners, Searchers, Slips, Keeps
<1>11. CASE FindDialog(r)
  BY <1>11, Goes, Stays, PassesBy DEF FindDialog, Began, recordVars, Finders,
     Returners, Searchers
<1>12. CASE SaveDialog(r)
  BY <1>12, Goes, PassesBy DEF SaveDialog, SavesAs, recordVars, Finders, Returners,
     Searchers
<1>13. CASE FindProduct(r)
  BY <1>13, Goes, Stays, PassesBy DEF FindProduct, Began, recordVars, Finders,
     Returners, Searchers
<1>14. CASE FindWishes(r)
  BY <1>14, Goes, Stays, PassesBy DEF FindWishes, Began, NextWish, recordVars,
     Finders, Returners, Searchers
<1>15. CASE CreateWishes(r)
  BY <1>15, Goes, Stays, PassesBy DEF CreateWishes, NextWish, recordVars, Finders,
     Returners, Searchers
<1>16. CASE SaveWishes(r)
  BY <1>16, Goes, PassesBy DEF SaveWishes, recordVars, Finders, Returners, Searchers
<1>17. CASE AnswerBackoffice(r)
  BY <1>17, Goes, HasSeen, PassesBy DEF AnswerBackoffice, Answer, recordVars, Finders,
     Returners, Searchers
<1>18. QED
  BY <1>1, <1>2, <1>3, <1>4, <1>5, <1>6, <1>7, <1>8, <1>9, <1>10, <1>11, <1>12, <1>13,
       <1>14, <1>15, <1>16, <1>17 DEF BackofficeStep, SlipStep, FinanceStep, DocumentStep
--------------------
\* Failures, and all together
LEMMA FailsKeepsRows ==
  ASSUME OnTheWay, RowsTyped, UNCHANGED call, NEW r \in Requests, Fails(r), UNCHANGED recordVars
  PROVE  Keeps(r)
<1>0. LocalsTyped
  BY DEF OnTheWay
<1>1. target'[r] = target[r] /\ seen'[r] = seen[r] /\ pc'[r] = "failed"
  BY <1>0, Goes, Stays DEF Fails
<1>2. QED
  BY <1>1, PassesBy DEF recordVars, Finders, Returners, Searchers
LEMMA StepKeepsRows ==
  ASSUME OnTheWay, RowsTyped, UNCHANGED call, NEW r \in Requests, Step(r)
  PROVE  Keeps(r)
BY ContentKeepsRows, CacheKeepsRows, LearningKeepsRows, RegistryKeepsRows, MarketingKeepsRows,
   BackofficeKeepsRows, FailsKeepsRows DEF Step
LEMMA InsertedFits ==
  ASSUME call \in Plans, NEW r \in Requests, Made(r), Op(r) # "none"
  PROVE  RowFits(Op(r), Inserted(r))
<1>1. Op(r) \in Inserting
  BY ServicesAssumption DEF Made, Op
<1>2. CASE Op(r) \in Creates
  BY <1>2, ContentTyped DEF Inserted, Creates, ArticleCreates, Slips
<1>3. CASE Op(r) \in Slips
  BY <1>3, SlipTyped, SlipFitting DEF Inserted, Slips, Creates, ArticleCreates
<1>4. CASE Op(r) = "createShortlink"
  BY <1>4, BodiesTyped, Fitting DEF Inserted, Keyed, Creates, ArticleCreates, Slips, Shortlinks
<1>5. CASE Op(r) = "createCoupon"
  <2>1. Inserted(r) \in Coupons
    BY <1>5, BodiesTyped DEF Inserted, Keyed, Creates, ArticleCreates, Slips, Coupons
  <2>2. QED
    BY <1>5, <2>1, Fitting
<1>6. CASE Op(r) = "createPromotion"
  <2>1. Inserted(r) \in Promotions
    BY <1>6 DEF Inserted, Creates, ArticleCreates, Slips, Promotions
  <2>2. QED
    BY <1>6, <2>1, Fitting
<1>7. CASE Op(r) = "createBundle"
  <2>1. Inserted(r) \in BundleRows
    BY <1>7 DEF Inserted, Creates, ArticleCreates, Slips, BundleRows
  <2>2. QED
    BY <1>7, <2>1, Fitting
<1>8. CASE Op(r) = "saveMenu"
  BY <1>8, BodiesTyped, Fitting DEF Inserted, Keyed, Creates, ArticleCreates, Slips, Menus
<1>9. CASE Op(r) = "createCourse"
  <2>1. Inserted(r) \in CourseRows
    BY <1>9, BodiesTyped DEF Inserted, Keyed, Creates, ArticleCreates, Slips, CourseRows
  <2>2. QED
    BY <1>9, <2>1, LearningFitting
<1>10. CASE Op(r) = "addChapter"
  BY <1>10, BodiesTyped, LearningFitting DEF Inserted, OnRow, Creates, ArticleCreates, Slips,
     ChapterRows
<1>11. CASE Op(r) = "addLesson"
  <2>1. Inserted(r) \in LessonRows
    BY <1>11, BodiesTyped DEF Inserted, OnRow, Creates, ArticleCreates, Slips, LessonRows
  <2>2. QED
    BY <1>11, <2>1, LearningFitting
<1>12. CASE Op(r) = "enroll"
  BY <1>12, BodiesTyped, LearningFitting DEF Inserted, OnRow, Bodies, Creates, ArticleCreates,
     Slips, EnrollmentRows
<1>13. CASE Op(r) = "assess"
  BY <1>13, BodiesTyped, LearningFitting DEF Inserted, OnRow, Creates, ArticleCreates, Slips,
     AssessmentRows
<1>14. CASE Op(r) = "updateProgress"
  <2>1. Inserted(r) \in ProgressRows
    BY <1>14, BodiesTyped DEF Inserted, OnRow, Creates, ArticleCreates, Slips, ProgressRows
  <2>2. QED
    BY <1>14, <2>1, LearningFitting
<1>15. CASE Op(r) = "startAttempt"
  BY <1>15, BodiesTyped, LearningFitting DEF Inserted, OnRow, Creates, ArticleCreates, Slips,
     AttemptRows
<1>16. CASE Op(r) = "createModule"
  BY <1>16, BodiesTyped, Fitting DEF Inserted, Keyed, Creates, ArticleCreates, Slips, ModuleRows
<1>17. CASE Op(r) = "createRegistry"
  <2>1. Inserted(r) \in RegistryRows
    BY <1>17, BodiesTyped DEF Inserted, Keyed, Creates, ArticleCreates, Slips, RegistryRows
  <2>2. QED
    BY <1>17, <2>1, Fitting
<1>18. QED
  BY <1>1, <1>2, <1>3, <1>4, <1>5, <1>6, <1>7, <1>8, <1>9, <1>10, <1>11, <1>12, <1>13,
     <1>14, <1>15, <1>16, <1>17 DEF Inserting
LEMMA InitRowsTyped == Init => RowsTyped
<1> SUFFICES ASSUME Init PROVE RowsTyped
  OBVIOUS
<1>1. ASSUME NEW x \in Requests PROVE rows[x] = NONE \/ RowFits(Op(x), rows[x])
  BY InsertedFits DEF Init, CallsInit
<1>2. ASSUME NEW r \in Requests PROVE Sight(r) /\ Facing(r)
  BY <1>2 DEF Init, CallsInit, Sight, Facing, Finders, Returners, Searchers
<1>3. QED
  BY <1>1, <1>2 DEF RowsTyped
LEMMA RestsTyped ==
  ASSUME OnTheWay, RowsTyped, UNCHANGED <<callVars, rows>>
  PROVE  RowsTyped'
BY DEF RowsTyped, callVars, locals, RowFits, Sight, Facing, IsArticle, Resumes, Op
LEMMA NextRowsTyped == OnTheWay /\ RowsTyped /\ [Next]_vars => RowsTyped'
BY Moves, StepStrides, StepKeepsRows, KeepsRowsTyped, RestsTyped
--------------------
\* Articles and products
LEMMA AuthorsStep ==
  ASSUME OnTheWay, NEW r \in Requests, Step(r), Op(r) \in Authors
  PROVE  \/ CreateStep(r) /\ Op(r) \in Creates
         \/ UpdateStep(r) /\ Op(r) \in Updates
         \/ DeleteStep(r) /\ Op(r) \in Deletes
         \/ JobStep(r) /\ Op(r) \in JobOps
         \/ Fails(r) /\ UNCHANGED <<rows, contentVars>>
<1> USE DEF Authors, Creates, ArticleCreates, Updates, Deletes, JobOps
<1>0. Fits(Op(r), pc[r])
  BY DEF OnTheWay
<1>1. Op(r) \notin CacheCalls \cup BackofficeCalls
  BY DEF CacheCalls, CouponOps, PromotionOps, MenuOps, FeedOps, BackofficeCalls, Slips,
     Statuses, UpdatedTo, WishOps
<1>2. Op(r) \notin LearningCalls
  BY DEF LearningCalls, CourseOps, CurriculumOps, PlayerOps, AssessmentOps,
     CredentialOps, ForumOps, ReviewOps, OperationOps, AdvancedLearningOps, ReportingOps
<1>3. Op(r) \notin RegistryOps \cup MarketingCalls
  BY DEF RegistryOps, MarketingCalls, BundleOps, AffiliateOps, LoyaltyOps, AbandonedOps
<1>4. ContentStep(r) \/ (Fails(r) /\ UNCHANGED <<rows, contentVars>>)
  BY <1>1, <1>2, <1>3, CacheFamily, LearningFamily, RegistryFamily, MarketingFamily,
     BackofficeFamily DEF Step, recordVars
<1>5. ~ReadStep(r) /\ ~createShortlink(r) /\ ~resolveShortlink(r)
  BY <1>0 DEF ReadStep, GetContent, GetDetail, ListContent, Answer, SearchRows, SearchDetails,
     SearchBoth, logSearch, createShortlink, Insert, resolveShortlink, Began, Fits
<1>6. CreateStep(r) => Op(r) \in Creates
  BY <1>0 DEF CreateStep, CreateFind, CreateInsert, CreateDetail, DetailRejected, UndoCreate, Fits
<1>7. UpdateStep(r) => Op(r) \in Updates
  BY <1>0 DEF UpdateStep, UpdateFind, FindDetail, createRevision, SaveContent, SaveRedirect,
     RefindDetail, SaveDetail, Fits
<1>8. DeleteStep(r) => Op(r) \in Deletes
  BY <1>0 DEF DeleteStep, DeleteFind, DeleteRow, DeleteDetail, DeleteRevisions,
     DeleteRedirects, DeleteShortlinks, Fits
<1>9. JobStep(r) => Op(r) \in JobOps
  BY <1>0 DEF JobStep, PublishFind, Publish, PublishEnd, cleanupOldRevisions, Began, Fits
<1>10. QED
  BY <1>4, <1>5, <1>6, <1>7, <1>8, <1>9 DEF ContentStep

LEMMA AuthorsReach ==
  ASSUME NEW op \in Ops, NEW of \in Creates, Reaches(op, of)
  PROVE  op \in Authors \cup Onlookers
BY DEF Reaches, Names, Authors, Onlookers, Creates, ArticleCreates, Updates, Deletes, JobOps,
   OfProducts
LEMMA OnlookersStep ==
  ASSUME OnTheWay, NEW r \in Requests, Step(r), Op(r) \in Onlookers
  PROVE  UNCHANGED contentVars /\ \A x \in Requests : x # r => rows'[x] = rows[x]
<1> USE DEF Onlookers, OfProducts
<1>0. Fits(Op(r), pc[r]) /\ LocalsTyped
  BY DEF OnTheWay
<1>1. Op(r) \notin LearningCalls
  BY DEF LearningCalls, CourseOps, CurriculumOps, PlayerOps, AssessmentOps,
     CredentialOps, ForumOps, ReviewOps, OperationOps, AdvancedLearningOps, ReportingOps
<1>2. Op(r) \notin RegistryOps \cup MarketingCalls
  BY DEF RegistryOps, MarketingCalls, BundleOps, AffiliateOps, LoyaltyOps, AbandonedOps
<1>3. CASE ContentStep(r)
  <2>1. GetContent(r) \/ GetDetail(r)
    <3>1. Op(r) \in {"getArticle", "getProductById"}
      BY <1>3, ContentFamily DEF ContentCalls, ArticleOps, ProductOps, AdvancedOps, JobOps
    <3>2. ~CreateStep(r) /\ ~UpdateStep(r)
      BY <1>0, <3>1 DEF CreateStep, UpdateStep, CreateFind, CreateInsert, CreateDetail,
         DetailRejected, UndoCreate, UpdateFind, FindDetail, createRevision, SaveContent,
         SaveRedirect, RefindDetail, SaveDetail, Fits, Creates, ArticleCreates, Updates
    <3>3. ~DeleteStep(r) /\ ~JobStep(r)
      BY <1>0, <3>1 DEF DeleteStep, DeleteFind, DeleteRow, DeleteDetail, DeleteRevisions,
         DeleteRedirects, DeleteShortlinks, JobStep, PublishFind, Publish, PublishEnd,
         cleanupOldRevisions, Began, Fits, Deletes
    <3>4. ~createShortlink(r) /\ ~resolveShortlink(r)
      BY <1>0, <3>1 DEF createShortlink, Insert, resolveShortlink, Began, Fits
    <3>5. ReadStep(r)
      BY <1>3, <3>2, <3>3, <3>4 DEF ContentStep
    <3>6. QED
      BY <1>0, <3>1, <3>5 DEF ReadStep, ListContent, Answer, SearchRows, SearchDetails,
         SearchBoth, logSearch, Began, Fits
  <2>2. QED
    BY <2>1 DEF GetContent, Find, recordVars, GetDetail
<1>4. CASE CacheStep(r) /\ UNCHANGED contentVars
  BY <1>4, <1>0, CacheFamily DEF CacheCalls, CouponOps, PromotionOps, MenuOps, FeedOps,
     CacheStep, CacheReadStep, CouponStep, PromotionStep, MenuStep, CacheGet, CacheQuery,
     CacheSet, LogCoupon, createCoupon, CouponFind, SaveCoupon, createPromotion, PromotionFind,
     SavePromotion, MenuFind, SaveMenu, CacheDel, CacheListStep, Answer, Began, recordVars, Fits
<1>5. CASE BackofficeStep(r) /\ UNCHANGED contentVars
  <2>1. CASE SlipStep(r)
    BY <1>0, <2>1, <1>5 DEF SlipStep, ChangeSlip, UpdateSlip, updateHeartbeat, UseZone,
       saveSingle, saveRule, Began, Statuses, UpdatedTo, Singles, Fits, InsertSlip, Insert, Put,
       LocalsTyped
  <2>2. CASE FinanceStep(r)
    BY <1>5, <2>2 DEF FinanceStep, calculateTax, convert, recordVars
  <2>3. CASE DocumentStep(r)
    BY <1>0, <2>3, <1>5 DEF createTicket, Began, Fits, DocumentStep, FindDialog, SaveDialog,
       SavesAs, FindProduct, FindWishes, CreateWishes, SaveWishes, recordVars
  <2>4. CASE AnswerBackoffice(r)
    BY <1>5, <2>4 DEF AnswerBackoffice, Answer, recordVars
  <2>5. QED
    BY <1>5, <2>1, <2>2, <2>3, <2>4 DEF BackofficeStep
<1>6. CASE Fails(r) /\ UNCHANGED <<recordVars, contentVars>>
  BY <1>6 DEF recordVars
<1>7. QED
  BY <1>1, <1>2, <1>3, <1>4, <1>5, <1>6, LearningFamily, RegistryFamily, MarketingFamily DEF Step

LEMMA ContentAside ==
  ASSUME OnTheWay, UNCHANGED call, NEW r \in Requests, Step(r), Op(r) \notin Authors
  PROVE  /\ UNCHANGED contentVars
         /\ \A x \in Requests : Op(x) \in Creates => rows'[x] = rows[x]
<1>0. Op(r) \in Ops /\ Fits(Op(r), pc[r])
  BY CallsTyped DEF OnTheWay
<1>1. CASE Op(r) \in Onlookers
  BY <1>1, OnlookersStep DEF Authors
<1>2. CASE Op(r) \notin Onlookers
  <2>1. \A x \in Requests : Op(x) \in Creates => rows'[x] = rows[x]
    BY <1>0, <1>2, StepStrides, AuthorsReach DEF Strides, Touches
  <2>2. CASE ContentStep(r)
    <3>1. ~CreateStep(r) /\ ~UpdateStep(r)
      BY <1>0 DEF CreateStep, UpdateStep, CreateFind, CreateInsert, CreateDetail,
         DetailRejected, UndoCreate, UpdateFind, FindDetail, createRevision, SaveContent,
         SaveRedirect, RefindDetail, SaveDetail, Fits, Creates, ArticleCreates, Updates, Authors
    <3>2. ~DeleteStep(r) /\ ~JobStep(r)
      BY <1>0 DEF DeleteStep, DeleteFind, DeleteRow, DeleteDetail, DeleteRevisions,
         DeleteRedirects, DeleteShortlinks, JobStep, PublishFind, Publish, PublishEnd,
         cleanupOldRevisions, Began, Fits, Deletes, JobOps, Authors
    <3>3. QED
      BY <2>1, <2>2, <3>1, <3>2 DEF ContentStep, ReadStep, createShortlink, resolveShortlink,
         GetContent, GetDetail, ListContent, SearchRows, SearchDetails, SearchBoth, logSearch
  <2>3. QED
    BY <2>1, <2>2 DEF Step
<1>3. QED
  BY <1>1, <1>2
--------------------
\* What is known of their text
LEMMA InitContentHeld == Init => ContentHeld
<1> SUFFICES ASSUME Init PROVE ContentHeld
  OBVIOUS
<1>1. \A r \in Requests : pc[r] = IF Made(r) THEN "ok" ELSE "idle"
  BY DEF Init, CallsInit
<1>2. call \in Plans /\ stale = {} /\ DOMAIN rows = Requests
  BY DEF Init, CallsInit
<1>3. ASSUME NEW x \in Requests, Op(x) \in Creates PROVE Making(x)
  BY <1>1, <1>3 DEF Init, Making
<1>4. ASSUME NEW u \in Requests, Op(u) = "updateArticle" PROVE pc[u] = "idle"
  BY <1>1, <1>2, <1>4, CallsTyped DEF Inserting, Creates, ArticleCreates, Slips
<1>5. ASSUME NEW x \in Requests, IsArticle(x) PROVE Documented(x)
  BY <1>5, <1>1, ServicesAssumption DEF Init, ContentInit, IsArticle, Creates, Documented
<1>6. ASSUME NEW x \in Requests, IsArticle(x), NEW w \in WritersOf(x), Wrote(w)
      PROVE  InRow(x, w)
  BY <1>4, <1>6, <1>1, <1>2, ContentTyped, RowNotNone DEF WritersOf, Wrote, ArticleCreates,
     IsArticle, Creates, Init, Inserted, Slips, InRow, NewContent
<1>7. DOMAIN details = Requests
  BY DEF Init, ContentInit
<1>8. QED
  BY <1>2, <1>3, <1>4, <1>5, <1>6, <1>7 DEF ContentHeld, Following, Revising, Recorded

\* These reasons stay.
LEMMA StaysOverwritten ==
  ASSUME OnTheWay, UNCHANGED call, NEW r \in Requests, Step(r), \A s \in stale : pc[s] # "idle",
         NEW x, Overwritten(x)
  PROVE  Overwritten(x)'
<1>1. PICK s \in stale : (Op(s) \in Updates /\ target[s] = x) \/ Op(s) = "processScheduledPosts"
  BY DEF Overwritten
<1>2. s \in Requests /\ s \in stale' /\ Op(s)' = Op(s)
  BY StepStrides, SameCalls DEF OnTheWay, LocalsTyped, Strides, Own, Bears
<1>3. ASSUME Op(s) \in Updates, target[s] = x PROVE target'[s] = x
  BY <1>2, <1>3, StepStrides, AuthorsStep DEF Strides, Own, Bears, Authors, Updates, Creates,
     ArticleCreates, Deletes, JobOps, UpdateStep, UpdateFind, FindDetail, createRevision,
     SaveContent, Save, Writes, SaveRedirect, RefindDetail, SaveDetail, Fails, locals
<1>4. QED
  BY <1>1, <1>2, <1>3 DEF Overwritten
LEMMA StaysCleared ==
  ASSUME OnTheWay, UNCHANGED call, NEW r \in Requests, Step(r), NEW x, Cleared(x)
  PROVE  Cleared(x)'
<1>1. PICK d \in Requests : Begun(d) /\ (\/ Op(d) = "deleteArticle" /\ On(d) = x
                                         \/ Op(d) = "cleanupOldRevisions")
  BY DEF Cleared
<1>2. Begun(d)' /\ Op(d)' = Op(d) /\ On(d)' = On(d)
  BY <1>1, StepStrides, StaysBegun, SameCalls
<1>3. QED
  BY <1>1, <1>2 DEF Cleared
LEMMA StaysCrossed ==
  ASSUME OnTheWay, UNCHANGED call, NEW r \in Requests, Step(r), NEW x \in Requests, Crossed(x)
  PROVE  Crossed(x)'
<1>1. PICK u \in WritersOf(x) : Together(u, x)
  BY DEF Crossed
<1>2. u \in Requests /\ u \in WritersOf(x)'
  BY <1>1, SameCalls DEF WritersOf
<1>3. Together(u, x)'
  BY <1>1, <1>2, StepStrides, StaysTogether
<1>4. QED
  BY <1>2, <1>3 DEF Crossed
LEMMA StaysExcused ==
  ASSUME OnTheWay, UNCHANGED call, NEW r \in Requests, Step(r), \A s \in stale : pc[s] # "idle",
         NEW x \in Requests, Excused(x)
  PROVE  Excused(x)'
BY StaysOverwritten, StaysCleared, StaysCrossed DEF Excused
--------------------
\* Updates
LEMMA SeenTexts ==
  ASSUME OnTheWay, RowsTyped, NEW u \in Requests, Op(u) = "updateArticle", pc[u] \in Finders
  PROVE  /\ On(u) \in Requests /\ IsArticle(On(u)) /\ target[u] = On(u)
         /\ seen[u] \in ArticleRows /\ seen[u] # NONE
<1>1. target[u] \in Requests /\ target[u] = On(u) /\ On(u) # NONE
  BY ServicesAssumption DEF OnTheWay, Grips
<1>2. IsArticle(On(u))
  BY <1>1, CallsTyped DEF OnTheWay, Names, IsArticle, OfProducts
<1>3. seen[u] # NONE /\ RowFits(Op(On(u)), seen[u])
  BY <1>1 DEF RowsTyped, Facing, Sight
<1>4. QED
  BY <1>1, <1>2, <1>3 DEF RowFits, IsArticle

LEMMA ContentSettles ==
  ASSUME OnTheWay, RowsTyped, ContentHeld, UNCHANGED call, NEW r \in Requests, Step(r),
         Settled(r), Leading(r)'
  PROVE  ContentHeld'
<1>1. Strides(r)
  BY StepStrides
<1>2. \A q \in Requests : /\ Op(q)' = Op(q) /\ On(q)' = On(q)
                          /\ IsArticle(q)' = IsArticle(q) /\ WritersOf(q)' = WritersOf(q)
  BY SameCalls DEF IsArticle, WritersOf
<1>3. \A q \in Requests \ {r} : /\ pc'[q] = pc[q] /\ target'[q] = target[q]
                                /\ seen'[q] = seen[q] /\ before'[q] = before[q]
  BY <1>1 DEF Strides, Own, Paces, Bears
<1>4. \A s \in stale : pc[s] # "idle"
  BY DEF ContentHeld
<1>5. \A s \in stale' : pc'[s] # "idle"
  BY <1>1, <1>3, <1>4 DEF Strides, Own, Paces, Bears, OnTheWay, LocalsTyped
<1>6. ASSUME NEW x \in Requests, Op(x) \in Creates PROVE Making(x)'
  BY <1>2, <1>6, <1>4, <1>3, StaysOverwritten DEF Leading, ContentHeld, Settled, Making
<1>7. ASSUME NEW u \in Requests, Op(u) = "updateArticle", On(u) # NONE, u # r
      PROVE  Following(u)' /\ Revising(u)'
  <2>1. Following(u) /\ Revising(u) /\ On(u) \in Requests
    BY <1>7, CallsTyped DEF ContentHeld, OnTheWay
  <2>2. PICK x \in Requests : x = On(u)
    BY <2>1
  <2>3. Together(u, x) => Together(u, x)'
    BY <1>1, StaysTogether
  <2>4. Overwritten(x) => Overwritten(x)'
    BY <1>4, StaysOverwritten
  <2>5. Following(u)'
    BY <1>2, <1>3, <1>7, <2>1, <2>2, <2>3, <2>4 DEF Following
  <2>6. ASSUME pc[u] = "save_content"
        PROVE  InRevision(x, seen[u].text)' \/ Excused(x)'
    <3>1. IsArticle(x) /\ seen[u] \in ArticleRows
      BY <1>7, <2>2, <2>6, SeenTexts DEF Finders
    <3>2. PICK w \in Requests : w = seen[u].text
      BY <3>1 DEF ArticleRows
    <3>3. InRevision(x, w) \/ Excused(x)
      BY <2>1, <2>2, <2>6, <3>2 DEF Revising
    <3>4. InRevision(x, w)' \/ Excused(x)'
      BY <1>4, <3>1, <3>3, StaysExcused DEF Settled
    <3>5. seen'[u].text = w
      BY <1>3, <1>7, <3>2
    <3>6. QED
      BY <3>4, <3>5 DEF InRevision
  <2>7. Revising(u)'
    BY <1>2, <1>3, <1>7, <2>2, <2>6 DEF Revising
  <2>8. QED
    BY <2>5, <2>7
<1>8. ASSUME NEW x \in Requests, IsArticle(x), x # r PROVE Documented(x)'
  BY <1>8, <1>3, StaysCleared, ServicesAssumption DEF ContentHeld, Documented, Settled
<1>9. ASSUME NEW x \in Requests, IsArticle(x), NEW w \in WritersOf(x), w # r
      PROVE  Recorded(x, w)'
  BY <1>9, <1>2, <1>3, <1>4, StaysExcused DEF ContentHeld, WritersOf, Wrote, Recorded, Settled
<1>10. ASSUME NEW x \in Requests, IsArticle(x), r \in WritersOf(x)
       PROVE  Recorded(x, r)'
  BY <1>2, <1>10, ServicesAssumption DEF Leading, Recorded, InRow, InRevision, Excused,
     Overwritten, Cleared, Crossed, WritersOf
<1>11. IsArticle(r) => Documented(r)'
  BY <1>2 DEF Leading
<1>12. Op(r) = "updateArticle" /\ On(r) # NONE => Following(r)' /\ Revising(r)'
  BY <1>2 DEF Leading
<1>13. DOMAIN details' = Requests
  BY DEF Settled
<1>14. QED
  BY <1>2, <1>5, <1>6, <1>7, <1>8, <1>9, <1>10, <1>11, <1>12, <1>13
  DEF ContentHeld
--------------------
\* A step that leaves rows and revisions as they are
LEMMA SettledAside ==
  ASSUME NEW r \in Requests, DOMAIN details' = Requests, revisions \subseteq revisions',
         \A x \in Requests : Op(x) \in Creates => rows'[x] = rows[x],
         \A x \in Requests : IsArticle(x) => details'[x] \in {details[x]} \cup Requests
  PROVE  Settled(r)
<1>1. \A x, w \in Requests : InRevision(x, w) => InRevision(x, w)'
  BY DEF InRevision
<1>2. \A x, w \in Requests : IsArticle(x) /\ InRow(x, w) => InRow(x, w)'
  BY DEF InRow, IsArticle, Creates
<1>3. QED
  BY <1>1, <1>2 DEF Settled
LEMMA LeadingAside ==
  ASSUME UNCHANGED call, NEW r \in Requests, Op(r) \notin Creates \cup {"updateArticle"}
  PROVE  Leading(r)'
<1>1. Op(r)' = Op(r)
  BY SameCalls
<1>2. QED
  BY <1>1 DEF Leading, IsArticle, Creates
\* What an update has done to an article before it was there
LEMMA EarlyUpdates ==
  ASSUME OnTheWay, Timely, ContentHeld, NEW x \in Requests, IsArticle(x), pc[x] # "ok",
         NEW w \in WritersOf(x), w # x, pc[w] # "idle"
  PROVE  Excused(x)
<1>1. w \in Requests /\ Op(w) = "updateArticle" /\ On(w) = x
  BY DEF WritersOf
<1>2. Following(w)
  BY <1>1, ServicesAssumption DEF ContentHeld
<1>3. x \notin before[w]
  BY <1>1 DEF Timely
<1>4. QED
  BY <1>1, <1>2, <1>3 DEF Following, Excused, Crossed, WritersOf

LEMMA CreateSettles ==
  ASSUME OnTheWay, Timely, RowsTyped, ContentHeld, UNCHANGED call, NEW r \in Requests, ~Ended(r),
         Step(r), Op(r) \in Creates
  PROVE  Settled(r) /\ Leading(r)'
<1>0. LocalsTyped /\ call \in Plans /\ DOMAIN details = Requests /\ Making(r)
      /\ Op(r) # "updateArticle"
  BY DEF OnTheWay, ContentHeld, Creates, ArticleCreates
<1> USE <1>0
<1>1. CreateStep(r) \/ (Fails(r) /\ UNCHANGED <<rows, contentVars>>)
  BY AuthorsStep DEF Authors, Creates, ArticleCreates, Updates, Deletes, JobOps
<1>2. Op(r)' = Op(r) /\ IsArticle(r)' = IsArticle(r)
  BY SameCalls DEF IsArticle
<1>3. \A s \in stale : pc[s] # "idle"
  BY DEF ContentHeld
<1>4. Overwritten(r) => Overwritten(r)'
  BY <1>3, StaysOverwritten
\* The row may be gone now, or another one.
<1>5. ASSUME UNCHANGED contentVars, \A x \in Requests \ {r} : rows'[x] = rows[x], pc[r] # "ok"
      PROVE  Settled(r)
  <2>1. ASSUME NEW x \in Requests, NEW w \in Requests, InRevision(x, w)
        PROVE  InRevision(x, w)'
    BY <1>5, <2>1 DEF InRevision, contentVars
  <2>2. ASSUME NEW x \in Requests, NEW w \in Requests, IsArticle(x), w \in WritersOf(x) \ {r},
               Wrote(w), InRow(x, w)
        PROVE  InRow(x, w)' \/ Excused(x)'
    BY <1>5, <2>2, <1>3, EarlyUpdates, StaysExcused DEF InRow, Wrote
  <2>3. QED
    BY <1>5, <2>1, <2>2 DEF Settled, contentVars
<1>6. CASE CreateFind(r)
  BY <1>6, <1>2, <1>4, SettledAside, Goes DEF CreateFind, recordVars, contentVars,
     Leading, Making, Documented, Recorded, Wrote
<1>7. CASE CreateInsert(r)
  <2> USE <1>7 DEF CreateInsert
  <2>1. rows'[r] = NewContent(r) /\ \A x \in Requests \ {r} : rows'[x] = rows[x]
    BY DEF LocalsTyped, Put
  <2>2. Settled(r)
    BY <1>5, <2>1
  <2>3. pc'[r] = "insert_detail" /\ target'[r] = r
    BY Goes, HasRead
  <2>4. Making(r)'
    BY <2>3 DEF Making
  <2>5. Documented(r)'
    BY <2>3 DEF Documented
  <2>6. NewContent(r) # NONE /\ NewContent(r).text = r
    BY ContentTyped, RowNotNone DEF NewContent
  <2>7. Recorded(r, r)'
    BY <2>1, <2>6 DEF Recorded, InRow
  <2>8. QED
    BY <1>2, <2>2, <2>4, <2>5, <2>7 DEF Leading
<1>8. CASE CreateDetail(r)
  <2> USE <1>8 DEF CreateDetail
  <2>1. UNCHANGED <<rows, revisions, target>>
    BY DEF recordVars, locals
  <2>2. details'[r] = r /\ DOMAIN details' = Requests
        /\ \A x \in Requests : x # r => details'[x] = details[x]
    OBVIOUS
  <2>3. Settled(r)
    BY <2>1, <2>2, SettledAside
  <2>4. pc'[r] \in {"ok", "undo"}
    BY Goes
  <2>5. Making(r)'
    BY <2>1, <2>4 DEF Making
  <2>6. Documented(r)'
    BY <2>2, ServicesAssumption DEF Documented
  <2>7. ASSUME IsArticle(r) PROVE Recorded(r, r)'
    BY <2>7, <1>3, <2>1, StaysExcused DEF ContentHeld, Recorded, Wrote, WritersOf, IsArticle,
       InRow, InRevision
  <2>8. QED
    BY <1>2, <2>3, <2>5, <2>6, <2>7 DEF Leading
<1>9. CASE DetailRejected(r)
  BY <1>9, <1>2, SettledAside, Goes, Stays DEF DetailRejected, recordVars, contentVars,
     Leading, Making, Documented, Recorded, Wrote
<1>10. CASE UndoCreate(r)
  BY <1>10, <1>5, <1>2, Goes DEF UndoCreate, LocalsTyped, Put, Leading, Making,
     Documented, Recorded, Wrote, Creates, ArticleCreates
<1>11. CASE Fails(r) /\ UNCHANGED <<rows, contentVars>>
  BY <1>11, <1>4, <1>2, SettledAside, Goes, Stays, ServicesAssumption DEF contentVars,
     Fails, Ended, Making, Leading, Documented, Recorded, Wrote
<1>12. QED
  BY <1>1, <1>6, <1>7, <1>8, <1>9, <1>10, <1>11 DEF CreateStep
--------------------
\* An update that has begun keeps to its reason.
LEMMA FollowsOn ==
  ASSUME OnTheWay, ContentHeld, UNCHANGED call, NEW r \in Requests, Step(r),
         Op(r) = "updateArticle", On(r) # NONE, pc[r] # "idle"
  PROVE  Following(r)'
<1>1. On(r) \in Requests /\ Following(r) /\ before'[r] = before[r]
  BY CallsTyped, StepStrides DEF ContentHeld, OnTheWay, Strides, Own, Paces
<1>2. PICK x \in Requests : x = On(r)
  BY <1>1
<1>3. On(r)' = x
  BY <1>2, SameCalls
<1>4. Together(r, x) => Together(r, x)'
  BY StepStrides, StaysTogether
<1>5. Overwritten(x) => Overwritten(x)'
  BY StaysOverwritten DEF ContentHeld
<1>6. QED
  BY <1>1, <1>2, <1>3, <1>4, <1>5 DEF Following

\* An article that is updated has a document, or a reason to have none.
LEMMA Undocumented ==
  ASSUME OnTheWay, Timely, ContentHeld, NEW u \in Requests, Op(u) = "updateArticle",
         pc[u] # "idle", On(u) \in Requests, IsArticle(On(u)), details[On(u)] = NONE
  PROVE  Excused(On(u))
<1>1. Following(u) /\ Documented(On(u))
  BY ServicesAssumption DEF ContentHeld
<1>2. On(u) \in before[u] => Cleared(On(u))
  BY <1>1 DEF Timely, Documented
<1>3. u \in WritersOf(On(u))
  BY DEF WritersOf
<1>4. QED
  BY <1>1, <1>2, <1>3 DEF Following, Excused, Crossed

LEMMA SaveSettles ==
  ASSUME OnTheWay, Timely, RowsTyped, ContentHeld, UNCHANGED call, NEW r \in Requests,
         Step(r), SaveContent(r), Op(r) \in Updates
  PROVE  Settled(r) /\ Leading(r)'
<1> USE DEF SaveContent
<1>0. LocalsTyped /\ DOMAIN details = Requests /\ \A s \in stale : pc[s] # "idle"
  BY DEF OnTheWay, ContentHeld
<1>1. /\ target[r] \in Requests /\ target[r] = On(r) /\ seen[r] # NONE
      /\ Op(target[r]) \in Creates /\ (Op(r) = "updateArticle" <=> IsArticle(target[r]))
  BY TextFits
<1>2. Op(r)' = Op(r) /\ On(r)' = On(r) /\ \A q \in Requests : IsArticle(q)' = IsArticle(q)
  BY SameCalls DEF IsArticle
<1>3. pc'[r] \in {"refind_detail", "redirect"} /\ target'[r] = target[r]
  BY <1>0, Goes, HasWritten DEF Save
<1>4. PICK x \in Requests : x = target[r]
  BY <1>1
<1> DEFINE row == [slug |-> NewSlug(r),
                   status |-> IF Arg(r) = "NONE" THEN seen[r].status ELSE Arg(r),
                   text |-> r]
<1>5. rows'[x] = row /\ \A y \in Requests \ {x} : rows'[y] = rows[y]
  BY <1>0, <1>4 DEF Save, Put, LocalsTyped
<1>6. row.text = r
  OBVIOUS
<1>7. row # NONE
  BY TextFits, RowNotNone
<1> HIDE DEF row
<1>8. rows[x] # seen[r] => Overwritten(x)'
  BY <1>4, <1>2, <1>3 DEF Save, Writes, Overwritten
<1>9. ASSUME NEW y \in Requests, NEW w \in Requests, InRevision(y, w)
      PROVE  InRevision(y, w)'
  BY <1>9 DEF InRevision, contentVars
<1>10. ASSUME NEW y \in Requests, NEW w \in Requests, IsArticle(y), w \in WritersOf(y) \ {r},
             Wrote(w), InRow(y, w)
      PROVE  InRow(y, w)' \/ InRevision(y, w)' \/ Excused(y)'
  BY <1>5, <1>10, <1>8, <1>1, <1>4, <1>0, <1>9, ServicesAssumption, StaysExcused DEF InRow,
     Excused, ContentHeld, Revising
<1>11. ASSUME NEW y \in Requests \ {r}, Op(y) \in Creates, rows[y] = NONE
       PROVE  rows'[y] = NONE \/ Overwritten(y)'
  BY <1>1, <1>5, <1>8, <1>11
<1>12. Settled(r)
  BY <1>0, <1>9, <1>10, <1>11 DEF Settled, contentVars
<1>13. ASSUME Op(r) = "updateArticle", On(r) # NONE
       PROVE  Following(r)' /\ Revising(r)' /\ Recorded(On(r), r)'
  BY <1>13, <1>3, <1>5, <1>6, <1>7, <1>1, <1>2, <1>4, FollowsOn DEF Revising, Recorded, InRow,
     InRevision, Excused, Overwritten, Cleared, Crossed, WritersOf
<1>14. QED
  BY <1>2, <1>12, <1>13 DEF Leading, Updates, IsArticle, Creates, ArticleCreates
--------------------
\* Each author settles what it writes.
LEMMA UpdateSettles ==
  ASSUME OnTheWay, Timely, RowsTyped, ContentHeld, UNCHANGED call, NEW r \in Requests, ~Ended(r),
         Step(r), Op(r) \in Updates
  PROVE  Settled(r) /\ Leading(r)'
<1>0. LocalsTyped /\ DOMAIN details = Requests /\ Fits(Op(r), pc[r]) /\ Grips(r)
      /\ \A s \in stale : pc[s] # "idle"
  BY DEF OnTheWay, ContentHeld
<1> USE <1>0
<1>1. UpdateStep(r) \/ (Fails(r) /\ UNCHANGED <<rows, contentVars>>)
  BY AuthorsStep DEF Authors, Creates, ArticleCreates, Updates, Deletes, JobOps
<1>2. /\ Op(r)' = Op(r) /\ On(r)' = On(r) /\ IsArticle(r)' = IsArticle(r)
      /\ Op(r) \notin Creates /\ ~IsArticle(r)
  BY SameCalls DEF IsArticle, Updates, Creates, ArticleCreates
\* It is enough to look at an update of an article.
<1>3. ASSUME Op(r) = "updateArticle" /\ On(r) # NONE =>
               Following(r)' /\ Revising(r)' /\ Recorded(On(r), r)'
      PROVE  Leading(r)'
  BY <1>2, <1>3 DEF Leading
<1>4. ASSUME Op(r) = "updateArticle", On(r) # NONE PROVE On(r) \in Requests /\ IsArticle(On(r))
  BY <1>4, CallsTyped DEF OnTheWay, Names, IsArticle, OfProducts
<1>5. CASE UpdateFind(r)
  <2> USE <1>5 DEF UpdateFind
  <2>1. Settled(r)
    BY SettledAside DEF Find, recordVars, contentVars
  <2>2. ASSUME Op(r) = "updateArticle", On(r) # NONE
        PROVE  Following(r)' /\ Revising(r)' /\ Recorded(On(r), r)'
    <3>1. PICK x \in Requests : x = On(r)
      BY <1>4, <2>2
    <3>2. IsArticle(x) /\ rows[x] # NONE /\ Making(x)
      BY <1>4, <2>2, <3>1 DEF Find, Live, ContentHeld, IsArticle, Creates
    <3>3. pc'[r] = "find_detail" /\ Paces(r)
      BY <3>1, <3>2, Goes DEF Find
    <3>4. ~Made(r) /\ ~Made(r)' /\ Made(x)' = Made(x)
      BY SameCalls DEF Timely
    <3>5. Overwritten(x) => Overwritten(x)'
      BY StaysOverwritten
    <3>6. ASSUME pc[x] \notin {"idle", "insert_content", "ok"}
          PROVE  Together(r, x)'
      BY <3>3, <3>6, <3>4 DEF Paces, Timely, Together, Begun, Overlap
    <3>7. x \in before'[r] \/ Together(r, x)' \/ Overwritten(x)'
      BY <3>2, <3>3, <3>5, <3>6 DEF Making, Paces
    <3>8. Following(r)'
      BY <1>2, <3>1, <3>7 DEF Following, Together, Begun, Overlap, Made, Overwritten
    <3>9. Revising(r)' /\ Recorded(On(r), r)'
      BY <1>2, <2>2, <3>3 DEF Revising, Recorded, Wrote, ArticleCreates
    <3>10. QED
      BY <3>8, <3>9
  <2>3. QED
    BY <1>3, <2>1, <2>2
<1>6. CASE FindDetail(r)
  <2> USE <1>6 DEF FindDetail
  <2>1. Settled(r)
    BY SettledAside DEF contentVars
  <2>2. ASSUME Op(r) = "updateArticle", On(r) # NONE
        PROVE  Following(r)' /\ Revising(r)' /\ Recorded(On(r), r)'
    <3>1. Following(r)'
      BY <2>2, FollowsOn
    <3>2. target[r] = On(r)
      BY DEF Grips, Finders
    <3>3. pc'[r] = IF details[On(r)] = NONE THEN "save_content" ELSE "revise"
      BY <3>2, Goes
    <3>4. PICK x \in Requests : x = On(r)
      BY <1>4, <2>2
    <3>5. details[x] = NONE => Excused(x)
      BY <1>4, <2>2, <3>4, Undocumented
    <3>6. details[x] = NONE => Excused(x)'
      BY <3>5, StaysExcused
    <3>7. Revising(r)'
      BY <1>2, <3>3, <3>4, <3>6 DEF Revising, Excused, Overwritten, Cleared, Crossed, WritersOf
    <3>8. Recorded(On(r), r)'
      BY <1>2, <2>2, <3>3 DEF Recorded, Wrote, ArticleCreates
    <3>9. QED
      BY <3>1, <3>7, <3>8
  <2>3. QED
    BY <1>3, <2>1, <2>2
<1>7. CASE createRevision(r)
  <2> USE <1>7 DEF createRevision
  <2>1. Settled(r)
    BY SettledAside DEF recordVars
  <2>2. ASSUME Op(r) = "updateArticle", On(r) # NONE
        PROVE  Following(r)' /\ Revising(r)' /\ Recorded(On(r), r)'
    <3>1. Following(r)'
      BY <2>2, FollowsOn
    <3>2. target[r] = On(r)
      BY DEF Grips, Finders
    <3>3. pc'[r] = "save_content" /\ seen'[r] = seen[r]
      BY Goes, Stays
    <3>4. [of |-> On(r), row |-> seen[r].text, detail |-> held[r]] \in revisions'
      BY <3>2
    <3>5. Revising(r)'
      BY <1>2, <3>3, <3>4 DEF Revising, InRevision
    <3>6. Recorded(On(r), r)'
      BY <1>2, <2>2, <3>3 DEF Recorded, Wrote, ArticleCreates
    <3>7. QED
      BY <3>1, <3>5, <3>6
  <2>3. QED
    BY <1>3, <2>1, <2>2
<1>8. CASE SaveContent(r)
  BY <1>8, SaveSettles
\* After that the row is left alone.
<1>9. ASSUME UNCHANGED <<rows, revisions>>, Settled(r),
             pc[r] \in {"redirect", "refind_detail", "save_detail"},
             pc'[r] # "save_content"
      PROVE  Leading(r)'
  <2>1. ASSUME Op(r) = "updateArticle", On(r) # NONE
        PROVE  Following(r)' /\ Revising(r)' /\ Recorded(On(r), r)'
    <3>1. Following(r)'
      BY <1>9, <2>1, FollowsOn
    <3>2. Revising(r)'
      BY <1>9 DEF Revising
    <3>3. PICK x \in Requests : x = On(r)
      BY <1>4, <2>1
    <3>4. r \in WritersOf(x) /\ Wrote(r) /\ IsArticle(x)
      BY <1>4, <1>9, <2>1, <3>3 DEF WritersOf, Wrote
    <3>5. InRow(x, r) \/ InRevision(x, r) \/ Excused(x)
      BY <3>4 DEF ContentHeld, Recorded
    <3>6. InRow(x, r)' \/ InRevision(x, r)' \/ Excused(x)'
      BY <1>9, <3>5, StaysExcused DEF InRow, InRevision
    <3>7. Recorded(x, r)' /\ On(r)' = x
      BY <1>2, <3>3, <3>6 DEF Recorded
    <3>8. Recorded(On(r), r)'
      BY <3>7 DEF Recorded, InRow, InRevision, Excused, Overwritten, Cleared, Crossed, WritersOf
    <3>9. QED
      BY <3>1, <3>2, <3>8
  <2>2. QED
    BY <1>3, <2>1
<1>10. CASE SaveRedirect(r) \/ RefindDetail(r)
  BY <1>10, <1>9, SettledAside, Goes DEF SaveRedirect, RefindDetail, recordVars, contentVars
<1>11. CASE SaveDetail(r)
  BY <1>11, <1>9, SettledAside, Goes DEF SaveDetail, recordVars
<1>12. CASE Fails(r) /\ UNCHANGED <<rows, contentVars>>
  <2>1. Settled(r)
    BY <1>12, SettledAside DEF contentVars
  <2>2. pc[r] # "idle" /\ pc'[r] = "failed"
    BY <1>12, Goes DEF Fails
  <2>3. ASSUME Op(r) = "updateArticle", On(r) # NONE
        PROVE  Following(r)' /\ Revising(r)' /\ Recorded(On(r), r)'
    BY <1>2, <2>2, <2>3, FollowsOn DEF Revising, Recorded, Wrote, ArticleCreates
  <2>4. QED
    BY <1>3, <2>1, <2>3
<1>13. QED
  BY <1>1, <1>5, <1>6, <1>7, <1>8, <1>10, <1>11, <1>12 DEF UpdateStep

LEMMA DeleteSettles ==
  ASSUME OnTheWay, Timely, RowsTyped, ContentHeld, UNCHANGED call, NEW r \in Requests, ~Ended(r),
         Step(r), Op(r) \in Deletes
  PROVE  Settled(r) /\ Leading(r)'
<1>0. LocalsTyped /\ DOMAIN details = Requests /\ Fits(Op(r), pc[r]) /\ Grips(r)
      /\ \A s \in stale : pc[s] # "idle"
  BY DEF OnTheWay, ContentHeld
<1> USE <1>0
<1>1. DeleteStep(r) \/ (Fails(r) /\ UNCHANGED <<rows, contentVars>>)
  BY AuthorsStep DEF Authors, Creates, ArticleCreates, Updates, Deletes, JobOps
<1>2. Leading(r)'
  BY LeadingAside DEF Creates, ArticleCreates, Deletes
\* What is deleted is the article of the call.
<1>3. ASSUME pc[r] \in {"delete_content", "delete_detail", "delete_revisions"}
      PROVE  /\ target[r] \in Requests
             /\ \A x \in Requests : x = target[r] /\ IsArticle(x) => Cleared(x)'
  <2>1. target[r] \in Requests /\ target[r] = On(r)
    BY <1>3 DEF Grips, Finders
  <2>2. IsArticle(target[r]) => Op(r) = "deleteArticle"
    BY <2>1, CallsTyped, ServicesAssumption DEF OnTheWay, Names, IsArticle, OfProducts, Deletes,
       ArticleCreates
  <2>3. PICK x \in Requests : x = target[r]
    BY <2>1
  <2>4. Begun(r)
    BY <1>3 DEF Begun, Timely
  <2>5. IsArticle(x) => Cleared(x)
    BY <2>1, <2>2, <2>3, <2>4 DEF Cleared
  <2>6. IsArticle(x) => Cleared(x)'
    BY <2>5, StaysCleared
  <2>7. QED
    BY <2>1, <2>3, <2>6
<1>4. CASE DeleteFind(r)
  BY <1>2, <1>4, SettledAside DEF DeleteFind, Find, recordVars, contentVars
<1>5. CASE DeleteRow(r)
  <2> USE <1>5 DEF DeleteRow
  <2>1. PICK x \in Requests : x = target[r]
    BY <1>3
  <2>2. rows'[x] = NONE /\ \A y \in Requests \ {x} : rows'[y] = rows[y]
    BY <2>1 DEF Put, LocalsTyped
  <2>3. IsArticle(x) => Excused(x)'
    BY <1>3, <2>1 DEF Excused
  <2>4. \A y, w \in Requests : InRevision(y, w) => InRevision(y, w)'
    BY DEF InRevision, contentVars
  <2>5. \A y, w \in Requests : IsArticle(y) /\ InRow(y, w) => InRow(y, w)' \/ Excused(y)'
    BY <2>2, <2>3 DEF InRow
  <2>6. \A y \in Requests : rows[y] = NONE => rows'[y] = NONE
    BY <2>2
  <2>7. Settled(r)
    BY <2>4, <2>5, <2>6 DEF Settled, contentVars
  <2>8. QED
    BY <1>2, <2>7
<1>6. CASE DeleteDetail(r)
  BY <1>6, <1>3, <1>2 DEF DeleteDetail, recordVars, InRevision, InRow, Settled
<1>7. CASE DeleteRevisions(r)
  <2> USE <1>7 DEF DeleteRevisions
  <2>1. UNCHANGED <<rows, details>>
    BY DEF recordVars
  <2>2. \A y, w \in Requests :
          IsArticle(y) /\ InRevision(y, w) => InRevision(y, w)' \/ Excused(y)'
    <3>1. ASSUME NEW y \in Requests, NEW w \in Requests, IsArticle(y), InRevision(y, w)
          PROVE  InRevision(y, w)' \/ Excused(y)'
      BY <1>3, <3>1 DEF Excused, InRevision
    <3>2. QED
      BY <3>1
  <2>3. \A y, w \in Requests : InRow(y, w) => InRow(y, w)'
    BY <2>1 DEF InRow
  <2>4. QED
    BY <1>2, <2>1, <2>2, <2>3 DEF Settled
<1>8. CASE DeleteRedirects(r)
  BY <1>2, <1>8, SettledAside DEF DeleteRedirects, recordVars
<1>9. CASE DeleteShortlinks(r)
  BY <1>9, <1>2, SettledAside DEF DeleteShortlinks, Table, Creates, ArticleCreates,
     contentVars
<1>10. CASE Fails(r) /\ UNCHANGED <<rows, contentVars>>
  BY <1>2, <1>10, SettledAside DEF contentVars
<1>11. QED
  BY <1>1, <1>4, <1>5, <1>6, <1>7, <1>8, <1>9, <1>10 DEF DeleteStep

LEMMA JobSettles ==
  ASSUME OnTheWay, Timely, RowsTyped, ContentHeld, UNCHANGED call, NEW r \in Requests, ~Ended(r),
         Step(r), Op(r) \in JobOps
  PROVE  Settled(r) /\ Leading(r)'
<1>0. LocalsTyped /\ DOMAIN details = Requests /\ Fits(Op(r), pc[r]) /\ Facing(r)
      /\ \A s \in stale : pc[s] # "idle"
  BY DEF OnTheWay, ContentHeld, RowsTyped
<1>1. JobStep(r) \/ (Fails(r) /\ UNCHANGED <<rows, contentVars>>)
  BY AuthorsStep DEF Authors, Creates, ArticleCreates, Updates, Deletes, JobOps
<1>2. Leading(r)'
  BY LeadingAside DEF Creates, ArticleCreates, JobOps
<1>3. CASE PublishFind(r) \/ PublishEnd(r)
  BY <1>0, <1>2, <1>3, SettledAside DEF PublishFind, PublishEnd, recordVars, contentVars
<1>4. ASSUME NEW x \in Requests, Publish(r, x) PROVE Settled(r)
  <2> USE <1>4 DEF Publish
  <2>1. Op(r) = "processScheduledPosts" /\ Op(r)' = Op(r)
    BY <1>0, SameCalls DEF Fits
  <2>2. IsArticle(x) /\ RowFits(Op(x), seen[r][x]) /\ seen[r][x] # NONE
    BY <1>0, RowNotNone DEF Facing
  <2>3. seen[r][x] \in ArticleRows
    BY <2>2 DEF RowFits, IsArticle
  <2> DEFINE row == [seen[r][x] EXCEPT !.status = "PUBLISHED"]
  <2>4. row \in ArticleRows /\ row.text = seen[r][x].text
    BY <2>3 DEF ArticleRows
  <2>5. row # NONE
    BY <2>2, <2>4, Fitting, RowNotNone DEF IsArticle
  <2>6. rows'[x] = row /\ \A y \in Requests \ {x} : rows'[y] = rows[y]
    BY <1>0 DEF Put, LocalsTyped
  <2> HIDE DEF row
  <2>7. rows[x] # seen[r][x] => Overwritten(x)'
    BY <2>1 DEF Overwritten
  <2>8. \A y, w \in Requests : InRevision(y, w) => InRevision(y, w)'
    BY DEF InRevision, contentVars
  <2>9. \A y, w \in Requests : InRow(y, w) => InRow(y, w)' \/ Excused(y)'
    <3>1. ASSUME NEW y \in Requests, NEW w \in Requests, InRow(y, w)
          PROVE  InRow(y, w)' \/ Excused(y)'
      BY <2>6, <3>1, <2>4, <2>5, <2>7 DEF InRow, Excused
    <3>2. QED
      BY <3>1
  <2>10. \A y \in Requests : rows[y] = NONE => rows'[y] = NONE \/ Overwritten(y)'
    BY <2>2, <2>6, <2>7
  <2>11. QED
    BY <1>0, <2>8, <2>9, <2>10 DEF Settled, contentVars
<1>5. CASE cleanupOldRevisions(r)
  BY <1>5, <1>0, <1>2, SameCalls, Goes DEF cleanupOldRevisions, recordVars, Began, Begun,
     Timely, Excused, Cleared, InRow, Settled
<1>6. CASE Fails(r) /\ UNCHANGED <<rows, contentVars>>
  BY <1>0, <1>2, <1>6, SettledAside DEF contentVars
<1>7. QED
  BY <1>1, <1>2, <1>3, <1>4, <1>5, <1>6 DEF JobStep
--------------------
\* Nobody else writes it.
LEMMA AsideSettles ==
  ASSUME OnTheWay, ContentHeld, UNCHANGED call, NEW r \in Requests, Step(r), Op(r) \notin Authors
  PROVE  Settled(r) /\ Leading(r)'
<1>1. /\ UNCHANGED contentVars
      /\ \A x \in Requests : Op(x) \in Creates => rows'[x] = rows[x]
  BY ContentAside
<1>2. Settled(r)
  BY <1>1, SettledAside DEF contentVars, ContentHeld
<1>3. QED
  BY <1>2, LeadingAside DEF Authors, Creates, ArticleCreates, Updates
LEMMA StepContentHeld ==
  ASSUME OnTheWay, Timely, RowsTyped, ContentHeld, UNCHANGED call, NEW r \in Requests, ~Ended(r),
         Step(r)
  PROVE  ContentHeld'
<1>1. Settled(r) /\ Leading(r)'
  BY CreateSettles, UpdateSettles, DeleteSettles, JobSettles, AsideSettles DEF Authors
<1>2. QED
  BY <1>1, ContentSettles

LEMMA InitContentInv == Init => ContentInv
BY InitOnTheWay, InitTimely, InitRowsTyped, InitContentHeld DEF ContentInv
LEMMA NextContentInv == ContentInv /\ [Next]_vars => ContentInv'
<1> SUFFICES ASSUME ContentInv, [Next]_vars PROVE ContentInv'
  OBVIOUS
<1>1. OnTheWay' /\ Timely' /\ RowsTyped'
  BY NextOnTheWay, NextTimely, NextRowsTyped DEF ContentInv
<1>2. ASSUME NEW r \in Requests, ~Ended(r), Step(r), UNCHANGED call PROVE ContentHeld'
  BY <1>2, StepContentHeld DEF ContentInv
<1>3. ASSUME UNCHANGED <<callVars, rows, held, contentVars>> PROVE ContentHeld'
  <2>1. UNCHANGED <<call, pc, target, seen, stale, before, rows, details, revisions>>
    BY <1>3 DEF callVars, locals, contentVars
  <2>2. \A q : /\ Op(q)' = Op(q) /\ On(q)' = On(q) /\ Made(q)' = Made(q)
               /\ WritersOf(q)' = WritersOf(q) /\ IsArticle(q)' = IsArticle(q)
    BY <2>1 DEF Op, On, Made, WritersOf, IsArticle
  <2>3. \A q, s : Together(q, s)' = Together(q, s)
    BY <2>1, <2>2 DEF Together, Begun, Overlap
  <2>4. \A x : Excused(x)' = Excused(x) /\ Overwritten(x)' = Overwritten(x)
              /\ Cleared(x)' = Cleared(x)
    BY <2>1, <2>2, <2>3 DEF Excused, Overwritten, Cleared, Crossed, Begun
  <2>5. \A x, w : InRow(x, w)' = InRow(x, w) /\ InRevision(x, w)' = InRevision(x, w)
                 /\ Wrote(w)' = Wrote(w)
    BY <2>1, <2>2 DEF InRow, InRevision, Wrote
  <2>6. ContentHeld
    BY DEF ContentInv
  <2>7. \A x \in Requests : Op(x) \in Creates => Making(x)'
    BY <2>1, <2>2, <2>4, <2>6 DEF ContentHeld, Making
  <2>8. \A x \in Requests :
          IsArticle(x) => Documented(x)' /\ \A w \in WritersOf(x) : Recorded(x, w)'
    BY <2>1, <2>2, <2>4, <2>5, <2>6 DEF ContentHeld, Documented, Recorded
  <2>9. ASSUME NEW u \in Requests, Op(u) = "updateArticle", On(u) # NONE
        PROVE  Following(u)' /\ Revising(u)'
    <3>1. PICK x : x = On(u)
      OBVIOUS
    <3>2. PICK w : w = seen[u].text
      OBVIOUS
    <3>3. Following(u)'
      BY <2>1, <2>2, <2>3, <2>4, <2>6, <2>9, <3>1 DEF ContentHeld, Following
    <3>4. (pc[u] = "save_content" => InRevision(x, w) \/ Excused(x))
      BY <2>6, <2>9, <3>1, <3>2 DEF ContentHeld, Revising
    <3>5. On(u)' = x /\ seen'[u].text = w
      BY <2>1, <2>2, <3>1, <3>2
    <3>6. pc'[u] = "save_content" => InRevision(x, w)' \/ Excused(x)'
      BY <2>1, <2>4, <2>5, <3>4
    <3>7. QED
      BY <3>3, <3>5, <3>6 DEF Revising, InRevision, Excused, Overwritten, Cleared, Crossed,
      WritersOf
  <2>10. DOMAIN details' = Requests /\ \A s \in stale' : pc'[s] # "idle"
    BY <2>1, <2>6 DEF ContentHeld
  <2>11. \A q \in Requests : /\ Op(q)' = Op(q) /\ On(q)' = On(q)
                             /\ IsArticle(q)' = IsArticle(q) /\ WritersOf(q)' = WritersOf(q)
    BY <2>2
  <2>12. ASSUME NEW x \in Requests, IsArticle(x), NEW w \in WritersOf(x)
         PROVE  Recorded(x, w)'
    BY <2>8, <2>12
  <2>13. QED
    BY <2>7, <2>8, <2>9, <2>10, <2>11, <2>12 DEF ContentHeld
<1>4. QED
  BY <1>1, <1>2, <1>3, Moves DEF ContentInv
LEMMA ContentIsKept == ContentInv => ContentKept
<1> SUFFICES ASSUME ContentInv PROVE ContentKept
  OBVIOUS
<1>1. ASSUME NEW x, Overwritten(x)
      PROVE  \E s \in stale : target[s] = x \/ Op(s) = "processScheduledPosts"
  BY <1>1 DEF Overwritten
<1>2. ASSUME NEW x \in Requests, IsArticle(x), NEW w \in WritersOf(x), pc[w] = "ok"
      PROVE  InRow(x, w) \/ InRevision(x, w) \/ Excused(x)
  BY <1>2 DEF Wrote, WritersOf, IsArticle, ContentInv, ContentHeld, Recorded
<1>3. ASSUME NEW x \in Requests, Op(x) \in Creates, pc[x] = "failed", target[x] = NONE
      PROVE  rows[x] = NONE \/ Overwritten(x)
  BY <1>3 DEF ContentInv, ContentHeld, Making
<1>4. QED
  BY <1>1, <1>2, <1>3 DEF ContentKept, InRow, InRevision, Excused, Cleared, Crossed

\* No text of an article is lost: what an acknowledged call wrote is in the row
\* or in a revision, and an undone create leaves no row, but for an overlapping
\* save of what was read before.  However many calls there are.
THEOREM ContentStaysKept == Spec => []ContentKept
<1>1. Init => ContentInv
  BY InitContentInv
<1>2. ContentInv /\ [Next]_vars => ContentInv'
  BY NextContentInv
<1>3. ContentInv => ContentKept
  BY ContentIsKept
<1>4. QED
  BY <1>1, <1>2, <1>3, PTL DEF Spec
--------------------
\* The cache
LEMMA KeptKeys ==
  ASSUME NEW k \in CacheKeys, OpsOf(k) # {}
  PROVE  \/ k = <<"coupon", k[2]>> /\ OpsOf(k) = CouponOps
         \/ k = <<"promotions", NONE>> /\ OpsOf(k) = PromotionOps
         \/ k = <<"menu", k[2]>> /\ OpsOf(k) = MenuOps
<1>1. CASE k \in {"coupon", "menu"} \X Keys
  BY <1>1 DEF OpsOf
<1>2. CASE k \in {"promotions", "sitemap", "rss"} \X {NONE}
  BY <1>2 DEF OpsOf
<1>3. QED
  BY <1>1, <1>2 DEF CacheKeys

\* The calls of a family take the steps of this service, and others leave its
\* entries alone.
LEMMA CacheSteps ==
  ASSUME OnTheWay, NEW r \in Requests, Step(r), Op(r) \in Cachers
  PROVE  \/ CacheStep(r)
         \/ Fails(r) /\ UNCHANGED <<recordVars, cache>>
<1> USE DEF Cachers, CouponOps, PromotionOps, MenuOps
<1>1. Op(r) \notin ContentCalls
  BY DEF ContentCalls, ArticleOps, ProductOps, AdvancedOps, JobOps
<1>2. Op(r) \notin LearningCalls
  BY DEF LearningCalls, CourseOps, CurriculumOps, PlayerOps, AssessmentOps,
     CredentialOps, ForumOps, ReviewOps, OperationOps, AdvancedLearningOps, ReportingOps
<1>3. Op(r) \notin RegistryOps \cup MarketingCalls
  BY DEF RegistryOps, MarketingCalls, BundleOps, AffiliateOps, LoyaltyOps, AbandonedOps
<1>4. Op(r) \notin BackofficeCalls
  BY DEF BackofficeCalls, Slips, Statuses, UpdatedTo, WishOps
<1>5. QED
  BY <1>1, <1>2, <1>3, <1>4, ContentFamily, LearningFamily, RegistryFamily, MarketingFamily,
     BackofficeFamily DEF Step

LEMMA CacheAside ==
  ASSUME OnTheWay, NEW r \in Requests, Step(r), Op(r) \notin Cachers,
         NEW k \in CacheKeys, OpsOf(k) # {}
  PROVE  DOMAIN cache' = DOMAIN cache /\ cache'[k] = cache[k]
<1>0. Fits(Op(r), pc[r])
  BY DEF OnTheWay
<1>1. CASE CacheStep(r)
  <2>1. Op(r) \in FeedOps
    BY <1>1, CacheFamily DEF CacheCalls, Cachers
  <2>2. CASE CacheSet(r)
    BY <2>1, <2>2, KeptKeys DEF SetKey, CacheReads, CacheKey, FeedOps, CacheSet
  <2>3. CASE ~CacheSet(r)
    BY <1>0, <2>1, <1>1, <2>3 DEF CacheDel, Fits, FeedOps, CacheStep, CacheReadStep, CacheGet,
       CacheQuery, LogCoupon, CouponStep, createCoupon, CouponFind, SaveCoupon, PromotionStep,
       createPromotion, PromotionFind, SavePromotion, MenuStep, MenuFind, SaveMenu, CacheListStep
  <2>4. QED
    BY <2>2, <2>3
<1>2. CASE UNCHANGED cache
  BY <1>2
<1>3. QED
  BY <1>1, <1>2 DEF Step

LEMMA OriginsLeft ==
  ASSUME OnTheWay, UNCHANGED call, NEW r \in Requests, Step(r), NEW x \in Requests,
         Op(x) \in Origins, rows'[x] # rows[x]
  PROVE  /\ Op(r) \in CacheWrites
         /\ Op(x) = "createCoupon" => Op(r) \in CouponOps
         /\ Op(x) = "createPromotion" => Op(r) \in PromotionOps
         /\ Op(x) = "saveMenu" => Op(r) \in MenuOps
<1>0. Fits(Op(r), pc[r]) /\ Op(r) \in Ops
  BY CallsTyped DEF OnTheWay
<1>1. Reaches(Op(r), Op(x))
  BY StepStrides DEF Strides, Touches
<1>2. /\ Op(x) = "createCoupon" =>
           Op(r) \in {"createCoupon", "updateCoupon", "removeCoupon", "findOneCoupon"}
      /\ Op(x) = "createPromotion" =>
           Op(r) \in {"createPromotion", "updatePromotion", "removePromotion",
                      "findOnePromotion"}
      /\ Op(x) = "saveMenu" => Op(r) = "saveMenu"
  BY <1>1 DEF Reaches, Names, Creates, ArticleCreates, OfProducts
<1>3. Op(r) \notin {"findOneCoupon", "findOnePromotion"}
  <2> SUFFICES ASSUME Op(r) \in {"findOneCoupon", "findOnePromotion"} PROVE FALSE
    OBVIOUS
  <2>1. UNCHANGED rows
    BY <1>0, CacheSteps DEF Cachers, CouponOps, PromotionOps, CacheStep, CacheReadStep,
       CacheGet, CacheQuery, CacheSet, LogCoupon, CouponStep, createCoupon, CouponFind,
       SaveCoupon, PromotionStep, createPromotion, PromotionFind, SavePromotion, MenuStep,
       MenuFind, SaveMenu, CacheListStep, CacheDel, Answer, Began, recordVars, Fits, CacheReads
  <2>2. QED
    BY <2>1
<1>4. QED
  BY <1>2, <1>3 DEF Origins, CacheWrites, CacheReads, CouponOps, PromotionOps, MenuOps, FeedOps

\* What is kept under a key changes only with the rows it is made of.
LEMMA CouponsSame ==
  ASSUME UNCHANGED call, NEW c,
         \A x \in Requests : Op(x) = "createCoupon" =>
           \/ rows'[x] = rows[x]
           \/ /\ rows[x] # NONE => rows[x].code # c
              /\ rows'[x] # NONE => rows'[x].code # c
  PROVE  Entities(Coupon(c))' = Entities(Coupon(c))
<1>1. \A x \in Requests : Op(x)' = Op(x)
  BY SameCalls
<1>2. Coupon(c)' = Coupon(c)
  BY <1>1 DEF Coupon, Table
<1>3. \A x \in Coupon(c) : rows'[x] = rows[x]
  BY DEF Coupon, Table
<1>4. QED
  BY <1>2, <1>3 DEF Entities

LEMMA CurrentSame ==
  ASSUME OnTheWay, UNCHANGED call, NEW r \in Requests, Step(r), NEW k \in CacheKeys, OpsOf(k) # {},
         Op(r) \notin OpsOf(k) \cap CacheWrites
  PROVE  Current(k)' = Current(k)
<1>0. \A x \in Requests : Op(x)' = Op(x)
  BY SameCalls
<1>1. CASE k = <<"coupon", k[2]>> /\ OpsOf(k) = CouponOps
  <2>1. \A x \in Requests : Op(x) = "createCoupon" => rows'[x] = rows[x]
    BY <1>1, OriginsLeft DEF Origins
  <2>2. Entities(Coupon(k[2]))' = Entities(Coupon(k[2]))
    BY <2>1, CouponsSame
  <2>3. QED
    BY <1>1, <2>2 DEF Current
<1>2. CASE k = <<"promotions", NONE>> /\ OpsOf(k) = PromotionOps
  BY <1>2, <1>0, OriginsLeft DEF Origins, Table, Entities, Current
<1>3. CASE k = <<"menu", k[2]>> /\ OpsOf(k) = MenuOps
  <2>1. \A x \in Requests : Op(x) = "saveMenu" => rows'[x] = rows[x]
    BY <1>3, OriginsLeft DEF Origins
  <2>2. Menu(k[2])' = Menu(k[2])
    BY <1>0, <2>1 DEF Menu, Table
  <2>3. \A x \in Menu(k[2]) : rows'[x] = rows[x]
    BY <2>1 DEF Menu, Table
  <2>4. {Entities({x}) : x \in Menu(k[2])}' = {Entities({x}) : x \in Menu(k[2])}
    BY <2>2, <2>3 DEF Entities
  <2>5. k[1] = "menu"
    BY <1>3
  <2>6. QED
    BY <2>4, <2>5 DEF Current
<1>4. QED
  BY <1>1, <1>2, <1>3, KeptKeys
--------------------
\* A key that is calm has been so.
LEMMA WasCalm ==
  ASSUME OnTheWay, UNCHANGED call, NEW r \in Requests, Strides(r), NEW k, Calm(k)'
  PROVE  Calm(k)
<1>1. \A q \in Requests : Op(q)' = Op(q) /\ Place(q)' = Place(q)
  BY SameCalls DEF Place
<1>2. ASSUME NEW w \in Requests, Writing(w, k) PROVE Writing(w, k)'
  BY <1>1, <1>2, StaysBegun DEF Writing, OpsOf
<1>3. ASSUME NEW w \in Requests, NEW s \in Requests, Together(w, s) PROVE Together(w, s)'
  BY <1>3, StaysTogether
<1>4. ASSUME NEW w \in Requests, Writing(w, k)
      PROVE  /\ Op(w) = "saveMenu" => Place(w) = k[2]
             /\ \A s \in Requests : Op(s) \in OpsOf(k) => ~Together(w, s)
  BY <1>1, <1>2, <1>3, <1>4 DEF Calm, OpsOf
<1>5. QED
  BY <1>4 DEF Calm
\* Beside a writer nobody is under way then.
LEMMA NobodyBeside ==
  ASSUME OnTheWay, Timely, UNCHANGED call, NEW r \in Requests, ~Ended(r), Strides(r), NEW k,
         Op(r) \in OpsOf(k) \cap CacheWrites, Calm(k)'
  PROVE  /\ \A s \in Requests \ {r} : Op(s) \in OpsOf(k) => pc[s] \in {"idle", "ok"}
         /\ Op(r) = "saveMenu" => Place(r) = k[2]
<1>1. \A q \in Requests : Op(q)' = Op(q) /\ Place(q)' = Place(q) /\ Made(q)' = Made(q)
  BY SameCalls DEF Place
<1>2. Begun(r)'
  BY <1>1 DEF Begun, Timely, Ended, Strides, Own, Paces
<1>3. Writing(r, k)'
  BY <1>1, <1>2 DEF Writing, OpsOf
<1>4. ASSUME NEW s \in Requests \ {r}, Op(s) \in OpsOf(k), pc[s] \notin {"idle", "ok"}
      PROVE  FALSE
  BY <1>4, <1>1, <1>2, <1>3 DEF Strides, Own, Paces, Timely, Ended, Together, Begun, Overlap,
     Calm, OpsOf
<1>5. Op(r) = "saveMenu" => Place(r) = k[2]
  BY <1>1, <1>3 DEF Calm
<1>6. QED
  BY <1>4, <1>5

\* Who carries a coupon has found one.
LEMMA CouponSeen ==
  ASSUME OnTheWay, NEW q \in Requests, pc[q] = "save_coupon"
  PROVE  target[q] \in Requests /\ Op(target[q]) = "createCoupon"
         /\ Op(q) \in {"updateCoupon", "removeCoupon"}
<1>1. Op(q) \in {"updateCoupon", "removeCoupon"} /\ target[q] \in Requests /\ target[q] = On(q)
  BY DEF OnTheWay, Fits, Grips, Finders
<1>2. QED
  BY <1>1, CallsTyped, ServicesAssumption DEF OnTheWay, Names, OfProducts

\* What others carry is not touched by who does not write.
LEMMA CarriesOn ==
  ASSUME OnTheWay, UNCHANGED call, NEW r \in Requests, Step(r), NEW k \in CacheKeys,
         OpsOf(k) # {}, Op(r) \notin OpsOf(k) \cap CacheWrites, NEW q \in Requests \ {r},
         Op(q) \in OpsOf(k), Carries(q, k)
  PROVE  Carries(q, k)'
<1>0. /\ pc'[q] = pc[q] /\ held'[q] = held[q] /\ seen'[q] = seen[q] /\ target'[q] = target[q]
  BY StepStrides DEF Strides, Own, Paces, Bears, Holds
<1>1. Op(q)' = Op(q) /\ CacheKey(q)' = CacheKey(q) /\ \A x \in Requests : Op(x)' = Op(x)
  BY SameCalls DEF CacheKey
<1>2. Current(k)' = Current(k)
  BY CurrentSame
<1>3. ASSUME pc[q] = "save_coupon" PROVE rows'[target[q]] = rows[target[q]]
  <2>1. target[q] \in Requests /\ Op(target[q]) = "createCoupon" /\ Op(q) \in CouponOps
    BY <1>3, CouponSeen DEF CouponOps
  <2>2. OpsOf(k) = CouponOps
    BY <2>1, KeptKeys DEF CouponOps, PromotionOps, MenuOps
  <2>3. PICK x \in Requests : x = target[q]
    BY <2>1
  <2>4. rows'[x] = rows[x]
    BY <2>1, <2>2, <2>3, OriginsLeft DEF Origins
  <2>5. QED
    BY <2>3, <2>4
<1>4. ASSUME Op(q) \in {"createCoupon", "updateCoupon"}, NEW x \in Table("createCoupon"),
             held[q] = Entities({x})
      PROVE  x \in Table("createCoupon")' /\ held'[q] = Entities({x})'
  BY <1>4, <1>0, <1>1, KeptKeys, OriginsLeft DEF CouponOps, PromotionOps, MenuOps, Origins,
     Table, Entities
<1>5. QED
  BY <1>0, <1>1, <1>2, <1>3, <1>4 DEF Carries
--------------------
\* A reader has found what the table holds ...
LEMMA ReaderFinds ==
  ASSUME OnTheWay, CodesUnique, NEW r \in Requests, NEW k \in CacheKeys,
         Op(r) \in OpsOf(k) \cap CacheReads, CacheKey(r) = k, NEW found \in Found(r),
         ~(found = {} /\ Op(r) \in {"validateCoupon", "getMenu"})
  PROVE  found \in Current(k)
<1>0. OpsOf(k) # {}
  OBVIOUS
<1>1. CASE Op(r) = "validateCoupon"
  <2>1. k = <<"coupon", Key(r)>>
    BY <1>1 DEF CacheKey
  <2>2. PICK c : c = Key(r)
    OBVIOUS
  <2>3. found = Entities({x \in Coupon(c) : rows[x].active}) /\ found # {}
    BY <1>1, <2>2 DEF Found
  <2>4. {x \in Coupon(c) : rows[x].active} # {}
    BY <2>3 DEF Entities
  <2>5. {x \in Coupon(c) : rows[x].active} = Coupon(c)
    BY <2>4 DEF Coupon, CodesUnique
  <2>6. k[1] = "coupon" /\ k[2] = c
    BY <2>1, <2>2
  <2>7. found = Entities(Coupon(k[2]))
    BY <2>3, <2>5, <2>6
  <2>8. QED
    BY <2>6, <2>7 DEF Current
<1>2. CASE Op(r) = "getMenu"
  BY <1>2 DEF CacheKey, Found, Current
<1>3. CASE Op(r) = "findAllPromotions"
  BY <1>3 DEF CacheKey, Found, Current
<1>4. QED
  BY <1>0, <1>1, <1>2, <1>3, KeptKeys DEF CacheReads, FeedOps, CouponOps, PromotionOps, MenuOps

\* ... and fills the entry with it.
LEMMA ReaderFills ==
  ASSUME OnTheWay, CodesUnique, UNCHANGED call, NEW r \in Requests, Step(r), NEW k \in CacheKeys,
         Op(r) \in OpsOf(k) \ CacheWrites, Carries(r, k), DOMAIN cache = CacheKeys
  PROVE  /\ Carries(r, k)' /\ DOMAIN cache' = CacheKeys
         /\ cache'[k] = cache[k] \/ cache'[k] \in Current(k)
<1>0. LocalsTyped /\ Fits(Op(r), pc[r])
  BY DEF OnTheWay
<1> USE <1>0
<1>1. OpsOf(k) # {} /\ Op(r) \in Cachers
  BY KeptKeys DEF Cachers
<1>2. /\ Op(r)' = Op(r) /\ CacheKey(r)' = CacheKey(r)
      /\ Op(r) \notin {"createCoupon", "updateCoupon", "removeCoupon", "createPromotion",
                       "updatePromotion", "removePromotion", "saveMenu"}
  BY <1>1, SameCalls DEF CacheKey, CacheWrites, CacheReads, FeedOps, Cachers, CouponOps,
  PromotionOps, MenuOps
<1>3. Current(k)' = Current(k)
  BY <1>1, CurrentSame
<1>4. ASSUME pc'[r] \notin {"cache_set", "save_coupon"} PROVE Carries(r, k)'
  BY <1>2, <1>4 DEF Carries
<1>5. CASE CacheGet(r)
  BY <1>5, <1>4, Goes DEF CacheGet
<1>6. CASE CacheQuery(r)
  <2>1. PICK found \in Found(r) :
          /\ Hold(r, found)
          /\ Goto(r, IF found = {} /\ Op(r) \in {"validateCoupon", "getMenu"}
                     THEN "ok" ELSE "cache_set")
    BY <1>6 DEF CacheQuery
  <2>2. Op(r) \in CacheReads /\ UNCHANGED cache
    BY <1>6 DEF CacheQuery, Fits
  <2>3. held'[r] = found
    BY <2>1, HasHeld
  <2>4. CASE found = {} /\ Op(r) \in {"validateCoupon", "getMenu"}
    BY <2>1, <2>4, <1>4, <2>2, Goes
  <2>5. CASE ~(found = {} /\ Op(r) \in {"validateCoupon", "getMenu"})
    BY <2>1, <2>5, <2>2, <1>2, <1>3, <2>3, Goes, ReaderFinds DEF Carries
  <2>6. QED
    BY <2>4, <2>5
<1>7. CASE CacheSet(r)
  BY <1>7, <1>2, <1>4, Goes DEF CacheSet, Fits, SetKey, Carries
<1>8. CASE LogCoupon(r)
  BY <1>8, <1>4, Goes DEF LogCoupon
<1>9. CASE CacheListStep(r)
  BY <1>9, <1>4, Goes DEF CacheListStep, Answer
<1>10. CASE Fails(r) /\ UNCHANGED <<recordVars, cache>>
  BY <1>10, <1>4, Goes DEF Fails
<1>11. ~CouponStep(r) /\ ~PromotionStep(r) /\ ~MenuStep(r) /\ ~CacheDel(r)
  BY <1>2 DEF CouponStep, createCoupon, CouponFind, SaveCoupon, PromotionStep,
     createPromotion, PromotionFind, SavePromotion, MenuStep, MenuFind, SaveMenu, CacheDel,
     Began, Fits
<1>12. QED
  BY <1>1, <1>5, <1>6, <1>7, <1>8, <1>9, <1>10, <1>11, CacheSteps DEF CacheStep, CacheReadStep
--------------------
\* Its single entries
LEMMA OnlyEntry ==
  ASSUME NEW x, NEW row
  PROVE  (CHOOSE e \in {<<x, row>>} : TRUE)[2] = row
<1>1. (CHOOSE e \in {<<x, row>>} : TRUE) = <<x, row>>
  OBVIOUS
<1>2. QED
  BY <1>1

LEMMA EntriesOfOne ==
  ASSUME NEW x
  PROVE  Entities({x}) = {<<x, rows[x]>>}
BY DEF Entities

\* A writer that has begun, and one that fails
LEMMA WritesOn ==
  ASSUME OnTheWay, Timely, UNCHANGED call, NEW r \in Requests, ~Ended(r), Step(r), NEW k,
         Op(r) \in OpsOf(k) \cap CacheWrites
  PROVE  Writing(r, k)' /\ Op(r)' = Op(r) /\ Op(r) \notin CacheReads
<1>1. Op(r)' = Op(r) /\ Made(r)' = Made(r) /\ pc'[r] # "idle"
  BY SameCalls, StepStrides DEF Strides, Own, Paces
<1>2. ~Made(r)
  BY DEF Timely, Ended
<1>3. QED
  BY <1>1, <1>2 DEF Writing, Begun, OpsOf, CacheWrites

LEMMA WriterFails ==
  ASSUME OnTheWay, Timely, UNCHANGED <<call, cache>>, NEW r \in Requests, ~Ended(r), Step(r), NEW k,
         Op(r) \in OpsOf(k) \cap CacheWrites, Fails(r)
  PROVE  Owes(r, k)' /\ Carries(r, k)'
<1>1. pc'[r] = "failed"
  BY Goes DEF OnTheWay, Fails
<1>2. QED
  BY <1>1, WritesOn DEF Owes, Carries

LEMMA PromotionWrites ==
  ASSUME OnTheWay, Timely, DOMAIN cache = CacheKeys, UNCHANGED call, NEW r \in Requests, ~Ended(r),
         Step(r), NEW k \in CacheKeys, k = <<"promotions", NONE>>, OpsOf(k) = PromotionOps,
         Op(r) \in PromotionOps \cap CacheWrites, Fresh(k) \/ Owes(r, k)
  PROVE  DOMAIN cache' = CacheKeys /\ (Fresh(k)' \/ Owes(r, k)') /\ Carries(r, k)'
<1>0. LocalsTyped /\ Fits(Op(r), pc[r])
  BY DEF OnTheWay
<1>1. Op(r) \in {"createPromotion", "updatePromotion", "removePromotion"} /\ Op(r) \in Cachers
  BY DEF PromotionOps, CacheWrites, CacheReads, FeedOps, Cachers
<1>2. Writing(r, k)' /\ Op(r)' = Op(r) /\ Op(r) \notin CacheReads
  BY WritesOn
<1>3. ASSUME pc'[r] # "save_coupon" PROVE Carries(r, k)'
  BY <1>1, <1>2, <1>3 DEF Carries
<1>4. ASSUME pc'[r] = "cache_del" PROVE Owes(r, k)'
  BY <1>1, <1>2, <1>4 DEF Owes, DelKey, CouponOps, PromotionOps
<1>5. CASE createPromotion(r) \/ SavePromotion(r)
  BY <1>0, <1>5, <1>3, <1>4, Goes DEF createPromotion, SavePromotion, Save
<1>6. CASE PromotionFind(r)
  BY <1>0, <1>6, <1>3, Goes, SameCalls DEF PromotionFind, Find, recordVars, Owes, Table,
     Entities, Current, Fresh
<1>7. CASE CacheDel(r)
  BY <1>0, <1>1, <1>7, <1>3, Goes DEF CacheDel, DelKey, CouponOps, PromotionOps, Fresh
<1>8. CASE Fails(r) /\ UNCHANGED <<recordVars, cache>>
  BY <1>8, WriterFails
<1>9. ~CacheReadStep(r) /\ ~CouponStep(r) /\ ~MenuStep(r) /\ ~CacheListStep(r)
  BY <1>0, <1>1, <1>2 DEF CacheReadStep, CacheGet, CacheQuery, CacheSet, LogCoupon, CouponStep,
     createCoupon, CouponFind, SaveCoupon, MenuStep, MenuFind, SaveMenu, CacheListStep, Answer,
     Began, Fits
<1>10. QED
  BY <1>1, <1>5, <1>6, <1>7, <1>8, <1>9, CacheSteps DEF CacheStep, PromotionStep

LEMMA MenuWrites ==
  ASSUME OnTheWay, Timely, DOMAIN cache = CacheKeys, UNCHANGED call, NEW r \in Requests, ~Ended(r),
         Step(r), NEW k \in CacheKeys, k = <<"menu", k[2]>>, OpsOf(k) = MenuOps,
         Op(r) \in MenuOps \cap CacheWrites, Place(r) = k[2], Fresh(k) \/ Owes(r, k)
  PROVE  DOMAIN cache' = CacheKeys /\ (Fresh(k)' \/ Owes(r, k)') /\ Carries(r, k)'
<1>0. LocalsTyped /\ Fits(Op(r), pc[r])
  BY DEF OnTheWay
<1>1. Op(r) = "saveMenu" /\ Op(r) \in Cachers
  BY DEF MenuOps, CacheWrites, Cachers, CacheReads
<1>2. Writing(r, k)' /\ Op(r)' = Op(r) /\ Op(r) \notin CacheReads /\ Place(r)' = Place(r)
  BY WritesOn DEF Place
<1>3. ASSUME pc'[r] # "save_coupon" PROVE Carries(r, k)'
  BY <1>1, <1>2, <1>3 DEF Carries
<1>4. DelKey(r) = k /\ DelKey(r)' = k
  BY <1>1, <1>2 DEF DelKey, CouponOps, PromotionOps
<1>5. CASE SaveMenu(r)
  BY <1>0, <1>5, <1>2, <1>4, <1>3, Goes DEF SaveMenu, Save, Owes
<1>6. CASE MenuFind(r)
  <2>1. pc[r] = "idle" /\ pc'[r] = "save_menu" /\ UNCHANGED <<rows, cache>>
    BY <1>0, <1>6, Goes DEF MenuFind, Began, recordVars
  <2>2. Fresh(k)
    BY <2>1 DEF Owes
  <2>3. \A x \in Requests : Op(x)' = Op(x)
    BY SameCalls
  <2>4. Menu(k[2])' = Menu(k[2])
    BY <2>1, <2>3 DEF Menu, Table
  <2>5. {Entities({x}) : x \in Menu(k[2])}' = {Entities({x}) : x \in Menu(k[2])}
    BY <2>1, <2>4 DEF Entities
  <2>6. k[1] = "menu"
    OBVIOUS
  <2>7. Current(k)' = Current(k)
    BY <2>5, <2>6 DEF Current
  <2>8. QED
    BY <1>3, <2>1, <2>2, <2>7 DEF Fresh
<1>7. CASE CacheDel(r)
  BY <1>0, <1>1, <1>7, <1>4, <1>3, Goes DEF CacheDel, Fresh
<1>8. CASE Fails(r) /\ UNCHANGED <<recordVars, cache>>
  BY <1>8, WriterFails
<1>9. ~CacheReadStep(r) /\ ~CouponStep(r) /\ ~PromotionStep(r) /\ ~CacheListStep(r)
  BY <1>0, <1>1, <1>2 DEF CacheReadStep, CacheGet, CacheQuery, CacheSet, LogCoupon, CouponStep,
     createCoupon, CouponFind, SaveCoupon, PromotionStep, createPromotion, PromotionFind,
     SavePromotion, CacheListStep, Answer, Began, Fits
<1>10. QED
  BY <1>1, <1>5, <1>6, <1>7, <1>8, <1>9, CacheSteps DEF CacheStep, MenuStep
--------------------
\* Who writes a coupon
LEMMA CouponLeft ==
  ASSUME OnTheWay, UNCHANGED call, NEW r \in Requests, Step(r), NEW x \in Requests,
         Op(x) = "createCoupon", rows'[x] # rows[x]
  PROVE  \/ createCoupon(r) /\ x = r
         \/ SaveCoupon(r) /\ x = target[r]
<1>0. LocalsTyped /\ Fits(Op(r), pc[r])
  BY DEF OnTheWay
<1>1. Op(r) \in {"createCoupon", "updateCoupon", "removeCoupon"} /\ Op(r) \in Cachers
  BY OriginsLeft DEF Origins, CouponOps, CacheWrites, CacheReads, FeedOps, Cachers
<1>2. CASE createCoupon(r)
  BY <1>0, <1>2 DEF createCoupon, Put, LocalsTyped
<1>3. CASE SaveCoupon(r)
  BY <1>0, <1>3 DEF SaveCoupon, Put, LocalsTyped
<1>4. CASE CouponFind(r)
  BY <1>4 DEF CouponFind, Find, recordVars
<1>5. CASE CacheReadStep(r) \/ CacheDel(r) \/ CacheListStep(r)
  BY <1>0, <1>1, <1>5 DEF CacheReadStep, CacheGet, CacheQuery, CacheSet, LogCoupon, CacheDel,
     CacheListStep, Answer, recordVars, Fits
<1>6. CASE PromotionStep(r) \/ MenuStep(r)
  BY <1>0, <1>1, <1>6 DEF PromotionStep, createPromotion, PromotionFind, SavePromotion,
     MenuStep, MenuFind, SaveMenu, Began, Fits
<1>7. CASE Fails(r) /\ UNCHANGED <<recordVars, cache>>
  BY <1>7 DEF recordVars
<1>8. QED
  BY <1>1, <1>2, <1>3, <1>4, <1>5, <1>6, <1>7, CacheSteps DEF CacheStep, CouponStep

LEMMA CouponMade ==
  ASSUME OnTheWay, RowsTyped, UNCHANGED call, NEW r \in Requests, createCoupon(r)
  PROVE  /\ Op(r) = "createCoupon" /\ pc[r] = "idle" /\ pc'[r] = "cache_set"
         /\ \A x \in Requests \ {r} : rows'[x] = rows[x]
         /\ rows'[r].code = Key(r) /\ rows'[r] # NONE
         /\ held'[r] = {<<r, rows'[r]>>}
<1>0. LocalsTyped /\ call \in Plans
  BY DEF OnTheWay
<1> DEFINE row == [code |-> Key(r), active |-> TRUE, text |-> r]
<1>1. Op(r) = "createCoupon" /\ pc[r] = "idle" /\ pc'[r] = "cache_set"
  BY <1>0, Goes DEF createCoupon, Began
<1>2. row \in Coupons
  BY <1>0, <1>1, BodiesTyped DEF Keyed, Coupons
<1>3. row # NONE
  BY <1>2, Fitting, RowNotNone
<1>4. rows' = [rows EXCEPT ![r] = row] /\ held'[r] = {<<r, row>>}
  BY <1>0, HasHeld DEF createCoupon, Put
<1>5. row.code = Key(r)
  OBVIOUS
<1> HIDE DEF row
<1>6. rows'[r] = row /\ \A x \in Requests \ {r} : rows'[x] = rows[x]
  BY <1>0, <1>4 DEF LocalsTyped
<1>7. QED
  BY <1>1, <1>3, <1>4, <1>5, <1>6

LEMMA CouponSaved ==
  ASSUME OnTheWay, RowsTyped, UNCHANGED call, NEW r \in Requests, SaveCoupon(r)
  PROVE  /\ Op(r) \in {"updateCoupon", "removeCoupon"} /\ pc[r] = "save_coupon"
         /\ target[r] \in Requests /\ Op(target[r]) = "createCoupon"
         /\ seen'[r] = seen[r] /\ seen[r] # NONE
         /\ \A x \in Requests \ {target[r]} : rows'[x] = rows[x]
         /\ rows'[target[r]] # NONE /\ rows'[target[r]].code = NewCoupon(r).code
         /\ held'[r] = {<<target[r], rows'[target[r]]>>}
         /\ Op(r) = "removeCoupon" => NewCoupon(r).code = seen[r].code
         /\ pc'[r] = IF Op(r) = "removeCoupon" \/ NewCoupon(r).code # seen[r].code
                     THEN "cache_del" ELSE "cache_set"
<1>0. LocalsTyped /\ call \in Plans /\ Facing(r) /\ Sight(r)
  BY DEF OnTheWay, RowsTyped
<1>1. /\ pc[r] = "save_coupon" /\ Op(r) \in {"updateCoupon", "removeCoupon"}
      /\ target[r] \in Requests /\ Op(target[r]) = "createCoupon"
  BY CouponSeen DEF SaveCoupon
<1>2. seen[r] # NONE /\ target[r] = On(r)
  BY <1>0, <1>1 DEF Facing, OnTheWay, Grips, Finders
<1>3. seen[r] \in Coupons
  BY <1>0, <1>1, <1>2 DEF Sight, RowFits
<1>4. NewCoupon(r) \in Coupons /\ (Op(r) = "removeCoupon" => NewCoupon(r).code = seen[r].code)
  BY <1>3, <1>0, <1>1, BodiesTyped DEF NewCoupon, Coupons, Keyed
<1>5. NewCoupon(r) # NONE
  BY <1>4, Fitting, RowNotNone
<1>6. /\ rows'[target[r]] = NewCoupon(r)
      /\ \A x \in Requests \ {target[r]} : rows'[x] = rows[x]
  BY <1>0, <1>1 DEF SaveCoupon, Put, LocalsTyped
<1>7. held'[r] = {<<target[r], NewCoupon(r)>>}
  BY <1>0, HasHeld DEF SaveCoupon
<1>8. seen'[r] = seen[r]
  BY <1>0, HasWritten DEF SaveCoupon
<1>9. pc'[r] = IF Op(r) = "removeCoupon" \/ NewCoupon(r).code # seen[r].code
               THEN "cache_del" ELSE "cache_set"
  BY <1>0, Goes DEF SaveCoupon
<1>10. QED
  BY <1>1, <1>2, <1>4, <1>5, <1>6, <1>7, <1>8, <1>9
--------------------
\* One coupon that has a code is all that is kept for it.
LEMMA CouponCurrent ==
  ASSUME CodesUnique, NEW x \in Table("createCoupon"), NEW k, k = <<"coupon", rows[x].code>>
  PROVE  Current(k) = {Entities({x})}
<1>1. Coupon(rows[x].code) = {x}
  BY DEF Coupon, Table, CodesUnique
<1>2. k[1] = "coupon" /\ k[2] = rows[x].code
  OBVIOUS
<1>3. QED
  BY <1>1, <1>2 DEF Current

LEMMA ChosenEntry ==
  ASSUME NEW entries, NEW x, NEW row, entries = {<<x, row>>}
  PROVE  (CHOOSE e \in entries : TRUE)[2] = row
<1>1. (CHOOSE e \in entries : TRUE) \in entries
  OBVIOUS
<1>2. (CHOOSE e \in entries : TRUE) = <<x, row>>
  BY <1>1
<1>3. QED
  BY <1>2

LEMMA CouponWritten ==
  ASSUME OnTheWay, Timely, RowsTyped, CouponsBorn, UNCHANGED <<call, cache>>, NEW r \in Requests,
         ~Ended(r), Step(r), createCoupon(r) \/ SaveCoupon(r),
         NEW k \in CacheKeys, k = <<"coupon", k[2]>>, OpsOf(k) = CouponOps,
         Op(r) \in CouponOps \cap CacheWrites, Fresh(k) \/ Owes(r, k), Carries(r, k)
  PROVE  (Fresh(k)' \/ Owes(r, k)') /\ Carries(r, k)'
<1>1. Writing(r, k)' /\ Op(r)' = Op(r) /\ Op(r) \notin CacheReads /\ Op(r)' \in CouponOps
  BY WritesOn
<1> DEFINE c == k[2]
<1>2. CASE createCoupon(r)
  <2>1. /\ Op(r) = "createCoupon" /\ pc[r] = "idle" /\ pc'[r] = "cache_set"
        /\ \A x \in Requests \ {r} : rows'[x] = rows[x]
        /\ rows'[r].code = Key(r) /\ rows'[r] # NONE
        /\ held'[r] = {<<r, rows'[r]>>}
    BY <1>2, CouponMade
  <2>2. held'[r] = Entities({r})'
    BY <2>1 DEF Entities
  <2>3. r \in Table("createCoupon")'
    BY <1>1, <2>1 DEF Table
  <2>4. Carries(r, k)'
    BY <1>1, <2>1, <2>2, <2>3 DEF Carries
  <2>5. SetKey(r)' = <<"coupon", Key(r)>>
    <3>1. (CHOOSE e \in held'[r] : TRUE)[2] = rows'[r]
      <4>1. PICK entries, row : entries = held'[r] /\ row = rows'[r]
        OBVIOUS
      <4>2. entries = {<<r, row>>}
        BY <2>1, <4>1
      <4>3. (CHOOSE e \in entries : TRUE)[2] = row
        BY <4>2, ChosenEntry
      <4>4. QED
        BY <4>1, <4>3, Zenon
    <3>2. SetKey(r)' = <<"coupon", (CHOOSE e \in held'[r] : TRUE)[2].code>>
      BY <1>1, Zenon DEF SetKey
    <3>3. QED
      BY <2>1, <3>1, <3>2, Zenon
  <2>6. CASE c = Key(r)
    BY <1>1, <2>1, <2>4, <2>5, <2>6 DEF Owes
  <2>7. CASE c # Key(r)
    <3>1. rows[r] = NONE
      BY <2>1 DEF CouponsBorn
    <3>2. Entities(Coupon(c))' = Entities(Coupon(c))
      BY <2>1, <2>7, <3>1, CouponsSame
    <3>3. Fresh(k)
      BY <2>1 DEF Owes
    <3>4. k[1] = "coupon"
      OBVIOUS
    <3>5. Current(k)' = Current(k)
      BY <3>2, <3>4 DEF Current
    <3>6. QED
      BY <2>4, <3>3, <3>5 DEF Fresh
  <2>8. QED
    BY <2>6, <2>7
<1>3. CASE SaveCoupon(r)
  <2>1. /\ Op(r) \in {"updateCoupon", "removeCoupon"} /\ pc[r] = "save_coupon"
        /\ target[r] \in Requests /\ Op(target[r]) = "createCoupon"
        /\ seen'[r] = seen[r] /\ seen[r] # NONE
        /\ \A x \in Requests \ {target[r]} : rows'[x] = rows[x]
        /\ rows'[target[r]] # NONE /\ rows'[target[r]].code = NewCoupon(r).code
        /\ held'[r] = {<<target[r], rows'[target[r]]>>}
        /\ Op(r) = "removeCoupon" => NewCoupon(r).code = seen[r].code
        /\ pc'[r] = IF Op(r) = "removeCoupon" \/ NewCoupon(r).code # seen[r].code
                    THEN "cache_del" ELSE "cache_set"
    BY <1>3, CouponSaved
  <2>2. rows[target[r]] = seen[r]
    BY <2>1 DEF Carries
  <2>3. PICK x \in Requests : x = target[r]
    BY <2>1
  <2>4. held'[r] = Entities({x})'
    BY <2>1, <2>3 DEF Entities
  <2>5. x \in Table("createCoupon")'
    BY <2>1, <2>3, SameCalls DEF Table
  <2>6. Carries(r, k)'
    BY <1>1, <2>1, <2>4, <2>5 DEF Carries
  <2>7. SetKey(r)' = <<"coupon", NewCoupon(r).code>>
    <3>1. (CHOOSE e \in held'[r] : TRUE)[2] = rows'[target[r]]
      <4>1. PICK entries, row : entries = held'[r] /\ row = rows'[target[r]]
        OBVIOUS
      <4>2. entries = {<<x, row>>}
        BY <2>1, <2>3, <4>1
      <4>3. (CHOOSE e \in entries : TRUE)[2] = row
        BY <4>2, ChosenEntry
      <4>4. QED
        BY <4>1, <4>3, Zenon
    <3>2. SetKey(r)' = <<"coupon", (CHOOSE e \in held'[r] : TRUE)[2].code>>
      BY <1>1, Zenon DEF SetKey
    <3>3. QED
      BY <2>1, <3>1, <3>2, Zenon
  <2>8. DelKey(r)' = <<"coupon", seen[r].code>>
    BY <1>1, <2>1 DEF DelKey, CouponOps, PromotionOps
  <2>9. CASE c = seen[r].code \/ c = NewCoupon(r).code
    BY <1>1, <2>1, <2>6, <2>7, <2>8, <2>9 DEF Owes
  <2>10. CASE c # seen[r].code /\ c # NewCoupon(r).code
    <3>1. Entities(Coupon(c))' = Entities(Coupon(c))
      BY <2>1, <2>2, <2>10, CouponsSame
    <3>2. Fresh(k)
      BY <2>1 DEF Owes
    <3>3. k[1] = "coupon"
      OBVIOUS
    <3>4. Current(k)' = Current(k)
      BY <3>1, <3>3 DEF Current
    <3>5. QED
      BY <2>6, <3>2, <3>4 DEF Fresh
  <2>11. QED
    BY <2>9, <2>10
<1>4. QED
  BY <1>2, <1>3

LEMMA CouponWrites ==
  ASSUME OnTheWay, Timely, RowsTyped, CouponsBorn, CodesUnique, DOMAIN cache = CacheKeys,
         UNCHANGED call, NEW r \in Requests, ~Ended(r), Step(r),
         NEW k \in CacheKeys, k = <<"coupon", k[2]>>, OpsOf(k) = CouponOps,
         Op(r) \in CouponOps \cap CacheWrites, Fresh(k) \/ Owes(r, k), Carries(r, k)
  PROVE  DOMAIN cache' = CacheKeys /\ (Fresh(k)' \/ Owes(r, k)') /\ Carries(r, k)'
<1>0. LocalsTyped /\ Fits(Op(r), pc[r])
  BY DEF OnTheWay
<1>1. Op(r) \in {"createCoupon", "updateCoupon", "removeCoupon"} /\ Op(r) \in Cachers
  BY DEF CouponOps, CacheWrites, CacheReads, FeedOps, Cachers
<1>2. Writing(r, k)' /\ Op(r)' = Op(r) /\ Op(r) \notin CacheReads
  BY WritesOn
<1>3. \A x \in Requests : Op(x)' = Op(x)
  BY SameCalls
<1>4. ASSUME UNCHANGED rows PROVE Current(k)' = Current(k)
  <2>1. Entities(Coupon(k[2]))' = Entities(Coupon(k[2]))
    BY <1>4, CouponsSame
  <2>2. k[1] = "coupon"
    OBVIOUS
  <2>3. QED
    BY <2>1, <2>2 DEF Current
<1>5. CASE createCoupon(r) \/ SaveCoupon(r)
  <2>1. UNCHANGED cache
    BY <1>5 DEF createCoupon, SaveCoupon
  <2>2. QED
    BY <1>5, <2>1, CouponWritten
<1>6. CASE CouponFind(r)
  <2>1. pc[r] = "idle" /\ pc'[r] = "save_coupon" /\ UNCHANGED <<rows, cache>>
    BY <1>0, <1>6, Goes DEF CouponFind, Find, recordVars
  <2>2. target'[r] = On(r) /\ seen'[r] = rows[On(r)]
    BY <1>0, <1>6, HasRead DEF CouponFind, Find
  <2>3. Carries(r, k)'
    BY <1>2, <2>1, <2>2 DEF Carries
  <2>4. Fresh(k)
    BY <2>1 DEF Owes
  <2>5. QED
    BY <1>4, <2>1, <2>3, <2>4 DEF Fresh
<1>7. CASE CacheDel(r)
  <2>1. /\ pc[r] = "cache_del" /\ UNCHANGED <<rows, held>>
        /\ pc'[r] = IF Op(r) = "updateCoupon" THEN "cache_set" ELSE "ok"
        /\ cache' = [cache EXCEPT ![DelKey(r)] = NONE]
    BY <1>0, <1>7, Goes DEF CacheDel, recordVars
  <2>2. Carries(r, k)'
    <3>1. CASE Op(r) = "updateCoupon"
      <4>1. PICK x \in Table("createCoupon") : held[r] = Entities({x})
        BY <2>1, <3>1 DEF Carries
      <4>2. x \in Table("createCoupon")' /\ held'[r] = Entities({x})'
        BY <1>3, <2>1, <4>1 DEF Table, Entities
      <4>3. QED
        BY <1>2, <2>1, <4>2 DEF Carries
    <3>2. CASE Op(r) # "updateCoupon"
      BY <1>2, <2>1, <3>2 DEF Carries
    <3>3. QED
      BY <3>1, <3>2
  <2>3. DOMAIN cache' = CacheKeys
    BY <2>1
  <2>4. CASE k = DelKey(r)
    <3>1. cache'[k] = NONE
      BY <2>1, <2>4
    <3>2. QED
      BY <2>2, <2>3, <3>1 DEF Fresh
  <2>5. CASE k # DelKey(r) /\ Fresh(k)
    <3>1. cache'[k] = cache[k]
      BY <2>1, <2>5
    <3>2. QED
      BY <1>4, <2>1, <2>2, <2>3, <2>5, <3>1 DEF Fresh
  <2>6. CASE k # DelKey(r) /\ Owes(r, k)
    <3>1. Op(r) = "updateCoupon" /\ k = SetKey(r)
      BY <2>1, <2>6 DEF Owes
    <3>2. SetKey(r)' = SetKey(r)
      BY <1>2, <2>1 DEF SetKey
    <3>3. QED
      BY <1>2, <2>1, <2>2, <2>3, <3>1, <3>2 DEF Owes
  <2>7. QED
    BY <2>4, <2>5, <2>6
<1>8. CASE CacheSet(r)
  <2>1. /\ pc[r] = "cache_set" /\ UNCHANGED rows /\ pc'[r] = "ok"
        /\ cache' = [cache EXCEPT ![SetKey(r)] = held[r]]
    BY <1>0, <1>1, <1>8, Goes DEF CacheSet, recordVars, Validates
  <2>2. Carries(r, k)' /\ DOMAIN cache' = CacheKeys
    BY <1>2, <2>1 DEF Carries
  <2>3. Op(r) \in {"createCoupon", "updateCoupon"}
    BY <1>0, <1>2, <2>1 DEF Fits
  <2>4. PICK x \in Table("createCoupon") : held[r] = Entities({x})
    BY <2>1, <2>3 DEF Carries
  <2>5. SetKey(r) = <<"coupon", rows[x].code>>
    <3>1. (CHOOSE e \in held[r] : TRUE)[2] = rows[x]
      <4>1. PICK entries, row : entries = held[r] /\ row = rows[x]
        OBVIOUS
      <4>2. entries = {<<x, row>>}
        BY <2>4, <4>1, EntriesOfOne
      <4>3. (CHOOSE e \in entries : TRUE)[2] = row
        BY <4>2, ChosenEntry
      <4>4. QED
        BY <4>1, <4>3, Zenon
    <3>2. SetKey(r) = <<"coupon", (CHOOSE e \in held[r] : TRUE)[2].code>>
      BY <1>2, Zenon DEF SetKey
    <3>3. QED
      BY <3>1, <3>2, Zenon
  <2>6. CASE k = SetKey(r)
    <3>1. cache'[k] = Entities({x})
      BY <2>1, <2>4, <2>6
    <3>2. Current(k) = {Entities({x})}
      BY <2>5, <2>6, CouponCurrent
    <3>3. QED
      BY <1>4, <2>1, <2>2, <3>1, <3>2 DEF Fresh
  <2>7. CASE k # SetKey(r)
    <3>1. cache'[k] = cache[k]
      BY <2>1, <2>7
    <3>2. Fresh(k)
      BY <2>1, <2>7 DEF Owes
    <3>3. QED
      BY <1>4, <2>1, <2>2, <3>1, <3>2 DEF Fresh
  <2>8. QED
    BY <2>6, <2>7
<1>9. CASE Fails(r) /\ UNCHANGED <<recordVars, cache>>
  BY <1>9, WriterFails
<1>10. ~CacheGet(r) /\ ~CacheQuery(r) /\ ~LogCoupon(r) /\ ~CacheListStep(r)
  BY <1>0, <1>1, <1>2 DEF CacheGet, CacheQuery, LogCoupon, CacheListStep, Answer, Began, Fits
<1>11. ~PromotionStep(r) /\ ~MenuStep(r)
  BY <1>0, <1>1 DEF PromotionStep, createPromotion, PromotionFind, SavePromotion, MenuStep,
     MenuFind, SaveMenu, Began, Fits
<1>12. QED
  BY <1>1, <1>5, <1>6, <1>7, <1>8, <1>9, <1>10, <1>11, CacheSteps DEF CacheStep, CacheReadStep,
  CouponStep
--------------------
\* Codes and promotions
LEMMA StepCouponsBorn ==
  ASSUME OnTheWay, CouponsBorn, UNCHANGED call, NEW r \in Requests, Step(r)
  PROVE  CouponsBorn'
<1>0. LocalsTyped /\ Strides(r)
  BY StepStrides DEF OnTheWay
<1> USE <1>0
<1>1. \A x \in Requests : Op(x)' = Op(x) /\ (pc[x] # "idle" => pc'[x] # "idle")
  BY SameCalls DEF Strides, Own, Paces
<1>2. ASSUME NEW x \in Requests, Op(x) = "createCoupon", pc'[x] = "idle"
      PROVE  rows'[x] = NONE
  BY <1>1, <1>2, CouponLeft DEF Strides, Own, Paces, SaveCoupon, CouponsBorn
<1>3. ASSUME NEW q \in Requests, pc'[q] = "save_coupon"
      PROVE  pc'[target'[q]] # "idle"
  <2>1. CASE q # r
    BY <1>3, <2>1, <1>1, CouponSeen DEF Strides, Own, Paces, Bears, CouponsBorn
  <2>2. CASE q = r
    <3>1. Op(r) \in {"updateCoupon", "removeCoupon"} /\ Op(r) \in Cachers
      BY <1>3, <2>2 DEF Strides, Fits, Cachers, CouponOps
    <3>2. CouponFind(r)
      <4>1. ~SaveCoupon(r) /\ ~createCoupon(r)
        BY <1>3, <2>2, Goes DEF SaveCoupon, createCoupon
      <4>2. ~CacheReadStep(r) /\ ~CacheDel(r)
        BY <1>3, <2>2, Goes DEF CacheReadStep, CacheGet, CacheQuery, CacheSet, LogCoupon,
           CacheDel
      <4>3. ~CacheListStep(r) /\ ~Fails(r)
        BY <1>3, <2>2, Goes DEF CacheListStep, Answer, Fails
      <4>4. ~PromotionStep(r) /\ ~MenuStep(r)
        BY <1>3, <2>2, Goes DEF PromotionStep, createPromotion, PromotionFind,
           SavePromotion, MenuStep, MenuFind, SaveMenu, Find, Save
      <4>5. QED
        BY <3>1, <4>1, <4>2, <4>3, <4>4, CacheSteps DEF CacheStep, CouponStep
    <3>3. target'[r] = On(r) /\ Live(On(r))
      BY <3>2, HasRead DEF CouponFind, Find
    <3>4. On(r) \in Requests /\ Op(On(r)) = "createCoupon"
      BY <3>3, <3>1, CallsTyped DEF OnTheWay, Live, Names, OfProducts
    <3>5. pc[On(r)] # "idle"
      BY <3>3, <3>4 DEF CouponsBorn, Live
    <3>6. QED
      BY <1>1, <2>2, <3>3, <3>4, <3>5
  <2>3. QED
    BY <2>1, <2>2
<1>4. QED
  BY <1>1, <1>2, <1>3 DEF CouponsBorn

LEMMA StepCodesUnique ==
  ASSUME OnTheWay, RowsTyped, CodesUnique, UNCHANGED call, NEW r \in Requests, Step(r)
  PROVE  CodesUnique'
<1>1. \A x \in Requests : Op(x)' = Op(x)
  BY SameCalls
<1>2. CASE createCoupon(r)
  <2>1. /\ Op(r) = "createCoupon" /\ rows'[r].code = Key(r)
        /\ \A x \in Requests \ {r} : rows'[x] = rows[x]
    BY <1>2, CouponMade
  <2>2. ASSUME NEW x \in Requests \ {r}, x \in Table("createCoupon")'
        PROVE  x \in Table("createCoupon") /\ rows'[x] = rows[x] /\ rows[x].code # Key(r)
    BY <1>1, <2>1, <2>2, <1>2 DEF Table, createCoupon, CouponTaken, Coupon
  <2>3. QED
    BY <2>1, <2>2 DEF CodesUnique, Table
<1>3. CASE SaveCoupon(r)
  <2>1. PICK t \in Requests : t = target[r]
    BY <1>3, CouponSaved
  <2>2. PICK c : c = NewCoupon(r).code
    OBVIOUS
  <2>3. /\ rows'[t].code = c /\ Op(t) = "createCoupon"
        /\ \A x \in Requests \ {t} : rows'[x] = rows[x]
    BY <1>3, <2>1, <2>2, CouponSaved
  <2>4. ASSUME NEW x \in Requests \ {t}, x \in Table("createCoupon")'
        PROVE  x \in Table("createCoupon") /\ rows'[x] = rows[x] /\ rows[x].code # c
    BY <1>1, <2>3, <2>4, <1>3, <2>1, <2>2 DEF Table, SaveCoupon, CouponTaken, Coupon
  <2>5. QED
    BY <2>3, <2>4 DEF CodesUnique, Table
<1>4. CASE ~createCoupon(r) /\ ~SaveCoupon(r)
  BY <1>4, <1>1, CouponLeft DEF Table, CodesUnique
<1>5. QED
  BY <1>2, <1>3, <1>4

LEMMA CacheDomain ==
  ASSUME NEW r \in Requests, Step(r)
  PROVE  DOMAIN cache' = DOMAIN cache
<1>1. CASE CacheSet(r) \/ CacheDel(r)
  BY <1>1 DEF CacheSet, CacheDel
<1>2. CASE UNCHANGED cache
  BY <1>2
<1>3. ASSUME CacheStep(r), ~CacheSet(r), ~CacheDel(r) PROVE UNCHANGED cache
  BY <1>3 DEF CacheStep, CacheReadStep, CacheGet, CacheQuery, LogCoupon, CouponStep,
     createCoupon, CouponFind, SaveCoupon, PromotionStep, createPromotion, PromotionFind,
     SavePromotion, MenuStep, MenuFind, SaveMenu, CacheListStep
<1>4. QED
  BY <1>1, <1>2, <1>3 DEF Step

\* A call fills and clears entries of its own family only.
LEMMA OwnFamily ==
  ASSUME OnTheWay, NEW r \in Requests, Op(r) \in Cachers, NEW k \in CacheKeys, OpsOf(k) # {}
  PROVE  /\ CacheSet(r) /\ SetKey(r) = k => Op(r) \in OpsOf(k)
         /\ CacheDel(r) /\ DelKey(r) = k => Op(r) \in OpsOf(k)
<1>0. Fits(Op(r), pc[r])
  BY DEF OnTheWay
<1>1. ASSUME CacheSet(r), SetKey(r) = k PROVE Op(r) \in OpsOf(k)
  BY <1>1, <1>0, KeptKeys DEF SetKey, CacheReads, FeedOps, Cachers, CouponOps, PromotionOps,
     MenuOps, CacheKey, CacheSet, Fits
<1>2. ASSUME CacheDel(r), DelKey(r) = k PROVE Op(r) \in OpsOf(k)
  BY <1>2, KeptKeys DEF DelKey, CouponOps, PromotionOps, MenuOps, Cachers
<1>3. QED
  BY <1>1, <1>2

LEMMA FamilyAside ==
  ASSUME OnTheWay, DOMAIN cache = CacheKeys, NEW r \in Requests, Step(r),
         NEW k \in CacheKeys, OpsOf(k) # {},
         Op(r) \notin OpsOf(k)
  PROVE  cache'[k] = cache[k]
<1>1. CASE Op(r) \notin Cachers
  BY <1>1, CacheAside
<1>2. CASE Op(r) \in Cachers
  BY <1>2, OwnFamily, CacheSteps DEF CacheSet, CacheDel, CacheStep, CacheReadStep, CacheGet,
     CacheQuery, LogCoupon, CouponStep, createCoupon, CouponFind, SaveCoupon, PromotionStep,
     createPromotion, PromotionFind, SavePromotion, MenuStep, MenuFind, SaveMenu, CacheListStep
<1>3. QED
  BY <1>1, <1>2
--------------------
\* Calm keys
LEMMA WriterHolds ==
  ASSUME OnTheWay, Timely, RowsTyped, DOMAIN cache = CacheKeys, CodesUnique, CouponsBorn,
         UNCHANGED call, NEW r \in Requests, ~Ended(r), Step(r), NEW k \in CacheKeys, OpsOf(k) # {},
         Op(r) \in OpsOf(k) \cap CacheWrites, Calm(k)', Held(k)
  PROVE  Held(k)'
<1>0. Strides(r)
  BY StepStrides
<1>1. /\ \A s \in Requests \ {r} : Op(s) \in OpsOf(k) => pc[s] \in {"idle", "ok"}
      /\ Op(r) = "saveMenu" => Place(r) = k[2]
  BY <1>0, NobodyBeside
<1>2. \A q \in Requests : Op(q)' = Op(q)
  BY SameCalls
<1>3. Fresh(k) \/ Owes(r, k)
  <2>1. ASSUME NEW w \in Requests \ {r} PROVE ~Owes(w, k)
    BY <1>1, <2>1 DEF Owes, Writing
  <2>2. QED
    BY <2>1 DEF Held
<1>4. ASSUME NEW q \in Requests \ {r}, Op(q) \in OpsOf(k) PROVE Carries(q, k)'
  BY <1>0, <1>1, <1>4 DEF Strides, Own, Paces, Carries
<1>5. Carries(r, k)
  BY DEF Held
<1>6. (Fresh(k)' \/ Owes(r, k)') /\ Carries(r, k)'
  BY <1>3, <1>5, <1>1, CouponWrites, PromotionWrites, MenuWrites, KeptKeys DEF MenuOps,
     CacheWrites, CacheReads
<1>7. \A q \in Requests : Op(q)' \in OpsOf(k) => Carries(q, k)'
  BY <1>2, <1>4, <1>6
<1>8. QED
  BY <1>6, <1>7 DEF Held, OpsOf

LEMMA OthersHold ==
  ASSUME OnTheWay, Timely, DOMAIN cache = CacheKeys, CodesUnique, UNCHANGED call,
         NEW r \in Requests, ~Ended(r), Step(r), NEW k \in CacheKeys, OpsOf(k) # {},
         Op(r) \notin OpsOf(k) \cap CacheWrites, Held(k)
  PROVE  Held(k)'
<1>0. Strides(r)
  BY StepStrides
<1>1. \A q \in Requests : Op(q)' = Op(q)
  BY SameCalls
<1>2. Current(k)' = Current(k)
  BY CurrentSame
<1>3. \A q \in Requests \ {r} : Op(q) \in OpsOf(k) => Carries(q, k)'
  BY CarriesOn DEF Held
<1>4. /\ Op(r) \in OpsOf(k) => Carries(r, k)'
      /\ cache'[k] = cache[k] \/ cache'[k] \in Current(k)
  BY ReaderFills, FamilyAside DEF Held
<1>5. ASSUME NEW w \in Requests, Owes(w, k) PROVE Owes(w, k)'
  BY <1>5, <1>0, <1>1, StaysBegun DEF Owes, Writing, Strides, Own, Paces, Bears, Holds, OpsOf,
     DelKey, Op, Place, SetKey, CacheKey, Key
<1>6. Fresh(k) => Fresh(k)'
  BY <1>2, <1>4 DEF Fresh
<1>7. Fresh(k)' \/ \E w \in Requests : Owes(w, k)'
  BY <1>5, <1>6 DEF Held
<1>8. \A q \in Requests : Op(q)' \in OpsOf(k) => Carries(q, k)'
  BY <1>1, <1>3, <1>4
<1>9. QED
  BY <1>7, <1>8 DEF Held, OpsOf

LEMMA StepCacheHeld ==
  ASSUME OnTheWay, Timely, RowsTyped, CacheHeld, UNCHANGED call,
         NEW r \in Requests, ~Ended(r), Step(r)
  PROVE  CacheHeld'
<1>1. DOMAIN cache = CacheKeys /\ CodesUnique /\ CouponsBorn
  BY DEF CacheHeld
<1>2. DOMAIN cache' = CacheKeys /\ CodesUnique' /\ CouponsBorn'
  BY <1>1, CacheDomain, StepCodesUnique, StepCouponsBorn
<1>3. ASSUME NEW k \in CacheKeys, OpsOf(k) # {}, Calm(k)' PROVE Held(k)'
  BY <1>3, <1>1, StepStrides, WasCalm, WriterHolds, OthersHold DEF CacheHeld, Held
<1>4. QED
  BY <1>2, <1>3 DEF CacheHeld, Held, OpsOf

\* Where a time to live ends, or nothing happens
LEMMA ExpiryHolds ==
  ASSUME CacheHeld, UNCHANGED <<callVars, recordVars>>, DOMAIN cache' = CacheKeys,
         \A k \in CacheKeys : cache'[k] \in {NONE, cache[k]}
  PROVE  CacheHeld'
<1>1. UNCHANGED <<call, pc, target, seen, before, rows, held>>
  BY DEF callVars, locals, recordVars
<1>2. \A q : Op(q)' = Op(q) /\ Place(q)' = Place(q) /\ Key(q)' = Key(q) /\ Made(q)' = Made(q)
  BY <1>1 DEF Op, Place, Key, Made
<1>3. \A q, s : Together(q, s)' = Together(q, s) /\ Begun(q)' = Begun(q)
  BY <1>1, <1>2 DEF Together, Begun, Overlap
<1>4. Table("createCoupon")' = Table("createCoupon")
      /\ Table("createPromotion")' = Table("createPromotion")
      /\ Table("saveMenu")' = Table("saveMenu")
  BY <1>1, <1>2 DEF Table
<1>5. CodesUnique' /\ CouponsBorn'
  BY <1>1, <1>2, <1>4 DEF CacheHeld, CodesUnique, CouponsBorn
<1>6. \A xs : Entities(xs)' = Entities(xs)
  BY <1>1 DEF Entities
<1>7. ASSUME NEW k \in CacheKeys, OpsOf(k) # {}, Calm(k)' PROVE Held(k)'
  <2>1. \A w : Writing(w, k)' = Writing(w, k)
    BY <1>2, <1>3 DEF Writing, OpsOf
  <2>2. Calm(k)
    BY <1>2, <1>3, <1>7, <2>1 DEF Calm, OpsOf
  <2>3. Held(k)
    BY <1>7, <2>2 DEF CacheHeld, Held
  <2>4. Current(k)' = Current(k)
    <3>1. Coupon(k[2])' = Coupon(k[2]) /\ Menu(k[2])' = Menu(k[2])
      BY <1>1, <1>4 DEF Coupon, Menu
    <3>2. {Entities({x}) : x \in Menu(k[2])}' = {Entities({x}) : x \in Menu(k[2])}
      BY <1>1, <3>1 DEF Entities
    <3>3. Entities(Coupon(k[2]))' = Entities(Coupon(k[2]))
      BY <1>1, <3>1 DEF Entities
    <3>4. Entities(Table("createPromotion"))' = Entities(Table("createPromotion"))
      BY <1>1, <1>4 DEF Entities
    <3>5. QED
      BY <3>2, <3>3, <3>4 DEF Current
  <2>5. Fresh(k) => Fresh(k)'
    BY <2>4 DEF Fresh
  <2>6. \A w : DelKey(w)' = DelKey(w) /\ SetKey(w)' = SetKey(w) /\ CacheKey(w)' = CacheKey(w)
    BY <1>2, <1>1 DEF CacheKey, DelKey, SetKey, Op, Key
  <2>7. \A w : Owes(w, k)' = Owes(w, k)
    BY <1>1, <1>2, <2>1, <2>6 DEF Owes
  <2>8. ASSUME NEW q \in Requests, Carries(q, k) PROVE Carries(q, k)'
    <3>1. pc'[q] \in {"cache_set", "cache_del"} /\ Op(q)' \in {"createCoupon", "updateCoupon"} =>
            \E x \in Table("createCoupon")' : held'[q] = Entities({x})'
      <4> SUFFICES ASSUME pc[q] \in {"cache_set", "cache_del"},
                          Op(q) \in {"createCoupon", "updateCoupon"}
                   PROVE  \E x \in Table("createCoupon")' : held'[q] = Entities({x})'
        BY <1>1, <1>2
      <4>1. PICK x \in Table("createCoupon") : held[q] = Entities({x})
        BY <2>8 DEF Carries
      <4>2. QED
        BY <1>1, <1>4, <4>1 DEF Entities
    <3>2. QED
      BY <1>1, <1>2, <2>4, <2>6, <2>8, <3>1 DEF Carries
  <2>9. QED
    BY <1>2, <2>3, <2>5, <2>7, <2>8 DEF Held, OpsOf
<1>8. QED
  BY <1>5, <1>7 DEF CacheHeld, Held, OpsOf
--------------------
\* The cache is current.
LEMMA InitCacheHeld == Init => CacheHeld
<1> SUFFICES ASSUME Init PROVE CacheHeld
  OBVIOUS
<1>0. call \in Plans /\ \A q \in Requests : pc[q] = IF Made(q) THEN "ok" ELSE "idle"
  BY DEF Init, CallsInit
<1>1. ASSUME NEW x \in Table("createCoupon") PROVE Made(x) /\ rows[x].code = Key(x)
  BY <1>1 DEF Table, Init, Inserted, Creates, ArticleCreates, Slips
<1>2. ASSUME NEW x \in Table("createCoupon"), NEW y \in Table("createCoupon"), Key(x) = Key(y)
      PROVE  x = y
  BY <1>1, <1>0, <1>2, ServicesAssumption DEF Table, Key, Made, Op
<1>3. CodesUnique
  BY <1>1, <1>2 DEF CodesUnique
<1>4. CouponsBorn
  BY <1>0 DEF CouponsBorn, Init
<1>5. cache = [k \in CacheKeys |-> NONE]
  BY DEF Init, CacheInit
<1>6. \A k \in CacheKeys : Fresh(k)
  BY <1>5 DEF Fresh
<1>7. \A q \in Requests, k \in CacheKeys : Carries(q, k)
  BY <1>0 DEF Carries
<1>8. QED
  BY <1>3, <1>4, <1>5, <1>6, <1>7 DEF CacheHeld

LEMMA NextCacheInv == CacheInv /\ [Next]_vars => CacheInv'
<1> SUFFICES ASSUME CacheInv, [Next]_vars PROVE CacheInv'
  OBVIOUS
<1>1. OnTheWay' /\ Timely' /\ RowsTyped'
  BY NextOnTheWay, NextTimely, NextRowsTyped DEF CacheInv
<1>2. CASE \E r \in Requests : ~Ended(r) /\ Step(r) /\ UNCHANGED call
  BY <1>1, <1>2, StepCacheHeld DEF CacheInv
<1>3. CASE \E k \in CacheKeys : CacheExpires(k)
  BY <1>3, <1>1, ExpiryHolds DEF CacheInv, CacheHeld, CacheExpires
<1>4. CASE UNCHANGED vars
  BY <1>4, <1>1, ExpiryHolds DEF vars, CacheInv, CacheHeld
<1>5. QED
  BY <1>2, <1>3, <1>4 DEF Next

LEMMA CacheIsCurrent == CacheInv => CacheCurrent
<1> SUFFICES ASSUME CacheInv, NEW k \in CacheKeys, OpsOf(k) # {}, cache[k] # NONE
             PROVE  \/ cache[k] \in Current(k)
                    \/ \E w \in Requests :
                         /\ Begun(w) /\ Op(w) \in OpsOf(k) \cap CacheWrites
                         /\ \/ pc[w] # "ok"
                            \/ \E s \in Requests : Op(s) \in OpsOf(k) /\ Together(w, s)
                            \/ Op(w) = "saveMenu" /\ Place(w) # k[2]
  BY DEF CacheCurrent
<1>1. CASE Calm(k)
  BY <1>1 DEF CacheInv, CacheHeld, Fresh, Owes, Writing
<1>2. CASE ~Calm(k)
  BY <1>2 DEF Calm, Writing
<1>3. QED
  BY <1>1, <1>2

\* An entry of the cache is what the table holds, unless a writer is between the
\* two or has stopped there, or overlapped with another call of its family, or
\* moved a menu.  However many calls there are, and whenever entries expire.
THEOREM CacheStaysCurrent == Spec => []CacheCurrent
<1>1. Init => CacheInv
  BY InitOnTheWay, InitTimely, InitRowsTyped, InitCacheHeld DEF CacheInv
<1>2. CacheInv /\ [Next]_vars => CacheInv'
  BY NextCacheInv
<1>3. CacheInv => CacheCurrent
  BY CacheIsCurrent
<1>4. QED
  BY <1>1, <1>2, <1>3, PTL DEF Spec
--------------------
\* The types of what a call holds
LEMMA GotoShaped ==
  ASSUME LocalsShaped, NEW r \in Requests, NEW label, Goto(r, label)
  PROVE  before' \in [Requests -> SUBSET Requests]
<1>1. {s \in Requests : pc[s] = "ok"} \in SUBSET Requests
  OBVIOUS
<1>2. QED
  BY <1>1 DEF LocalsShaped, Goto

\* Each way in which a step treats the locals keeps their types.
LEMMA LabelShaped ==
  ASSUME LocalsTyped, UNCHANGED call, NEW r \in Requests, NEW label, Light(r, label),
         Goto(r, label)
  PROVE  HeldShaped(r)'
<1>1. pc'[r] = label
  BY Goes DEF Light
<1>2. QED
  BY <1>1 DEF HeldShaped, Light, Op

LEMMA GoesShaped ==
  ASSUME LocalsTyped, LocalsShaped, UNCHANGED call, NEW r \in Requests,
         NEW label, Light(r, label), Goto(r, label), UNCHANGED locals
  PROVE  Shapes(r)
BY GotoShaped, LabelShaped DEF Shapes, LocalsShaped, locals

LEMMA WaitsShaped ==
  ASSUME LocalsShaped,
         NEW r \in Requests, Light(r, pc[r]), UNCHANGED call, UNCHANGED <<pc, before, locals>>
  PROVE  Shapes(r)
BY DEF Shapes, LocalsShaped, locals, HeldShaped, Light, Op

LEMMA WritesShaped ==
  ASSUME LocalsTyped, LocalsShaped, UNCHANGED call, NEW r \in Requests,
         NEW label, Light(r, label), Goto(r, label), NEW row, Writes(r, row)
  PROVE  Shapes(r)
BY GotoShaped, LabelShaped DEF Shapes, LocalsShaped, Writes

LEMMA ReadsShaped ==
  ASSUME LocalsTyped, LocalsShaped, UNCHANGED call, NEW r \in Requests,
         NEW label, Light(r, label), Goto(r, label), NEW id \in Places, NEW row, Reads(r, id, row)
  PROVE  Shapes(r)
<1>1. target' \in [Requests -> Places]
  BY DEF LocalsShaped, Reads
<1>2. QED
  BY <1>1, GotoShaped, LabelShaped DEF Shapes, LocalsShaped, Reads

LEMMA SeesShaped ==
  ASSUME LocalsTyped, LocalsShaped, UNCHANGED call, NEW r \in Requests,
         NEW label, Light(r, label), Goto(r, label), NEW people \in SUBSET (Requests \cup People),
         Sees(r, people)
  PROVE  Shapes(r)
<1>1. todo' \in [Requests -> SUBSET (Requests \cup People)]
  BY DEF LocalsShaped, Sees
<1>2. QED
  BY <1>1, GotoShaped, LabelShaped DEF Shapes, LocalsShaped, Sees

LEMMA FindShaped ==
  ASSUME LocalsTyped, call \in Plans, LocalsShaped, UNCHANGED call, NEW r \in Requests,
         NEW label, Light(r, label), Find(r, label)
  PROVE  Shapes(r)
<1>1. On(r) \in Places
  BY CallsTyped DEF Places
<1>2. QED
  BY <1>1, ReadsShaped DEF Find

LEMMA SaveShaped ==
  ASSUME LocalsTyped, LocalsShaped, UNCHANGED call, NEW r \in Requests,
         NEW label, Light(r, label), NEW row, Save(r, row, label)
  PROVE  Shapes(r)
BY WritesShaped DEF Save

LEMMA InsertShaped ==
  ASSUME LocalsTyped, LocalsShaped, UNCHANGED call, NEW r \in Requests, NEW op,
         NEW row, Insert(r, op, row)
  PROVE  Shapes(r)
BY GoesShaped DEF Insert, Light

LEMMA AnswerShaped ==
  ASSUME LocalsTyped, LocalsShaped, UNCHANGED call, NEW r \in Requests, NEW op, NEW found,
         found \subseteq Requests \cup People, Answer(r, op, found)
  PROVE  Shapes(r)
BY SeesShaped DEF Answer, Light
--------------------
\* Content
LEMMA ContentShapes ==
  ASSUME OnTheWay, RowsTyped, Shaped, UNCHANGED call, NEW r \in Requests, ContentStep(r)
  PROVE  Shapes(r)
<1>0. LocalsTyped /\ LocalsShaped /\ call \in Plans /\ Fits(Op(r), pc[r]) /\ Grips(r)
  BY DEF OnTheWay, Shaped
<1> USE <1>0
<1>1. r \in Places /\ NONE \in Places
  BY DEF Places
<1> USE DEF Light
<1>2. CASE CreateFind(r)
  BY <1>2, GoesShaped DEF CreateFind
<1>3. CASE CreateInsert(r)
  BY <1>1, <1>3, ReadsShaped DEF CreateInsert
<1>4. CASE CreateDetail(r)
  BY <1>4, GoesShaped DEF CreateDetail
<1>5. CASE DetailRejected(r)
  BY <1>5, GoesShaped DEF DetailRejected
<1>6. CASE UndoCreate(r)
  BY <1>1, <1>6, ReadsShaped DEF UndoCreate
<1>7. CASE UpdateFind(r)
  BY <1>7, FindShaped DEF UpdateFind
<1>8. CASE FindDetail(r)
  BY <1>8, GoesShaped, Goes, HasHeld, GotoShaped DEF FindDetail, Grips, Finders, Shaped,
     StateShaped, LocalsShaped, locals, Shapes, HeldShaped
<1>9. CASE createRevision(r)
  BY <1>9, GoesShaped DEF createRevision
<1>10. CASE SaveContent(r)
  BY <1>10, SaveShaped DEF SaveContent
<1>11. CASE SaveRedirect(r)
  BY <1>11, GoesShaped DEF SaveRedirect
<1>12. CASE RefindDetail(r)
  BY <1>12, GoesShaped DEF RefindDetail
<1>13. CASE SaveDetail(r)
  BY <1>13, GotoShaped, LabelShaped DEF SaveDetail, LocalsShaped, Shapes
<1>14. CASE DeleteFind(r)
  BY <1>14, FindShaped DEF DeleteFind
<1>15. CASE DeleteRow(r)
  BY <1>15, GoesShaped DEF DeleteRow
<1>16. CASE DeleteDetail(r)
  BY <1>16, GoesShaped DEF DeleteDetail
<1>17. CASE DeleteRevisions(r)
  BY <1>17, GoesShaped DEF DeleteRevisions
<1>18. CASE DeleteRedirects(r)
  BY <1>18, GoesShaped DEF DeleteRedirects
<1>19. CASE DeleteShortlinks(r)
  BY <1>19, GoesShaped DEF DeleteShortlinks
<1>20. CASE createShortlink(r)
  BY <1>20, InsertShaped DEF createShortlink
<1>21. CASE resolveShortlink(r)
  BY <1>21, FindShaped, SaveShaped DEF resolveShortlink
<1>22. CASE PublishFind(r)
  BY <1>22, GotoShaped, LabelShaped DEF Contents, PublishFind, LocalsShaped, Shapes
<1>23. ASSUME NEW x, Publish(r, x) PROVE Shapes(r)
  BY <1>23 DEF Publish, LocalsShaped, Shapes, HeldShaped
<1>24. CASE PublishEnd(r)
  BY <1>24, GoesShaped DEF PublishEnd
<1>25. CASE cleanupOldRevisions(r)
  BY <1>25, GoesShaped DEF cleanupOldRevisions
<1>26. CASE GetContent(r)
  BY <1>26, FindShaped DEF GetContent
<1>27. CASE GetDetail(r)
  BY <1>27, GoesShaped DEF GetDetail
<1>28. CASE ListContent(r)
  BY <1>28, AnswerShaped DEF Contents, ListContent
<1>29. CASE SearchRows(r)
  BY <1>29, SeesShaped DEF Contents, SearchRows
<1>30. CASE SearchDetails(r)
  <2>1. PICK found \in SUBSET {x \in Requests : IsArticle(x) /\ details[x] # NONE} :
          Sees(r, todo[r] \cup found)
    BY <1>30 DEF SearchDetails
  <2>2. todo[r] \cup found \in SUBSET (Requests \cup People)
    BY DEF LocalsShaped
  <2>3. QED
    BY <1>30, <2>1, <2>2, SeesShaped DEF SearchDetails
<1>31. CASE SearchBoth(r)
  BY <1>31, SeesShaped DEF LocalsShaped, SearchBoth
<1>32. CASE logSearch(r)
  BY <1>32, GoesShaped DEF logSearch
<1>33. QED
  BY <1>2, <1>3, <1>4, <1>5, <1>6, <1>7, <1>8, <1>9, <1>10, <1>11, <1>12, <1>13, <1>14, <1>15,
     <1>16, <1>17, <1>18, <1>19, <1>20, <1>21, <1>22, <1>23, <1>24, <1>25, <1>26, <1>27, <1>28,
     <1>29, <1>30, <1>31, <1>32 DEF ContentStep, CreateStep, UpdateStep, DeleteStep, JobStep,
     ReadStep
--------------------
\* What is cached
LEMMA EntitiesShaped ==
  ASSUME RowsTyped, NEW xs \in SUBSET Requests, \A x \in xs : rows[x] # NONE
  PROVE  Entry(Entities(xs))
<1>1. ASSUME NEW x \in xs PROVE x \in Requests /\ rows[x] \in Rows
  BY DEF RowsTyped, RowFits
<1>2. QED
  BY <1>1 DEF Entities, Entry

LEMMA FoundShaped ==
  ASSUME RowsTyped, NEW r \in Requests, NEW found \in Found(r)
  PROVE  Entry(found)
<1>1. CASE Op(r) = "validateCoupon"
  <2>1. PICK xs : xs = {x \in Coupon(Key(r)) : rows[x].active}
    OBVIOUS
  <2>2. found = Entities(xs)
    BY <1>1, <2>1 DEF Found
  <2>3. xs \in SUBSET Requests /\ \A x \in xs : rows[x] # NONE
    BY <2>1 DEF Coupon, Table
  <2>4. QED
    BY <2>2, <2>3, EntitiesShaped
<1>2. CASE Op(r) = "getMenu"
  BY <1>2, EntitiesShaped DEF Found, Menu, Table, Entry
<1>3. CASE Op(r) = "findAllPromotions"
  BY <1>3, EntitiesShaped DEF Found, Table
<1>4. CASE Op(r) \notin {"validateCoupon", "getMenu", "findAllPromotions"}
  BY <1>4, EntitiesShaped DEF Found, Published, Contents
<1>5. QED
  BY <1>1, <1>2, <1>3, <1>4

\* A coupon that was just written
LEMMA WrittenShaped ==
  ASSUME RowsTyped', NEW x \in Requests, rows'[x] # NONE
  PROVE  Entry({<<x, rows'[x]>>})
<1>1. rows'[x] \in Rows
  BY DEF RowsTyped, RowFits
<1>2. QED
  BY <1>1 DEF Entry

LEMMA CacheShapes ==
  ASSUME OnTheWay, RowsTyped, RowsTyped', Shaped, UNCHANGED call, NEW r \in Requests, CacheStep(r)
  PROVE  Shapes(r)
<1>0. LocalsTyped /\ LocalsShaped /\ call \in Plans /\ Fits(Op(r), pc[r])
  BY DEF OnTheWay, Shaped
<1> USE <1>0
<1> USE DEF Light
<1>1. CASE CacheGet(r)
  BY <1>1, GoesShaped DEF CacheGet
<1>2. CASE CacheQuery(r)
  <2>1. PICK found \in Found(r) :
          /\ Hold(r, found)
          /\ Goto(r, IF found = {} /\ Op(r) \in {"validateCoupon", "getMenu"}
                     THEN "ok" ELSE "cache_set")
    BY <1>2 DEF CacheQuery
  <2>2. held'[r] = found /\ Entry(found) /\ pc'[r] \in {"ok", "cache_set"}
    BY <2>1, HasHeld, Goes, FoundShaped
  <2>3. HeldShaped(r)'
    BY <2>2 DEF HeldShaped
  <2>4. LocalsShaped'
    BY <1>2, <2>1, GotoShaped DEF CacheQuery, LocalsShaped, locals
  <2>5. QED
    BY <2>3, <2>4 DEF Shapes
<1>3. CASE CacheSet(r)
  BY <1>3, GoesShaped DEF CacheSet
<1>4. CASE LogCoupon(r)
  BY <1>4, GoesShaped DEF LogCoupon
<1>5. CASE createCoupon(r)
  BY <1>5, CouponMade, WrittenShaped, GotoShaped DEF HeldShaped, createCoupon,
     LocalsShaped, locals, Shapes
<1>6. CASE CouponFind(r)
  BY <1>6, FindShaped DEF CouponFind
<1>7. CASE SaveCoupon(r)
  <2>1. PICK x \in Requests : x = target[r]
    BY <1>7, CouponSaved
  <2>2. /\ rows'[x] # NONE /\ held'[r] = {<<x, rows'[x]>>}
        /\ pc'[r] \in {"cache_del", "cache_set"}
    BY <1>7, <2>1, CouponSaved
  <2>3. Entry({<<x, rows'[x]>>})
    BY <2>2, WrittenShaped
  <2>4. HeldShaped(r)'
    BY <2>2, <2>3 DEF HeldShaped
  <2>5. LocalsShaped'
    BY <1>7, GotoShaped DEF SaveCoupon, LocalsShaped, Writes
  <2>6. QED
    BY <2>4, <2>5 DEF Shapes
<1>8. CASE createPromotion(r)
  BY <1>8, GoesShaped DEF createPromotion, Began
<1>9. CASE PromotionFind(r)
  BY <1>9, FindShaped DEF PromotionFind
<1>10. CASE SavePromotion(r)
  BY <1>10, SaveShaped DEF SavePromotion, Fits
<1>11. CASE MenuFind(r)
  <2>1. PICK x : Reads(r, x,
       rows[x]) /\ x = IF {y \in Table("saveMenu") : rows[y].slug = Key(r)} = {}
                    THEN r ELSE CHOOSE z \in {y \in Table("saveMenu") : rows[y].slug = Key(r)} : TRUE
    BY <1>11 DEF MenuFind
  <2>2. x \in Places
    BY <2>1 DEF Table, Places
  <2>3. QED
    BY <1>11, <2>1, <2>2, ReadsShaped DEF MenuFind
<1>12. CASE SaveMenu(r)
  BY <1>12, SaveShaped DEF SaveMenu, Fits
<1>13. CASE CacheDel(r)
  BY <1>13, Goes, GotoShaped, GoesShaped DEF CacheDel, recordVars, Shaped, HeldShaped,
     LocalsShaped, locals, Shapes
<1>14. CASE CacheListStep(r)
  BY <1>14, AnswerShaped DEF Table, Published, Contents, CacheListStep
<1>15. QED
  BY <1>1, <1>2, <1>3, <1>4, <1>5, <1>6, <1>7, <1>8, <1>9, <1>10, <1>11, <1>12, <1>13, <1>14
     DEF CacheStep, CacheReadStep, CouponStep, PromotionStep, MenuStep
--------------------
\* Learning
LEMMA CourseShapes ==
  ASSUME OnTheWay, Shaped, UNCHANGED call, NEW r \in Requests, CourseStep(r)
  PROVE  Shapes(r)
<1>0. LocalsTyped /\ LocalsShaped /\ call \in Plans
  BY DEF OnTheWay, Shaped
<1> USE DEF Light
<1>1. CASE createCourse(r)
  BY <1>0, <1>1, GoesShaped DEF createCourse
<1>2. CASE updateThumbnail(r)
  BY <1>0, <1>2, GoesShaped, FindShaped, SaveShaped DEF updateThumbnail
<1>3. CASE deleteCourse(r)
  BY <1>0, <1>3, GoesShaped, FindShaped DEF deleteCourse
<1>4. CASE addChapter(r)
  BY <1>0, <1>4, InsertShaped DEF addChapter
<1>5. CASE addLesson(r)
  BY <1>0, <1>5, InsertShaped DEF addLesson
<1>6. CASE Reorder(r)
  BY <1>0, <1>6, GoesShaped, WaitsShaped DEF Reorder
<1>7. QED
  BY <1>1, <1>2, <1>3, <1>4, <1>5, <1>6 DEF CourseStep

LEMMA PlayerShapes ==
  ASSUME OnTheWay, Shaped, UNCHANGED call, NEW r \in Requests, PlayerStep(r)
  PROVE  Shapes(r)
<1>0. LocalsTyped /\ LocalsShaped /\ call \in Plans
  BY DEF OnTheWay, Shaped
<1> USE <1>0
<1> USE DEF Light
<1>1. CASE FindLesson(r)
  BY <1>1, FindShaped DEF FindLesson
<1>2. CASE FindEnrollment(r)
  BY <1>2, GoesShaped DEF FindEnrollment
<1>3. CASE FindCourse(r)
  BY <1>3, GoesShaped DEF FindCourse
<1>4. CASE FindPrevious(r)
  BY <1>4, GoesShaped DEF FindPrevious
<1>5. CASE CheckPrevious(r)
  BY <1>5, GoesShaped DEF CheckPrevious
<1>6. CASE FindProgress(r)
  <2> DEFINE found == ProgressOn(On(r), By(r))
             x == IF found = {} THEN r ELSE CHOOSE y \in found : TRUE
  <2>1. x \in Places
    BY DEF Places, ProgressOn, Table
  <2>2. Reads(r, x, rows[x])
        /\ Goto(r, IF Arg(r) = "DONE" /\ (rows[x] = NONE \/ ~rows[x].done)
                   THEN "find_points" ELSE "save_progress")
    BY <1>6 DEF FindProgress
  <2> HIDE DEF x
  <2>3. QED
    BY <2>1, <2>2, ReadsShaped
<1>7. CASE FindPoints(r)
  BY <1>7, Goes, HasHeld, CallsTyped, GotoShaped DEF FindPoints, Shaped, StateShaped,
     HeldShaped, LocalsShaped, locals, Shapes
<1>8. CASE awardXP(r)
  BY <1>8, GoesShaped DEF awardXP
<1>9. CASE AwardFails(r)
  BY <1>9, GoesShaped DEF AwardFails
<1>10. CASE SaveProgress(r)
  BY <1>10, SaveShaped DEF SaveProgress
<1>11. QED
  BY <1>1, <1>2, <1>3, <1>4, <1>5, <1>6, <1>7, <1>8, <1>9, <1>10 DEF PlayerStep

LEMMA CredentialShapes ==
  ASSUME OnTheWay, Shaped, UNCHANGED call, NEW r \in Requests, CredentialStep(r)
  PROVE  Shapes(r)
<1>0. LocalsTyped /\ LocalsShaped /\ call \in Plans
  BY DEF OnTheWay, Shaped
<1> USE DEF Light
<1>1. CASE FindCertificate(r)
  BY <1>0, <1>1, GoesShaped DEF FindCertificate
<1>2. CASE CountLessons(r)
  BY <1>0, <1>2, GoesShaped DEF CountLessons
<1>3. CASE CountCompleted(r)
  BY <1>3, <1>0, GoesShaped DEF CountCompleted
<1>4. CASE InsertCertificate(r)
  BY <1>0, <1>4, GoesShaped DEF InsertCertificate
<1>5. CASE createReview(r)
  BY <1>0, <1>5, GoesShaped DEF createReview
<1>6. QED
  BY <1>1, <1>2, <1>3, <1>4, <1>5 DEF CredentialStep

LEMMA AssessmentShapes ==
  ASSUME OnTheWay, Shaped, UNCHANGED call, NEW r \in Requests, AssessmentStep(r)
  PROVE  Shapes(r)
<1>0. LocalsTyped /\ LocalsShaped /\ call \in Plans
  BY DEF OnTheWay, Shaped
<1> USE DEF Light
<1>1. CASE FindAssessment(r)
  BY <1>0, <1>1, FindShaped DEF FindAssessment
<1>2. CASE CountAttempts(r)
  BY <1>0, <1>2, GoesShaped DEF CountAttempts
<1>3. CASE InsertAttempt(r)
  BY <1>0, <1>3, GoesShaped DEF InsertAttempt
<1>4. CASE FindAttempt(r)
  BY <1>0, <1>4, FindShaped DEF FindAttempt
<1>5. CASE FindQuestions(r)
  BY <1>0, <1>5, GoesShaped DEF FindQuestions
<1>6. CASE InsertSubmission(r)
  BY <1>0, <1>6, GoesShaped DEF InsertSubmission
<1>7. CASE SaveAttempt(r)
  BY <1>0, <1>7, SaveShaped DEF SaveAttempt
<1>8. CASE uploadAssignment(r)
  BY <1>8, <1>0, ReadsShaped, GoesShaped, SaveShaped DEF Submissions, Table, Places,
     uploadAssignment, Began
<1>9. QED
  BY <1>1, <1>2, <1>3, <1>4, <1>5, <1>6, <1>7, <1>8 DEF AssessmentStep

LEMMA AnswersShaped ==
  ASSUME OnTheWay, NEW r \in Requests, Op(r) \in DOMAIN LearningAnswers(r)
  PROVE  LearningAnswers(r)[Op(r)] \subseteq Requests \cup People
<1>0. call \in Plans
  BY DEF OnTheWay
<1>1. \A op : Table(op) \subseteq Requests
  BY DEF Table
<1>2. \A op, x : About(op, x) \subseteq Requests
  BY <1>1 DEF About
<1>3. Op(r) = "getCourseDetail" => On(r) \in Requests
  BY <1>0, BodiesTyped DEF OnRow
<1>4. ChaptersOf(On(r)) \subseteq Requests /\ LessonsOf(On(r)) \subseteq Requests
      /\ ReviewsOf(On(r)) \subseteq Requests
  BY <1>1 DEF ChaptersOf, LessonsOf, ReviewsOf
<1>5. CASE Op(r) = "getCourseDetail"
  BY <1>3, <1>4, <1>5 DEF LearningAnswers
<1>6. CASE Op(r) \in {"listCourses", "verify"}
  BY <1>1, <1>6 DEF LearningAnswers
<1>7. CASE Op(r) \in {"getLessonMaterials", "getThreadsByLesson", "getCommentsByThread"}
  BY <1>2, <1>7 DEF LearningAnswers
<1>8. CASE Op(r) = "getMyNotes"
  BY <1>2, <1>8 DEF LearningAnswers
<1>9. CASE Op(r) \in {"getMyCertificates", "getInstructorStats"}
  BY <1>1, <1>9 DEF LearningAnswers
<1>10. CASE Op(r) = "getCourseReviews"
  BY <1>4, <1>10 DEF LearningAnswers
<1>11. CASE Op(r) \in {"getLeaderboard", "getUserRank", "getPackage", "trackXApiStatement"}
  BY <1>11 DEF LearningAnswers
<1>12. QED
  BY <1>5, <1>6, <1>7, <1>8, <1>9, <1>10, <1>11 DEF LearningAnswers

LEMMA LearningShapes ==
  ASSUME OnTheWay, Shaped, UNCHANGED call, NEW r \in Requests, LearningStep(r)
  PROVE  Shapes(r)
<1>0. LocalsTyped /\ LocalsShaped /\ call \in Plans
  BY DEF OnTheWay, Shaped
<1> USE DEF Light
<1>1. CASE updateEnrollmentStatus(r)
  BY <1>0, <1>1, FindShaped, SaveShaped DEF updateEnrollmentStatus
<1>2. CASE AddRemark(r)
  BY <1>0, <1>2, InsertShaped, FindShaped, GoesShaped DEF AddRemark
<1>3. CASE DeleteNote(r)
  BY <1>0, <1>3, CallsTyped, ReadsShaped, SaveShaped DEF Places, DeleteNote
<1>4. CASE Report(r)
  BY <1>0, <1>4, SeesShaped DEF AttemptsAt, Table, LocalsShaped, Report, Began
<1>5. CASE AnswerLearner(r)
  BY <1>0, <1>5, AnswersShaped, AnswerShaped DEF AnswerLearner
<1>6. QED
  BY <1>1, <1>2, <1>3, <1>4, <1>5, CourseShapes, PlayerShapes, CredentialShapes,
     AssessmentShapes DEF LearningStep
--------------------
\* Modules and marketing
LEMMA RegistryShapes ==
  ASSUME OnTheWay, Shaped, UNCHANGED call, NEW r \in Requests, RegistryStep(r)
  PROVE  Shapes(r)
<1>0. LocalsTyped /\ LocalsShaped /\ call \in Plans
  BY DEF OnTheWay, Shaped
<1> USE <1>0
<1> USE DEF Light
<1>1. CASE createModule(r)
  BY <1>1, InsertShaped DEF createModule
<1>2. CASE FindModules(r)
  BY <1>2, GoesShaped DEF FindModules
<1>3. CASE FindInstalled(r)
  BY <1>3, GoesShaped DEF FindInstalled
<1>4. CASE InsertRegistry(r)
  BY <1>4, GoesShaped DEF InsertRegistry
<1>5. CASE FindRegistry(r)
  BY <1>5, FindShaped DEF FindRegistry
<1>6. CASE FindDependents(r)
  BY <1>6, GoesShaped DEF FindDependents
<1>7. CASE FindActive(r)
  BY <1>7, GoesShaped DEF FindActive
<1>8. CASE SaveRegistry(r)
  BY <1>8, SaveShaped DEF SaveRegistry
<1>9. CASE AnswerRegistry(r)
  BY <1>9, AnswerShaped DEF Table, Installed, AnswerRegistry, RegistryAnswers
<1>10. QED
  BY <1>1, <1>2, <1>3, <1>4, <1>5, <1>6, <1>7, <1>8, <1>9 DEF RegistryStep

LEMMA MarketingAnswersShaped ==
  ASSUME NEW r \in Requests, Op(r) \in DOMAIN MarketingAnswers(r)
  PROVE  MarketingAnswers(r)[Op(r)] \subseteq Requests \cup People
<1>1. \A op : Table(op) \subseteq Requests \cup People
  BY DEF Table
<1>2. /\ {On(r)} \cap Table("createBundle") \subseteq Requests \cup People
      /\ {x \in Table("createProgram") : rows[x].active} \subseteq Requests \cup People
      /\ {x \in Table("createLink") : rows[x].user = By(r)} \subseteq Requests \cup People
      /\ {x \in Table("addPoints") : rows[x].user = By(r)} \subseteq Requests \cup People
  BY <1>1
<1>3. {x \in Requests : \E u \in People : abandoned[<<x,
     u>>] # NONE} \subseteq Requests \cup People
  OBVIOUS
<1>4. CASE Op(r) = "findAllBundles"
  BY <1>1, <1>4 DEF MarketingAnswers
<1>5. CASE Op(r) = "findAllTiers"
  BY <1>1, <1>5 DEF MarketingAnswers
<1>8. CASE Op(r) = "findOneBundle"
  BY <1>2, <1>8 DEF MarketingAnswers
<1>9. CASE Op(r) = "findAllPrograms"
  BY <1>2, <1>9 DEF MarketingAnswers
<1>10. CASE Op(r) = "getMyLinks"
  BY <1>2, <1>10 DEF MarketingAnswers
<1>11. CASE Op(r) = "getBalance"
  BY <1>2, <1>11 DEF MarketingAnswers
<1>12. CASE Op(r) = "getHistory"
  BY <1>2, <1>12 DEF MarketingAnswers
<1>6. CASE Op(r) = "listAbandoned"
  BY <1>3, <1>6 DEF MarketingAnswers
<1>7. QED
  BY <1>4, <1>5, <1>6, <1>8, <1>9, <1>10, <1>11, <1>12 DEF MarketingAnswers

LEMMA AbandonedShapes ==
  ASSUME OnTheWay, Shaped, UNCHANGED call, NEW r \in Requests, AbandonedStep(r)
  PROVE  Shapes(r)
<1>0. LocalsTyped /\ LocalsShaped /\ call \in Plans
  BY DEF OnTheWay, Shaped
<1> USE DEF Light
<1>1. CASE TrackCarts(r)
  BY <1>0, <1>1, BodiesTyped, SeesShaped DEF TrackCarts, Began
<1>2. CASE TrackInsert(r)
  BY <1>0, <1>2, GoesShaped DEF TrackInsert
<1>3. CASE TrackEnd(r)
  BY <1>0, <1>3, GoesShaped DEF TrackEnd
<1>4. CASE markRecovered(r)
  BY <1>0, <1>4, GoesShaped, GotoShaped, LabelShaped DEF markRecovered, Began, Pending,
     LocalsShaped, Places, Shapes
<1>5. ASSUME NEW u \in People, TrackFind(r, u) PROVE Shapes(r)
  BY <1>0, <1>5, GotoShaped, LabelShaped DEF TrackFind, LocalsShaped, Places, Shapes
<1>6. QED
  BY <1>1, <1>2, <1>3, <1>4, <1>5 DEF AbandonedStep

LEMMA MarketingShapes ==
  ASSUME OnTheWay, Shaped, UNCHANGED call, NEW r \in Requests, MarketingStep(r)
  PROVE  Shapes(r)
<1>0. LocalsTyped /\ LocalsShaped /\ call \in Plans
  BY DEF OnTheWay, Shaped
<1> USE DEF Light
<1>1. CASE createBundle(r)
  BY <1>0, <1>1, GoesShaped DEF createBundle
<1>2. CASE changeBundle(r)
  BY <1>0, <1>2, FindShaped, SaveShaped DEF changeBundle
<1>3. CASE Insert(r, "createProgram", [active |-> TRUE])
  BY <1>0, <1>3, InsertShaped
<1>4. CASE createLink(r)
  BY <1>0, <1>4, InsertShaped DEF createLink
<1>5. CASE findLinkByCode(r)
  BY <1>0, <1>5, SeesShaped, GoesShaped DEF LinksOf, Table, findLinkByCode, Logs
<1>6. CASE logConversion(r)
  BY <1>0, <1>6, GoesShaped DEF logConversion, Logs
<1>7. CASE LoyaltyStep(r)
  BY <1>0, <1>7, InsertShaped, GoesShaped DEF LoyaltyStep, addPoints
<1>8. CASE AnswerMarketing(r)
  BY <1>0, <1>8, MarketingAnswersShaped, AnswerShaped DEF AnswerMarketing
<1>9. QED
  BY <1>1, <1>2, <1>3, <1>4, <1>5, <1>6, <1>7, <1>8, AbandonedShapes
     DEF MarketingStep, BundleStep, AffiliateStep
--------------------
\* The back office
LEMMA SlipShapes ==
  ASSUME OnTheWay, Shaped, UNCHANGED call, NEW r \in Requests, SlipStep(r)
  PROVE  Shapes(r)
<1>0. LocalsTyped /\ LocalsShaped /\ call \in Plans
  BY DEF OnTheWay, Shaped
<1> USE DEF Light
<1>1. CASE InsertSlip(r)
  BY <1>0, <1>1, InsertShaped DEF InsertSlip
<1>2. CASE ChangeSlip(r)
  BY <1>0, <1>2, FindShaped, SaveShaped DEF ChangeSlip
<1>3. CASE UpdateSlip(r)
  BY <1>0, <1>3, GoesShaped DEF UpdateSlip
<1>4. CASE updateHeartbeat(r)
  BY <1>0, <1>4, FindShaped, SaveShaped DEF updateHeartbeat
<1>5. CASE UseZone(r)
  BY <1>0, <1>5, FindShaped, GoesShaped DEF UseZone
<1>6. CASE saveSingle(r)
  BY <1>0, <1>6, SaveShaped, ReadsShaped DEF saveSingle, ToReplace, Table, Places
<1>7. CASE saveRule(r)
  BY <1>0, <1>7, GoesShaped DEF saveRule
<1>8. QED
  BY <1>1, <1>2, <1>3, <1>4, <1>5, <1>6, <1>7 DEF SlipStep

LEMMA FinanceShapes ==
  ASSUME OnTheWay, Shaped, UNCHANGED call, NEW r \in Requests, FinanceStep(r)
  PROVE  Shapes(r)
<1>0. LocalsTyped /\ LocalsShaped /\ call \in Plans
  BY DEF OnTheWay, Shaped
<1> USE DEF Light
<1>1. CASE calculateTax(r)
  BY <1>1, <1>0, GoesShaped, WaitsShaped DEF calculateTax
<1>2. CASE convert(r)
  BY <1>2, <1>0, GoesShaped DEF convert
<1>3. QED
  BY <1>1, <1>2 DEF FinanceStep

LEMMA DocumentShapes ==
  ASSUME OnTheWay, Shaped, UNCHANGED call, NEW r \in Requests, DocumentStep(r)
  PROVE  Shapes(r)
<1>0. LocalsTyped /\ LocalsShaped /\ call \in Plans
  BY DEF OnTheWay, Shaped
<1> USE DEF Light
<1>1. CASE createTicket(r)
  BY <1>0, <1>1, GoesShaped DEF createTicket
<1>2. CASE FindDialog(r)
  <2>1. pc'[r] = "save_dialog" /\ held'[r] = dialogs[On(r)]
    BY <1>0, <1>2, Goes, HasHeld DEF FindDialog
  <2>2. dialogs[On(r)] \subseteq Requests
    BY <1>2 DEF FindDialog, Talked, Shaped, StateShaped
  <2>3. HeldShaped(r)'
    BY <2>1, <2>2 DEF HeldShaped
  <2>4. LocalsShaped'
    BY <1>0, <1>2, GotoShaped DEF FindDialog, LocalsShaped, locals
  <2>5. QED
    BY <2>3, <2>4 DEF Shapes
<1>3. CASE SaveDialog(r)
  BY <1>0, <1>3, GotoShaped, LabelShaped DEF SaveDialog, SavesAs, LocalsShaped, Shapes
<1>4. CASE FindProduct(r)
  BY <1>0, <1>4, GoesShaped DEF FindProduct
<1>5. CASE FindWishes(r)
  BY <1>0, <1>5, BodiesTyped, GoesShaped, Goes, HasHeld, GotoShaped DEF FindWishes, NextWish,
     Shaped, StateShaped, HeldShaped, LocalsShaped, locals, Shapes
<1>6. CASE CreateWishes(r)
  BY <1>0, <1>6, Goes, HasHeld, GotoShaped DEF CreateWishes, NextWish, HeldShaped, LocalsShaped,
     locals, Shapes
<1>7. CASE SaveWishes(r)
  BY <1>0, <1>7, GotoShaped, LabelShaped DEF SaveWishes, LocalsShaped, Shapes
<1>8. QED
  BY <1>1, <1>2, <1>3, <1>4, <1>5, <1>6, <1>7 DEF DocumentStep

LEMMA BackofficeAnswersShaped ==
  ASSUME Shaped, NEW r \in Requests, NEW op \in DOMAIN BackofficeAnswers(r)
  PROVE  BackofficeAnswers(r)[op] \subseteq Requests \cup People
<1> DEFINE Fine(set) == set \subseteq Requests \cup People
<1>1. \A kind : Fine(Table(kind))
  BY DEF Table
<1>2. \A kind : Fine(OwnSlips(kind, r))
  BY <1>1 DEF OwnSlips
<1>3. Fine(VisibleReviews(On(r)))
  BY <1>1 DEF VisibleReviews
<1>4. Fine(UNION {dialogs[t] : t \in Talked \cap {On(r)}})
  BY DEF Talked, Shaped, StateShaped
<1>5. Fine({d.of : d \in redirects})
  BY DEF Shaped, StateShaped, Redirects
<1>6. Fine({x \in Table("createFulfillment") : rows[x].key = Key(r)})
      /\ Fine({x \in Table("recordView") : rows[x].about = On(r)})
      /\ Fine(Table("logSearch") \cup Table("searchArticles"))
      /\ Fine({})
  BY <1>1
<1>7. Fine(IF Arg(r) = "ADMIN" THEN Table("createTicket") ELSE OwnSlips("createTicket", r))
  BY <1>1, <1>2
<1>8. Fine(Table("createRequest")) /\ Fine(Table("createPO")) /\ Fine(Table("createCategory"))
      /\ Fine(Table("createTag")) /\ Fine(OwnSlips("createSubscription", r))
      /\ Fine(OwnSlips("createPreOrder", r))
  BY <1>1, <1>2
<1>20. CASE op = "listRequests"
  BY <1>8, <1>20 DEF BackofficeAnswers
<1>21. CASE op = "listPOs"
  BY <1>8, <1>21 DEF BackofficeAnswers
<1>22. CASE op = "getCategories"
  BY <1>8, <1>22 DEF BackofficeAnswers
<1>23. CASE op = "getTags"
  BY <1>8, <1>23 DEF BackofficeAnswers
<1>24. CASE op = "getMySubscriptions"
  BY <1>8, <1>24 DEF BackofficeAnswers
<1>25. CASE op = "getMyPreOrders"
  BY <1>8, <1>25 DEF BackofficeAnswers
<1>26. CASE op = "listReviews"
  BY <1>3, <1>26 DEF BackofficeAnswers
<1>27. CASE op = "getRatingSummary"
  BY <1>3, <1>27 DEF BackofficeAnswers
<1>28. CASE op = "getFulfillmentByOrder"
  BY <1>6, <1>28 DEF BackofficeAnswers
<1>29. CASE op = "getArticleStats"
  BY <1>6, <1>29 DEF BackofficeAnswers
<1>30. CASE op = "getPopularQueries"
  BY <1>6, <1>30 DEF BackofficeAnswers
<1>31. CASE op = "getTenantStats"
  BY <1>6, <1>31 DEF BackofficeAnswers
<1>32. CASE op = "getSignals"
  BY <1>6, <1>32 DEF BackofficeAnswers
<1>33. CASE op = "getWidgets"
  BY <1>6, <1>33 DEF BackofficeAnswers
<1>34. CASE op = "listCarriers"
  BY <1>6, <1>34 DEF BackofficeAnswers
<1>35. CASE op = "listCurrencies"
  BY <1>6, <1>35 DEF BackofficeAnswers
<1>36. CASE op = "listTickets"
  BY <1>7, <1>36 DEF BackofficeAnswers
<1>37. CASE op = "getConversation"
  BY <1>4, <1>37 DEF BackofficeAnswers
<1>38. CASE op = "getRedirects"
  BY <1>5, <1>38 DEF BackofficeAnswers
<1>16. Fine(BackofficeAnswers(r)[op])
  <2>1. op \in {"listRequests", "listTickets", "getConversation", "listReviews",
                "getRatingSummary", "getMySubscriptions", "getMyPreOrders", "listPOs",
                "getFulfillmentByOrder", "getArticleStats", "getPopularQueries",
                "getCategories", "getTags", "getRedirects", "getTenantStats", "getSignals",
                "getWidgets", "listCarriers", "listCurrencies"}
    BY DEF BackofficeAnswers
  <2>2. QED
    BY <2>1, <1>20, <1>21, <1>22, <1>23, <1>24, <1>25, <1>26, <1>27, <1>28, <1>29,
       <1>30, <1>31, <1>32, <1>33, <1>34, <1>35, <1>36, <1>37, <1>38
<1>17. QED
  BY <1>16 DEF Fine

LEMMA BackofficeShapes ==
  ASSUME OnTheWay, Shaped, UNCHANGED call, NEW r \in Requests, BackofficeStep(r)
  PROVE  Shapes(r)
<1>0. LocalsTyped /\ LocalsShaped
  BY DEF OnTheWay, Shaped
<1>1. CASE AnswerBackoffice(r)
  BY <1>0, <1>1, BackofficeAnswersShaped, AnswerShaped DEF AnswerBackoffice
<1>2. QED
  BY <1>1, SlipShapes, FinanceShapes, DocumentShapes DEF BackofficeStep
--------------------
\* All together
LEMMA StepShapes ==
  ASSUME OnTheWay, RowsTyped, RowsTyped', Shaped, UNCHANGED call, NEW r \in Requests, Step(r)
  PROVE  Shapes(r)
<1>1. CASE Fails(r)
  BY <1>1, GoesShaped DEF OnTheWay, Shaped, Fails, Light
<1>2. QED
  BY <1>1, ContentShapes, CacheShapes, LearningShapes, RegistryShapes, MarketingShapes,
     BackofficeShapes DEF Step

\* What an article or product leaves besides its row is of requests and slugs.
LEMMA TextsShaped ==
  ASSUME OnTheWay, RowsTyped, Shaped, NEW r \in Requests, pc[r] \in {"revise", "redirect"}
  PROVE  /\ target[r] \in Requests /\ seen[r].text \in Requests
         /\ seen[r].slug \in Keys /\ NewSlug(r) \in Keys
<1>0. call \in Plans /\ Fits(Op(r), pc[r]) /\ Grips(r) /\ Sight(r) /\ Facing(r)
  BY DEF OnTheWay, RowsTyped
<1>1. Op(r) \in Updates /\ target[r] \in Requests /\ target[r] = On(r) /\ seen[r] # NONE
  BY <1>0 DEF Fits, Grips, Finders, Facing
<1>2. Op(target[r]) \in Creates /\ RowFits(Op(target[r]), seen[r])
  BY <1>0, <1>1, CallsTyped, ServicesAssumption DEF Names, Updates, Creates, ArticleCreates,
     OfProducts, Sight, IsArticle
<1>3. seen[r] \in ArticleRows \/ seen[r] \in ProductRows
  BY <1>2 DEF RowFits, Creates
<1>4. seen[r].text \in Requests /\ seen[r].slug \in Keys
  BY <1>3 DEF ArticleRows, ProductRows
<1>5. NewSlug(r) \in Keys
  BY <1>0, <1>4, BodiesTyped DEF NewSlug
<1>6. QED
  BY <1>1, <1>4, <1>5

LEMMA ContentVarsShaped ==
  ASSUME OnTheWay, RowsTyped, Shaped, NEW r \in Requests, ContentStep(r)
  PROVE  ContentShaped'
<1>0. ContentShaped
  BY DEF Shaped, StateShaped, ContentShaped
<1> USE <1>0
<1>1. CASE CreateDetail(r)
  BY <1>1 DEF CreateDetail, ContentShaped
<1>2. CASE createRevision(r)
  BY <1>2, TextsShaped DEF createRevision, Shaped, HeldShaped, Revisions, ContentShaped
<1>3. CASE SaveRedirect(r)
  BY <1>3, TextsShaped DEF SaveRedirect, Redirects, ContentShaped
<1>4. CASE SaveDetail(r)
  BY <1>4 DEF SaveDetail, ContentShaped
<1>5. CASE DeleteDetail(r)
  BY <1>5 DEF DeleteDetail, ContentShaped
<1>6. CASE DeleteRevisions(r)
  BY <1>6 DEF DeleteRevisions, ContentShaped
<1>7. CASE DeleteRedirects(r)
  BY <1>7 DEF DeleteRedirects, ContentShaped
<1>8. CASE cleanupOldRevisions(r)
  BY <1>8 DEF cleanupOldRevisions, ContentShaped
<1>9. CASE UNCHANGED contentVars
  BY <1>9 DEF contentVars, ContentShaped
<1>10. CreateStep(r) => CreateDetail(r) \/ UNCHANGED contentVars
  BY DEF CreateStep, CreateFind, CreateInsert, DetailRejected, UndoCreate
<1>11. UpdateStep(r) => createRevision(r) \/ SaveRedirect(r) \/ SaveDetail(r) \/ UNCHANGED contentVars
  BY DEF UpdateStep, UpdateFind, FindDetail, SaveContent, RefindDetail
<1>12. DeleteStep(r) =>
         DeleteDetail(r) \/ DeleteRevisions(r) \/ DeleteRedirects(r) \/ UNCHANGED contentVars
  BY DEF DeleteStep, DeleteFind, DeleteRow, DeleteShortlinks
<1>13. JobStep(r) => cleanupOldRevisions(r) \/ UNCHANGED contentVars
  BY DEF JobStep, PublishFind, PublishEnd, Publish, contentVars
<1>14. ReadStep(r) => UNCHANGED contentVars
  BY DEF ReadStep, GetContent, GetDetail, ListContent, SearchRows, SearchDetails, SearchBoth,
     logSearch
<1>15. createShortlink(r) \/ resolveShortlink(r) => UNCHANGED contentVars
  BY DEF createShortlink, resolveShortlink
<1>16. QED
  BY <1>1, <1>2, <1>3, <1>4, <1>5, <1>6, <1>7, <1>8, <1>9, <1>10, <1>11, <1>12, <1>13, <1>14,
     <1>15 DEF ContentStep

LEMMA CacheVarShaped ==
  ASSUME OnTheWay, Shaped, NEW r \in Requests, CacheStep(r)
  PROVE  CacheShaped'
<1>0. CacheShaped
  BY DEF Shaped, StateShaped, CacheShaped
<1>1. CASE UNCHANGED cache
  BY <1>0, <1>1 DEF CacheShaped
<1>2. CASE CacheSet(r)
  BY <1>2, <1>0 DEF CacheSet, Shaped, HeldShaped, CacheShaped
<1>3. CASE CacheDel(r)
  BY <1>0, <1>3 DEF CacheShaped, CacheDel
<1>4. CacheReadStep(r) => CacheSet(r) \/ UNCHANGED cache
  BY DEF CacheReadStep, CacheGet, CacheQuery, LogCoupon
<1>5. CouponStep(r) \/ PromotionStep(r) \/ MenuStep(r) => UNCHANGED cache
  BY DEF CouponStep, createCoupon, CouponFind, SaveCoupon, PromotionStep, createPromotion,
     PromotionFind, SavePromotion, MenuStep, MenuFind, SaveMenu
<1>6. CacheListStep(r) => UNCHANGED cache
  BY DEF CacheListStep
<1>7. QED
  BY <1>1, <1>2, <1>3, <1>4, <1>5, <1>6 DEF CacheStep
--------------------
\* Points
LEMMA PointsShaped ==
  ASSUME OnTheWay, Shaped, NEW r \in Requests, LearningStep(r)
  PROVE  points' \in [People -> Nat \cup {NONE}]
<1>0. points \in [People -> Nat \cup {NONE}]
  BY DEF Shaped, StateShaped
<1>1. CASE UNCHANGED points
  BY <1>0, <1>1
<1>2. CASE awardXP(r)
  <2>1. held[r] = NONE \/ held[r] \in Nat
    BY <1>2 DEF awardXP, Shaped, HeldShaped
  <2>2. (IF held[r] = NONE THEN 1 ELSE held[r] + 1) \in Nat
    BY <2>1
  <2>3. QED
    BY <1>0, <1>2, <2>2 DEF awardXP
<1>3. PlayerStep(r) => awardXP(r) \/ UNCHANGED points
  BY DEF PlayerStep, FindLesson, FindEnrollment, FindCourse, FindPrevious, CheckPrevious,
     FindProgress, FindPoints, AwardFails, SaveProgress
<1>4. QED
  BY <1>1, <1>2, <1>3 DEF LearningStep, CourseStep, CredentialStep, AssessmentStep

LEMMA MarketingVarsShaped ==
  ASSUME OnTheWay, Shaped, NEW r \in Requests, MarketingStep(r)
  PROVE  MarketingShaped'
<1>0. MarketingShaped
  BY DEF Shaped, StateShaped, MarketingShaped
<1>1. CASE UNCHANGED marketingVars
  BY <1>0, <1>1 DEF MarketingShaped, marketingVars
<1>2. CASE Logs(r)
  BY <1>0, <1>2 DEF MarketingShaped, Logs
<1>3. CASE TrackInsert(r)
  BY <1>0, <1>3 DEF MarketingShaped, TrackInsert
<1>4. CASE markRecovered(r)
  BY <1>0, <1>4 DEF MarketingShaped, markRecovered, marketingVars
<1>5. BundleStep(r) \/ LoyaltyStep(r) \/ AnswerMarketing(r) => UNCHANGED marketingVars
  BY DEF BundleStep, LoyaltyStep, addPoints, AnswerMarketing
<1>6. AffiliateStep(r) => Logs(r) \/ UNCHANGED marketingVars
  BY DEF AffiliateStep, createLink, findLinkByCode, logConversion
<1>7. AbandonedStep(r) => TrackInsert(r) \/ markRecovered(r) \/ UNCHANGED marketingVars
  BY DEF AbandonedStep, TrackCarts, TrackEnd, TrackFind
<1>8. QED
  BY <1>1, <1>2, <1>3, <1>4, <1>5, <1>6, <1>7 DEF MarketingStep

LEMMA DocumentsStayShaped ==
  ASSUME OnTheWay, Shaped, NEW r \in Requests, BackofficeStep(r)
  PROVE  DocumentsShaped'
<1>0. DocumentsShaped
  BY DEF Shaped, StateShaped, DocumentsShaped
<1>1. CASE UNCHANGED backofficeVars
  BY <1>0, <1>1 DEF DocumentsShaped, backofficeVars
<1>2. CASE createTicket(r)
  BY <1>0, <1>2 DEF DocumentsShaped, createTicket, backofficeVars
<1>3. CASE SaveDialog(r)
  BY <1>3, <1>0 DEF SaveDialog, SavesAs, Shaped, HeldShaped, DocumentsShaped
<1>4. CASE CreateWishes(r)
  BY <1>0, <1>4 DEF DocumentsShaped, CreateWishes
<1>5. CASE SaveWishes(r)
  BY <1>5, <1>0, BodiesTyped DEF OnTheWay, SaveWishes, Shaped, HeldShaped, OnRow, DocumentsShaped
<1>6. DocumentStep(r) => createTicket(r) \/ SaveDialog(r) \/ CreateWishes(r) \/ SaveWishes(r)
                         \/ UNCHANGED backofficeVars
  BY DEF DocumentStep, FindDialog, FindProduct, FindWishes
<1>7. SlipStep(r) \/ FinanceStep(r) \/ AnswerBackoffice(r) => UNCHANGED backofficeVars
  BY DEF SlipStep, FinanceStep, AnswerBackoffice
<1>8. QED
  BY <1>1, <1>2, <1>3, <1>4, <1>5, <1>6, <1>7 DEF BackofficeStep

LEMMA StateStaysShaped ==
  ASSUME OnTheWay, RowsTyped, Shaped, NEW r \in Requests, Step(r)
  PROVE  StateShaped'
<1> DEFINE PointsTyped == points \in [People -> Nat \cup {NONE}]
<1>0. ContentShaped /\ CacheShaped /\ PointsTyped /\ MarketingShaped /\ DocumentsShaped
  BY DEF Shaped, StateShaped, ContentShaped, CacheShaped, MarketingShaped, DocumentsShaped
<1>1. ContentShaped'
  BY <1>0, ContentVarsShaped DEF contentVars, ContentShaped, Step
<1>2. CacheShaped'
  BY <1>0, CacheVarShaped DEF CacheShaped, Step
<1>3. PointsTyped'
  BY <1>0, PointsShaped DEF Step
<1>4. MarketingShaped'
  BY <1>0, MarketingVarsShaped DEF marketingVars, MarketingShaped, Step
<1>5. DocumentsShaped'
  BY <1>0, DocumentsStayShaped DEF backofficeVars, DocumentsShaped, Step
<1>6. QED
  BY <1>1, <1>2, <1>3, <1>4, <1>5
     DEF StateShaped, ContentShaped, CacheShaped, MarketingShaped, DocumentsShaped
--------------------
\* The types are right.
LEMMA InitShaped == Init => Shaped
<1> SUFFICES ASSUME Init PROVE Shaped
  OBVIOUS
<1>1. LocalsShaped
  BY DEF Init, CallsInit, LocalsShaped, Places
<1>2. ContentShaped
  BY DEF Init, ContentInit, ContentShaped
<1>3. CacheShaped
  BY DEF Init, CacheInit, CacheShaped
<1>4. points \in [People -> Nat \cup {NONE}]
  BY DEF Init, LearningInit
<1>5. MarketingShaped
  BY DEF Init, MarketingInit, MarketingShaped
<1>6. DocumentsShaped
  BY DEF Init, BackofficeInit, DocumentsShaped
<1>7. ASSUME NEW r \in Requests PROVE HeldShaped(r)
  BY <1>7 DEF Init, CallsInit, HeldShaped
<1>8. QED
  BY <1>1, <1>2, <1>3, <1>4, <1>5, <1>6, <1>7
     DEF Shaped, StateShaped, ContentShaped, CacheShaped, MarketingShaped, DocumentsShaped

LEMMA StepShaped ==
  ASSUME OnTheWay, RowsTyped, RowsTyped', Shaped, UNCHANGED call, NEW r \in Requests, Step(r)
  PROVE  Shaped'
<1>1. Shapes(r) /\ StateShaped'
  BY StepShapes, StateStaysShaped
<1>2. Strides(r)
  BY StepStrides
<1>3. ASSUME NEW q \in Requests \ {r} PROVE HeldShaped(q)'
  BY <1>2, <1>3 DEF Strides, Own, Paces, Holds, Op, Shaped, HeldShaped
<1>4. QED
  BY <1>1, <1>3 DEF Shapes, Shaped

LEMMA RestsShaped ==
  ASSUME Shaped, UNCHANGED <<callVars, rows, held, contentVars, points, marketingVars,
         backofficeVars>>,
         CacheShaped'
  PROVE  Shaped'
<1>1. UNCHANGED <<call, pc, target, todo, before, held, details, revisions, redirects, points,
                  logged, abandoned, dialogs, wishes>>
  BY DEF callVars, locals, contentVars, marketingVars, backofficeVars
<1>2. LocalsShaped'
  BY <1>1 DEF Shaped, LocalsShaped
<1>3. StateShaped'
  BY <1>1 DEF Shaped, StateShaped, CacheShaped
<1>4. \A r \in Requests : HeldShaped(r)'
  BY <1>1 DEF Shaped, HeldShaped, Op
<1>5. QED
  BY <1>2, <1>3, <1>4 DEF Shaped

LEMMA NextTypesInv == TypesInv /\ [Next]_vars => TypesInv'
<1> SUFFICES ASSUME TypesInv, [Next]_vars PROVE TypesInv'
  OBVIOUS
<1>1. OnTheWay' /\ Timely' /\ RowsTyped'
  BY NextOnTheWay, NextTimely, NextRowsTyped DEF TypesInv
<1>2. CASE \E r \in Requests : ~Ended(r) /\ Step(r) /\ UNCHANGED call
  BY <1>1, <1>2, StepShaped DEF TypesInv
<1>3. CASE \E k \in CacheKeys : CacheExpires(k) /\ UNCHANGED <<contentVars, points,
     marketingVars, backofficeVars>>
  BY <1>3, <1>1, RestsShaped DEF CacheExpires, TypesInv, Shaped, StateShaped, CacheShaped,
     recordVars
<1>4. CASE UNCHANGED vars
  BY <1>4, <1>1, RestsShaped DEF vars, TypesInv, Shaped, StateShaped, CacheShaped, recordVars
<1>5. QED
  BY <1>2, <1>3, <1>4 DEF Next

\* Whatever the calls and however they interleave, each variable holds what it is
\* declared for: the rows of a kind have its columns, and what a call has found,
\* seen or cached is a row that there can be.
THEOREM ServicesTypeCorrect == Spec => []TypeOK
<1>1. Init => TypesInv
  BY InitOnTheWay, InitTimely, InitRowsTyped, InitShaped DEF TypesInv
<1>2. TypesInv => TypeOK
  <2> SUFFICES ASSUME TypesInv PROVE TypeOK
    OBVIOUS
  <2>1. call \in Plans /\ DOMAIN pc = Requests /\ stale \subseteq Requests
    BY DEF TypesInv, OnTheWay, LocalsTyped
  <2>2. LocalsShaped /\ StateShaped
    BY DEF TypesInv, Shaped
  <2>3. \A r \in Requests : seen[r] = NONE \/ Op(r) = "processScheduledPosts" \/ seen[r] \in Rows
    BY DEF TypesInv, RowsTyped, Sight, RowFits
  <2>4. \A r \in Requests : rows[r] = NONE \/ rows[r] \in Rows
    BY DEF TypesInv, RowsTyped, RowFits
  <2>5. QED
    BY <2>1, <2>2, <2>3, <2>4 DEF TypeOK, LocalsShaped, StateShaped, Places, Entry
<1>3. QED
  BY <1>1, <1>2, NextTypesInv, PTL DEF Spec
--------------------
\* It is the least closed set, ...
LEMMA NeedsClosed ==
  ASSUME NEW ms, NEW k, AsksKeys(ms)
  PROVE  Closed(ms, k, Needs(ms, k))
BY DEF Closed, Needs, AsksKeys
LEMMA NeedsLeast ==
  ASSUME NEW ms, NEW k, NEW ks \in SUBSET Keys, Closed(ms, k, ks)
  PROVE  Needs(ms, k) \subseteq ks
BY DEF Needs
\* ... which has what its members need.
LEMMA NeedsNested ==
  ASSUME NEW ms, NEW k, AsksKeys(ms), NEW d \in Needs(ms, k)
  PROVE  Needs(ms, d) \subseteq Needs(ms, k)
<1>1. Needs(ms, k) \in SUBSET Keys
  BY DEF Needs
<1>2. Closed(ms, d, Needs(ms, k))
  BY NeedsClosed DEF Closed
<1>3. QED
  BY <1>1, <1>2, NeedsLeast

\* A module that none of them needs changes nothing.
LEMMA NeedsSettled ==
  ASSUME NEW ms, NEW more, NEW k, AsksKeys(ms \cup more),
         \A m \in more : Key(m) \notin Needs(ms, k) \cup {k}
  PROVE  Needs(ms \cup more, k) = Needs(ms, k)
<1>1. Needs(ms, k) \in SUBSET Keys /\ Needs(ms \cup more, k) \in SUBSET Keys
  BY DEF Needs
<1>2. Closed(ms \cup more, k, Needs(ms, k))
  BY NeedsClosed DEF AsksKeys, Closed
<1>3. Needs(ms \cup more, k) \subseteq Needs(ms, k)
  BY <1>1, <1>2, NeedsLeast
<1>4. Closed(ms, k, Needs(ms \cup more, k))
  BY NeedsClosed DEF Closed
<1>5. Needs(ms, k) \subseteq Needs(ms \cup more, k)
  BY <1>1, <1>4, NeedsLeast
<1>6. QED
  BY <1>3, <1>5

\* What is needed since some modules were added was needed before, or is needed
\* by one of the keys they were added for.
LEMMA NeedsMore ==
  ASSUME NEW ms, NEW more, NEW k, AsksKeys(ms \cup more), \A m \in more : Key(m) # k,
         NEW d \in Needs(ms \cup more, k)
  PROVE  \/ d \in Needs(ms, k)
         \/ \E m \in more : Key(m) \in Needs(ms, k) /\ d \in Needs(ms \cup more, Key(m))
<1> DEFINE new == {m \in more : Key(m) \in Needs(ms, k)}
           ks == Needs(ms, k) \cup UNION {Needs(ms \cup more, Key(m)) : m \in new}
<1>1. ks \in SUBSET Keys
  BY DEF Needs
<1>2. ASSUME NEW m \in ms \cup more, Key(m) \in ks \cup {k}
      PROVE  call[m].to \subseteq ks
  <2>1. CASE Key(m) \in Needs(ms, k) \cup {k}
    BY <2>1, NeedsClosed DEF AsksKeys, Closed
  <2>2. CASE \E n \in new : Key(m) \in Needs(ms \cup more, Key(n))
    <3>1. PICK n \in new : Key(m) \in Needs(ms \cup more, Key(n))
      BY <2>2
    <3>2. Closed(ms \cup more, Key(n), Needs(ms \cup more, Key(n)))
      BY NeedsClosed
    <3>3. call[m].to \subseteq Needs(ms \cup more, Key(n))
      BY <3>1, <3>2 DEF Closed
    <3>4. QED
      BY <3>1, <3>3
  <2>3. QED
    BY <1>2, <2>1, <2>2
<1>3. Closed(ms \cup more, k, ks)
  BY <1>2 DEF Closed
<1>4. d \in ks
  BY <1>1, <1>3, NeedsLeast
<1>5. QED
  BY <1>4
--------------------
\* Installations and switches
LEMMA AsksModules ==
  ASSUME call \in Plans, NEW ms \in SUBSET Table("createModule")
  PROVE  AsksKeys(ms)
<1>1. \A m \in ms : m \in Requests /\ Op(m) = "createModule"
  BY DEF Table
<1>2. QED
  BY <1>1, ServicesAssumption DEF AsksKeys, Op
\* ... so that what it needs is told by the calls.
LEMMA DependenciesAre ==
  ASSUME ModulesStand, NEW k
  PROVE  Dependencies(k) = Needs(Table("createModule"), k)
<1>1. ASSUME NEW m \in Table("createModule")
      PROVE  rows[m].key = Key(m) /\ rows[m].deps = call[m].to
  <2>1. rows[m] = [key |-> Key(m), deps |-> call[m].to]
    BY DEF ModulesStand, Table
  <2>2. QED
    BY <2>1
<1>2. ASSUME NEW ks PROVE HasNeeds(k, ks) <=> Closed(Table("createModule"), k, ks)
  BY <1>1 DEF HasNeeds, Closed
<1>3. QED
  BY <1>2 DEF Dependencies, Needs
\* Who needs a key is among its dependents.
LEMMA DependentsHave ==
  ASSUME NEW k, NEW a \in Keys, k \in Dependencies(a), RowsTyped
  PROVE  a \in Dependents(k)
<1> SUFFICES ASSUME NEW ks \in SUBSET Keys, HasUsers(k, ks), a \notin ks PROVE FALSE
  BY DEF Dependents
<1> DEFINE rest == Keys \ (ks \cup {k})
<1>1. ASSUME NEW m \in Table("createModule"), rows[m].key \in rest \cup {a}
      PROVE  rows[m].deps \subseteq rest
  BY <1>1 DEF HasUsers, Table, RowsTyped, RowFits, ModuleRows
<1>2. HasNeeds(a, rest)
  BY <1>1 DEF HasNeeds
<1>3. QED
  BY <1>2 DEF Dependencies
--------------------
\* ... and likewise after a step.
LEMMA DependenciesBecome ==
  ASSUME UNCHANGED call, ModulesStand', NEW k
  PROVE  Dependencies(k)' = Needs(Table("createModule")', k)
<1>1. ASSUME NEW m \in Table("createModule")'
      PROVE  rows'[m].key = Key(m) /\ rows'[m].deps = call[m].to
  <2>1. rows'[m] = [key |-> Key(m), deps |-> call[m].to]
    BY DEF ModulesStand, Table, Op, Key
  <2>2. QED
    BY <2>1
<1>2. ASSUME NEW ks PROVE HasNeeds(k, ks)' <=> Closed(Table("createModule")', k, ks)
  BY <1>1 DEF HasNeeds, Closed, Key
<1>3. QED
  BY <1>2 DEF Dependencies, Needs
--------------------
\* Registrations
LEMMA KnownOn ==
  ASSUME OnTheWay, Timely, Known, UNCHANGED call, NEW r \in Requests, Strides(r)
  PROVE  Known'
<1>1. \A q \in Requests : Made(q)' = Made(q)
  BY SameCalls
<1>2. ASSUME NEW q \in Requests, Begun(q)', ~Begun(q)
      PROVE  before'[q] = {s \in Requests : pc[s] = "ok"}
  BY <1>1, <1>2 DEF Begun, Strides, Own, Paces
<1>3. ASSUME NEW q \in Requests, Begun(q)
      PROVE  before'[q] = before[q] /\ before[q] \subseteq {s \in Requests : pc[s] = "ok"}
  BY <1>3, StaysBegun DEF Timely
<1>4. ASSUME NEW q \in Requests, NEW s \in Requests, Begun(q)', Begun(s)'
      PROVE  before'[q] \subseteq before'[s] \/ before'[s] \subseteq before'[q]
  BY <1>2, <1>3, <1>4 DEF Known
<1>5. ASSUME NEW q \in Requests, NEW s \in Requests, Begun(q)', Made(s)
      PROVE  s \in before'[q]
  BY <1>2, <1>3, <1>5 DEF Known, Timely
<1>6. QED
  BY <1>1, <1>4, <1>5 DEF Known

\* The reasons stay once they hold.
LEMMA StaysSwitcher ==
  ASSUME OnTheWay, UNCHANGED call, NEW r \in Requests, Strides(r),
         NEW s \in Requests, Switcher(s)
  PROVE  Switcher(s)' /\ Arg(s)' = Arg(s) /\ On(s)' = On(s)
BY StaysBegun, SameCalls DEF Switcher
LEMMA StaysOff ==
  ASSUME OnTheWay, UNCHANGED call, NEW r \in Requests, Strides(r), NEW y \in Requests
  PROVE  /\ OffSince(y) /\ pc[y] # "idle" => OffSince(y)'
         /\ OffBeside(y) => OffBeside(y)'
         /\ TurnedOn(y) => TurnedOn(y)'
         /\ SavedOver => SavedOver'
<1>1. ASSUME OffSince(y), pc[y] # "idle" PROVE OffSince(y)'
  <2>1. PICK s \in Requests : Switcher(s) /\ Arg(s) = "OFF" /\ s \notin before[y]
    BY <1>1 DEF OffSince
  <2>2. before'[y] = before[y]
    BY <1>1 DEF Strides, Own, Paces
  <2>3. QED
    BY <2>1, <2>2, StaysSwitcher DEF OffSince
<1>2. ASSUME OffBeside(y) PROVE OffBeside(y)'
  <2>1. PICK s \in Requests : Switcher(s) /\ Arg(s) = "OFF" /\ Together(s, y)
    BY <1>2 DEF OffBeside
  <2>2. Together(s, y)'
    BY <2>1, StaysTogether
  <2>3. QED
    BY <2>1, <2>2, StaysSwitcher DEF OffBeside
<1>3. ASSUME TurnedOn(y) PROVE TurnedOn(y)'
  <2>1. PICK s \in Requests : Switcher(s) /\ Arg(s) = "ON" /\ On(s) = y
    BY <1>3 DEF TurnedOn
  <2>2. QED
    BY <2>1, StaysSwitcher DEF TurnedOn
<1>4. ASSUME SavedOver PROVE SavedOver'
  <2>1. PICK s \in stale : Switcher(s)
    BY <1>4 DEF SavedOver
  <2>2. s \in Requests /\ s \in stale'
    BY <2>1 DEF OnTheWay, LocalsTyped, Strides, Own, Bears
  <2>3. QED
    BY <2>1, <2>2, StaysSwitcher DEF SavedOver
<1>5. QED
  BY <1>1, <1>2, <1>3, <1>4
--------------------
\* The operations of the registry step as its module says.
LEMMA RegistrySteps ==
  ASSUME OnTheWay, NEW r \in Requests, Step(r),
         Op(r) \in {"createModule", "createRegistry", "updateRegistry"}
  PROVE  \/ Op(r) = "createModule" /\ createModule(r)
         \/ Op(r) = "createRegistry" /\ (FindModules(r) \/ FindInstalled(r) \/ InsertRegistry(r))
         \/ /\ Op(r) = "updateRegistry"
            /\ FindRegistry(r) \/ FindDependents(r) \/ FindActive(r) \/ SaveRegistry(r)
         \/ Fails(r) /\ UNCHANGED recordVars
<1>0. Fits(Op(r), pc[r])
  BY DEF OnTheWay
<1>1. Op(r) \notin ContentCalls \cup CacheCalls
  BY DEF ContentCalls, CacheCalls, ArticleOps, ProductOps, AdvancedOps, JobOps,
     CouponOps, PromotionOps, MenuOps, FeedOps
<1>2. Op(r) \notin LearningCalls
  BY DEF LearningCalls, CourseOps, CurriculumOps, PlayerOps, AssessmentOps,
     CredentialOps, ForumOps, ReviewOps, OperationOps, AdvancedLearningOps, ReportingOps
<1>3. Op(r) \notin MarketingCalls
  BY DEF MarketingCalls, BundleOps, AffiliateOps, LoyaltyOps, AbandonedOps
<1>4. Op(r) \notin BackofficeCalls
  BY DEF BackofficeCalls, Slips, Statuses, UpdatedTo, Singles, WishOps
<1>5. RegistryStep(r) \/ (Fails(r) /\ UNCHANGED recordVars)
  BY <1>1, <1>2, <1>3, <1>4, ContentFamily, CacheFamily, LearningFamily, MarketingFamily,
     BackofficeFamily DEF Step
<1>6. ~AnswerRegistry(r)
  BY DEF AnswerRegistry, RegistryAnswers
<1>7. createModule(r) => Op(r) = "createModule"
  BY DEF createModule, Insert, Began
<1>8. FindModules(r) \/ FindInstalled(r) \/ InsertRegistry(r) => Op(r) = "createRegistry"
  BY <1>0 DEF FindModules, FindInstalled, InsertRegistry, Began, Fits
<1>9. FindRegistry(r) \/ FindDependents(r) \/ FindActive(r) \/ SaveRegistry(r) =>
        Op(r) = "updateRegistry"
  BY <1>0 DEF FindRegistry, FindDependents, FindActive, SaveRegistry, Began, Fits
<1>10. QED
  BY <1>5, <1>6, <1>7, <1>8, <1>9 DEF RegistryStep

\* Nobody else writes modules or registrations, ...
LEMMA RegistryLeft ==
  ASSUME OnTheWay, UNCHANGED call, NEW r \in Requests, Strides(r),
         Op(r) \notin {"createModule", "createRegistry", "updateRegistry"}
  PROVE  \A x \in Requests :
           Op(x) \in {"createModule", "createRegistry"} => rows'[x] = rows[x]
BY DEF Strides, Touches, Reaches, Names, Creates, ArticleCreates, OfProducts
\* ... and modules are only added.
LEMMA ModulesLeft ==
  ASSUME OnTheWay, UNCHANGED call, NEW r \in Requests, Strides(r), Op(r) # "createModule"
  PROVE  Table("createModule")' = Table("createModule")
         /\ \A x \in Requests : Op(x) = "createModule" => rows'[x] = rows[x]
<1>1. \A x \in Requests : Op(x) = "createModule" => rows'[x] = rows[x]
  BY DEF Strides, Touches, Reaches, Names, Creates, ArticleCreates, OfProducts
<1>2. QED
  BY <1>1, SameCalls DEF Table
LEMMA ModulesAdded ==
  ASSUME OnTheWay, ModulesStand, UNCHANGED call, NEW r \in Requests, createModule(r)
  PROVE  /\ Table("createModule")' = Table("createModule") \cup {r}
         /\ pc[r] = "idle" /\ pc'[r] = "ok"
         /\ \A m \in Table("createModule") : Key(m) # Key(r)
         /\ rows'[r] = [key |-> Key(r), deps |-> call[r].to]
         /\ \A x \in Requests \ {r} : rows'[x] = rows[x]
<1>0. LocalsTyped /\ Op(r) = "createModule" /\ pc[r] = "idle"
  BY DEF OnTheWay, createModule, Insert, Began
<1>1. pc'[r] = "ok"
  BY <1>0, Goes DEF createModule, Insert
<1>2. rows'[r] = [key |-> Key(r), deps |-> call[r].to]
     /\ \A x \in Requests \ {r} : rows'[x] = rows[x]
  BY <1>0 DEF createModule, Insert, Put, LocalsTyped
<1>3. ASSUME NEW m \in Table("createModule") PROVE Key(m) # Key(r)
  <2>1. rows[m] = [key |-> Key(m), deps |-> call[m].to]
    BY DEF ModulesStand, Table
  <2>2. QED
    BY <2>1 DEF createModule
<1>4. rows'[r] # NONE
  <2>1. [key |-> Key(r), deps |-> call[r].to] \in ModuleRows
    BY <1>0, BodiesTyped DEF ModuleRows, Keyed, OnTheWay
  <2>2. RowFits("createModule", [key |-> Key(r), deps |-> call[r].to])
    BY <2>1, Fitting
  <2>3. QED
    BY <1>2, <2>2, RowNotNone
<1>5. Table("createModule")' = Table("createModule") \cup {r}
  BY <1>0, <1>2, <1>4, SameCalls DEF Table
<1>6. QED
  BY <1>0, <1>1, <1>2, <1>3, <1>5

LEMMA ModulesOn ==
  ASSUME OnTheWay, ModulesStand, ModulesApart, UNCHANGED call, NEW r \in Requests, Step(r),
         ~Ended(r), Strides(r)
  PROVE  ModulesStand' /\ ModulesApart' /\ \E more : NewModules(r, more)
<1>0. \A x \in Requests : Op(x)' = Op(x) /\ Key(x)' = Key(x) /\ Made(x)' = Made(x)
  BY SameCalls
<1> DEFINE ms == Table("createModule")
<1>a. ms \subseteq Requests
  BY DEF Table
<1>1. CASE createModule(r)
  <2>1. ModulesStand'
    <3> SUFFICES ASSUME NEW m \in Requests, Op(m) = "createModule", rows'[m] # NONE
                 PROVE  rows'[m] = [key |-> Key(m), deps |-> call[m].to] /\ pc'[m] = "ok"
      BY <1>0 DEF ModulesStand
    <3>1. CASE m = r
      BY <1>1, <3>1, ModulesAdded
    <3>2. CASE m # r
      BY <1>1, <3>2, ModulesAdded DEF Strides, Own, Paces, ModulesStand
    <3>3. QED
      BY <3>1, <3>2
  <2>2. ModulesApart'
    <3>1. ms' = ms \cup {r} /\ \A m \in ms : Key(m) # Key(r)
      BY <1>1, ModulesAdded
    <3>2. \A m, n \in ms \cup {r} : Key(m) = Key(n) => m = n \/ (Made(m) /\ Made(n))
      BY <3>1 DEF ModulesApart
    <3> HIDE DEF ms
    <3>3. \A m, n \in ms' : Key(m)' = Key(n)' => m = n \/ (Made(m)' /\ Made(n)')
      BY <3>1, <3>2, <1>0, <1>a
    <3>4. QED
      BY <3>3 DEF ModulesApart, ms
  <2>3. NewModules(r, {r})
    BY <1>1, ModulesAdded DEF NewModules
  <2>4. QED
    BY <2>1, <2>2, <2>3
<1>2. CASE ~createModule(r)
  <2>1. /\ Table("createModule")' = Table("createModule")
        /\ \A x \in Requests : Op(x) = "createModule" => rows'[x] = rows[x]
    BY <1>2, <1>0, RegistrySteps, ModulesLeft DEF recordVars, Table
  <2>2. ModulesStand'
    <3> SUFFICES ASSUME NEW m \in Requests, Op(m) = "createModule", rows'[m] # NONE
                 PROVE  rows'[m] = [key |-> Key(m), deps |-> call[m].to] /\ pc'[m] = "ok"
      BY <1>0 DEF ModulesStand
    <3>1. rows'[m] = rows[m] /\ pc[m] = "ok" /\ rows[m] = [key |-> Key(m), deps |-> call[m].to]
      BY <2>1 DEF ModulesStand
    <3>2. m # r
      BY <3>1 DEF Ended
    <3>3. QED
      BY <3>1, <3>2 DEF Strides, Own, Paces
  <2>3. ModulesApart'
    BY <1>0, <1>a, <2>1 DEF ModulesApart
  <2>4. NewModules(r, {})
    BY <2>1 DEF NewModules
  <2>5. QED
    BY <2>2, <2>3, <2>4
<1>3. QED
  BY <1>1, <1>2

\* What a registered module needs does not change.
LEMMA DependenciesStay ==
  ASSUME OnTheWay, ModulesStand, ModulesStand', UNCHANGED call, NEW r \in Requests, NEW more,
         NewModules(r, more), NEW y \in Requests, Placed(y), Standing(y)
  PROVE  Dependencies(Key(y))' = Dependencies(Key(y))
<1> DEFINE ms == Table("createModule")
           k == Key(y)
<1>1. ModuleOf(k) # {}
  BY DEF Placed, Standing, HasBefore, ModuleOf
<1>2. Dependencies(k) = Needs(ms, k) /\ \A d \in Dependencies(k) : ModuleOf(d) # {}
  BY DependenciesAre DEF Placed
<1>3. \A m \in more : Key(m) \notin Needs(ms, k) \cup {k}
  BY <1>1, <1>2 DEF NewModules, ModuleOf
<1>4. AsksKeys(ms \cup more)
  BY SameCalls, ServicesAssumption DEF NewModules, Table, OnTheWay, AsksKeys, Op
<1>5. Needs(ms \cup more, k) = Needs(ms, k)
  BY <1>3, <1>4, NeedsSettled
<1>6. PICK key : key = Key(y)
  OBVIOUS
<1>7. Key(y)' = key
  BY <1>6, SameCalls
<1>8. Dependencies(key)' = Needs(ms', key)
  BY DependenciesBecome
<1>9. QED
  BY <1>2, <1>5, <1>6, <1>7, <1>8 DEF NewModules
--------------------
\* What a step of another call leaves as it is
LEMMA PlacedAside ==
  ASSUME OnTheWay, ModulesStand, ModulesStand', UNCHANGED call, NEW r \in Requests, Strides(r),
         NEW more, NewModules(r, more), Timely, NEW q \in Requests \ {r}, Op(q) = "createRegistry",
         Placed(q), rows'[q] # NONE <=> rows[q] # NONE,
         rows[q] # NONE => rows'[q].key = rows[q].key
  PROVE  Placed(q)'
<1> DEFINE ms == Table("createModule")
<1>0. \A x \in Requests : Op(x)' = Op(x) /\ Key(x)' = Key(x) /\ Made(x)' = Made(x)
  BY SameCalls
<1>1. pc'[q] = pc[q] /\ before'[q] = before[q] /\ held'[q] = held[q]
  BY DEF Strides, Own, Paces, Holds
<1>a. ms \subseteq ms' /\ ms' \subseteq Requests
  BY DEF NewModules, Table
<1>2. HasBefore(q) => HasBefore(q)'
  BY <1>0, <1>1, <1>a DEF HasBefore
<1>3. ModulesBefore(q)' = ModulesBefore(q)
  BY <1>1 DEF NewModules, Timely, ModulesBefore
<1>4. pc[q] = "find_installed" => held'[q] = Needs(ModulesBefore(q), Key(q))'
  <2>1. ASSUME pc[q] = "find_installed" PROVE held[q] = Needs(ModulesBefore(q), Key(q))
    BY <2>1 DEF Placed
  <2>2. PICK old, k : old = ModulesBefore(q) /\ k = Key(q)
    OBVIOUS
  <2>3. Needs(old, k)' = Needs(old, k)
    BY DEF Needs, Closed, Key
  <2>4. QED
    BY <1>0, <1>1, <1>3, <2>1, <2>2, <2>3
<1>5. Standing(q)' <=> Standing(q)
  BY <1>1 DEF Standing
<1>6. ASSUME Standing(q) PROVE \A d \in Dependencies(Key(q))' : ModuleOf(d)' # {}
  BY <1>6, <1>0, <1>a, DependenciesStay DEF ModuleOf, Placed
<1>7. QED
  BY <1>0, <1>1, <1>2, <1>4, <1>5, <1>6 DEF Placed

LEMMA SuppliedAside ==
  ASSUME OnTheWay, ModulesStand, ModulesStand', UNCHANGED call, NEW r \in Requests, Strides(r),
         NEW more, NewModules(r, more), NEW q \in Requests, Op(q) = "createRegistry",
         Placed(q), Supplied(q), Standing(q) <=> Standing(q)', pc[q] # "idle" \/ Made(q),
         \A d \in ActiveModules : d \in ActiveModules' \/ OffSince(q)' \/ SavedOver'
  PROVE  Supplied(q)'
<1>0. Made(q)' = Made(q)
  BY SameCalls
<1>1. ASSUME Standing(q), ~Made(q)
      PROVE  \A d \in Dependencies(Key(q))' : d \in ActiveModules' \/ OffSince(q)' \/ SavedOver'
  BY <1>1, DependenciesStay, StaysOff DEF Supplied
<1>2. QED
  BY <1>0, <1>1 DEF Supplied

LEMMA RunningAside ==
  ASSUME OnTheWay, ModulesStand, ModulesStand', UNCHANGED call, NEW r \in Requests, Strides(r),
         NEW more, NewModules(r, more), NEW q \in Requests, Op(q) = "createRegistry",
         Placed(q), Running(q), rows'[q] = rows[q], ActiveModules \subseteq ActiveModules'
  PROVE  Running(q)'
<1>1. ASSUME rows[q] # NONE, rows[q].active
      PROVE  \/ Dependencies(Key(q))' \subseteq ActiveModules'
             \/ OffBeside(q)' \/ TurnedOn(q)' \/ SavedOver'
  BY <1>1, DependenciesStay, StaysOff DEF Standing, Running
<1>2. QED
  BY <1>1 DEF Running

\* The registrations before s that need what it turns off are the same.
LEMMA UsersStay ==
  ASSUME OnTheWay, ModulesStand, ModulesStand', UNCHANGED call, NEW r \in Requests, Strides(r),
         NEW more, NewModules(r, more), NEW q \in Requests, Timely, pc[r] # "ok",
         pc[q] # "idle", Op(q) = "updateRegistry",
         \A x \in Requests : Op(x) = "createRegistry" => Placed(x),
         \A x \in Requests \ {r} :
           Op(x) = "createRegistry" => (rows'[x] # NONE <=> rows[x] # NONE)
  PROVE  UsersBefore(q)' = UsersBefore(q)
<1>0. /\ \A x \in Requests : Op(x)' = Op(x)
      /\ before'[q] = before[q] /\ r \notin before[q]
  BY SameCalls DEF Strides, Own, Paces, Timely
<1>1. ASSUME NEW x \in Requests, x \in before[q]
      PROVE  x \in Table("createRegistry")' <=> x \in Table("createRegistry")
  BY <1>0, <1>1 DEF Table
<1>2. ASSUME NEW x \in Table("createRegistry")
      PROVE  Dependencies(Key(x))' = Dependencies(Key(x))
  BY <1>2, DependenciesStay DEF Table, Standing
<1>3. Table("createRegistry")' \subseteq Requests /\ Table("createRegistry") \subseteq Requests
  BY DEF Table
<1>4. On(q)' = On(q) /\ Key(On(q))' = Key(On(q))
  BY DEF On, Key
<1>5. QED
  BY <1>0, <1>1, <1>2, <1>3, <1>4 DEF UsersBefore

LEMMA SwitchingAside ==
  ASSUME OnTheWay, ModulesStand, ModulesStand', UNCHANGED call, NEW r \in Requests, Strides(r),
         NEW more, NewModules(r, more), NEW q \in Requests \ {r}, Timely, pc[r] # "ok",
         Op(q) = "updateRegistry", Switching(q),
         \A x \in Requests : Op(x) = "createRegistry" => Placed(x),
         \A x \in Requests \ {r} :
           Op(x) = "createRegistry" => (rows'[x] # NONE <=> rows[x] # NONE),
         \A x \in Table("createRegistry") :
           rows'[x].active => rows[x].active \/ TurnedOn(x)' \/ SavedOver'
  PROVE  Switching(q)'
<1>0. /\ \A x \in Requests : Op(x)' = Op(x) /\ Key(x)' = Key(x)
      /\ On(q)' = On(q) /\ Arg(q)' = Arg(q) /\ Key(On(q))' = Key(On(q))
  BY SameCalls DEF Key, On
<1>1. pc'[q] = pc[q] /\ seen'[q] = seen[q] /\ held'[q] = held[q]
  BY DEF Strides, Own, Paces, Bears, Holds
<1>2. pc[q] # "idle" => UsersBefore(q)' = UsersBefore(q)
  BY UsersStay
<1>3. On(q) \in Table("createRegistry") => On(q) \in Table("createRegistry")'
  <2>1. ASSUME On(q) \in Table("createRegistry") PROVE On(q) \in Table("createRegistry")'
    BY <2>1, <1>0 DEF Table, Placed
  <2>2. QED
    BY <2>1
<1>4. UsersBefore(q) \subseteq Table("createRegistry")
     /\ Table("createRegistry") \subseteq Requests
  BY DEF UsersBefore, Table
<1>5. \A x \in Requests : TurnedOn(x) => TurnedOn(x)'
  BY StaysOff
<1>6. SavedOver => SavedOver'
  BY StaysOff
<1>7. ASSUME pc[q] = "save_registry", Arg(q) = "OFF", seen[q].active,
             NEW x \in UsersBefore(q)
      PROVE  ~rows'[x].active \/ TurnedOn(x)' \/ SavedOver'
  BY <1>7, <1>4, <1>5, <1>6 DEF Switching
<1>8. pc[q] = "find_active" => \A x \in UsersBefore(q) : Key(x)' \in held[q]
  BY <1>0, <1>4 DEF Switching
<1>9. QED
  BY <1>0, <1>1, <1>2, <1>3, <1>7, <1>8 DEF Switching
--------------------
\* As long as the registrations stay the same, the others are left as they are.
LEMMA RegistrationsStay ==
  ASSUME OnTheWay, Timely, RegistryHeld, ModulesStand', UNCHANGED call, NEW r \in Requests,
         Strides(r), ~Ended(r), NEW more, NewModules(r, more),
         \A x \in Requests : Op(x) = "createRegistry" => rows'[x] = rows[x]
  PROVE  /\ ActiveModules' = ActiveModules
         /\ Table("createRegistry")' = Table("createRegistry")
         /\ \A q \in Requests \ {r} : Registering(q)'
<1>0. \A x \in Requests : Op(x)' = Op(x) /\ Made(x)' = Made(x)
  BY SameCalls
<1>1. Table("createRegistry")' = Table("createRegistry")
      /\ \A x \in Table("createRegistry") : rows'[x] = rows[x]
  BY <1>0 DEF Table
<1>2. ActiveModules' = ActiveModules
  BY <1>1 DEF ActiveModules
<1>3. ASSUME NEW q \in Requests \ {r}, Op(q) = "createRegistry"
      PROVE  Placed(q)' /\ Supplied(q)' /\ Running(q)'
  BY <1>3, <1>2, PlacedAside, SuppliedAside, RunningAside DEF RegistryHeld, Standing, Strides,
     Own, Paces, Placed, Supplied
<1>4. ASSUME NEW q \in Requests \ {r}, Op(q) = "updateRegistry"
      PROVE  Switching(q)'
  BY <1>4, <1>1, SwitchingAside DEF RegistryHeld, Ended
<1>5. QED
  BY <1>0, <1>1, <1>2, <1>3, <1>4 DEF Registering

\* A registration begins with what its module needs.
LEMMA ModulesFound ==
  ASSUME OnTheWay, Timely, RegistryHeld, ModulesStand', UNCHANGED <<call, rows>>,
         NEW r \in Requests, Strides(r), Op(r) = "createRegistry", FindModules(r)
  PROVE  Registering(r)'
<1> DEFINE ms == Table("createModule")
<1>0. /\ \A x \in Requests : Op(x)' = Op(x) /\ Key(x)' = Key(x) /\ Made(x)' = Made(x)
      /\ LocalsTyped /\ pc[r] = "idle" /\ ms' = ms /\ ms \subseteq Requests
  BY SameCalls DEF OnTheWay, FindModules, Began, Table
<1> USE <1>0
<1>1. ModulesStand /\ Placed(r) /\ ~Made(r)
  BY DEF RegistryHeld, Timely
<1>2. rows[r] = NONE
  BY <1>1 DEF Placed
<1>3. ms \subseteq before'[r]
  BY <1>1 DEF Strides, Own, Paces, ModulesStand, Table
<1>4. PICK k : k = Key(r)
  OBVIOUS
<1>5. held'[r] = Dependencies(k) /\ pc'[r] \in {"insert_registry", "find_installed"}
      /\ (pc'[r] = "insert_registry" => Dependencies(k) = {})
  BY <1>4, Goes, HasHeld DEF FindModules
<1>6. Dependencies(k) = Needs(ms, k) /\ Dependencies(k)' = Needs(ms', k)
  BY <1>1, DependenciesAre, DependenciesBecome
<1>7. HasBefore(r)'
  <2>1. PICK m \in ms : rows[m].key = k
    BY <1>4 DEF FindModules
  <2>2. rows[m] = [key |-> Key(m), deps |-> call[m].to]
    BY <1>1 DEF ModulesStand, Table
  <2>3. Key(m) = k
    BY <2>1, <2>2
  <2>4. m \in Requests /\ m \in ms' /\ m \in before'[r] /\ Key(m)' = Key(r)'
    BY <1>3, <1>4, <2>3
  <2>5. ~Made(r)'
    BY <1>1
  <2>6. QED
    BY <2>4, <2>5 DEF HasBefore
<1>8. pc'[r] = "find_installed" => held'[r] = Needs(ModulesBefore(r), Key(r))'
  <2>1. ModulesBefore(r)' = ms
    BY <1>3 DEF ModulesBefore
  <2>2. held'[r] = Needs(ms, k)
    BY <1>5, <1>6
  <2>3. PICK old : old = ms
    OBVIOUS
  <2>4. Needs(old, k)' = Needs(old, k)
    BY DEF Needs, Closed, Key
  <2>5. Key(r)' = k
    BY <1>4
  <2>6. QED
    BY <2>1, <2>2, <2>3, <2>4, <2>5
<1>9. Standing(r)' => Dependencies(Key(r))' = {}
  BY <1>4, <1>2, <1>5, <1>6 DEF Standing
<1>10. Placed(r)'
  BY <1>2, <1>7, <1>8, <1>9 DEF Placed
<1>11. Supplied(r)'
  BY <1>9 DEF Supplied
<1>12. Running(r)'
  BY <1>2 DEF Running
<1>13. QED
  BY <1>10, <1>11, <1>12 DEF Registering

\* It goes on when all of it is active; what a module needs that came since,
\* its own registration has looked for.
LEMMA InstalledFound ==
  ASSUME OnTheWay, Timely, RegistryHeld, ModulesStand', UNCHANGED <<call, rows>>,
         NEW r \in Requests, Strides(r), Op(r) = "createRegistry", FindInstalled(r)
  PROVE  Registering(r)'
<1> DEFINE ms == Table("createModule")
           old == ModulesBefore(r)
           more == ms \ old
<1>0. /\ \A x \in Requests : Op(x)' = Op(x) /\ Key(x)' = Key(x) /\ Made(x)' = Made(x)
      /\ LocalsTyped /\ pc[r] = "find_installed" /\ ms' = ms /\ ms \subseteq Requests
      /\ call \in Plans
  BY SameCalls DEF OnTheWay, FindInstalled, Table
<1> USE <1>0
<1>1. /\ ModulesStand /\ ModulesApart /\ Known /\ Placed(r) /\ ~Made(r) /\ Begun(r)
      /\ \A y \in Requests : Op(y) = "createRegistry" => Placed(y) /\ Supplied(y)
  BY DEF RegistryHeld, Timely, Begun
<1>2. rows[r] = NONE /\ HasBefore(r) /\ held[r] = Needs(old, Key(r))
  BY <1>1 DEF Placed
<1>3. held[r] \subseteq ActiveModules /\ pc'[r] = "insert_registry" /\ before'[r] = before[r]
  BY Goes DEF FindInstalled, Strides, Own, Paces
<1>4. ASSUME NEW d \in Dependencies(Key(r))
      PROVE  ModuleOf(d) # {} /\ (d \in ActiveModules \/ OffSince(r) \/ SavedOver)
  <2>1. AsksKeys(ms) /\ ms = old \cup more
    BY AsksModules DEF ModulesBefore
  <2>2. \A m \in more : Key(m) # Key(r)
    <3>1. PICK n \in ms : Key(n) = Key(r) /\ n \in before[r]
      BY <1>1, <1>2 DEF HasBefore
    <3>2. SUFFICES ASSUME NEW m \in more, Key(m) = Key(n) PROVE FALSE
      BY <3>1
    <3>3. m # n
      BY <3>1 DEF ModulesBefore
    <3>4. Made(m)
      BY <1>1, <3>2, <3>3 DEF ModulesApart
    <3>5. m \in before[r]
      BY <1>1, <3>4 DEF Known
    <3>6. QED
      BY <3>5 DEF ModulesBefore
  <2>3. d \in Needs(old \cup more, Key(r))
    BY <1>1, <2>1, DependenciesAre
  <2>4. CASE d \in held[r]
    <3>1. d \in ActiveModules
      BY <1>3, <2>4
    <3>2. PICK y \in Requests : Op(y) = "createRegistry" /\ rows[y] # NONE /\ rows[y].key = d
      BY <3>1 DEF ActiveModules, Table
    <3>3. ModuleOf(d) # {}
      BY <1>1, <3>2 DEF Placed, HasBefore, ModuleOf
    <3>4. QED
      BY <3>1, <3>3
  <2>5. CASE d \notin held[r]
    <3>a. d \notin Needs(old, Key(r)) /\ AsksKeys(old \cup more)
      BY <1>2, <2>1, <2>5
    <3>b. \/ d \in Needs(old, Key(r))
          \/ \E m \in more : Key(m) \in Needs(old, Key(r)) /\ d \in Needs(old \cup more, Key(m))
      <4> HIDE DEF old, more, ms
      <4>1. QED
        BY <2>2, <2>3, <3>a, NeedsMore
    <3>1. PICK m \in more : Key(m) \in held[r] /\ d \in Needs(ms, Key(m))
      BY <1>2, <2>1, <3>a, <3>b
    <3>2. PICK y \in Requests : /\ Op(y) = "createRegistry" /\ rows[y] # NONE
                                /\ rows[y].key = Key(m)
      BY <1>3, <3>1 DEF ActiveModules, Table
    <3>3. Placed(y) /\ Supplied(y) /\ Standing(y) /\ Key(y) = Key(m) /\ HasBefore(y)
          /\ pc[y] = "ok"
      BY <1>1, <3>2 DEF Placed, Standing
    <3>4. d \in Dependencies(Key(y))
      BY <1>1, <3>1, <3>3, DependenciesAre
    <3>5. ModuleOf(d) # {}
      BY <3>3, <3>4 DEF Placed
    <3>6. m \in Requests /\ m \notin before[r] /\ ~Made(m)
      BY <1>1 DEF ModulesBefore, Known
    <3>7. ~Made(y) /\ m \in before[y]
      <4>1. PICK n \in ms : Key(n) = Key(m) /\ IF Made(y) THEN Made(n) ELSE n \in before[y]
        BY <3>3 DEF HasBefore
      <4>2. n = m
        BY <1>1, <3>6, <4>1 DEF ModulesApart
      <4>3. QED
        BY <3>6, <4>1, <4>2
    <3>8. before[r] \subseteq before[y]
      BY <1>1, <3>3, <3>6, <3>7 DEF Known, Begun
    <3>9. d \in ActiveModules \/ OffSince(y) \/ SavedOver
      BY <3>3, <3>4, <3>7 DEF Supplied
    <3>10. OffSince(y) => OffSince(r)
      BY <3>8 DEF OffSince
    <3>11. QED
      BY <3>5, <3>9, <3>10
  <2>6. QED
    BY <2>4, <2>5
<1>5. PICK k : k = Key(r)
  OBVIOUS
<1>6. Dependencies(Key(r))' = Dependencies(Key(r))
  BY <1>1, <1>5, DependenciesAre, DependenciesBecome
<1>7. \A d : ModuleOf(d) # {} => ModuleOf(d)' # {}
  BY DEF ModuleOf
<1>8. ActiveModules' = ActiveModules
  BY DEF ActiveModules, Table
<1>9. HasBefore(r)'
  BY <1>1, <1>2, <1>3 DEF HasBefore
<1>10. Placed(r)'
  BY <1>2, <1>3, <1>4, <1>6, <1>7, <1>9 DEF Placed
<1>11. (OffSince(r) => OffSince(r)') /\ (SavedOver => SavedOver')
  BY StaysOff
<1>12. Supplied(r)'
  BY <1>4, <1>6, <1>8, <1>11 DEF Supplied
<1>13. Running(r)'
  BY <1>2 DEF Running
<1>14. QED
  BY <1>10, <1>12, <1>13 DEF Registering
--------------------
\* A registration is inserted.
LEMMA RegistrationInserted ==
  ASSUME OnTheWay, Timely, RowsTyped, RowsTyped', RegistryHeld, ModulesStand', UNCHANGED call,
         NEW r \in Requests, Strides(r), Op(r) = "createRegistry", InsertRegistry(r),
         NEW more, NewModules(r, more)
  PROVE  \A q \in Requests : Registering(q)'
<1>0. /\ \A x \in Requests : Op(x)' = Op(x) /\ Key(x)' = Key(x) /\ Made(x)' = Made(x)
      /\ LocalsTyped /\ pc[r] = "insert_registry"
  BY SameCalls DEF OnTheWay, InsertRegistry
<1> USE <1>0
<1>1. /\ ModulesStand /\ ~Made(r) /\ Begun(r)
      /\ \A y \in Requests : Op(y) = "createRegistry" => Placed(y) /\ Supplied(y) /\ Running(y)
      /\ \A s \in Requests : Op(s) = "updateRegistry" => Switching(s)
  BY DEF RegistryHeld, Timely, Begun
<1>2. /\ rows'[r] = [key |-> Key(r), active |-> Arg(r) # "OFF"]
      /\ \A x \in Requests \ {r} : rows'[x] = rows[x]
      /\ rows[r] = NONE /\ pc'[r] = "ok" /\ before'[r] = before[r]
  BY <1>1, Goes DEF InsertRegistry, Put, LocalsTyped, Placed, Strides, Own, Paces
<1>3. ActiveModules \subseteq ActiveModules'
  <2>1. ASSUME NEW d \in ActiveModules PROVE d \in ActiveModules'
    <3>1. PICK y \in Table("createRegistry") : rows[y].active /\ d = rows[y].key
      BY <2>1 DEF ActiveModules
    <3>2. y \in Requests /\ Op(y) = "createRegistry" /\ rows[y] # NONE
      BY DEF Table
    <3>3. rows'[y] = rows[y]
      BY <1>2, <3>2
    <3>4. y \in Table("createRegistry")'
      BY <3>2, <3>3 DEF Table
    <3>5. QED
      BY <3>1, <3>3, <3>4 DEF ActiveModules
  <2>2. QED
    BY <2>1
<1>4. ASSUME NEW q \in Requests \ {r}, Op(q) = "createRegistry"
      PROVE  Placed(q)' /\ Supplied(q)' /\ Running(q)'
  BY <1>1, <1>2, <1>4, <1>3, PlacedAside, SuppliedAside, RunningAside DEF Standing, Strides,
     Own, Paces, Placed, Supplied
<1>5. ASSUME NEW q \in Requests \ {r}, Op(q) = "updateRegistry"
      PROVE  Switching(q)'
  BY <1>2, <1>1, <1>5, SwitchingAside DEF Table
<1>6. Dependencies(Key(r))' = Dependencies(Key(r)) /\ Standing(r)
  BY <1>1, DependenciesStay DEF Standing
<1>7. HasBefore(r)'
  <2>1. PICK m \in Table("createModule") : Key(m) = Key(r) /\ m \in before[r]
    BY <1>1 DEF Placed, HasBefore
  <2>2. m \in Requests /\ Op(m) = "createModule" /\ rows[m] # NONE
    BY DEF Table
  <2>3. m \in Table("createModule")'
    BY <1>2, <2>2 DEF Table
  <2>4. QED
    BY <1>1, <1>2, <2>1, <2>2, <2>3 DEF HasBefore
<1>8. Placed(r)'
  BY <1>2, <1>1, <1>6, <1>7 DEF NewModules, Table, ModuleOf, Placed
<1>9. (OffSince(r) => OffSince(r)') /\ (SavedOver => SavedOver')
  BY StaysOff
<1>10. \A d \in Dependencies(Key(r)) : d \in ActiveModules \/ OffSince(r) \/ SavedOver
  BY <1>1, <1>6 DEF Supplied
<1>11. Supplied(r)'
  BY <1>3, <1>6, <1>9, <1>10 DEF Supplied
<1>12. OffSince(r) => OffBeside(r)'
  <2>1. ASSUME NEW s \in Requests, Switcher(s), Arg(s) = "OFF", s \notin before[r]
        PROVE  OffBeside(r)'
    BY <2>1, <1>1, StaysOff DEF Switcher, Timely, Together, Overlap, OffBeside
  <2>2. QED
    BY <2>1 DEF OffSince
<1>13. Running(r)'
  BY <1>3, <1>6, <1>9, <1>10, <1>12 DEF Running
<1>14. QED
  BY <1>4, <1>5, <1>8, <1>11, <1>13 DEF Registering
--------------------
\* Who changes a registration has found it, ...
LEMMA RegistrationFound ==
  ASSUME OnTheWay, RegistryHeld, UNCHANGED <<call, rows>>, NEW r \in Requests, Strides(r),
         Op(r) = "updateRegistry", FindRegistry(r)
  PROVE  Switching(r)'
<1>0. /\ \A x \in Requests : Op(x)' = Op(x) /\ Key(x)' = Key(x) /\ On(x)' = On(x)
      /\ LocalsTyped /\ On(r) \in Requests /\ Op(On(r)) = "createRegistry"
  BY CallsTyped, SameCalls DEF OnTheWay, FindRegistry, Find, Live, Names, OfProducts
<1>1. On(r) \in Table("createRegistry") /\ rows[On(r)].key = Key(On(r))
  BY <1>0 DEF RegistryHeld, FindRegistry, Find, Live, Table, Placed
<1>2. seen'[r] = rows[On(r)]
      /\ pc'[r] = IF Arg(r) = "OFF" /\ rows[On(r)].active THEN "find_dependents" ELSE "save_registry"
  BY <1>0, Goes, HasRead DEF FindRegistry, Find
<1>3. On(r)' \in Table("createRegistry")' /\ Key(On(r))' = Key(On(r)) /\ Arg(r)' = Arg(r)
  BY <1>0, <1>1, SameCalls DEF Table, Key, On
<1>4. seen'[r].key = Key(On(r))'
  BY <1>1, <1>2, <1>3
<1>5. ~(pc'[r] = "save_registry" /\ Arg(r)' = "OFF" /\ seen'[r].active) /\ pc'[r] # "find_active"
  BY <1>2, <1>3
<1>6. QED
  BY <1>3, <1>4, <1>5 DEF Switching
\* ... then those that need it, ...
LEMMA DependentsFound ==
  ASSUME OnTheWay, Timely, RowsTyped, RegistryHeld, ModulesStand', UNCHANGED <<call, rows>>,
         NEW r \in Requests, Strides(r), NEW more, NewModules(r, more),
         Op(r) = "updateRegistry", FindDependents(r)
  PROVE  Switching(r)'
<1>0. /\ Key(On(r))' = Key(On(r)) /\ On(r)' = On(r) /\ LocalsTyped /\ pc[r] = "find_dependents"
      /\ \A x \in Requests : Op(x)' = Op(x) /\ Key(x)' = Key(x)
  BY SameCalls DEF OnTheWay, FindDependents, Key, On
<1>1. /\ ModulesStand /\ Switching(r)
      /\ \A x \in Requests : Op(x) = "createRegistry" => Placed(x)
  BY DEF RegistryHeld
<1>2. On(r) \in Table("createRegistry") /\ seen[r].key = Key(On(r))
  BY <1>0, <1>1 DEF Switching
<1>3. PICK k : k = Key(On(r))
  OBVIOUS
<1>4. /\ seen'[r] = seen[r] /\ held'[r] = Dependents(k)
      /\ pc'[r] \in {"save_registry", "find_active"}
      /\ pc'[r] = "save_registry" => Dependents(k) = {}
  BY <1>0, <1>2, <1>3, Goes, Stays, HasHeld DEF FindDependents
<1>5. UsersBefore(r)' = UsersBefore(r)
  BY <1>0, <1>1, UsersStay
<1>6. ASSUME NEW x \in UsersBefore(r) PROVE Key(x) \in Dependents(k) /\ x \in Requests
  BY <1>3, <1>6, BodiesTyped, DependentsHave DEF UsersBefore, Table, OnTheWay, Keyed
<1>7. On(r)' \in Table("createRegistry")'
  BY <1>0, <1>2 DEF Table
<1>8. pc'[r] = "find_active" => \A x \in UsersBefore(r)' : Key(x)' \in held'[r]
  BY <1>0, <1>4, <1>5, <1>6
<1>9. pc'[r] = "save_registry" => UsersBefore(r)' = {}
  BY <1>4, <1>5, <1>6
<1>10. QED
  BY <1>0, <1>2, <1>4, <1>7, <1>8, <1>9 DEF Switching
\* ... and that they are not active.
LEMMA NoneActive ==
  ASSUME OnTheWay, Timely, RegistryHeld, ModulesStand', UNCHANGED <<call, rows>>,
         NEW r \in Requests, Strides(r), NEW more, NewModules(r, more),
         Op(r) = "updateRegistry", FindActive(r)
  PROVE  Switching(r)'
<1>0. /\ Key(On(r))' = Key(On(r)) /\ On(r)' = On(r) /\ LocalsTyped /\ pc[r] = "find_active"
      /\ \A x \in Requests : Op(x)' = Op(x) /\ Key(x)' = Key(x)
  BY SameCalls DEF OnTheWay, FindActive, Key, On
<1>1. /\ ModulesStand /\ Switching(r)
      /\ \A x \in Requests : Op(x) = "createRegistry" => Placed(x)
  BY DEF RegistryHeld
<1>2. /\ On(r) \in Table("createRegistry") /\ seen[r].key = Key(On(r))
      /\ \A x \in UsersBefore(r) : Key(x) \in held[r]
  BY <1>0, <1>1 DEF Switching
<1>3. seen'[r] = seen[r] /\ pc'[r] = "save_registry" /\ held[r] \cap ActiveModules = {}
  BY <1>0, Goes, Stays DEF FindActive
<1>4. UsersBefore(r)' = UsersBefore(r)
  BY <1>0, <1>1, UsersStay
<1>5. ASSUME NEW x \in UsersBefore(r) PROVE ~rows[x].active
  BY <1>1, <1>2, <1>3, <1>5 DEF UsersBefore, Table, Placed, ActiveModules
<1>6. On(r)' \in Table("createRegistry")'
  BY <1>0, <1>2 DEF Table
<1>7. \A x \in UsersBefore(r)' : ~rows'[x].active
  BY <1>4, <1>5
<1>8. QED
  BY <1>0, <1>2, <1>3, <1>6, <1>7 DEF Switching
--------------------
\* What a save may do to a registration
LEMMA RegistrationSaves ==
  ASSUME OnTheWay, RowsTyped, RegistryHeld, UNCHANGED call, NEW r \in Requests, Strides(r),
         Op(r) = "updateRegistry", SaveRegistry(r)
  PROVE  /\ \A q \in Requests \ {On(r)} : rows'[q] = rows[q]
         /\ rows'[On(r)] # NONE /\ rows'[On(r)].key = rows[On(r)].key
         /\ Switcher(r) /\ Switcher(r)' /\ pc[r] = "save_registry"
         /\ \/ SavedOver'
            \/ rows'[On(r)] = rows[On(r)]
            \/ Arg(r) = "ON"
            \/ Arg(r) = "OFF" /\ seen[r].active /\ ~rows'[On(r)].active
<1> DEFINE x == On(r)
           new == [seen[r] EXCEPT !.active = CASE Arg(r) = "ON" -> TRUE
                                               [] Arg(r) = "OFF" -> FALSE
                                               [] OTHER -> @]
<1>0. /\ LocalsTyped /\ pc[r] = "save_registry" /\ target[r] = x /\ x \in Requests
      /\ seen[r] # NONE /\ Sight(r) /\ call \in Plans
  BY DEF OnTheWay, SaveRegistry, Grips, Finders, RowsTyped, Facing
<1>1. Op(x) = "createRegistry" /\ rows[x] # NONE /\ seen[r].key = Key(x) /\ rows[x].key = Key(x)
  BY <1>0 DEF RegistryHeld, Switching, Table, Placed
<1>2. seen[r] \in RegistryRows /\ rows[x] \in RegistryRows
  BY <1>0, <1>1 DEF Sight, RowsTyped, RowFits
<1>3. new \in RegistryRows /\ new.key = Key(x)
  BY <1>1, <1>2 DEF RegistryRows
<1>4. /\ Arg(r) = "ON" => new.active
      /\ Arg(r) = "OFF" => ~new.active
      /\ Arg(r) \notin {"ON", "OFF"} => new = seen[r]
  BY <1>2 DEF RegistryRows
<1>5. Save(r, new, "ok")
  BY DEF SaveRegistry
<1> HIDE DEF new
<1>6. rows'[x] = new /\ \A q \in Requests \ {x} : rows'[q] = rows[q]
  BY <1>0, <1>5 DEF Save, Put, LocalsTyped
<1>7. new # NONE
  <2>1. RowFits("createRegistry", new)
    BY <1>3, Fitting
  <2>2. QED
    BY <2>1, RowNotNone
<1>8. Switcher(r) /\ Switcher(r)'
  <2>1. ~Made(r)
    BY <1>0, CallsTyped DEF Inserting, Creates, ArticleCreates, Slips
  <2>2. Switcher(r)
    BY <1>0, <2>1 DEF Switcher, Begun
  <2>3. QED
    BY <2>2, StaysSwitcher
<1>9. rows[x] # seen[r] => SavedOver'
  BY <1>0, <1>5, <1>8 DEF Save, Writes, SavedOver
<1>10. Arg(r) = "OFF" /\ rows[x] = seen[r] /\ ~seen[r].active => new = rows[x]
  BY <1>1, <1>2, <1>3, <1>4 DEF RegistryRows
<1>11. QED
  BY <1>0, <1>1, <1>3, <1>4, <1>6, <1>7, <1>8, <1>9, <1>10

\* Who is turned off has no active user, unless one came or was turned on since.
LEMMA RegistrationSaved ==
  ASSUME OnTheWay, Timely, RowsTyped, RegistryHeld, ModulesStand', UNCHANGED call,
         NEW r \in Requests, Strides(r), Op(r) = "updateRegistry", SaveRegistry(r),
         NEW more, NewModules(r, more)
  PROVE  \A q \in Requests : Registering(q)'
<1> DEFINE x == On(r)
<1>0. /\ \A q \in Requests : Op(q)' = Op(q) /\ Key(q)' = Key(q) /\ Made(q)' = Made(q)
      /\ Arg(r)' = Arg(r) /\ On(r)' = On(r)
  BY SameCalls
<1>1. /\ ModulesStand /\ Known
      /\ \A y \in Requests : Op(y) = "createRegistry" => Placed(y) /\ Supplied(y) /\ Running(y)
      /\ \A s \in Requests : Op(s) = "updateRegistry" => Switching(s)
  BY DEF RegistryHeld
<1>2. /\ \A q \in Requests \ {x} : rows'[q] = rows[q]
      /\ rows'[x] # NONE /\ rows'[x].key = rows[x].key
      /\ Switcher(r) /\ Switcher(r)' /\ pc[r] = "save_registry"
      /\ \/ SavedOver'
         \/ rows'[x] = rows[x]
         \/ Arg(r) = "ON"
         \/ Arg(r) = "OFF" /\ seen[r].active /\ ~rows'[x].active
  BY RegistrationSaves
<1>3. x \in Requests /\ Op(x) = "createRegistry" /\ rows[x] # NONE /\ Switching(r)
      /\ rows[x].key = Key(x)
  BY <1>1, <1>2 DEF Switching, Table, Placed
<1>4. \A q \in Requests : /\ rows'[q] # NONE <=> rows[q] # NONE
                          /\ rows[q] # NONE => rows'[q].key = rows[q].key
  BY <1>2, <1>3
<1>5. pc'[r] = "ok"
  BY <1>2, Goes DEF SaveRegistry, Save, OnTheWay
<1>6. \A q \in Requests : r \notin before[q] /\ (Begun(q) => r \notin before'[q])
  BY <1>2, StaysBegun DEF Timely
\* The key that is turned off is no longer active, for a reason.
<1>7. ASSUME NEW d \in ActiveModules, d \notin ActiveModules', ~SavedOver'
      PROVE  d = Key(x) /\ Arg(r) = "OFF" /\ seen[r].active /\ ~rows'[x].active
  <2>1. PICK y \in Requests : /\ Op(y) = "createRegistry" /\ rows[y] # NONE /\ rows[y].active
                              /\ d = rows[y].key
    BY DEF ActiveModules, Table
  <2>2. ~rows'[y].active
    <3>1. SUFFICES ASSUME rows'[y].active PROVE FALSE
      OBVIOUS
    <3>2. y \in Table("createRegistry")' /\ rows'[y].key = d
      BY <1>0, <1>4, <2>1 DEF Table
    <3>3. QED
      BY <1>7, <3>1, <3>2 DEF ActiveModules
  <2>3. y = x
    BY <1>2, <2>1, <2>2
  <2>4. Arg(r) # "ON"
    <3>1. SUFFICES ASSUME Arg(r) = "ON" PROVE FALSE
      OBVIOUS
    <3>2. rows'[x].active
      <4>1. seen[r] \in RegistryRows /\ target[r] = x
        BY <1>2, <1>3 DEF RowsTyped, Sight, RowFits, Facing, OnTheWay, Grips, Finders
      <4>2. rows'[x] = [seen[r] EXCEPT !.active = TRUE]
        BY <1>3, <3>1, <4>1 DEF SaveRegistry, Save, Put, OnTheWay, LocalsTyped
      <4>3. QED
        BY <4>1, <4>2 DEF RegistryRows
    <3>3. QED
      BY <2>2, <2>3, <3>2
  <2>5. QED
    BY <1>2, <1>3, <1>7, <2>1, <2>2, <2>3, <2>4
<1>8. ASSUME NEW q \in Requests, Op(q) = "createRegistry"
      PROVE  Placed(q)' /\ Supplied(q)'
  <2>1. Placed(q) /\ Supplied(q) /\ q # r
    BY <1>1, <1>8
  <2>2. Placed(q)'
    BY <1>1, <1>4, <1>8, <2>1, PlacedAside
  <2>3. Standing(q)' <=> Standing(q)
    BY <1>4, <2>1 DEF Standing, Strides, Own, Paces
  <2>4. CASE Standing(q)
    <3>1. pc[q] # "idle"
      BY <2>1, <2>4 DEF Standing, Placed
    <3>2. Arg(r) = "OFF" => OffSince(q)'
      <4>1. before'[q] = before[q]
        BY <3>1 DEF Strides, Own, Paces
      <4>2. QED
        BY <1>0, <1>2, <1>6, <4>1 DEF OffSince
    <3>3. \A d \in ActiveModules : d \in ActiveModules' \/ OffSince(q)' \/ SavedOver'
      BY <1>7, <3>2
    <3>4. QED
      BY <1>1, <1>8, <2>1, <2>2, <2>3, <3>1, <3>3, SuppliedAside
  <2>5. CASE ~Standing(q)
    BY <2>2, <2>3, <2>5 DEF Supplied
  <2>6. QED
    BY <2>2, <2>4, <2>5
<1>9. ASSUME NEW q \in Requests, Op(q) = "createRegistry" PROVE Running(q)'
  <2> SUFFICES ASSUME rows'[q] # NONE, rows'[q].active, ~OffBeside(q)', ~TurnedOn(q)',
                      ~SavedOver', NEW d \in Dependencies(Key(q))'
               PROVE  d \in ActiveModules'
    BY DEF Running
  <2>1. q # r /\ Placed(q) /\ Running(q) /\ rows[q] # NONE
    BY <1>1, <1>4, <1>9
  <2>2. Dependencies(Key(q))' = Dependencies(Key(q))
    BY <1>1, <2>1, <1>9, DependenciesStay DEF Standing
  <2>3. rows[q].active
    <3>1. CASE q = x
      <4>1. Arg(r) # "ON"
        BY <1>0, <1>2, <3>1 DEF TurnedOn
      <4>2. QED
        BY <1>2, <3>1, <4>1
    <3>2. CASE q # x
      BY <1>2, <3>2
    <3>3. QED
      BY <3>1, <3>2
  <2>4. d \in ActiveModules
    BY <2>1, <2>2, <2>3, StaysOff DEF Running
  <2>5. SUFFICES ASSUME d \notin ActiveModules' PROVE FALSE
    OBVIOUS
  <2>6. d = Key(x) /\ Arg(r) = "OFF" /\ seen[r].active
    BY <1>7, <2>4, <2>5
  <2>7. q \in before[r]
    <3>1. CASE Made(q)
      BY <1>1, <1>2, <3>1 DEF Known, Switcher
    <3>2. CASE ~Made(q)
      <4>1. Begun(q)
        BY <2>1, <3>2 DEF Begun, Placed
      <4>2. ~Together(r, q)
        BY <1>0, <1>2, <2>6, StaysTogether DEF OffBeside
      <4>3. QED
        BY <1>2, <1>6, <2>1, <4>1, <4>2 DEF Together, Overlap, Switcher
    <3>3. QED
      BY <3>1, <3>2
  <2>8. q \in UsersBefore(r)
    BY <1>9, <2>1, <2>2, <2>6, <2>7 DEF UsersBefore, Table
  <2>9. ~rows[q].active \/ TurnedOn(q) \/ SavedOver
    BY <1>2, <1>3, <2>6, <2>8 DEF Switching
  <2>10. QED
    BY <2>3, <2>9, StaysOff
<1>10. ASSUME NEW q \in Requests \ {r}, Op(q) = "updateRegistry" PROVE Switching(q)'
  <2>1. ASSUME NEW z \in Table("createRegistry"), rows'[z].active
        PROVE  rows[z].active \/ TurnedOn(z)' \/ SavedOver'
    <3>1. z \in Requests
      BY DEF Table
    <3>2. CASE z = x /\ Arg(r) = "ON"
      BY <1>0, <1>2, <3>1, <3>2 DEF TurnedOn
    <3>3. CASE z # x \/ Arg(r) # "ON"
      BY <1>2, <2>1, <3>1, <3>3
    <3>4. QED
      BY <3>2, <3>3
  <2>2. QED
    BY <1>1, <1>2, <1>4, <1>10, <2>1, SwitchingAside
<1>11. Switching(r)'
  BY <1>5 DEF Switching
<1>12. QED
  BY <1>0, <1>8, <1>9, <1>10, <1>11 DEF Registering
--------------------
\* A step of the registry may be that of a call that fails; others are left alone.
LEMMA RegistryAside ==
  ASSUME OnTheWay, Timely, RegistryHeld, ModulesStand', UNCHANGED call, NEW r \in Requests,
         Strides(r), ~Ended(r), NEW more, NewModules(r, more),
         \A x \in Requests : Op(x) = "createRegistry" => rows'[x] = rows[x],
         Op(r) \in {"createRegistry", "updateRegistry"} => pc'[r] = "failed"
  PROVE  \A q \in Requests : Registering(q)'
<1>0. Op(r)' = Op(r)
  BY SameCalls
<1>1. \A q \in Requests \ {r} : Registering(q)'
  BY RegistrationsStay
<1>2. CASE Op(r) = "createRegistry"
  BY <1>2, <1>0, <1>1 DEF RegistryHeld, Ended, Placed, Supplied, Running, Standing, Registering
<1>3. CASE Op(r) = "updateRegistry"
  BY <1>3, <1>0, <1>1 DEF Switching, Registering
<1>4. CASE Op(r) \notin {"createRegistry", "updateRegistry"}
  BY <1>0, <1>1, <1>4 DEF Registering
<1>5. QED
  BY <1>2, <1>3, <1>4

LEMMA StepRegistryHeld ==
  ASSUME OnTheWay, Timely, RowsTyped, RowsTyped', RegistryHeld, UNCHANGED call,
         NEW r \in Requests, Step(r), ~Ended(r), Strides(r)
  PROVE  RegistryHeld'
<1>0. /\ \A q \in Requests : Op(q)' = Op(q)
      /\ LocalsTyped /\ ModulesStand /\ ModulesApart /\ Known
  BY SameCalls DEF OnTheWay, RegistryHeld
<1>1. ModulesStand' /\ ModulesApart'
  BY <1>0, ModulesOn
<1>2. PICK more : NewModules(r, more)
  BY <1>0, ModulesOn
<1>3. \A q \in Requests : Registering(q)'
  <2>1. CASE Op(r) \notin {"createModule", "createRegistry", "updateRegistry"}
    BY <1>1, <1>2, <2>1, RegistryLeft, RegistryAside
  <2>2. CASE Op(r) = "createModule" /\ createModule(r)
    BY <1>0, <2>2, <1>1, <1>2, ModulesAdded, RegistryAside
  <2>3. CASE Fails(r) /\ UNCHANGED recordVars
    BY <1>0, <2>3, <1>1, <1>2, Goes, RegistryAside DEF Fails, recordVars
  <2>4. CASE Op(r) = "createRegistry" /\ (FindModules(r) \/ FindInstalled(r))
    BY <2>4, <1>1, <1>2, RegistrationsStay, ModulesFound, InstalledFound DEF FindModules,
       FindInstalled, recordVars
  <2>5. CASE Op(r) = "createRegistry" /\ InsertRegistry(r)
    BY <1>1, <1>2, <2>5, RegistrationInserted
  <2>6. CASE Op(r) = "updateRegistry" /\ (FindRegistry(r) \/ FindDependents(r) \/ FindActive(r))
    BY <2>6, <1>1, <1>2, <1>0, RegistrationsStay, RegistrationFound, DependentsFound,
       NoneActive DEF FindRegistry, Find, FindDependents, FindActive, recordVars, Registering
  <2>7. CASE Op(r) = "updateRegistry" /\ SaveRegistry(r)
    BY <1>1, <1>2, <2>7, RegistrationSaved
  <2>8. QED
    BY <2>1, <2>2, <2>3, <2>4, <2>5, <2>6, <2>7, RegistrySteps
<1>4. Known'
  BY <1>0, KnownOn
<1>5. QED
  BY <1>0, <1>1, <1>3, <1>4 DEF RegistryHeld, Registering

LEMMA InitRegistryHeld == Init => RegistryHeld
<1> SUFFICES ASSUME Init PROVE RegistryHeld
  OBVIOUS
<1>0. /\ call \in Plans
      /\ \A r \in Requests :
           /\ rows[r] # NONE => Made(r) /\ Op(r) # "none" /\ rows[r] = Inserted(r)
           /\ pc[r] = IF Made(r) THEN "ok" ELSE "idle"
  BY DEF Init, CallsInit
<1> USE <1>0
<1>1. RowsTyped
  BY InitRowsTyped
<1>2. ASSUME NEW m \in Requests, Op(m) = "createModule"
      PROVE  Inserted(m) = [key |-> Key(m), deps |-> call[m].to]
  BY <1>2 DEF Inserted, Creates, ArticleCreates, Slips
<1>3. ASSUME NEW y \in Requests, Op(y) = "createRegistry"
      PROVE  Inserted(y) = [key |-> Key(y), active |-> Arg(y) # "OFF"]
  BY <1>3 DEF Inserted, Creates, ArticleCreates, Slips
<1>4. ASSUME NEW r \in Requests, Made(r), Op(r) \in {"createModule", "createRegistry"}
      PROVE  rows[r] # NONE
  BY <1>4, InsertedFits, RowNotNone DEF Init
<1>5. ModulesStand
  BY <1>2 DEF ModulesStand
<1>6. ModulesApart
  BY DEF ModulesApart, Table
<1>7. Known
  BY DEF Known, Begun
<1>8. ASSUME NEW y \in Requests, Op(y) = "createRegistry"
      PROVE  Placed(y) /\ Supplied(y) /\ Running(y)
  <2>1. CASE rows[y] = NONE
    BY <2>1 DEF Placed, Supplied, Running, Standing
  <2>2. CASE rows[y] # NONE
    <3>1. /\ Made(y) /\ pc[y] = "ok" /\ rows[y].key = Key(y)
      BY <1>3, <1>8, <2>2
    <3> DEFINE Had(op, key) ==
                 {x \in Requests : call[x].made /\ call[x].op = op /\ call[x].key = key}
               there == ActiveModules \cap {d \in Keys : ModuleOf(d) # {}}
    <3>2. \A z \in Requests : Made(z) /\ Op(z) = "createRegistry" =>
            /\ Had("createModule", Key(z)) # {}
            /\ \A m \in Had("createModule", Key(z)) : \A d \in call[m].to :
                 \E s \in Had("createRegistry", d) : call[s].arg # "OFF"
      BY ServicesAssumption DEF InstalledInOrder, Made, Op, Key
    <3>3. \A z \in Requests : Made(z) /\ Op(z) = "createRegistry" =>
            ModuleOf(Key(z)) # {} /\ \E m \in Table("createModule") : Key(m) = Key(z) /\ Made(m)
      BY <1>4, <3>2 DEF ModuleOf, Table, Made, Op, Key
    <3>4. HasBefore(y)
      BY <1>8, <3>1, <3>3 DEF HasBefore
    <3>5. ASSUME NEW m \in Table("createModule"), NEW z \in Requests, Made(z),
                 Op(z) = "createRegistry", rows[m].key = Key(z), NEW d \in rows[m].deps
          PROVE  d \in there
      <4>1. m \in Requests /\ Op(m) = "createModule" /\ rows[m] # NONE
        BY DEF Table
      <4>2. Made(m) /\ rows[m] = [key |-> Key(m), deps |-> call[m].to]
        BY <1>2, <4>1
      <4>3. m \in Had("createModule", Key(z)) /\ d \in call[m].to
        BY <3>5, <4>1, <4>2 DEF Made, Op, Key
      <4>4. PICK s \in Had("createRegistry", d) : call[s].arg # "OFF"
        BY <3>2, <3>5, <4>3
      <4>5. s \in Requests /\ Made(s) /\ Op(s) = "createRegistry" /\ Key(s) = d /\ Arg(s) # "OFF"
        BY <4>4 DEF Made, Op, Key, Arg
      <4>6. rows[s] # NONE /\ rows[s] = [key |-> d, active |-> TRUE]
        BY <1>3, <1>4, <4>5
      <4>7. d \in ActiveModules
        BY <4>5, <4>6 DEF Table, ActiveModules
      <4>8. d \in Keys
        BY <4>1, <4>3, ServicesAssumption DEF Op
      <4>9. ModuleOf(d) # {}
        BY <3>3, <4>5
      <4>10. QED
        BY <4>7, <4>8, <4>9
    <3>6. ASSUME NEW k \in there PROVE \E z \in Requests : /\ Made(z) /\ Op(z) = "createRegistry"
                                                           /\ Key(z) = k
      <4>1. PICK z \in Requests : Op(z) = "createRegistry" /\ rows[z] # NONE /\ rows[z].key = k
        BY DEF ActiveModules, Table
      <4>2. QED
        BY <1>3, <4>1
    <3> HIDE DEF there, Had
    <3>7. HasNeeds(Key(y), there)
      <4>1. ASSUME NEW m \in Table("createModule"), rows[m].key \in there \cup {Key(y)}
            PROVE  rows[m].deps \subseteq there
        BY <1>8, <3>1, <3>5, <3>6, <4>1
      <4>2. QED
        BY <4>1 DEF HasNeeds
    <3>8. there \in SUBSET Keys
      BY DEF there
    <3>9. Dependencies(Key(y)) \subseteq there
      BY <3>7, <3>8 DEF Dependencies
    <3>10. Dependencies(Key(y)) \subseteq ActiveModules
           /\ \A d \in Dependencies(Key(y)) : ModuleOf(d) # {}
      BY <3>9 DEF there
    <3>11. QED
      BY <3>1, <3>4, <3>10 DEF Placed, Supplied, Running
  <2>3. QED
    BY <2>1, <2>2
<1>9. ASSUME NEW s \in Requests PROVE Switching(s)
  BY DEF Switching
<1>10. QED
  BY <1>5, <1>6, <1>7, <1>8, <1>9 DEF RegistryHeld

LEMMA NextRegistryInv == RegistryInv /\ [Next]_vars => RegistryInv'
<1> SUFFICES ASSUME OnTheWay, Timely, RowsTyped, RegistryHeld, [Next]_vars PROVE RegistryInv'
  BY DEF RegistryInv
<1>1. OnTheWay' /\ Timely' /\ RowsTyped'
  BY NextOnTheWay, NextTimely, NextRowsTyped
<1>2. CASE UNCHANGED <<callVars, rows, held, contentVars, points, marketingVars, backofficeVars>>
  <2>1. \A q : /\ Op(q)' = Op(q) /\ On(q)' = On(q) /\ Key(q)' = Key(q) /\ Arg(q)' = Arg(q)
               /\ Made(q)' = Made(q)
    BY <1>2 DEF callVars, Op, On, Key, Arg, Made
  <2> USE <1>2, <2>1 DEF callVars, locals
  <2>2. ModulesStand' /\ ModulesApart' /\ Known'
    BY DEF RegistryHeld, ModulesStand, ModulesApart, Table, Known, Begun
  <2>3. \A k : Dependencies(k)' = Dependencies(k)
    BY DEF Dependencies, HasNeeds, Table
  <2>4. ActiveModules' = ActiveModules /\ \A d : ModuleOf(d)' = ModuleOf(d)
    BY DEF ActiveModules, ModuleOf, Table
  <2>5. \A y : (OffSince(y) => OffSince(y)') /\ (OffBeside(y) => OffBeside(y)')
               /\ (TurnedOn(y) => TurnedOn(y)') /\ (SavedOver => SavedOver')
    BY DEF OffSince, OffBeside, TurnedOn, SavedOver, Switcher, Begun, Together, Overlap
  <2>6. ASSUME NEW y \in Requests, Op(y) = "createRegistry"
        PROVE  Placed(y)' /\ Supplied(y)' /\ Running(y)'
    <3>1. Placed(y) /\ Supplied(y) /\ Running(y)
      BY <2>6 DEF RegistryHeld
    <3>2. HasBefore(y) => HasBefore(y)'
      BY DEF HasBefore, Table
    <3>3. PICK old, k : old = ModulesBefore(y) /\ k = Key(y)
      OBVIOUS
    <3>4. Needs(old, k)' = Needs(old, k) /\ ModulesBefore(y)' = old /\ Key(y)' = k
      BY <3>3 DEF Needs, Closed, Key, ModulesBefore, Table
    <3>5. Needs(ModulesBefore(y), Key(y))' = Needs(ModulesBefore(y), Key(y))
      BY <3>3, <3>4
    <3>6. Dependencies(Key(y))' = Dependencies(Key(y))
      BY <2>3, <3>3, <3>4
    <3>7. Placed(y)'
      BY <2>4, <3>1, <3>2, <3>5, <3>6 DEF Placed, Standing
    <3>8. Supplied(y)' /\ Running(y)'
      BY <2>4, <2>5, <3>1, <3>6 DEF Supplied, Running, Standing
    <3>9. QED
      BY <3>7, <3>8
  <2>7. ASSUME NEW s \in Requests, Op(s) = "updateRegistry" PROVE Switching(s)'
    BY <2>3, <2>5, <2>7 DEF UsersBefore, Table, RegistryHeld, Switching
  <2>8. QED
    BY <1>1, <2>2, <2>6, <2>7 DEF RegistryHeld, RegistryInv
<1>3. CASE \E r \in Requests : ~Ended(r) /\ Step(r) /\ UNCHANGED call
  BY <1>1, <1>3, StepStrides, StepRegistryHeld DEF RegistryInv
<1>4. QED
  BY <1>2, <1>3, Moves

LEMMA RegistryIsActive == RegistryInv => DependenciesActive
<1> SUFFICES ASSUME OnTheWay, RegistryHeld, NEW x \in Table("createRegistry"), rows[x].active
             PROVE  \/ Dependencies(rows[x].key) \subseteq ActiveModules
                    \/ \E s \in Requests :
                         /\ Op(s) = "updateRegistry" /\ Begun(s)
                         /\ \/ Arg(s) = "OFF" /\ Together(s, x)
                            \/ Arg(s) = "ON" /\ On(s) = x
                            \/ s \in stale
  BY DEF DependenciesActive, RegistryInv
<1>1. Running(x) /\ rows[x].key = Key(x) /\ rows[x] # NONE
  BY DEF Table, RegistryHeld, Placed
<1>2. SavedOver => \E s \in Requests : Switcher(s) /\ s \in stale
  BY DEF SavedOver, OnTheWay, LocalsTyped
<1>3. QED
  BY <1>1, <1>2 DEF Running, OffBeside, TurnedOn, Switcher

\* A module that is active has what it needs, directly and indirectly, active,
\* unless a module was turned off while it was installed, it was turned on again,
\* or a registration was saved over a newer one (DependenciesActive).
THEOREM DependenciesStayActive == Spec => []DependenciesActive
<1>1. Init => RegistryInv
  BY InitOnTheWay, InitTimely, InitRowsTyped, InitRegistryHeld DEF RegistryInv
<1>2. RegistryInv /\ [Next]_vars => RegistryInv'
  BY NextRegistryInv
<1>3. RegistryInv => DependenciesActive
  BY RegistryIsActive
<1>4. QED
  BY <1>1, <1>2, <1>3, PTL DEF Spec
--------------------
\* Who learns
LEMMA LearnersStep ==
  ASSUME OnTheWay, NEW r \in Requests, Step(r), Op(r) \in LearningCalls \cup ExternalOps
  PROVE  LearningStep(r) \/ (Fails(r) /\ UNCHANGED recordVars)
<1> USE DEF LearningCalls, CourseOps, CurriculumOps, PlayerOps, AssessmentOps, CredentialOps,
     ForumOps, ReviewOps, OperationOps, AdvancedLearningOps, ReportingOps, ExternalOps
<1>1. Op(r) \notin ContentCalls
  BY DEF ContentCalls, ArticleOps, ProductOps, AdvancedOps, JobOps
<1>2. Op(r) \notin CacheCalls \cup RegistryOps \cup MarketingCalls
  BY DEF CacheCalls, CouponOps, PromotionOps, MenuOps, FeedOps, RegistryOps, MarketingCalls,
     BundleOps, AffiliateOps, LoyaltyOps, AbandonedOps
<1>3. Op(r) \notin BackofficeCalls
  BY DEF BackofficeCalls, Slips, Statuses, UpdatedTo, WishOps
<1>4. QED
  BY <1>1, <1>2, <1>3, ContentFamily, CacheFamily, RegistryFamily, MarketingFamily,
     BackofficeFamily DEF Step

\* The other calls leave them alone.
LEMMA SchoolAside ==
  ASSUME OnTheWay, UNCHANGED call, NEW r \in Requests, Step(r), Op(r) \notin LearningCalls
  PROVE  Still
<1>1. CASE Op(r) \in ExternalOps
  BY <1>1, LearnersStep, LearningFamily DEF recordVars, Still
<1>2. CASE Op(r) \notin ExternalOps
  <2>1. Op(r) \in Ops /\ Touches(r)
    BY CallsTyped, StepStrides DEF OnTheWay, Strides
  <2>2. ASSUME NEW of \in Schooled PROVE ~Reaches(Op(r), of)
    BY <1>2, <2>2 DEF Reaches, Names, Schooled, LearningCalls, CourseOps, CurriculumOps,
       PlayerOps, AssessmentOps, CredentialOps, ForumOps, ReviewOps, OperationOps,
       AdvancedLearningOps, ReportingOps, ExternalOps, OfProducts, Creates, ArticleCreates
  <2>3. QED
    BY <2>1, <2>2 DEF Touches, Still
<1>3. QED
  BY <1>1, <1>2

LEMMA LearningLearns ==
  ASSUME OnTheWay, UNCHANGED call, NEW r \in Requests, LearningStep(r)
  PROVE  Learns(r)
<1>0. LocalsTyped /\ Fits(Op(r), pc[r]) /\ Grips(r)
  BY DEF OnTheWay
<1> USE <1>0
<1> USE DEF Learns
<1>1. CASE createCourse(r)
  BY <1>1, Stays DEF createCourse
<1>2. CASE updateThumbnail(r) \/ deleteCourse(r)
  BY <1>2, CallsTyped, Stays, HasRead, HasWritten DEF updateThumbnail, deleteCourse, Find,
     Save, Live, OnTheWay
<1>3. CASE addChapter(r) \/ addLesson(r) \/ Reorder(r)
  BY <1>3, Stays DEF addChapter, addLesson, Insert, Reorder
<1>4. CASE FindLesson(r)
  BY <1>4, CallsTyped, HasRead DEF FindLesson, Find, Live, recordVars, Still, OnTheWay
<1>5. CASE FindEnrollment(r) \/ FindCourse(r) \/ FindPrevious(r) \/ CheckPrevious(r)
  BY <1>5, Stays DEF FindEnrollment, FindCourse, FindPrevious, CheckPrevious, recordVars,
     Still
<1>6. CASE FindProgress(r)
  <2> DEFINE found == ProgressOn(On(r), By(r))
             x == IF found = {} THEN r ELSE CHOOSE y \in found : TRUE
  <2>1. x \in Requests /\ Reads(r, x, rows[x])
    BY <1>6 DEF FindProgress, ProgressOn, Table
  <2> HIDE DEF x
  <2>2. QED
    BY <1>6, <2>1, HasRead DEF FindProgress, recordVars, Still
<1>7. CASE FindPoints(r) \/ awardXP(r) \/ AwardFails(r)
  BY <1>7, Stays DEF FindPoints, awardXP, AwardFails, recordVars, Still
<1>8. CASE SaveProgress(r)
  BY <1>8, HasWritten DEF SaveProgress, Save
<1>9. CASE FindCertificate(r) \/ CountLessons(r) \/ CountCompleted(r) \/ InsertCertificate(r)
  BY <1>9, Stays DEF FindCertificate, CountLessons, CountCompleted, InsertCertificate,
     recordVars, Still
<1>10. CASE createReview(r)
  BY <1>10, Stays DEF createReview, Put, Fits, recordVars, Still, Schooled, LocalsTyped
<1>11. CASE FindAssessment(r) \/ FindAttempt(r)
  BY <1>11, CallsTyped, HasRead DEF FindAssessment, FindAttempt, Find, Live, recordVars,
     Still, OnTheWay
<1>12. CASE CountAttempts(r) \/ InsertAttempt(r) \/ FindQuestions(r) \/ InsertSubmission(r)
  BY <1>12, Stays DEF CountAttempts, InsertAttempt, FindQuestions, InsertSubmission,
     recordVars, Still
<1>13. CASE SaveAttempt(r)
  BY <1>13, HasWritten DEF SaveAttempt, Save
<1>14. CASE uploadAssignment(r)
  BY <1>14, Stays, HasRead, HasWritten DEF uploadAssignment, Save, Submissions, Table
<1>15. CASE updateEnrollmentStatus(r)
  BY <1>15, CallsTyped, HasRead, HasWritten DEF updateEnrollmentStatus, Find, Save, Live,
     OnTheWay
<1>16. CASE AddRemark(r)
  BY <1>16, CallsTyped, Stays, HasRead DEF AddRemark, Insert, Find, Put, Began, Fits, Live,
     recordVars, Still, Schooled, LocalsTyped, OnTheWay
<1>17. CASE DeleteNote(r)
  <2>1. CASE pc[r] # "remove_note"
    BY <1>17, <2>1, BodiesTyped, HasRead DEF DeleteNote, Began, OnRow, recordVars, Still,
       OnTheWay
  <2>2. CASE pc[r] = "remove_note"
    BY <2>2, <1>17, CallsTyped, ServicesAssumption, HasWritten DEF Fits, Grips, Finders,
       Names, OfProducts, OnTheWay, DeleteNote, Began, Save, Put, Still, Schooled, LocalsTyped
  <2>3. QED
    BY <2>1, <2>2
<1>18. CASE Report(r) \/ AnswerLearner(r)
  BY <1>18, HasSeen DEF Report, AnswerLearner, Answer, recordVars, Still
<1>19. QED
  BY <1>1, <1>2, <1>3, <1>4, <1>5, <1>6, <1>7, <1>8, <1>9, <1>10, <1>11, <1>12, <1>13, <1>14,
     <1>15, <1>16, <1>17, <1>18 DEF LearningStep, CourseStep, PlayerStep, CredentialStep,
     AssessmentStep
--------------------
\* What learners write
LEMMA LearningTargets ==
  ASSUME OnTheWay, RowsTyped, NEW r \in Requests
  PROVE  /\ pc[r] \in {"save_thumbnail", "save_attempt", "save_enrollment", "delete_course"} =>
              target[r] = On(r) /\ On(r) \in Requests /\ seen[r] # NONE /\ seen[r] \in Rows
         /\ pc[r] \in {"save_thumbnail", "delete_course"} => Op(target[r]) = "createCourse"
         /\ pc[r] = "save_thumbnail" => seen[r] \in CourseRows
         /\ pc[r] = "save_attempt" => Op(target[r]) = "startAttempt" /\ seen[r] \in AttemptRows
         /\ pc[r] = "save_enrollment" => Op(target[r]) = "enroll" /\ seen[r] \in EnrollmentRows
         /\ pc[r] = "save_progress" /\ target[r] # r =>
              Op(target[r]) = "updateProgress" /\ target[r] \in Requests /\ seen[r] \in ProgressRows
              /\ seen[r] # NONE
         /\ pc[r] = "save_submission" /\ target[r] # r =>
              target[r] \in Requests /\ seen[r] \in SubmissionRows /\ seen[r] # NONE
              /\ Op(target[r]) \in {"submitAssessment", "uploadAssignment"}
<1>1. Fits(Op(r), pc[r]) /\ Grips(r) /\ Sight(r) /\ Facing(r)
  BY DEF OnTheWay, RowsTyped
<1>2. On(r) # NONE => Names(Op(r), Op(On(r)))
  BY CallsTyped DEF OnTheWay
<1>3. QED
  BY <1>1, <1>2, ServicesAssumption DEF Fits, Grips, Finders, Sight, Facing, Returners, Resumes,
     RowFits, Names, OfProducts

\* The rows that are put there are as they were, but for what the call is to change.
LEMMA LearningPuts ==
  ASSUME OnTheWay, RowsTyped, RowsMeant, UNCHANGED call, NEW r \in Requests, Strides(r),
         NEW x \in Requests, Op(x) \in Schooled, rows'[x] # rows[x],
         \/ createCourse(r) \/ updateThumbnail(r) \/ addChapter(r) \/ addLesson(r)
         \/ Reorder(r) \/ SaveProgress(r) \/ InsertCertificate(r) \/ InsertAttempt(r)
         \/ InsertSubmission(r) \/ SaveAttempt(r) \/ uploadAssignment(r)
         \/ updateEnrollmentStatus(r)
  PROVE  rows'[x] # NONE /\ Meant(x, rows'[x]) /\ Changes(r, x)
<1>0. LocalsTyped /\ Fits(Op(r), pc[r]) /\ Grips(r) /\ NONE \notin Rows /\ call \in Plans
  BY ServicesAssumption DEF OnTheWay
<1> USE <1>0
<1> DEFINE row == rows'[x]
<1>n. ASSUME row \in CourseRows \cup ChapterRows \cup LessonRows \cup EnrollmentRows
                \cup ProgressRows \cup CertificateRows \cup AttemptRows \cup SubmissionRows
      PROVE  row # NONE
  BY <1>n DEF Rows
<1>1. CASE createCourse(r)
  <2>1. x = r /\ Op(x) = "createCourse"
        /\ row = [slug |-> Key(r), strict |-> Arg(r) = "STRICT", thumbnail |-> NONE]
    BY <1>1 DEF createCourse, Put, recordVars, Fits, LocalsTyped
  <2>2. row \in CourseRows
    BY <2>1, BodiesTyped DEF CourseRows, Keyed
  <2>3. row.strict = (Arg(x) = "STRICT")
    BY <2>1
  <2>4. QED
    BY <1>n, <2>1, <2>2, <2>3 DEF Meant, Changes
<1>2. CASE addChapter(r)
  BY <1>2, <1>n, BodiesTyped DEF addChapter, Insert, Began, Put, LocalsTyped, ChapterRows,
     OnRow, Meant, Changes
<1>3. CASE addLesson(r)
  BY <1>3, <1>n, BodiesTyped DEF addLesson, Insert, Began, Put, LocalsTyped, LessonRows,
     OnRow, Meant, Changes
<1>4. CASE updateThumbnail(r)
  <2>1. pc[r] = "save_thumbnail" /\ Op(r) = "updateThumbnail"
    BY <1>4 DEF updateThumbnail, Find, recordVars, Fits
  <2>2. x = target[r] /\ row = [seen[r] EXCEPT !.thumbnail = r]
        /\ (rows[x] = seen[r] \/ r \in stale')
    BY <1>4, <2>1 DEF updateThumbnail, Began, Save, Writes, Put, LocalsTyped
  <2>3. x = On(r) /\ Op(x) = "createCourse" /\ seen[r] \in CourseRows /\ seen[r] # NONE
    BY <2>1, <2>2, LearningTargets
  <2>4. Meant(x, seen[r])
    BY <2>1, <2>2, <2>3 DEF RowsMeant, LearningCalls, CourseOps
  <2>5. row \in CourseRows /\ row.strict = seen[r].strict
    BY <2>2, <2>3 DEF CourseRows
  <2>6. Meant(x, row)
    BY <2>3, <2>4, <2>5 DEF Meant
  <2>7. rows[x] # NONE \/ Revived(x)'
    BY <2>1, <2>2, <2>3, SameCalls DEF Revived
  <2>8. QED
    BY <1>n, <2>3, <2>5, <2>6, <2>7 DEF Changes, Alters, Revives
<1>5. CASE Reorder(r)
  <2>1. pc[r] = "reorder" /\ Op(r) \in {"reorderLessons", "reorderChapters"}
    BY <1>5 DEF Reorder, Fits
  <2>2. x = call[r].ids[held[r]] /\ rows[x] # NONE
        /\ row = [rows[x] EXCEPT !.order = held[r] - 1]
    BY <1>5, <2>1 DEF Reorder, Began, LocalsTyped
  <2>3. Op(x) = Reordered(Op(r)) /\ held[r] \in 1 .. Len(call[r].ids)
        /\ Len(call[r].ids) \in Nat
    BY <2>1, <2>2, CallsTyped DEF Grips
  <2>4. rows[x] \in LessonRows \cup ChapterRows /\ Meant(x, rows[x])
    BY <2>1, <2>2, <2>3 DEF RowsTyped, RowFits, Reordered, RowsMeant
  <2>5. held[r] - 1 \in Nat
    BY <2>3
  <2>6. CASE Op(x) = "addLesson"
    BY <2>2, <2>6, <2>5, <2>1, <2>3, <2>4, <1>n DEF RowsTyped, RowFits, LessonRows, Meant,
       Reordered, Changes, Alters
  <2>7. CASE Op(x) = "addChapter"
    BY <2>2, <2>7, <2>5, <2>4, <1>n DEF RowsTyped, RowFits, ChapterRows, Meant, Changes, Alters
  <2>8. QED
    BY <2>3, <2>6, <2>7 DEF Reordered
<1>6. CASE SaveProgress(r)
  <2>1. pc[r] = "save_progress" /\ Op(r) = "updateProgress" /\ x = target[r]
        /\ (rows[x] = seen[r] \/ r \in stale')
    BY <1>6 DEF SaveProgress, Fits, Save, Put, Writes, LocalsTyped
  <2>2. CASE x = r
    BY <1>6, <2>1, <2>2, <1>n, BodiesTyped DEF SaveProgress, Save, Put, LocalsTyped,
       ProgressRows, OnRow, Meant, Changes
  <2>3. CASE x # r
    <3>1. row = [seen[r] EXCEPT !.done = @ \/ Arg(r) = "DONE"]
      BY <1>6, <2>1, <2>3 DEF SaveProgress, Save, Put, LocalsTyped
    <3>2. Op(x) = "updateProgress" /\ seen[r] \in ProgressRows /\ seen[r] # NONE
      BY <2>1, <2>3, LearningTargets
    <3>3. Meant(x, seen[r]) /\ rows[x] # NONE
      BY <2>1, <3>2 DEF RowsMeant, LearningCalls, PlayerOps, Lasting, Schooled
    <3>4. /\ row \in ProgressRows /\ row.user = seen[r].user /\ row.course = seen[r].course
          /\ row.lesson = seen[r].lesson /\ (seen[r].done => row.done)
      BY <3>1, <3>2 DEF ProgressRows
    <3>5. Meant(x, row)
      BY <3>2, <3>3, <3>4 DEF Meant
    <3>6. rows[x].done => row.done \/ Unsaved'
      BY <2>1, <3>4, SameCalls DEF Unsaved
    <3>7. QED
      BY <1>n, <3>2, <3>3, <3>4, <3>5, <3>6 DEF Changes, Alters
  <2>4. QED
    BY <2>2, <2>3
<1>7. CASE InsertCertificate(r)
  BY <1>7, <1>n, BodiesTyped DEF InsertCertificate, Put, Fits, LocalsTyped,
     CertificateRows, Live, Meant, Changes
<1>8. CASE InsertAttempt(r)
  BY <1>8, <1>n, BodiesTyped DEF InsertAttempt, Put, Fits, LocalsTyped, Grips, Finders,
     AttemptRows, Meant, Changes
<1>9. CASE InsertSubmission(r)
  BY <1>9, <1>n DEF InsertSubmission, Put, Fits, LocalsTyped, Grips, Finders,
     SubmissionRows, Meant, Changes
<1>10. CASE SaveAttempt(r)
  BY <1>10, <1>n, LearningTargets DEF SaveAttempt, Save, Put, Fits, LocalsTyped,
     RowsMeant, LearningCalls, AssessmentOps, Lasting, Schooled, AttemptRows, Meant, Changes,
     Alters
<1>11. CASE uploadAssignment(r)
  BY <1>11, <1>n, LearningTargets DEF uploadAssignment, recordVars, Fits, Save, Put,
     LocalsTyped, Began, Schooled, RowsMeant, LearningCalls, AssessmentOps, Lasting,
     SubmissionRows, Meant, Changes, Alters
<1>12. CASE updateEnrollmentStatus(r)
  BY <1>12, <1>n, LearningTargets, BodiesTyped DEF updateEnrollmentStatus, Find, Began,
     recordVars, Save, Put, Fits, LocalsTyped, RowsMeant, LearningCalls, OperationOps, Lasting,
     Schooled, EnrollmentRows, Bodies, Changes, Alters, Meant
<1>13. QED
  BY <1>1, <1>2, <1>3, <1>4, <1>5, <1>6, <1>7, <1>8, <1>9, <1>10, <1>11, <1>12

\* A course takes its chapters and lessons with it.
LEMMA CourseErased ==
  ASSUME OnTheWay, RowsTyped, RowsMeant, \A x \in Requests : Seated(x), UNCHANGED call,
         NEW r \in Requests, deleteCourse(r),
         NEW x \in Requests, Op(x) \in Schooled, rows'[x] # rows[x]
  PROVE  Erases(r, x)
<1>1. pc[r] = "delete_course" /\ Op(r) = "deleteCourse"
  BY DEF deleteCourse, Find, recordVars, OnTheWay, Fits
<1>2. target[r] = On(r) /\ On(r) \in Requests /\ Op(On(r)) = "createCourse"
  BY <1>1, LearningTargets
<1> DEFINE c == On(r)
           gone == {c} \cup ChaptersOf(c) \cup LessonsOf(c)
<1>3. rows' = [y \in Requests |-> IF y \in gone THEN NONE ELSE rows[y]]
  BY <1>1, <1>2 DEF deleteCourse, Began
<1>4. ASSUME NEW y \in Requests PROVE y \in ChaptersOf(c) <=>
        Op(y) = "addChapter" /\ rows[y] # NONE /\ On(y) = c
  BY DEF ChaptersOf, Table, RowsMeant, Meant
<1>5. ASSUME NEW y \in Requests, Op(y) = "addLesson", rows[y] # NONE
      PROVE  rows[y].chapter = On(y) /\ On(y) \in Requests /\ rows[On(y)] # NONE
             /\ Op(On(y)) = "addChapter"
  BY <1>5, CallsTyped, BodiesTyped, ServicesAssumption DEF OnRow, OnTheWay, RowsMeant, Meant,
     Seated, Live, Names, OfProducts
<1>6. ASSUME NEW y \in Requests PROVE y \in LessonsOf(c) <=>
        Op(y) = "addLesson" /\ rows[y] # NONE /\ CourseOf(y) = c
  BY <1>4, <1>5 DEF LessonsOf, Table, CourseOf
<1>7. \A y \in Erased(c) : rows'[y] = NONE
  BY <1>3, <1>4, <1>6 DEF Erased
<1>8. x \in Erased(c)
  BY <1>3, <1>4, <1>6 DEF Erased
<1>9. QED
  BY <1>1, <1>7, <1>8 DEF Erases

\* All that any step does to these rows
LEMMA SchoolChanges ==
  ASSUME OnTheWay, RowsTyped, RowsMeant, \A x \in Requests : Seated(x), UNCHANGED call,
         NEW r \in Requests, Strides(r), Step(r), NEW x \in Requests, Op(x) \in Schooled
  PROVE  Changes(r, x) /\ (rows'[x] # NONE => Meant(x, rows'[x]))
<1>1. CASE rows'[x] = rows[x]
  BY <1>1 DEF Changes, RowsMeant
<1>2. CASE rows'[x] # rows[x]
  BY <1>2, SchoolAside, LearnersStep, CourseErased, LearningLearns, LearningPuts DEF Still,
     recordVars, Changes, Erases, Learns
<1>3. QED
  BY <1>1, <1>2

\* Progress, certificates, attempts and submissions stay.
LEMMA LastingStays ==
  ASSUME OnTheWay, RowsTyped, RowsMeant, \A x \in Requests : Seated(x), UNCHANGED call,
         NEW r \in Requests, Strides(r), Step(r),
         NEW x \in Requests, Op(x) \in Lasting, rows[x] # NONE
  PROVE  rows'[x] # NONE
<1>1. Op(x) \in Schooled /\ (x \notin Erased(On(r)) \/ On(r) = x)
  BY DEF Lasting, Erased
<1>2. Op(r) = "deleteCourse" => On(r) = NONE \/ Op(On(r)) = "createCourse"
  BY CallsTyped DEF Names, OfProducts, OnTheWay
<1>3. x # NONE
  BY ServicesAssumption
<1>4. ~Erases(r, x) /\ Op(x) \in Schooled
  BY <1>1, <1>2, <1>3 DEF Erases, Lasting
<1>5. QED
  BY <1>4, SchoolChanges DEF Changes, Revives, Alters

LEMMA StepRowsMeant ==
  ASSUME OnTheWay, RowsTyped, RowsMeant, \A x \in Requests : Seated(x), UNCHANGED call,
         NEW r \in Requests, Strides(r), Step(r)
  PROVE  RowsMeant'
<1>1. ASSUME NEW x \in Requests, rows'[x] # NONE
      PROVE  Meant(x, rows'[x])
  BY <1>1, SchoolChanges DEF Meant, Schooled
<1>2. ASSUME NEW x \in Requests, Op(x) \in Lasting, rows[x] # NONE
      PROVE  rows'[x] # NONE
  BY <1>2, LastingStays
<1>3. ASSUME NEW q \in Requests, NEW x \in Requests, NEW row, x = target'[q], row = seen'[q],
             row # NONE, Op(q) \in LearningCalls
      PROVE  Meant(x, row) /\ (Op(x) \in Lasting => rows'[x] # NONE)
  BY <1>2, <1>3, LearnersStep, LearningLearns DEF RowsMeant, Strides, Own, Bears, Fails, locals,
     Learns
<1>4. \A x \in Requests : rows'[x] # NONE => Meant(x, rows'[x])
  BY <1>1
<1>5. \A q \in Requests : (target'[q] \in Requests /\ seen'[q] # NONE /\ Op(q) \in LearningCalls)
        => Meant(target'[q], seen'[q]) /\ (Op(target'[q]) \in Lasting => rows'[target'[q]] # NONE)
  BY <1>3
<1>6. QED
  BY <1>4, <1>5 DEF RowsMeant, Meant, Op, On, By, Arg, Place
--------------------
\* The steps of those whose credentials are at stake
LEMMA LearnersSteps ==
  ASSUME OnTheWay, NEW r \in Requests, Step(r)
  PROVE  \/ Fails(r) /\ UNCHANGED recordVars
         \/ /\ Op(r) = "addChapter" => addChapter(r)
            /\ Op(r) = "addLesson" => addLesson(r)
            /\ Op(r) = "checkAccess" =>
                 \/ FindLesson(r) \/ FindEnrollment(r) \/ FindCourse(r) \/ FindPrevious(r)
                 \/ CheckPrevious(r)
            /\ Op(r) = "updateProgress" =>
                 FindProgress(r) \/ FindPoints(r) \/ awardXP(r) \/ AwardFails(r) \/ SaveProgress(r)
            /\ Op(r) = "checkAndGenerate" =>
                 FindCertificate(r) \/ CountLessons(r) \/ CountCompleted(r) \/ InsertCertificate(r)
            /\ Op(r) = "startAttempt" => FindAssessment(r) \/ CountAttempts(r) \/ InsertAttempt(r)
            /\ Op(r) = "submitAssessment" =>
                 FindAttempt(r) \/ FindQuestions(r) \/ InsertSubmission(r) \/ SaveAttempt(r)
<1>1. CASE Op(r) \notin {"addChapter", "addLesson", "checkAccess", "updateProgress",
                         "checkAndGenerate", "startAttempt", "submitAssessment"}
  BY <1>1
<1>2. CASE Op(r) \in {"addChapter", "addLesson", "checkAccess", "updateProgress",
                      "checkAndGenerate", "startAttempt", "submitAssessment"}
  <2>1. LearningStep(r) \/ (Fails(r) /\ UNCHANGED recordVars)
    BY <1>2, LearnersStep DEF LearningCalls, CourseOps, CurriculumOps, PlayerOps, AssessmentOps,
       CredentialOps
  <2>2. Fits(Op(r), pc[r])
    BY DEF OnTheWay
  <2>3. ~createCourse(r) /\ ~updateThumbnail(r) /\ ~deleteCourse(r) /\ ~Reorder(r)
    BY <1>2, <2>2 DEF createCourse, updateThumbnail, deleteCourse, Reorder, Began, Fits
  <2>4. ~createReview(r) /\ ~uploadAssignment(r) /\ ~updateEnrollmentStatus(r) /\ ~AddRemark(r)
    BY <1>2, <2>2 DEF createReview, uploadAssignment, updateEnrollmentStatus, AddRemark, Insert,
       Began, Fits
  <2>5. ~DeleteNote(r) /\ ~Report(r) /\ ~AnswerLearner(r)
    BY <1>2, <2>2 DEF DeleteNote, Report, AnswerLearner, LearningAnswers, Began, Fits
  <2>6. /\ addChapter(r) => Op(r) = "addChapter"
        /\ addLesson(r) => Op(r) = "addLesson"
    BY DEF addChapter, addLesson, Insert, Began
  <2>7. FindLesson(r) \/ FindEnrollment(r) \/ FindCourse(r) \/ FindPrevious(r) \/ CheckPrevious(r)
          => Op(r) = "checkAccess"
    BY <2>2 DEF FindLesson, FindEnrollment, FindCourse, FindPrevious, CheckPrevious, Began, Fits
  <2>8. FindProgress(r) \/ FindPoints(r) \/ awardXP(r) \/ AwardFails(r) \/ SaveProgress(r)
          => Op(r) = "updateProgress"
    BY <2>2 DEF FindProgress, FindPoints, awardXP, AwardFails, SaveProgress, Began, Fits
  <2>9. FindCertificate(r) \/ CountLessons(r) \/ CountCompleted(r) \/ InsertCertificate(r)
          => Op(r) = "checkAndGenerate"
    BY <1>2, <2>2 DEF FindCertificate, CountLessons, CountCompleted, InsertCertificate, Began,
       Fits
  <2>10. FindAssessment(r) \/ CountAttempts(r) \/ InsertAttempt(r) => Op(r) = "startAttempt"
    BY <2>2 DEF FindAssessment, CountAttempts, InsertAttempt, Began, Fits
  <2>11. FindAttempt(r) \/ FindQuestions(r) \/ InsertSubmission(r) \/ SaveAttempt(r)
           => Op(r) = "submitAssessment"
    BY <2>2 DEF FindAttempt, FindQuestions, InsertSubmission, SaveAttempt, Began, Fits
  <2>12. QED
    BY <2>1, <2>3, <2>4, <2>5, <2>6, <2>7, <2>8, <2>9, <2>10, <2>11 DEF LearningStep, CourseStep,
       PlayerStep, CredentialStep, AssessmentStep
<1>3. QED
  BY <1>1, <1>2
--------------------
\* What the ids of a learner's calls are of
LEMMA Curriculum ==
  ASSUME OnTheWay, NEW x \in Requests
  PROVE  /\ Op(x) = "addChapter" => On(x) \in Requests /\ Op(On(x)) = "createCourse"
         /\ Op(x) = "addLesson" => /\ On(x) \in Requests /\ Op(On(x)) = "addChapter"
                                   /\ CourseOf(x) \in Requests /\ Op(CourseOf(x)) = "createCourse"
         /\ Op(x) = "updateProgress" => On(x) \in Requests /\ Op(On(x)) = "addLesson"
         /\ Op(x) = "startAttempt" => On(x) \in Requests /\ Op(On(x)) = "assess"
         /\ On(x) # NONE =>
              /\ On(x) \in Requests
              /\ Op(x) = "checkAccess" => Op(On(x)) = "addLesson"
              /\ Op(x) \in {"deleteCourse", "updateThumbnail", "checkAndGenerate"} =>
                   Op(On(x)) = "createCourse"
              /\ Op(x) = "submitAssessment" => Op(On(x)) = "startAttempt"
<1>1. ASSUME NEW y \in Requests
      PROVE  /\ On(y) \in Requests \cup {NONE}
             /\ Op(y) \in {"addChapter", "addLesson", "updateProgress", "startAttempt"} =>
                  On(y) # NONE
             /\ On(y) # NONE => Names(Op(y), Op(On(y)))
  BY CallsTyped, BodiesTyped, ServicesAssumption DEF OnRow, OnTheWay
<1>2. Op(x) = "addChapter" => On(x) \in Requests /\ Op(On(x)) = "createCourse"
  BY <1>1 DEF Names, OfProducts
<1>3. Op(x) = "addLesson" => On(x) \in Requests /\ Op(On(x)) = "addChapter"
  BY <1>1 DEF Names, OfProducts
<1>4. Op(x) = "addLesson" => CourseOf(x) \in Requests /\ Op(CourseOf(x)) = "createCourse"
  BY <1>1, <1>3 DEF CourseOf, Names, OfProducts
<1>5. Op(x) = "updateProgress" => On(x) \in Requests /\ Op(On(x)) = "addLesson"
  BY <1>1 DEF Names, OfProducts
<1>6. Op(x) = "startAttempt" => On(x) \in Requests /\ Op(On(x)) = "assess"
  BY <1>1 DEF Names, OfProducts
<1>7. On(x) # NONE /\ Op(x) = "checkAccess" => Op(On(x)) = "addLesson"
  BY <1>1 DEF Names, OfProducts
<1>8. On(x) # NONE /\ Op(x) \in {"deleteCourse", "updateThumbnail", "checkAndGenerate"} =>
        Op(On(x)) = "createCourse"
  BY <1>1 DEF Names, OfProducts
<1>9. On(x) # NONE /\ Op(x) = "submitAssessment" => Op(On(x)) = "startAttempt"
  BY <1>1 DEF Names, OfProducts
<1>10. QED
  BY <1>1, <1>2, <1>3, <1>4, <1>5, <1>6, <1>7, <1>8, <1>9

\* A step leaves the others where they are, ...
LEMMA OthersStay ==
  ASSUME Grounds, UNCHANGED call, NEW r \in Requests, ~Ended(r), Strides(r)
  PROVE  /\ \A q \in Requests \ {r} : /\ pc'[q] = pc[q] /\ before'[q] = before[q]
                                      /\ target'[q] = target[q] /\ seen'[q] = seen[q]
                                      /\ held'[q] = held[q]
         /\ \A q \in Requests : Ended(q) => q # r /\ pc'[q] = pc[q]
         /\ pc'[r] # "idle"
BY DEF Strides, Own, Paces, Bears, Holds, Ended

\* ... and what was a reason remains one.
LEMMA ReasonsStay ==
  ASSUME Grounds, UNCHANGED call, NEW r \in Requests, ~Ended(r), Strides(r), Step(r)
  PROVE  /\ Unsaved => Unsaved'
         /\ \A c : Revived(c) => Revived(c)'
         /\ \A u, c : Misplaced(u, c) => Misplaced(u, c)'
         /\ Rewritten => Rewritten'
         /\ \A op, z : z \in Twice(op) => z \in Twice(op)'
<1> USE DEF Grounds
<1>1. stale \subseteq stale' /\ \A q \in Requests : Begun(q) => Begun(q)'
  BY StaysBegun DEF Strides, Own, Bears
<1>2. ASSUME NEW u, NEW c, Misplaced(u, c)
      PROVE  Misplaced(u, c)'
  <2>1. PICK x \in Requests : /\ Op(x) = "updateProgress" /\ rows[x] # NONE
                              /\ By(x) = u /\ Place(x) = c /\ On(On(On(x))) # c
    BY <1>2 DEF Misplaced, Table
  <2>2. rows'[x] # NONE
    BY <2>1, LastingStays DEF Lasting, Schooled
  <2>3. QED
    BY <2>1, <2>2 DEF Misplaced, Table, Op, By, On, Place
<1>3. ASSUME NEW op, NEW z, z \in Twice(op)
      PROVE  z \in Twice(op)'
  <2>1. PICK q \in Requests, s \in Requests : /\ Op(q) = op /\ Op(s) = op /\ z = Learner(q)
                                              /\ Learner(s) = Learner(q) /\ Together(q, s)
    BY <1>3 DEF Twice
  <2>2. Together(q, s)'
    BY <2>1, StaysTogether
  <2>3. QED
    BY <2>1, <2>2 DEF Twice, Learner, Op, By, On
<1>4. QED
  BY <1>1, <1>2, <1>3 DEF Unsaved, Revived, Rewritten, Op, On

LEMMA ExceptedStays ==
  ASSUME Grounds, UNCHANGED call, NEW r \in Requests, ~Ended(r), Strides(r), Step(r),
         NEW x \in Requests, Excepted(x)
  PROVE  Excepted(x)'
<1>1. ASSUME NEW s \in Requests, Op(s) = "addLesson", Together(s, x)
      PROVE  Together(s, x)' /\ Op(s)' = "addLesson"
  BY <1>1, StaysTogether, SameCalls DEF Grounds
<1>2. On(x)' = On(x) /\ By(x)' = By(x)
  BY SameCalls
<1>3. QED
  BY <1>1, <1>2, ReasonsStay DEF Excepted
--------------------
\* What goes, goes with its course; only r's own row and a course appear.
LEMMA ComesAndGoes ==
  ASSUME Grounds, UNCHANGED call, NEW r \in Requests, ~Ended(r), Strides(r), Step(r),
         NEW x \in Requests, Op(x) \in Schooled
  PROVE  /\ rows[x] # NONE /\ rows'[x] = NONE =>
              /\ Erases(r, x) /\ On(r) \in Requests /\ Op(On(r)) = "createCourse"
              /\ rows'[On(r)] = NONE
              /\ Op(x) = "createCourse" => x = On(r)
              /\ Op(x) = "addChapter" => On(x) = On(r)
              /\ Op(x) = "addLesson" => CourseOf(x) = On(r)
         /\ rows[x] = NONE /\ rows'[x] # NONE =>
              x = r \/ (Op(x) = "createCourse" /\ Revived(x)')
<1>1. Changes(r, x)
  BY SchoolChanges DEF Grounds
<1>2. CASE rows[x] # NONE /\ rows'[x] = NONE
  BY <1>1, <1>2, ServicesAssumption, Curriculum DEF Changes, Revives, Alters, Grounds, Erases,
     Erased
<1>3. CASE rows[x] = NONE /\ rows'[x] # NONE
  BY <1>1, <1>3 DEF Changes, Revives, Alters, Erases
<1>4. QED
  BY <1>2, <1>3

\* r inserts its own row at the end.
LEMMA OwnRow ==
  ASSUME Grounds, UNCHANGED call, NEW r \in Requests, ~Ended(r), Strides(r), Step(r),
         Op(r) \in {"addChapter", "addLesson", "updateProgress", "checkAndGenerate",
                    "startAttempt"},
         rows[r] = NONE, rows'[r] # NONE
  PROVE  /\ pc'[r] = "ok"
         /\ Op(r) = "addChapter" => addChapter(r)
         /\ Op(r) = "addLesson" => addLesson(r)
         /\ Op(r) = "updateProgress" => SaveProgress(r) /\ target[r] = r
         /\ Op(r) = "checkAndGenerate" => InsertCertificate(r)
         /\ Op(r) = "startAttempt" => InsertAttempt(r)
<1>0. LocalsTyped /\ DOMAIN pc = Requests
  BY DEF Grounds, OnTheWay, LocalsTyped
<1>1. UNCHANGED rows => FALSE
  OBVIOUS
<1>2. CASE Op(r) = "addChapter"
  BY <1>0, <1>1, <1>2, LearnersSteps DEF Grounds, addChapter, Insert, Goto, recordVars
<1>3. CASE Op(r) = "addLesson"
  BY <1>0, <1>1, <1>3, LearnersSteps DEF Grounds, addLesson, Insert, Goto, recordVars
<1>4. CASE Op(r) = "updateProgress"
  BY <1>0, <1>1, <1>4, LearnersSteps DEF Grounds, FindProgress, FindPoints, awardXP, AwardFails,
     recordVars, SaveProgress, Save, Put, Goto, LocalsTyped
<1>5. CASE Op(r) = "checkAndGenerate"
  BY <1>0, <1>1, <1>5, LearnersSteps DEF Grounds, FindCertificate, CountLessons, CountCompleted,
     InsertCertificate, Goto, recordVars
<1>6. CASE Op(r) = "startAttempt"
  BY <1>0, <1>1, <1>6, LearnersSteps DEF Grounds, FindAssessment, Find, CountAttempts,
     InsertAttempt, Goto, recordVars
<1>7. QED
  BY <1>2, <1>3, <1>4, <1>5, <1>6

LEMMA StepLed ==
  ASSUME Grounds, UNCHANGED call, NEW r \in Requests, ~Ended(r), Strides(r), Step(r),
         NEW q \in Requests
  PROVE  Led(q)'
<1>0. Led(q) /\ Op(q)' = Op(q) /\ On(q)' = On(q) /\ pc'[r] # "idle"
  BY SameCalls, OthersStay DEF Grounds
<1>1. ASSUME Op(q) \in {"addChapter", "addLesson", "updateProgress", "checkAccess"},
             pc'[q] # "idle"
      PROVE  On(q) \in Requests /\ Ended(On(q))'
  <2>1. On(q) \in Requests /\ Ended(On(q))
    <3>1. CASE pc[q] # "idle"
      BY <1>0, <1>1, <3>1 DEF Led
    <3>2. CASE pc[q] = "idle"
      <4>1. q = r
        BY <1>1, <3>2, OthersStay
      <4>2. Began(r, Op(r)) /\ (Op(r) = "checkAccess" => On(r) # NONE)
        BY <1>1, <3>2, <4>1, LearnersSteps DEF Grounds, Fails, addChapter, addLesson, Insert,
           Began, FindLesson, Find, Live, FindEnrollment, FindCourse, FindPrevious,
           CheckPrevious, FindProgress, FindPoints, awardXP, AwardFails, SaveProgress
      <4>3. On(q) \in Requests
        BY <1>1, <4>1, <4>2, Curriculum DEF Grounds
      <4>4. QED
        BY <4>1, <4>2, <4>3, ServicesAssumption DEF Began
    <3>3. QED
      BY <3>1, <3>2
  <2>2. pc'[On(q)] = pc[On(q)]
    BY <2>1, OthersStay
  <2>3. QED
    BY <1>0, <2>1, <2>2 DEF Ended
<1>2. ASSUME Op(q) \in {"addChapter", "addLesson"}
      PROVE  pc'[q] \in {"idle", "ok"}
  <2>1. CASE q # r
    BY <1>0, <1>2, <2>1, OthersStay DEF Led
  <2>2. CASE q = r
    <3>1. pc[r] = "idle"
      BY <1>0, <1>2, <2>2 DEF Led, Ended
    <3>2. addChapter(r) \/ addLesson(r)
      BY <1>2, <2>2, <3>1, LearnersSteps DEF Grounds, Fails
    <3>3. QED
      BY <2>2, <3>2 DEF addChapter, addLesson, Insert, Goto, Grounds, OnTheWay, LocalsTyped
  <2>3. QED
    BY <2>1, <2>2
<1>3. ASSUME Op(q) \in {"addLesson", "updateProgress", "checkAndGenerate", "startAttempt"},
             rows'[q] # NONE
      PROVE  pc'[q] = "ok"
  BY <1>0, <1>3, OthersStay, ComesAndGoes, OwnRow DEF Led, Ended, Schooled
<1>4. ASSUME Op(q) = "checkAndGenerate", pc'[q] # "idle", On(q) # NONE
      PROVE  Ended(On(q))'
  <2>1. On(q) \in Requests
    BY <1>4, Curriculum DEF Grounds
  <2>2. Ended(On(q))
    <3>1. CASE pc[q] # "idle"
      BY <1>0, <1>4, <3>1 DEF Led
    <3>2. CASE pc[q] = "idle"
      BY <1>4, <3>2, OthersStay, LearnersSteps DEF Grounds, Fails, CountLessons, CountCompleted,
         InsertCertificate, FindCertificate, Began
    <3>3. QED
      BY <3>1, <3>2
  <2>3. pc'[On(q)] = pc[On(q)]
    BY <2>1, <2>2, OthersStay
  <2>4. QED
    BY <1>0, <2>1, <2>2, <2>3 DEF Ended
<1>5. QED
  BY <1>0, <1>1, <1>2, <1>3, <1>4 DEF Led

LEMMA StepSeated ==
  ASSUME Grounds, UNCHANGED call, NEW r \in Requests, ~Ended(r), Strides(r), Step(r),
         NEW x \in Requests
  PROVE  Seated(x)'
<1>0. Seated(x) /\ Op(x)' = Op(x) /\ On(x)' = On(x) /\ CourseOf(x)' = CourseOf(x)
      /\ OnTheWay
  BY DEF Grounds, CourseOf, Op, On
<1> USE <1>0
<1>n. NONE \notin Requests
  BY ServicesAssumption
<1>1. ASSUME Op(x) \in {"addChapter", "addLesson"}, rows'[x] # NONE
      PROVE  rows'[On(x)] # NONE
  <2>1. On(x) \in Requests /\ Op(On(x)) \in {"createCourse", "addChapter"}
        /\ (Op(x) = "addLesson" => Op(On(x)) = "addChapter")
    BY <1>1, Curriculum
  <2>2. rows[On(x)] # NONE
    BY <1>1, ComesAndGoes, OwnRow DEF Seated, Live, Schooled, addChapter, addLesson
  <2>3. ASSUME rows'[On(x)] = NONE
        PROVE  FALSE
    BY <2>1, <2>2, <2>3, <1>1, ComesAndGoes, Curriculum DEF Schooled, Erased, CourseOf,
       Erases
  <2>4. QED
    BY <2>3
<1>2. ASSUME NEW c, c = CourseOf(x), Op(x) = "addLesson", pc'[x] = "ok", rows'[c] # NONE,
             rows'[x] = NONE
      PROVE  Revived(c)'
  <2>1. c \in Requests /\ Op(c) = "createCourse" /\ On(x) \in Requests
        /\ Op(On(x)) = "addChapter"
    BY <1>2, Curriculum
  <2>2. CASE x = r
    <3>1. addLesson(r)
      BY <1>2, <2>2, LearnersSteps DEF Grounds, Fails, Goto, OnTheWay, LocalsTyped
    <3>2. rows'[r] = [chapter |-> On(r), order |-> call[r].no, preview |-> Arg(r) = "PREVIEW"]
      BY <3>1 DEF addLesson, Insert, Put, Grounds, OnTheWay, LocalsTyped
    <3>3. rows'[r] \in LessonRows
      BY <2>1, <2>2, <3>2, BodiesTyped DEF LessonRows, OnTheWay
    <3>4. QED
      BY <1>2, <2>2, <3>3, ServicesAssumption DEF Rows
  <2>3. CASE x # r /\ rows[c] # NONE
    BY <1>2, <2>3, OthersStay, ComesAndGoes, ReasonsStay DEF Seated, Schooled
  <2>4. CASE x # r /\ rows[c] = NONE
    BY <1>2, <2>4, <2>1, OthersStay, ComesAndGoes DEF Grounds, Led, Ended, CourseOf, Schooled
  <2>5. QED
    BY <2>2, <2>3, <2>4
<1>3. Live(On(x))' <=> On(x) # NONE /\ rows'[On(x)] # NONE
  BY DEF Live
<1>4. Op(x) \in {"addChapter", "addLesson"} => On(x) # NONE
  BY <1>n, Curriculum
<1>5. Revived(CourseOf(x))' <=> \E c : c = CourseOf(x) /\ Revived(c)'
  BY DEF Revived
<1>6. QED
  BY <1>1, <1>2, <1>3, <1>4, <1>5 DEF Seated
--------------------
\* Progress and certificates
LEMMA StepOneProgress ==
  ASSUME Grounds, OneProgress, UNCHANGED call, NEW r \in Requests, ~Ended(r), Strides(r), Step(r)
  PROVE  OneProgress'
<1>1. ASSUME NEW x \in Requests, NEW y \in Requests, Op(x) = "updateProgress",
             Op(y) = "updateProgress", By(x) = By(y), On(x) = On(y), x # y,
             rows'[x] # NONE, rows'[y] # NONE, rows[y] # NONE
      PROVE  FALSE
  <2>1. rows[x] = NONE
    BY <1>1 DEF OneProgress, Table
  <2>2. x = r
    BY <1>1, <2>1, ComesAndGoes DEF Schooled
  <2>3. SaveProgress(r) /\ target[r] = r
    BY <1>1, <2>1, <2>2, OwnRow
  <2>4. y \in ProgressOn(On(r), By(r))
    BY <1>1, <2>2 DEF ProgressOn, Table, Grounds, RowsMeant, Meant
  <2>5. QED
    BY <1>1, <2>2, <2>3, <2>4 DEF SaveProgress
<1>2. ASSUME NEW x \in Requests, NEW y \in Requests, Op(x) = "updateProgress",
             Op(y) = "updateProgress", By(x) = By(y), On(x) = On(y), x # y,
             rows'[x] # NONE, rows'[y] # NONE
      PROVE  FALSE
  BY <1>2, <1>1, ComesAndGoes DEF Schooled
<1>3. QED
  BY <1>2 DEF OneProgress, Table, Op, By, On

\* Who begins now was together with those that are on their way.
LEMMA MeetsAtStart ==
  ASSUME OnTheWay, Timely, UNCHANGED call, NEW r \in Requests, Strides(r), pc[r] = "idle",
         NEW y \in Requests \ {r}, pc[y] \notin {"idle", "ok"}
  PROVE  Together(r, y)' /\ Together(y, r)'
<1>1. ~Made(r) /\ ~Made(y) /\ r \notin before[y]
  BY DEF Timely
<1>2. pc'[r] # "idle" /\ pc'[y] = pc[y] /\ y \notin before'[r] /\ before'[y] = before[y]
  BY DEF Strides, Own, Paces
<1>3. Made(r)' = Made(r) /\ Made(y)' = Made(y)
  BY SameCalls
<1>4. QED
  BY <1>1, <1>2, <1>3 DEF Together, Begun, Overlap

LEMMA StepOneCertificate ==
  ASSUME Grounds, OneCertificate, UNCHANGED call, NEW r \in Requests, ~Ended(r), Strides(r),
         Step(r)
  PROVE  OneCertificate'
<1>0. /\ \A q \in Requests : Op(q)' = Op(q) /\ Learner(q)' = Learner(q)
      /\ OnTheWay /\ Timely
  BY DEF Op, Learner, By, On, Grounds
<1>1. ASSUME NEW x \in Requests, Asking(x)', ~Asking(x)
      PROVE  x = r /\ pc[r] = "idle" /\ FindCertificate(r) /\ Certificates(On(r), By(r)) = {}
  <2>1. Op(x) = "checkAndGenerate"
    BY <1>0, <1>1 DEF Asking
  <2>2. CASE rows[x] # NONE
    BY <1>1, <2>1, <2>2 DEF Asking
  <2>3. CASE rows[x] = NONE /\ rows'[x] # NONE
    BY <2>1, <2>3, <1>1, ComesAndGoes, OwnRow DEF Schooled, Asking, InsertCertificate
  <2>4. CASE rows[x] = NONE /\ rows'[x] = NONE
    BY <1>0, <1>1, <2>1, <2>4, OthersStay, LearnersSteps DEF Asking, Fails, Goto, Grounds,
       OnTheWay, LocalsTyped, CountLessons, CountCompleted, InsertCertificate, FindCertificate,
       Began
  <2>5. QED
    BY <2>2, <2>3, <2>4
<1>2. ASSUME NEW x \in Requests, NEW y \in Requests, Asking(x)', Asking(y)',
             Learner(x) = Learner(y), x # y
      PROVE  Together(x, y)'
  <2>1. CASE Asking(x) /\ Asking(y)
    BY <1>0, <1>2, <2>1, StaysTogether DEF OneCertificate
  <2>2. ASSUME NEW z \in Requests, Asking(z), Learner(z) = Learner(r), z # r, pc[r] = "idle",
               Certificates(On(r), By(r)) = {}
        PROVE  Together(r, z)' /\ Together(z, r)'
    BY <2>2, <1>0, MeetsAtStart DEF Asking, Grounds, RowsMeant, Meant, Learner, Certificates,
       Table
  <2>3. QED
    BY <1>0, <1>1, <1>2, <2>1, <2>2
<1>3. QED
  BY <1>0, <1>2 DEF OneCertificate
--------------------
\* Attempts
LEMMA MeetOnTheWay ==
  ASSUME OnTheWay, Timely, NEW x \in Requests, NEW y \in Requests \ {x},
         pc[x] \notin {"idle", "ok"}, pc[y] \notin {"idle", "ok"}
  PROVE  Together(x, y)
BY DEF Timely, Together, Begun, Overlap

\* Who counts an attempt counts what was made and allows one more, unless
\* another is about to be made.
LEMMA AttemptCounted ==
  ASSUME Grounds, UNCHANGED call, NEW r \in Requests, ~Ended(r), Strides(r), CountAttempts(r),
         NEW z \in Requests, NEW u \in People, On(r) = z, By(r) = u, Op(r) = "startAttempt",
         Op(z) = "assess", NEW W, W \subseteq Attempting(z, u) \cup {r}
  PROVE  Cardinality(W) <= call[z].no \/ <<u, z>> \in Twice("startAttempt")
<1>0. OnTheWay /\ Timely /\ call \in Plans
  BY DEF Grounds, OnTheWay
<1> DEFINE A == AttemptsAt(z, u)
<1>1. pc[r] = "count_attempts" /\ target[r] = z /\ Cardinality(A) < seen[r].attempts
  BY <1>0 DEF CountAttempts, OnTheWay, Grips, Finders
<1>2. seen[r] # NONE
  BY <1>1 DEF Grounds, RowsTyped, Facing, Finders
<1>3. seen[r].attempts = call[z].no
  BY <1>1, <1>2 DEF Grounds, RowsMeant, Meant, LearningCalls, AssessmentOps
<1>4. CASE \E y \in Attempting(z, u) \ {r} : rows[y] = NONE
  <2>1. PICK y \in Requests \ {r} : /\ Op(y) = "startAttempt" /\ On(y) = z /\ By(y) = u
                                    /\ pc[y] = "insert_attempt"
    BY <1>4 DEF Attempting
  <2>2. Together(r, y)
    BY <1>0, <1>1, <2>1, MeetOnTheWay
  <2>3. QED
    BY <2>1, <2>2 DEF Twice, Learner
<1>5. CASE \A y \in Attempting(z, u) \ {r} : rows[y] # NONE
  <2>1. ASSUME NEW y \in W, y # r
        PROVE  y \in A
    <3>1. /\ y \in Requests /\ rows[y] # NONE
          /\ Op(y) = "startAttempt" /\ On(y) = z /\ By(y) = u
      BY <1>5, <2>1 DEF Attempting
    <3>2. rows[y].user = By(y) /\ rows[y].assessment = On(y)
      BY <3>1 DEF Grounds, RowsMeant, Meant
    <3>3. QED
      BY <3>1, <3>2 DEF AttemptsAt, Table
  <2>2. IsFiniteSet(A)
    BY ServicesAssumption, FS_Subset DEF AttemptsAt, Table
  <2> HIDE DEF A
  <2>3. /\ IsFiniteSet(A \cup {r}) /\ Cardinality(A) \in Nat
        /\ Cardinality(A \cup {r}) \in {Cardinality(A), Cardinality(A) + 1}
    BY <2>2, FS_AddElement, FS_CardinalityType
  <2>4. Cardinality(W) <= Cardinality(A \cup {r}) /\ Cardinality(W) \in Nat
    BY <2>1, <2>3, FS_Subset, FS_CardinalityType
  <2>5. call[z].no \in Nat
    BY <1>0, BodiesTyped
  <2>6. QED
    BY <1>1, <1>3, <2>3, <2>4, <2>5
<1>6. QED
  BY <1>4, <1>5

LEMMA StepFewAttempts ==
  ASSUME Grounds, FewAttempts, UNCHANGED call, NEW r \in Requests, ~Ended(r), Strides(r), Step(r)
  PROVE  FewAttempts'
<1>0. \A q \in Requests : Op(q)' = Op(q) /\ On(q)' = On(q) /\ By(q)' = By(q)
  BY SameCalls
<1>1. ASSUME NEW z \in Requests, NEW u \in People, Op(z) = "assess",
             NEW W, W = Attempting(z, u)'
      PROVE  Cardinality(W) <= call[z].no \/ <<u, z>> \in Twice("startAttempt")
  <2>1. CASE W \subseteq Attempting(z, u)
    <3>1. IsFiniteSet(Attempting(z, u))
      BY ServicesAssumption, FS_Subset DEF Attempting
    <3>2. Cardinality(W) <= Cardinality(Attempting(z, u)) /\ Cardinality(W) \in Nat
          /\ Cardinality(Attempting(z, u)) \in Nat
      BY <2>1, <3>1, FS_Subset, FS_CardinalityType
    <3>3. call[z].no \in Nat
      BY BodiesTyped DEF Grounds, OnTheWay
    <3>4. QED
      BY <1>1, <3>2, <3>3 DEF FewAttempts
  <2>2. CASE ~(W \subseteq Attempting(z, u))
    <3>1. ASSUME NEW x \in Requests, x \in W, x \notin Attempting(z, u)
          PROVE  /\ x = r /\ CountAttempts(r)
                 /\ Op(r) = "startAttempt" /\ On(r) = z /\ By(r) = u
      <4>1. Op(x) = "startAttempt" /\ On(x) = z /\ By(x) = u /\ rows[x] = NONE
            /\ pc[x] # "insert_attempt" /\ (rows'[x] # NONE \/ pc'[x] = "insert_attempt")
        BY <1>0, <1>1, <3>1 DEF Attempting
      <4>2. rows'[x] = NONE
        BY <4>1, ComesAndGoes, OwnRow DEF Schooled, InsertAttempt
      <4>3. x = r /\ pc'[r] = "insert_attempt"
        BY <4>1, <4>2, OthersStay
      <4>4. ~Fails(r) /\ ~FindAssessment(r) /\ ~InsertAttempt(r)
        BY <4>1, <4>3 DEF Fails, FindAssessment, Find, InsertAttempt, Goto, Grounds, OnTheWay,
           LocalsTyped
      <4>5. QED
        BY <4>1, <4>3, <4>4, LearnersSteps DEF Grounds
    <3>2. W \subseteq Requests
      BY <1>1 DEF Attempting
    <3>3. QED
      BY <1>1, <2>2, <3>1, <3>2, AttemptCounted
  <2>3. QED
    BY <2>1, <2>2
<1>2. ASSUME NEW z \in Requests, NEW u \in People, Op(z) = "assess"
      PROVE  Cardinality(Attempting(z, u)') <= call[z].no \/ <<u, z>> \in Twice("startAttempt")'
  BY <1>1, <1>2, ReasonsStay
<1>3. QED
  BY <1>0, <1>2 DEF FewAttempts
--------------------
\* An attempt that is there stays, and stays completed.
LEMMA AttemptStays ==
  ASSUME Grounds, UNCHANGED call, NEW r \in Requests, ~Ended(r), Strides(r), Step(r),
         NEW z \in Requests, Op(z) = "startAttempt", rows[z] # NONE
  PROVE  /\ rows'[z] # NONE /\ rows'[z].user = By(z)
         /\ \/ rows'[z] = rows[z]
            \/ /\ rows'[z].status = "COMPLETED"
               /\ Op(r) = "submitAssessment" /\ pc[r] = "save_attempt" /\ z = On(r)
<1>1. rows'[z] # NONE
  BY LastingStays DEF Grounds, Lasting, Schooled
<1>2. Changes(r, z) /\ Meant(z, rows'[z])
  BY <1>1, SchoolChanges DEF Grounds, Schooled
<1>3. z # r
  BY DEF Grounds, Led, Ended
<1>4. QED
  BY <1>1, <1>2, <1>3 DEF Changes, Erases, Revives, Alters, Meant, Erased

\* The steps of a submission
LEMMA Submits ==
  ASSUME Grounds, AnswersHeld, UNCHANGED call, NEW r \in Requests, ~Ended(r), Strides(r), Step(r),
         Op(r) = "submitAssessment"
  PROVE  /\ pc'[r] # "idle"
         /\ On(r) \in Requests /\ rows'[On(r)] # NONE /\ By(On(r)) = By(r)
         /\ pc'[r] = "save_attempt" => rows'[r] # NONE
         /\ pc'[r] = "ok" => rows'[On(r)].status = "COMPLETED"
         /\ \A q \in before'[r] : Op(q) = "submitAssessment" => On(q) # On(r)
<1>0. LocalsTyped /\ OnTheWay /\ Submitting(r) /\ pc'[r] # "idle"
  BY OthersStay DEF Grounds, OnTheWay, AnswersHeld
<1>1. CASE pc[r] = "idle"
  <2>1. FindAttempt(r)
    BY <1>0, <1>1, LearnersSteps DEF Fails, FindQuestions, InsertSubmission, SaveAttempt
  <2>2. /\ On(r) \in Requests /\ rows[On(r)] # NONE /\ Op(On(r)) = "startAttempt"
        /\ rows[On(r)].user = By(r) /\ rows[On(r)].status = "IN_PROGRESS"
        /\ pc'[r] = "find_questions" /\ UNCHANGED rows
        /\ before'[r] = {s \in Requests : pc[s] = "ok"}
    BY <1>0, <1>1, <2>1, Curriculum DEF FindAttempt, Find, Live, Goto, recordVars, LocalsTyped
  <2>3. rows[On(r)].user = By(On(r))
    BY <2>2 DEF Grounds, RowsMeant, Meant
  <2>4. ASSUME NEW q \in before'[r], Op(q) = "submitAssessment"
        PROVE  On(q) # On(r)
    BY <2>2, <2>4 DEF AnswersHeld, Submitting
  <2>5. QED
    BY <2>2, <2>3, <2>4
<1>2. CASE pc[r] # "idle"
  <2>1. On(r) \in Requests /\ rows[On(r)] # NONE /\ By(On(r)) = By(r)
        /\ Op(On(r)) = "startAttempt"
    BY <1>0, <1>2, Curriculum, ServicesAssumption DEF Submitting
  <2>2. rows'[On(r)] # NONE /\ before'[r] = before[r]
    BY <1>2, <2>1, AttemptStays DEF Strides, Own, Paces
  <2>3. ASSUME pc'[r] = "save_attempt" PROVE rows'[r] # NONE
    BY <1>0, <1>2, <2>3, <2>1, LearnersSteps, ServicesAssumption DEF Fails, FindAttempt, Began,
       FindQuestions, SaveAttempt, Save, Goto, LocalsTyped, InsertSubmission, Put, OnTheWay,
       Grips, Finders, SubmissionRows, Rows
  <2>4. ASSUME pc'[r] = "ok" PROVE rows'[On(r)].status = "COMPLETED"
    BY <1>0, <1>2, <2>4, <2>1, LearnersSteps, LearningTargets DEF Fails, FindAttempt, Began,
       FindQuestions, InsertSubmission, Goto, LocalsTyped, SaveAttempt, Grounds, Save, Put,
       AttemptRows
  <2>5. QED
    BY <1>0, <1>2, <2>1, <2>2, <2>3, <2>4 DEF Submitting
<1>3. QED
  BY <1>0, <1>1, <1>2

LEMMA StepAnswersHeld ==
  ASSUME Grounds, AnswersHeld, UNCHANGED call, NEW r \in Requests, ~Ended(r), Strides(r), Step(r)
  PROVE  AnswersHeld'
<1>1. ASSUME NEW s \in Requests, Op(s) = "submitAssessment"
      PROVE  /\ pc'[s] # "idle" => On(s) \in Requests /\ rows'[On(s)] # NONE /\ By(On(s)) = By(s)
             /\ rows'[s] # NONE => pc'[s] # "idle"
             /\ pc'[s] = "save_attempt" => rows'[s] # NONE
             /\ pc'[s] = "ok" => rows'[On(s)].status = "COMPLETED"
             /\ \A q \in before'[s] : Op(q) = "submitAssessment" => On(q) # On(s)
  BY <1>1, Submits, OthersStay, ComesAndGoes, LastingStays, Curriculum, ServicesAssumption,
     AttemptStays DEF AnswersHeld, Grounds, Schooled, Lasting, Submitting
<1>2. ASSUME NEW z \in Requests, Op(z) = "startAttempt", rows'[z] # NONE,
             rows'[z].status = "COMPLETED"
      PROVE  \E s \in Requests : Op(s) = "submitAssessment" /\ On(s) = z /\ rows'[s] # NONE
  BY <1>2, ComesAndGoes, OwnRow, AttemptStays, LastingStays DEF Schooled, InsertAttempt, Put,
     Grounds, OnTheWay, LocalsTyped, AnswersHeld, Answered, Submitting, Lasting
<1>3. ASSUME NEW s \in Requests PROVE Submitting(s)'
  BY <1>1, <1>3 DEF Submitting, Op, On, By
<1>4. ASSUME NEW z \in Requests PROVE Answered(z)'
  BY <1>2, <1>4 DEF Answered, Op, On
<1>5. QED
  BY <1>3, <1>4 DEF AnswersHeld
--------------------
\* The sets of the services, by what the calls have asked for
LEMMA LessonsMeant ==
  ASSUME Grounds, NEW l \in Requests, NEW c
  PROVE  l \in LessonsOf(c) <=> Op(l) = "addLesson" /\ rows[l] # NONE /\ CourseOf(l) = c
<1>1. ASSUME Op(l) = "addLesson", rows[l] # NONE
      PROVE  /\ rows[l].chapter = On(l) /\ On(l) \in Requests /\ Op(On(l)) = "addChapter"
             /\ rows[On(l)] # NONE
  BY <1>1, Curriculum DEF Grounds, RowsMeant, Meant, Seated, Live
<1>2. ASSUME Op(l) = "addLesson", rows[l] # NONE
      PROVE  rows[On(l)].course = On(On(l))
  BY <1>1, <1>2 DEF Grounds, RowsMeant, Meant
<1>3. QED
  BY <1>1, <1>2 DEF LessonsOf, ChaptersOf, Table, CourseOf

LEMMA ProgressMeant ==
  ASSUME Grounds, NEW l, NEW u
  PROVE  Done(l, u) <=> Finished(l, u)
<1>1. ASSUME NEW p \in Requests, Op(p) = "updateProgress", rows[p] # NONE
      PROVE  rows[p].user = By(p) /\ rows[p].lesson = On(p)
  BY <1>1 DEF Grounds, RowsMeant, Meant
<1>2. QED
  BY <1>1 DEF Done, Finished, ProgressOn, Table

LEMMA PreviousMeant ==
  ASSUME Grounds, NEW r \in Requests, Op(r) = "checkAccess", target[r] = On(r), seen[r] # NONE,
         On(r) \in Requests, NEW x
  PROVE  x \in Previous(r) <=> x \in Requests /\ Earlier(x, r)
<1>1. Op(On(r)) = "addLesson"
  BY Curriculum, ServicesAssumption DEF Grounds
<1>2. seen[r].chapter = On(On(r))
  BY <1>1 DEF Grounds, RowsMeant, Meant, LearningCalls, PlayerOps
<1>3. ASSUME x \in Requests, Op(x) = "addLesson", rows[x] # NONE
      PROVE  rows[x].chapter = On(x)
  BY <1>3 DEF Grounds, RowsMeant, Meant
<1>4. QED
  BY <1>2, <1>3 DEF Previous, Table, Earlier

\* What was completed stays so, unless it is saved over.
LEMMA FinishedStays ==
  ASSUME Grounds, UNCHANGED call, NEW r \in Requests, ~Ended(r), Strides(r), Step(r),
         NEW l, NEW u, Finished(l, u)
  PROVE  Finished(l, u)' \/ Unsaved'
<1>1. PICK p \in Requests : /\ Op(p) = "updateProgress" /\ rows[p] # NONE
                            /\ On(p) = l /\ By(p) = u /\ rows[p].done
  BY DEF Finished
<1>2. rows'[p] # NONE /\ Changes(r, p)
  BY <1>1, LastingStays, SchoolChanges DEF Grounds, Lasting, Schooled
<1>3. p # r
  BY <1>1 DEF Grounds, Led, Ended
<1>4. rows'[p].done \/ Unsaved'
  BY <1>1, <1>2, <1>3 DEF Changes, Erases, Revives, Alters
<1>5. QED
  BY <1>1, <1>2, <1>4 DEF Finished, Op, On, By

\* A lesson that is gone does not come back.
LEMMA LessonGone ==
  ASSUME Grounds, UNCHANGED call, NEW r \in Requests, ~Ended(r), Strides(r), Step(r),
         NEW l \in Requests, Op(l) = "addLesson", Ended(l), rows[l] = NONE
  PROVE  rows'[l] = NONE
BY ComesAndGoes, OthersStay DEF Schooled

\* The lessons before one stay, as long as it does and the curriculum.
LEMMA EarlierStays ==
  ASSUME Grounds, UNCHANGED call, NEW r \in Requests, ~Ended(r), Strides(r), Step(r),
         NEW q \in Requests, Op(q) = "checkAccess", seen'[q] = seen[q], On(q) \in Requests,
         ~Rewritten', rows'[On(q)] # NONE, NEW x \in Requests
  PROVE  Earlier(x, q)' <=> Earlier(x, q)
<1>1. /\ Op(x)' = Op(x) /\ On(x)' = On(x) /\ On(On(q))' = On(On(q))
      /\ Op(On(q)) = "addLesson"
  BY Curriculum, ServicesAssumption DEF Op, On, Grounds
<1>2. Op(r) \notin {"addLesson", "reorderLessons"}
  BY SameCalls, OthersStay DEF Grounds, Timely, Ended, Rewritten, Begun
<1>3. CASE Op(x) = "addLesson" /\ On(x) = On(On(q)) /\ rows'[x] # rows[x]
  BY <1>2, <1>3, <1>1, SchoolChanges, ComesAndGoes DEF Grounds, Schooled, Changes, Revives,
     Alters, Erases, Erased, CourseOf
<1>4. CASE ~(Op(x) = "addLesson" /\ On(x) = On(On(q))) \/ rows'[x] = rows[x]
  BY <1>1, <1>4 DEF Earlier
<1>5. QED
  BY <1>3, <1>4

LEMMA GrantedStays ==
  ASSUME Grounds, UNCHANGED call, NEW r \in Requests, ~Ended(r), Strides(r), Step(r),
         NEW q \in Requests, Op(q) = "checkAccess", pc[q] # "idle", seen'[q] = seen[q], Granted(q)
  PROVE  Granted(q)'
<1>1. /\ On(q) \in Requests /\ Ended(On(q)) /\ Op(On(q)) = "addLesson"
      /\ On(q)' = On(q) /\ By(q)' = By(q) /\ Arg(On(q))' = Arg(On(q))
      /\ Arg(CourseOf(On(q)))' = Arg(CourseOf(On(q)))
  BY Curriculum, ServicesAssumption DEF Grounds, Led, On, By, Arg, CourseOf
<1>2. CASE Rewritten \/ Unsaved
  BY <1>2, ReasonsStay DEF Granted
<1>3. CASE rows[On(q)] = NONE
  BY <1>1, <1>3, LessonGone DEF Granted
<1>4. CASE Arg(On(q)) = "PREVIEW" \/ Arg(CourseOf(On(q))) # "STRICT"
  BY <1>1, <1>4 DEF Granted
<1>5. CASE ~Rewritten' /\ rows'[On(q)] # NONE /\ \A x \in Requests : ~Earlier(x, q)
  BY <1>1, <1>5, EarlierStays DEF Granted
<1>6. CASE /\ ~Rewritten' /\ rows'[On(q)] # NONE
           /\ \E x \in Requests : Earlier(x, q) /\ Finished(x, By(q))
  <2>1. PICK x \in Requests : Earlier(x, q) /\ Finished(x, By(q))
    BY <1>6
  <2>2. Earlier(x, q)'
    BY <1>1, <1>6, <2>1, EarlierStays
  <2>3. PICK u : u = By(q)
    OBVIOUS
  <2>4. Finished(x, u)' \/ Unsaved'
    BY <2>1, <2>3, FinishedStays
  <2>5. By(q)' = u
    BY <1>1, <2>3
  <2>6. Finished(x, By(q))' \/ Unsaved'
    BY <2>4, <2>5 DEF Finished
  <2>7. QED
    BY <2>2, <2>6 DEF Granted
<1>7. QED
  BY <1>1, <1>2, <1>3, <1>4, <1>5, <1>6 DEF Granted
--------------------
\* Each step of who asks for a lesson
LEMMA AccessSteps ==
  ASSUME Grounds, UNCHANGED call, NEW r \in Requests, ~Ended(r), Strides(r), Step(r),
         Op(r) = "checkAccess", Access(r)
  PROVE  Access(r)'
<1>0. LocalsTyped /\ OnTheWay
  BY DEF Grounds, OnTheWay
<1> USE <1>0
<1>1. Led(r)' /\ pc'[r] # "idle" /\ Op(r)' = Op(r) /\ On(r)' = On(r) /\ By(r)' = By(r)
  BY StepLed, OthersStay, SameCalls
<1>2. /\ On(r) \in Requests /\ Op(On(r)) = "addLesson" /\ On(On(r)) \in Requests
      /\ CourseOf(On(r)) \in Requests /\ Op(CourseOf(On(r))) = "createCourse"
      /\ Arg(On(r))' = Arg(On(r)) /\ CourseOf(On(r))' = CourseOf(On(r))
      /\ Arg(CourseOf(On(r)))' = Arg(CourseOf(On(r)))
  BY <1>1, SameCalls, Curriculum, ServicesAssumption DEF Led, CourseOf, On, Arg
<1>3. UNCHANGED rows
  BY LearnersSteps DEF FindLesson, Find, FindEnrollment, FindCourse, FindPrevious,
     CheckPrevious, recordVars
<1>4. CASE Fails(r)
  BY <1>4, <1>1 DEF Fails, Goto, LocalsTyped, locals, Access
<1>5. CASE FindLesson(r)
  BY <1>5, <1>2, <1>1 DEF FindLesson, Find, Live, Reads, Goto, LocalsTyped, Grounds,
     RowsMeant, Meant, Granted, Access
<1>6. CASE FindEnrollment(r)
  BY <1>6, <1>2, <1>1, LessonsMeant DEF FindEnrollment, Hold, Goto, LocalsTyped, locals,
     Access
<1>7. CASE FindCourse(r)
  <2> DEFINE c == CourseOf(On(r))
  <2>1. /\ target'[r] = target[r] /\ seen'[r] = seen[r] /\ pc[r] = "find_course"
        /\ pc'[r] = IF Live(c) /\ rows[c].strict THEN "find_previous" ELSE "ok"
    BY <1>7 DEF FindCourse, Goto, LocalsTyped, locals, Access
  <2>2. rows[On(r)] # NONE => Live(c)
    BY <1>2, Curriculum, ServicesAssumption DEF Grounds, Seated, Live, CourseOf
  <2>3. Live(c) /\ ~rows[c].strict => Arg(c) # "STRICT"
    BY <1>2 DEF Grounds, RowsMeant, Meant, Live
  <2>4. pc'[r] = "ok" => Granted(r)'
    BY <1>1, <1>2, <1>3, <2>1, <2>2, <2>3 DEF Granted
  <2>5. QED
    BY <1>1, <2>1, <2>4 DEF Access
<1>8. CASE FindPrevious(r)
  <2>1. /\ target'[r] = target[r] /\ seen'[r] = seen[r] /\ pc[r] = "find_previous"
        /\ target[r] = On(r) /\ seen[r] # NONE
        /\ \/ pc'[r] = "ok" /\ Previous(r) = {}
           \/ pc'[r] = "find_progress" /\ held'[r] \in Previous(r)
    BY <1>8 DEF FindPrevious, Hold, Goto, LocalsTyped, locals, Access
  <2>2. \A x \in Requests : Earlier(x, r) <=> x \in Previous(r)
    BY <1>2, <2>1, PreviousMeant
  <2>3. \A x \in Requests : Earlier(x, r)' <=> Earlier(x, r)
    BY <1>2, <1>3, <2>1 DEF Earlier, Op, On
  <2>4. pc'[r] = "ok" => Granted(r)'
    BY <2>1, <2>2, <2>3 DEF Granted
  <2>5. ASSUME NEW h, h = held'[r], pc'[r] = "find_progress"
        PROVE  h \in Requests /\ Earlier(h, r)'
    BY <2>1, <2>2, <2>3, <2>5 DEF Previous, Table
  <2>6. pc'[r] = "find_progress" => held'[r] \in Requests /\ Earlier(held[r], r)'
    BY <2>5 DEF Earlier
  <2>7. QED
    BY <1>1, <2>1, <2>4, <2>6 DEF Access
<1>9. CASE CheckPrevious(r)
  BY <1>9, <1>1, ProgressMeant, GrantedStays DEF CheckPrevious, Goto, LocalsTyped, locals,
     Access, Done, Granted
<1>10. QED
  BY <1>4, <1>5, <1>6, <1>7, <1>8, <1>9, LearnersSteps DEF Grounds

LEMMA StepAccess ==
  ASSUME Grounds, UNCHANGED call, NEW r \in Requests, ~Ended(r), Strides(r), Step(r),
         NEW q \in Requests, Access(q)
  PROVE  Access(q)'
<1>1. CASE Op(q) # "checkAccess" \/ pc'[q] = "idle"
  BY <1>1, SameCalls DEF Access
<1>2. CASE q = r /\ Op(q) = "checkAccess"
  BY <1>2, AccessSteps
<1>3. CASE q # r /\ Op(q) = "checkAccess" /\ pc'[q] # "idle"
  <2>1. pc'[q] = pc[q] /\ target'[q] = target[q] /\ seen'[q] = seen[q] /\ held'[q] = held[q]
    BY <1>3, OthersStay
  <2>2. On(q) \in Requests /\ Ended(On(q)) /\ Op(On(q)) = "addLesson"
    BY <1>3, <2>1, Curriculum, ServicesAssumption DEF Grounds, Led
  <2>3. On(q)' = On(q) /\ CourseOf(On(q))' = CourseOf(On(q)) /\ Op(q)' = Op(q)
    BY DEF On, CourseOf, Op
  <2>4. pc[q] = "ok" => Granted(q)'
    BY <1>3, <2>1, GrantedStays DEF Access
  <2>5. ASSUME pc[q] = "find_progress"
        PROVE  \/ Rewritten' \/ rows'[On(q)] = NONE
               \/ held'[q] \in Requests /\ Earlier(held[q], q)'
    <3>1. CASE Rewritten \/ rows[On(q)] = NONE
      BY <2>2, <3>1, ReasonsStay, LessonGone
    <3>2. CASE held[q] \in Requests /\ Earlier(held[q], q)
      <4>1. PICK h \in Requests : h = held[q] /\ Earlier(h, q)
        BY <3>2
      <4>2. Rewritten' \/ rows'[On(q)] = NONE \/ Earlier(h, q)'
        BY <1>3, <2>1, <2>2, <4>1, EarlierStays
      <4>3. QED
        BY <2>1, <4>1, <4>2 DEF Earlier
    <3>3. QED
      BY <1>3, <2>1, <2>5, <3>1, <3>2 DEF Access
  <2>6. QED
    BY <1>3, <2>1, <2>3, <2>4, <2>5 DEF Access
<1>4. QED
  BY <1>1, <1>2, <1>3
--------------------
\* The lessons of a course that is there are the same, or one was added meanwhile.
LEMMA LessonsStay ==
  ASSUME Grounds, UNCHANGED call, NEW r \in Requests, ~Ended(r), Strides(r), Step(r),
         NEW x \in Requests \ {r}, pc[x] \notin {"idle", "ok"}, Live(On(x)), Live(On(x))',
         ~Excepted(x)'
  PROVE  Lessons(On(x))' = Lessons(On(x))
<1>0. On(x) # NONE /\ rows[On(x)] # NONE /\ rows'[On(x)] # NONE
  BY SameCalls DEF Live
<1>1. ASSUME NEW l \in Requests, Op(l) = "addLesson", CourseOf(l) = On(x)
      PROVE  rows'[l] # NONE <=> rows[l] # NONE
  <2>1. CASE rows[l] # NONE /\ rows'[l] = NONE
    BY <1>0, <1>1, <2>1, ComesAndGoes DEF Schooled
  <2>2. CASE rows[l] = NONE /\ rows'[l] # NONE
    <3>1. l = r /\ addLesson(r)
      BY <1>1, <2>2, ComesAndGoes, OwnRow DEF Schooled
    <3>2. pc[r] = "idle"
      BY <3>1 DEF addLesson, Insert, Began
    <3>3. Together(r, x)'
      BY <3>2, MeetsAtStart DEF Grounds
    <3>4. QED
      BY <1>1, <3>1, <3>3, SameCalls DEF Excepted
  <2>3. QED
    BY <2>1, <2>2
<1>2. \A l : CourseOf(l)' = CourseOf(l) /\ Op(l)' = Op(l) /\ On(l)' = On(l)
  BY DEF CourseOf, Op, On
<1>3. \A l : l \in Lessons(On(x))' <=> l \in Lessons(On(x))
  BY <1>1, <1>2 DEF Lessons
<1>4. QED
  BY <1>3

\* As many completed as there are lessons: all are.
LEMMA AllFinished ==
  ASSUME Grounds, OneProgress, NEW c \in Requests, NEW u, rows[c] # NONE, ~Misplaced(u, c),
         ~Revived(c), Cardinality(Completed(c, u)) >= Cardinality(Lessons(c)),
         NEW l \in Lessons(c)
  PROVE  Finished(l, u)
<1> DEFINE P == Completed(c, u)
           L == Lessons(c)
           f == [p \in P |-> On(p)]
<1>1. ASSUME NEW p \in P
      PROVE  /\ p \in Requests /\ Op(p) = "updateProgress" /\ rows[p] # NONE /\ rows[p].done
             /\ By(p) = u /\ Place(p) = c
  BY <1>1 DEF Completed, Table, Grounds, RowsMeant, Meant
<1>2. ASSUME NEW p \in P
      PROVE  On(p) \in L
  BY <1>1, <1>2, Curriculum DEF Grounds, Misplaced, Table, CourseOf, Led, Ended, Seated, Lessons
<1>3. f \in Injection(P, L)
  BY <1>2, <1>1 DEF OneProgress, Table, Injection, IsInjective
<1>4. IsFiniteSet(P) /\ IsFiniteSet(L) /\ Cardinality(P) \in Nat /\ Cardinality(L) \in Nat
      /\ Cardinality(P) >= Cardinality(L)
  BY ServicesAssumption, FS_Subset, FS_CardinalityType DEF Completed, Lessons, Table
<1>5. l \in L
  OBVIOUS
<1>6. \A p \in P : f[p] = On(p)
  OBVIOUS
<1> HIDE DEF P, L, f
<1>7. f \in Surjection(P, L)
  BY <1>3, <1>4, FS_Injection
<1>8. PICK p \in P : On(p) = l
  BY <1>5, <1>6, <1>7 DEF Surjection
<1>9. QED
  BY <1>1, <1>8 DEF Finished
--------------------
\* What had to be completed for a certificate remains so.
LEMMA CompletedStays ==
  ASSUME Grounds, UNCHANGED call, NEW r \in Requests, ~Ended(r), Strides(r), Step(r),
         NEW x \in Requests, pc[x] # "idle", NEW c, c = On(x), NEW u, u = By(x),
         \/ \A l \in Lessons(c) : (Made(l) \/ l \in before[x]) => Finished(l, u)
         \/ Excepted(x)
  PROVE  \/ \A l \in Lessons(c)' : (Made(l) \/ l \in before'[x]) => Finished(l, u)'
         \/ Excepted(x)'
<1>1. CASE Excepted(x)
  BY <1>1, ExceptedStays
<1>2. CASE Unsaved'
  BY <1>2 DEF Excepted
<1>3. CASE ~Excepted(x) /\ ~Unsaved'
  <2>1. before'[x] = before[x]
    BY DEF Strides, Own, Paces
  <2>2. ASSUME NEW l \in Requests, l \in Lessons(c)', Made(l) \/ l \in before[x]
        PROVE  l \in Lessons(c)
    BY <2>2, LessonGone DEF Lessons, Op, CourseOf, On, Grounds, Timely, Ended
  <2>3. \A l : Finished(l, u) => Finished(l, u)'
    BY <1>3, FinishedStays
  <2>4. Lessons(c)' \subseteq Requests
    BY DEF Lessons
  <2>5. QED
    BY <1>3, <2>1, <2>2, <2>3, <2>4
<1>4. QED
  BY <1>1, <1>2, <1>3

\* Each step of who asks for a certificate
LEMMA CertifyingSteps ==
  ASSUME Grounds, OneProgress, UNCHANGED call, NEW r \in Requests, ~Ended(r), Strides(r), Step(r),
         Op(r) = "checkAndGenerate", Certifying(r), NEW c, c = On(r), NEW u, u = By(r)
  PROVE  /\ pc'[r] = "count_completed" /\ c # NONE /\ rows'[c] # NONE =>
              held'[r] = Cardinality(Lessons(c)') \/ Excepted(r)'
         /\ pc'[r] = "insert_certificate" \/ rows'[r] # NONE =>
              \/ \A l \in Lessons(c)' : (Made(l) \/ l \in before'[r]) => Finished(l, u)'
              \/ Excepted(r)'
<1>0. LocalsTyped /\ OnTheWay /\ rows[r] = NONE
  BY DEF Grounds, OnTheWay, Led, Ended
<1>1. CASE Fails(r) /\ UNCHANGED rows
  BY <1>0, <1>1 DEF Fails, Goto, LocalsTyped
<1>2. CASE FindCertificate(r)
  BY <1>0, <1>2 DEF FindCertificate, Goto, LocalsTyped, recordVars
<1>3. CASE CountLessons(r)
  <2>1. pc'[r] = "count_completed" /\ held'[r] = Cardinality(LessonsOf(c)) /\ UNCHANGED rows
    BY <1>0, <1>3 DEF CountLessons, Goto, Hold, LocalsTyped
  <2>2. \A l : l \in LessonsOf(c) <=> l \in Lessons(c)
    BY LessonsMeant DEF Lessons, LessonsOf, Table
  <2>3. LessonsOf(c) = Lessons(c)
    BY <2>2
  <2>4. Lessons(c)' = Lessons(c)
    BY <2>1 DEF Lessons, Op, CourseOf, On
  <2>5. QED
    BY <1>0, <2>1, <2>3, <2>4
<1>4. CASE CountCompleted(r)
  <2>1. /\ pc[r] = "count_completed" /\ pc'[r] = "insert_certificate" /\ UNCHANGED rows
        /\ Cardinality(Completed(c, u)) >= held[r]
    BY <1>0, <1>4 DEF CountCompleted, Goto, LocalsTyped, recordVars
  <2>2. \/ \A l \in Lessons(c) : (Made(l) \/ l \in before[r]) => Finished(l, u)
        \/ Excepted(r)
    <3>1. ASSUME ~Excepted(r), NEW l \in Lessons(c)
          PROVE  Finished(l, u)
      BY <3>1, <1>0, <2>1, Curriculum, ServicesAssumption, AllFinished DEF Lessons, Grounds,
         Seated, Live, CourseOf, Certifying, Excepted
    <3>2. QED
      BY <3>1
  <2>3. QED
    BY <1>0, <2>1, <2>2, CompletedStays
<1>5. CASE InsertCertificate(r)
  BY <1>0, <1>5, CompletedStays DEF InsertCertificate, Goto, LocalsTyped, Certifying
<1>6. QED
  BY <1>1, <1>2, <1>3, <1>4, <1>5, LearnersSteps DEF Grounds, recordVars

LEMMA StepCertifying ==
  ASSUME Grounds, OneProgress, UNCHANGED call, NEW r \in Requests, ~Ended(r), Strides(r), Step(r),
         NEW x \in Requests, Certifying(x)
  PROVE  Certifying(x)'
<1>0. \A q \in Requests : Op(q)' = Op(q) /\ Made(q)' = Made(q)
  BY SameCalls
<1>1. ASSUME NEW c, c = On(x), NEW u, u = By(x), Op(x) = "checkAndGenerate"
      PROVE  /\ pc'[x] = "count_completed" /\ c # NONE /\ rows'[c] # NONE =>
                  held'[x] = Cardinality(Lessons(c)') \/ Excepted(x)'
             /\ pc'[x] = "insert_certificate" \/ rows'[x] # NONE =>
                  \/ \A l \in Lessons(c)' : (Made(l) \/ l \in before'[x]) => Finished(l, u)'
                  \/ Excepted(x)'
  <2>1. CASE x = r
    BY <1>1, <2>1, CertifyingSteps
  <2>2. CASE x # r
    <3>0. pc'[x] = pc[x] /\ held'[x] = held[x] /\ before'[x] = before[x]
      BY <2>2, OthersStay
    <3>1. ASSUME pc'[x] = "count_completed", c # NONE, rows'[c] # NONE, ~Excepted(x)'
          PROVE  held'[x] = Cardinality(Lessons(c)')
      <4>1. rows[c] # NONE
        <5>1. c \in Requests /\ Op(c) = "createCourse"
          BY <1>1, <3>1, Curriculum DEF Grounds
        <5>2. ASSUME rows[c] = NONE PROVE FALSE
          BY <3>1, <5>1, <5>2, <1>1, <3>0, ComesAndGoes, SameCalls DEF Schooled, Excepted,
             Revived, Grounds, Led
        <5>3. QED
          BY <5>2
      <4>2. ~Excepted(x)
        BY <3>1, ExceptedStays
      <4>3. held[x] = Cardinality(Lessons(c))
        BY <1>1, <3>0, <3>1, <4>1, <4>2 DEF Certifying, Live
      <4>4. Live(On(x)) /\ Live(On(x))' /\ On(x)' = c
        BY <1>1, <3>1, <4>1, SameCalls DEF Live
      <4>5. Lessons(On(x))' = Lessons(On(x))
        BY <2>2, <3>0, <3>1, <4>4, LessonsStay
      <4>6. Lessons(c)' = Lessons(c)
        BY <1>1, <4>4, <4>5 DEF Lessons
      <4>7. QED
        BY <3>0, <4>3, <4>6
    <3>2. ASSUME pc'[x] = "insert_certificate" \/ rows'[x] # NONE
          PROVE  \/ \A l \in Lessons(c)' : (Made(l) \/ l \in before'[x]) => Finished(l, u)'
                 \/ Excepted(x)'
      BY <1>1, <2>2, <3>0, <3>2, ComesAndGoes, CompletedStays DEF Schooled, Grounds, Led,
         Certifying
    <3>3. QED
      BY <3>1, <3>2
  <2>3. QED
    BY <2>1, <2>2
<1>2. PICK c, u : c = On(x) /\ u = By(x)
  OBVIOUS
<1>3. On(x)' = c /\ By(x)' = u
  BY <1>2, SameCalls
<1>4. Lessons(On(x))' = Lessons(c)' /\ (Live(On(x))' <=> c # NONE /\ rows'[c] # NONE)
  BY <1>3 DEF Lessons, Live
<1>5. \A l : Finished(l, By(x))' <=> Finished(l, u)'
  BY <1>3 DEF Finished
<1>6. Lessons(c)' \subseteq Requests
  BY DEF Lessons
<1>7. QED
  BY <1>0, <1>1, <1>2, <1>4, <1>5, <1>6 DEF Certifying
--------------------
\* A row that is there at first was made, about what was made.
LEMMA InitMade ==
  ASSUME Init, NEW x \in Requests
  PROVE  /\ pc[x] = IF Made(x) THEN "ok" ELSE "idle"
         /\ before[x] = {} /\ seen[x] = NONE
         /\ rows[x] # NONE => Made(x) /\ rows[x] = Inserted(x)
         /\ Made(x) => Op(x) \in Inserting \cup {"none"}
         /\ Made(x) /\ On(x) # NONE => On(x) \in Requests /\ Made(On(x))
         /\ Made(x) /\ Op(x) # "none" => rows[x] # NONE
<1>0. call \in Plans /\ (Made(x) /\ Op(x) # "none" => rows[x] = Inserted(x))
  BY DEF Init, CallsInit
<1>1. Made(x) => Op(x) \in Inserting \cup {"none"}
  BY <1>0, ServicesAssumption DEF Made, Op
<1>2. Made(x) /\ On(x) # NONE => Made(On(x))
  BY <1>0, LearningAssumption DEF Made, On
<1>3. On(x) # NONE => On(x) \in Requests
  BY <1>0, BodiesTyped
<1>4. Made(x) /\ Op(x) # "none" => rows[x] # NONE
  BY <1>0, InsertedFits, RowNotNone
<1>5. QED
  BY <1>1, <1>2, <1>3, <1>4 DEF Init, CallsInit
LEMMA InitGrounds == Init => Grounds
<1> SUFFICES ASSUME Init PROVE Grounds
  OBVIOUS
<1>0. OnTheWay /\ Timely /\ RowsTyped
  BY InitOnTheWay, InitTimely, InitRowsTyped
<1>1. ASSUME NEW x \in Requests, rows[x] # NONE PROVE Meant(x, rows[x])
  <2>1. rows[x] = Inserted(x) /\ Op(x) \in Inserting \cup {"none"}
    BY <1>1, InitMade
  <2>2. /\ Op(x) = "createCourse" =>
             Inserted(x) = [slug |-> Key(x), strict |-> Arg(x) = "STRICT", thumbnail |-> NONE]
        /\ Op(x) = "addChapter" => Inserted(x) = [course |-> On(x), order |-> call[x].no]
        /\ Op(x) = "addLesson" =>
             Inserted(x) =
               [chapter |-> On(x), order |-> call[x].no, preview |-> Arg(x) = "PREVIEW"]
    BY DEF Inserted, Creates, ArticleCreates, Slips
  <2>3. /\ Op(x) = "assess" => Inserted(x) = [course |-> On(x), attempts |-> call[x].no]
        /\ Op(x) = "updateProgress" =>
             Inserted(x) = [user |-> By(x), course |-> Place(x), lesson |-> On(x),
                            done |-> Arg(x) = "DONE"]
        /\ Op(x) = "startAttempt" =>
             Inserted(x) = [user |-> By(x), assessment |-> On(x), status |-> "IN_PROGRESS"]
    BY DEF Inserted, Creates, ArticleCreates, Slips
  <2>4. CASE Op(x) \notin {"createCourse", "addChapter", "addLesson", "assess",
                          "updateProgress", "startAttempt"}
    BY <2>1, <2>4 DEF Meant, Inserting, Creates, ArticleCreates, Slips
  <2>5. QED
    BY <2>1, <2>2, <2>3, <2>4 DEF Meant
<1>2. RowsMeant
  BY <1>1, InitMade DEF RowsMeant
<1>3. ASSUME NEW x \in Requests PROVE Seated(x) /\ Led(x)
  <2>0. Op(x) \in OnRow => On(x) \in Requests /\ On(x) # NONE
    BY BodiesTyped, ServicesAssumption DEF Init, CallsInit
  <2>1. Seated(x)
    BY <1>0, <2>0, Curriculum, InitMade DEF Live, OnRow, Seated
  <2>2. Led(x)
    BY <2>0, InitMade DEF Led, OnRow, Ended, Inserting, Creates, ArticleCreates, Slips
  <2>3. QED
    BY <2>1, <2>2
<1>4. QED
  BY <1>0, <1>2, <1>3 DEF Grounds
LEMMA InitFewAttempts == Init => FewAttempts
<1> SUFFICES ASSUME Init, NEW z \in Requests, NEW u \in People, Op(z) = "assess"
             PROVE  Cardinality(Attempting(z, u)) <= call[z].no
  BY DEF FewAttempts
<1>1. call \in Plans /\ call[z].no \in Nat
  BY BodiesTyped DEF Init, CallsInit
<1> DEFINE Had == {x \in Requests : call[x].made /\ call[x].op = "startAttempt"}
           Tried == {x \in Had : call[x].on = z /\ call[x].by = u}
<1>2. ASSUME NEW x \in Attempting(z, u) PROVE x \in Tried
  BY <1>2, InitMade DEF Attempting, Op, On, By, Made
<1>3. CASE Attempting(z, u) = {}
  BY <1>1, <1>3, FS_EmptySet
<1>4. CASE Attempting(z, u) # {}
  <2>1. PICK x \in Requests : x \in Tried
    BY <1>2, <1>4
  <2>2. Made(x) /\ On(x) = z
    BY <2>1 DEF Made, On
  <2>3. z # NONE
    BY ServicesAssumption
  <2>4. Made(z)
    BY <2>2, <2>3, InitMade
  <2>5. z \in {y \in Requests : call[y].made /\ call[y].op = "assess"}
    BY <2>4 DEF Made, Op
  <2>6. Cardinality(Tried) <= call[z].no
    BY <1>1, <2>5, LearningAssumption
  <2>7. IsFiniteSet(Tried) /\ Attempting(z, u) \subseteq Tried
    BY <1>2, ServicesAssumption, FS_Subset
  <2> HIDE DEF Tried
  <2>8. /\ Cardinality(Attempting(z, u)) <= Cardinality(Tried)
        /\ Cardinality(Attempting(z, u)) \in Nat /\ Cardinality(Tried) \in Nat
    BY <2>7, FS_Subset, FS_CardinalityType
  <2>9. QED
    BY <1>1, <2>6, <2>8
<1>5. QED
  BY <1>3, <1>4
LEMMA InitLearningHeld == Init => LearningHeld
<1> SUFFICES ASSUME Init PROVE LearningHeld
  OBVIOUS
<1>1. OneProgress
  <2> SUFFICES ASSUME NEW x \in Requests, NEW y \in Requests, Op(x) = "updateProgress",
                      Op(y) = "updateProgress", rows[x] # NONE, rows[y] # NONE,
                      By(x) = By(y), On(x) = On(y)
               PROVE  x = y
    BY DEF OneProgress, Table
  <2>1. Made(x) /\ Made(y) /\ call \in Plans
    BY InitMade DEF Init, CallsInit
  <2>2. QED
    BY <2>1, LearningAssumption DEF Made, Op, By, On
<1>2. \A x \in Requests : Op(x) \in {"checkAndGenerate", "checkAccess", "submitAssessment"} =>
        pc[x] = "idle" /\ rows[x] = NONE
  BY InitMade DEF Inserting, Creates, ArticleCreates, Slips
<1>3. OneCertificate
  BY <1>2 DEF OneCertificate, Asking
<1>4. \A x \in Requests : Certifying(x) /\ Access(x)
  BY <1>2 DEF Certifying, Access
<1>5. ASSUME NEW z \in Requests PROVE Submitting(z) /\ Answered(z)
  <2>1. Op(z) = "startAttempt" /\ rows[z] # NONE => rows[z].status = "IN_PROGRESS"
    <3>1. ASSUME Op(z) = "startAttempt", rows[z] # NONE
          PROVE  rows[z] = [user |-> By(z), assessment |-> On(z), status |-> "IN_PROGRESS"]
      BY <3>1, InitMade DEF Inserted, Creates, ArticleCreates, Slips
    <3>2. QED
      BY <3>1
  <2>2. QED
    BY <1>2, <2>1, InitMade DEF Submitting, Answered
<1>6. QED
  BY <1>1, <1>3, <1>4, <1>5, InitFewAttempts DEF AnswersHeld, LearningHeld

LEMMA NextCredentialsInv == CredentialsInv /\ [Next]_vars => CredentialsInv'
<1> SUFFICES ASSUME CredentialsInv, [Next]_vars PROVE CredentialsInv'
  OBVIOUS
<1>0. Grounds /\ LearningHeld
  BY DEF CredentialsInv
<1> USE <1>0
<1>1. OnTheWay' /\ Timely' /\ RowsTyped'
  BY NextOnTheWay, NextTimely, NextRowsTyped DEF Grounds
<1>2. CASE \E r \in Requests : ~Ended(r) /\ Step(r) /\ UNCHANGED call
  <2>1. PICK r \in Requests : ~Ended(r) /\ Step(r) /\ UNCHANGED call
    BY <1>2
  <2>2. Strides(r)
    BY <2>1, StepStrides DEF Grounds
  <2>3. RowsMeant'
    BY <2>1, <2>2, StepRowsMeant DEF Grounds
  <2>4. \A x \in Requests : Seated(x)' /\ Led(x)'
    BY <2>1, <2>2, StepSeated, StepLed
  <2>5. \A x \in Requests : Certifying(x)' /\ Access(x)'
    BY <2>1, <2>2, StepCertifying, StepAccess DEF LearningHeld
  <2>6. OneProgress' /\ OneCertificate' /\ FewAttempts' /\ AnswersHeld'
    BY <2>1, <2>2, StepOneProgress, StepOneCertificate, StepFewAttempts,
       StepAnswersHeld DEF LearningHeld
  <2>7. QED
    BY <1>1, <2>3, <2>4, <2>5, <2>6 DEF CredentialsInv, Grounds, LearningHeld
<1>3. CASE UNCHANGED <<callVars, rows, held>>
  <2> USE <1>3 DEF callVars, locals
  <2>1. \A c, u : (Lessons(c)' = Lessons(c)) /\ (Finished(c, u)' <=> Finished(c, u))
    BY DEF Lessons, Finished, Op, On, By, CourseOf
  <2>2. RowsMeant' /\ \A x \in Requests : Seated(x)' /\ Led(x)'
    BY DEF Grounds, RowsMeant, Meant, Seated, Live, Led, Ended, CourseOf, Revived,
       Op, On, By, Arg, Place
  <2>3. \A x \in Requests : Excepted(x)' <=> Excepted(x)
    BY DEF Excepted, Unsaved, Misplaced, Revived, Together, Begun, Overlap, Table, Op, On, By,
       Place, Made
  <2>4. \A x \in Requests : Certifying(x)'
    BY <2>1, <2>3 DEF LearningHeld, Certifying, Live, Op, On, By, Made
  <2>5. \A x, q \in Requests : Earlier(x, q)' <=> Earlier(x, q)
    BY DEF Earlier, Op, On
  <2>6. \A x \in Requests : Access(x)'
    BY <2>1, <2>5 DEF LearningHeld, Access, Granted, Rewritten, Unsaved, CourseOf,
       Begun, Made, Op, On, By, Arg
  <2>7. \A op : Twice(op)' = Twice(op)
    BY DEF Twice, Learner, Together, Begun, Overlap, Made, Op, On, By
  <2>8. OneProgress' /\ OneCertificate'
    BY DEF LearningHeld, OneProgress, OneCertificate, Asking, Learner, Together, Begun,
       Overlap, Table, Made, Op, On, By
  <2>9. AnswersHeld'
    BY DEF LearningHeld, AnswersHeld, Submitting, Answered, Op, On, By
  <2>10. \A z, u : Attempting(z, u)' = Attempting(z, u)
    BY DEF Attempting, Op, On, By
  <2>11. FewAttempts'
    BY <2>7, <2>10 DEF LearningHeld, FewAttempts, Op
  <2>12. QED
    BY <1>1, <2>2, <2>4, <2>6, <2>8, <2>9, <2>11 DEF CredentialsInv, Grounds, LearningHeld
<1>4. QED
  BY <1>2, <1>3, Moves
--------------------
\* What was earned
LEMMA TwoOf ==
  ASSUME NEW S, IsFiniteSet(S), Cardinality(S) > 1
  PROVE  \E x, y \in S : x # y
<1> SUFFICES ASSUME \A x, y \in S : x = y PROVE FALSE
  OBVIOUS
<1>1. PICK x \in S : TRUE
  BY FS_EmptySet
<1>2. S = {x}
  BY <1>1
<1>3. QED
  BY <1>2, FS_Singleton
\* Who submitted twice for an attempt did so at once.
LEMMA AnsweredTwice ==
  ASSUME Grounds, AnswersHeld, NEW a \in Requests,
         NEW x \in Submissions(a) \cap Table("submitAssessment"),
         NEW y \in Submissions(a) \cap Table("submitAssessment"), x # y
  PROVE  <<By(a), a>> \in Twice("submitAssessment")
<1>1. /\ x \in Requests /\ Op(x) = "submitAssessment" /\ rows[x] # NONE /\ rows[x].attempt = a
      /\ y \in Requests /\ Op(y) = "submitAssessment" /\ rows[y] # NONE /\ rows[y].attempt = a
  BY DEF Submissions, Table
<1>2. On(x) = a /\ On(y) = a
  BY <1>1 DEF Grounds, RowsMeant, Meant
<1>3. /\ pc[x] # "idle" /\ By(x) = By(a) /\ x \notin before[y]
      /\ pc[y] # "idle" /\ By(y) = By(a) /\ y \notin before[x]
  BY <1>1, <1>2 DEF AnswersHeld, Submitting
<1>4. ~Made(x) /\ ~Made(y)
  BY <1>1, CallsTyped DEF Grounds, OnTheWay, Inserting, Creates, ArticleCreates, Slips
<1>5. QED
  BY <1>1, <1>2, <1>3, <1>4 DEF Twice, Together, Begun, Overlap, Learner
\* The invariant says so.
LEMMA EarnedByThen ==
  ASSUME CredentialsInv
  PROVE  CredentialsEarned
<1> USE DEF CredentialsInv, LearningHeld
<1>0. /\ RowsMeant
      /\ \A x \in Requests : On(x) # NONE => On(x) \in Requests
  BY Curriculum DEF Grounds
<1>1. ASSUME NEW x \in Table("checkAndGenerate")
      PROVE  \/ Excepted(x)
             \/ \A l \in LessonsOf(On(x)) : (Made(l) \/ l \in before[x]) => Done(l, By(x))
  <2>1. ASSUME NEW l \in LessonsOf(On(x)) PROVE l \in Lessons(On(x))
    BY <2>1, LessonsMeant DEF Lessons, LessonsOf, Table
  <2>2. QED
    BY <2>1, ProgressMeant DEF Certifying, Table
<1>2. ASSUME NEW c \in Table("createCourse"), NEW u \in People,
             Cardinality(Certificates(c, u)) > 1
      PROVE  <<u, c>> \in Twice("checkAndGenerate")
  <2>1. IsFiniteSet(Certificates(c, u))
    BY ServicesAssumption, FS_Subset DEF Certificates, Table
  <2>2. PICK x, y \in Certificates(c, u) : x # y
    BY <1>2, <2>1, TwoOf
  <2>3. \A z \in Certificates(c, u) : /\ z \in Requests /\ Op(z) = "checkAndGenerate"
                                      /\ rows[z] # NONE /\ Learner(z) = <<u, c>>
    <3>1. ASSUME NEW z \in Certificates(c, u)
          PROVE  /\ z \in Requests /\ Op(z) = "checkAndGenerate" /\ rows[z] # NONE
                 /\ rows[z] = [user |-> u, course |-> c]
                 /\ rows[z] = [user |-> By(z), course |-> On(z)]
      BY <1>0, <3>1 DEF Certificates, Table, RowsMeant, Meant
    <3>2. ASSUME NEW z \in Certificates(c, u)
          PROVE  By(z) = u /\ On(z) = c
      <4>1. rows[z] = [user |-> u, course |-> c]
        BY <3>1, <3>2
      <4>2. rows[z].user = u /\ rows[z].course = c
        BY <4>1
      <4>3. rows[z] = [user |-> By(z), course |-> On(z)]
        BY <3>1, <3>2
      <4>4. rows[z].user = By(z) /\ rows[z].course = On(z)
        BY <4>3
      <4>5. QED
        BY <4>2, <4>4
    <3>3. QED
      BY <3>1, <3>2 DEF Learner
  <2>4. Together(x, y)
    BY <2>2, <2>3 DEF OneCertificate, Asking
  <2>5. QED
    BY <2>3, <2>4 DEF Twice
<1>3. ASSUME NEW a \in Table("assess"), NEW u \in People,
             Cardinality(AttemptsAt(a, u)) > rows[a].attempts
      PROVE  <<u, a>> \in Twice("startAttempt")
  <2>1. a \in Requests /\ Op(a) = "assess" /\ rows[a].attempts = call[a].no /\ call[a].no \in Nat
    BY <1>0, BodiesTyped DEF Table, RowsMeant, Meant, Grounds, OnTheWay
  <2>2. AttemptsAt(a, u) \subseteq Attempting(a, u)
    BY <1>0 DEF AttemptsAt, Attempting, Table, RowsMeant, Meant
  <2>3. IsFiniteSet(Attempting(a, u))
    BY ServicesAssumption, FS_Subset DEF Attempting
  <2>4. /\ Cardinality(AttemptsAt(a, u)) <= Cardinality(Attempting(a, u))
        /\ Cardinality(Attempting(a, u)) \in Nat /\ Cardinality(AttemptsAt(a, u)) \in Nat
    BY <2>2, <2>3, FS_Subset, FS_CardinalityType
  <2>5. QED
    BY <1>3, <2>1, <2>4 DEF FewAttempts
<1>4. ASSUME NEW a \in Table("startAttempt"),
             NEW answered, answered = Submissions(a) \cap Table("submitAssessment")
      PROVE  /\ rows[a].status = "COMPLETED" => answered # {}
             /\ Cardinality(answered) > 1 => <<By(a), a>> \in Twice("submitAssessment")
  <2>1. rows[a].status = "COMPLETED" => answered # {}
    <3>1. ASSUME rows[a].status = "COMPLETED" PROVE answered # {}
      <4>1. PICK s \in Requests : Op(s) = "submitAssessment" /\ On(s) = a /\ rows[s] # NONE
        BY <3>1 DEF AnswersHeld, Answered, Table
      <4>2. rows[s].attempt = a
        BY <1>0, <4>1 DEF RowsMeant, Meant
      <4>3. QED
        BY <1>4, <4>1, <4>2 DEF Submissions, Table
    <3>2. QED
      BY <3>1
  <2>2. ASSUME Cardinality(answered) > 1 PROVE <<By(a), a>> \in Twice("submitAssessment")
    <3>1. IsFiniteSet(answered) /\ a \in Requests
      BY <1>4, ServicesAssumption, FS_Subset DEF Table
    <3>2. PICK x, y \in answered : x # y
      BY <2>2, <3>1, TwoOf
    <3>3. QED
      BY <1>4, <3>1, <3>2, AnsweredTwice
  <2>3. QED
    BY <2>1, <2>2
<1>5. ASSUME NEW r \in Requests, Op(r) = "checkAccess", pc[r] = "ok", Live(On(r)),
             ~rows[On(r)].preview, ~Unsaved, ~Rewritten,
             NEW c \in Table("createCourse"), rows[c].strict, On(r) \in LessonsOf(c)
      PROVE  Previous(r) = {} \/ \E l \in Previous(r) : Done(l, By(r))
  <2>1. On(r) \in Requests /\ rows[On(r)] # NONE /\ Op(On(r)) = "addLesson"
    BY <1>0, <1>5, Curriculum DEF Live, Grounds
  <2>2. Arg(On(r)) # "PREVIEW"
    BY <1>0, <1>5, <2>1 DEF RowsMeant, Meant
  <2>3. CourseOf(On(r)) = c /\ Arg(c) = "STRICT"
    BY <1>0, <1>5, <2>1, LessonsMeant DEF RowsMeant, Meant, Table
  <2>4. Granted(r) /\ target[r] = On(r) /\ seen[r] # NONE
    BY <1>5 DEF Access
  <2>5. \A x : x \in Previous(r) <=> x \in Requests /\ Earlier(x, r)
    BY <1>5, <2>1, <2>4, PreviousMeant
  <2>6. QED
    BY <1>5, <2>1, <2>2, <2>3, <2>4, <2>5, ProgressMeant DEF Granted
<1>6. QED
  BY <1>1, <1>2, <1>3, <1>4, <1>5 DEF CredentialsEarned, Excepted, Rewritten

\* A certificate, a second attempt or answer and a granted lesson are earned, or
\* one of the exceptions of CredentialsEarned is the reason.  However many calls
\* there are, of however many learners, courses and lessons.
THEOREM CredentialsStayEarned == Spec => []CredentialsEarned
<1>1. Init => CredentialsInv
  BY InitGrounds, InitLearningHeld DEF CredentialsInv
<1>2. QED
  BY <1>1, NextCredentialsInv, EarnedByThen, PTL DEF Spec
===============================================================================
