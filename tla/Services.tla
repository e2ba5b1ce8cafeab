------------------------------ MODULE Services ------------------------------
(***************************************************************************)
(* The content, learning, registry and marketing services together.  None  *)
(* takes a lock, and only bundles are written in a transaction: the        *)
(* properties say what holds however the awaits of the calls interleave,   *)
(* and which overlap, failure or overwritten row explains the rest.        *)
(***************************************************************************)
EXTENDS Backoffice

vars == <<callVars, recordVars, contentVars, cache, points, marketingVars, backofficeVars>>

Ops == ArticleOps \cup ProductOps \cup AdvancedOps \cup JobOps
       \cup CouponOps \cup PromotionOps \cup MenuOps \cup FeedOps
       \cup CourseOps \cup CurriculumOps \cup PlayerOps \cup AssessmentOps \cup CredentialOps
       \cup ForumOps \cup ReviewOps \cup OperationOps \cup AdvancedLearningOps
       \cup ReportingOps \cup ExternalOps
       \cup RegistryOps \cup BundleOps \cup AffiliateOps \cup LoyaltyOps \cup AbandonedOps
       \cup ReturnOps \cup TicketOps \cup ProductReviewOps \cup WishOps \cup SubscriptionOps
       \cup StockOps \cup PreOrderOps \cup ProcurementOps \cup FulfillmentOps
       \cup ShippingOps \cup TaxOps
       \cup CurrencyOps \cup AnalyticsOps \cup TaxonomyOps \cup BackofficeReads
       \cup {"saveRule", "none"}
ServiceCalls ==
  [op : Ops, by : People, on : Requests \cup {NONE}, to : SUBSET (Keys \cup People),
   key : Keys \cup {NONE}, at : Keys \cup Requests \cup {NONE}, arg : STRING,
   ids : Seq(Requests), no : Nat, made : BOOLEAN]

\* What the id that a call names is of: by the route, or a foreign key.
Names(op, of) ==
  \/ op \in {"updateArticle", "deleteArticle", "getArticle", "getRelatedPosts", "recordView",
             "getArticleStats"} /\ of \in ArticleCreates
  \/ op \in OfProducts \cup {"updateProduct", "deleteProduct", "getProductById", "listReviews",
                             "addToWishlist", "removeFromWishlist", "getRatingSummary"}
     /\ of = "createProduct"
  \/ op = "resolveShortlink" /\ of = "createShortlink"
  \/ op \in {"updateCoupon", "removeCoupon", "findOneCoupon"} /\ of = "createCoupon"
  \/ op \in {"updatePromotion", "removePromotion", "findOnePromotion"} /\ of = "createPromotion"
  \/ op \in {"getCourseDetail", "updateThumbnail", "deleteCourse", "addChapter", "enroll",
             "assess", "checkAndGenerate", "getCourseProgress", "createReview",
             "getCourseReviews", "getCoursePerformance"} /\ of = "createCourse"
  \/ op = "addLesson" /\ of = "addChapter"
  \/ op \in {"uploadMaterial", "getLessonMaterials", "checkAccess", "updateProgress",
             "createNote", "getMyNotes", "createThread", "getThreadsByLesson"}
     /\ of = "addLesson"
  \/ op = "startAttempt" /\ of = "assess"
  \/ op \in {"submitAssessment", "uploadAssignment"} /\ of = "startAttempt"
  \/ op = "updateEnrollmentStatus" /\ of = "enroll"
  \/ op \in {"addComment", "getCommentsByThread"} /\ of = "createThread"
  \/ op = "deleteNote" /\ of = "createNote"
  \/ op = "verify" /\ of = "checkAndGenerate"
  \/ op = "updateRegistry" /\ of = "createRegistry"
  \/ op \in {"updateBundle", "removeBundle", "findOneBundle"} /\ of = "createBundle"
  \/ op \in {"updateRMAStatus", "addInspection"} /\ of = "createRequest"
  \/ op = "updatePOStatus" /\ of = "createPO"
  \/ op = "updateFulfillmentStatus" /\ of = "createFulfillment"
  \/ op = "toggleVisibility" /\ of = "createProductReview"
  \/ op = "cancelSubscription" /\ of = "createSubscription"
  \/ op \in {"closeTicket", "addMessage", "getConversation"} /\ of = "createTicket"
  \/ op \in {"addMethodToZone", "calculateShipping"} /\ of = "createZone"
  \/ op = "updateHeartbeat" /\ of = "recordView"
  \/ op = "saveRule" /\ of = "saveRule"
Reordered(op) == IF op = "reorderLessons" THEN "addLesson" ELSE "addChapter"

\* What may have been made before: all that leaves just an entity behind
Inserting ==
  Creates \cup Slips
  \cup {"createShortlink", "createCoupon", "createPromotion", "createBundle", "saveMenu",
        "createCourse", "addChapter", "addLesson", "enroll", "assess", "updateProgress",
        "startAttempt", "createModule", "createRegistry"}

\* What a call carries by its route, its DTO and the columns that may not be null:
\* the row it is about, the key of what it makes, and a status, which is "NONE"
\* where it is left out.
OnRow == {"addChapter", "addLesson", "enroll", "assess", "updateProgress", "startAttempt",
          "createReview", "uploadAssignment", "createNote", "deleteNote", "createThread",
          "addComment", "uploadMaterial", "getCourseDetail", "addToWishlist"}
Keyed == Creates \cup {"createShortlink", "createCoupon", "updateCoupon", "saveMenu",
                      "createCourse", "createModule", "createRegistry", "createLink",
                      "createTier"}
Bodies ==
  [createArticle |-> {"DRAFT", "PENDING_REVIEW", "PUBLISHED", "SCHEDULED"},
   updateArticle |-> {"DRAFT", "PENDING_REVIEW", "PUBLISHED", "SCHEDULED", "NONE"},
   createProduct |-> {"ACTIVE", "INACTIVE"},
   updateProduct |-> {"ACTIVE", "INACTIVE", "NONE"},
   enroll |-> {"ACTIVE", "PENDING", "EXPIRED"},
   updateEnrollmentStatus |-> {"ACTIVE", "PENDING", "EXPIRED"},
   addPoints |-> {"EARN", "REDEEM"}]

Rows == ArticleRows \cup ProductRows \cup Shortlinks \cup [found : Nat]
        \cup Coupons \cup [valid : BOOLEAN] \cup Promotions \cup Menus
        \cup CourseRows \cup ChapterRows \cup LessonRows \cup EnrollmentRows \cup ProgressRows
        \cup CertificateRows \cup AssessmentRows \cup AttemptRows \cup SubmissionRows
        \cup ReviewRows \cup Remarks \cup ModuleRows \cup RegistryRows
        \cup BundleRows \cup ProgramRows \cup LinkRows \cup TierRows \cup PointRows
        \cup SlipRows

\* What is installed beforehand was installed by createRegistry: its module is
\* there, and what that needs is installed and active.
InstalledInOrder(plan) ==
  LET Had(op, key) == {x \in Requests : plan[x].made /\ plan[x].op = op /\ plan[x].key = key}
  IN  \A r \in Requests : plan[r].made /\ plan[r].op = "createRegistry" =>
        /\ Had("createModule", plan[r].key) # {}
        /\ \A m \in Had("createModule", plan[r].key) : \A d \in plan[m].to :
             \E s \in Had("createRegistry", d) : plan[s].arg # "OFF"

ASSUME ServicesAssumption ==
  /\ IsFiniteSet(Requests)
  /\ NONE \notin Requests \cup People \cup Keys
  /\ \A set \in SUBSET Requests : set # NONE
  /\ NONE \notin Rows \cup {"PENDING", "RECOVERED"}
  /\ \A plan \in Plans :
       /\ plan \in [Requests -> ServiceCalls]
       /\ InstalledInOrder(plan)
       /\ \A r \in Requests :
            /\ plan[r].made => plan[r].op \in Inserting \cup {"none"}
            /\ plan[r].on # NONE => Names(plan[r].op, plan[plan[r].on].op)
            /\ \A i \in DOMAIN plan[r].ids :
                 plan[plan[r].ids[i]].op = Reordered(plan[r].op)
            /\ plan[r].op \in OnRow => plan[r].on # NONE
            /\ plan[r].op \in Keyed => plan[r].key # NONE
            /\ plan[r].op = "saveMenu" => plan[r].at \in Keys
            /\ plan[r].op = "updateProgress" => plan[r].at \in Requests
            /\ plan[r].op = "createModule" => plan[r].to \subseteq Keys
            /\ plan[r].op = "trackAbandonedCarts" => plan[r].to \subseteq People
            /\ plan[r].op \in DOMAIN Bodies => plan[r].arg \in Bodies[plan[r].op]
            /\ plan[r].op \in DOMAIN Statuses => plan[r].arg \in Statuses[plan[r].op]
       /\ \A r, s \in Requests : /\ plan[r].made /\ plan[s].made
                                 /\ plan[r].op \in Singles \cup {"createCoupon"}
                                 /\ plan[s].op = plan[r].op
                                 /\ plan[s].key = plan[r].key
                                 => r = s

\* What was made beforehand of courses is about what was, each progress once
\* and no more attempts than the assessment has.
ASSUME LearningAssumption ==
  \A plan \in Plans :
    LET Had(op) == {x \in Requests : plan[x].made /\ plan[x].op = op}
    IN  /\ \A r \in Requests : plan[r].made /\ plan[r].on # NONE => plan[plan[r].on].made
        /\ \A x, y \in Had("updateProgress") :
             plan[x].by = plan[y].by /\ plan[x].on = plan[y].on => x = y
        /\ \A a \in Had("assess"), u \in People :
             Cardinality({x \in Had("startAttempt") : plan[x].on = a /\ plan[x].by = u})
               <= plan[a].no

TypeOK ==
  /\ call \in Plans
  /\ DOMAIN pc = Requests
  /\ target \in [Requests -> Requests \cup People \cup {NONE}]
  /\ \A r \in Requests : \/ seen[r] = NONE
                         \/ Op(r) = "processScheduledPosts"
                         \/ seen[r] \in Rows
  /\ todo \in [Requests -> SUBSET (Requests \cup People)]
  /\ stale \subseteq Requests
  /\ before \in [Requests -> SUBSET Requests]
  /\ \A r \in Requests : rows[r] = NONE \/ rows[r] \in Rows
  /\ details \in [Requests -> Requests \cup {NONE}]
  /\ revisions \subseteq Revisions
  /\ redirects \subseteq Redirects
  /\ \A k \in CacheKeys : \/ cache[k] = NONE
                          \/ \A e \in cache[k] : e[1] \in Requests /\ e[2] \in Rows
  /\ points \in [People -> Nat \cup {NONE}]
  /\ logged \subseteq Requests
  /\ abandoned \in [Requests \X People -> {"PENDING", "RECOVERED", NONE}]
  /\ \A r \in Requests : dialogs[r] = NONE \/ dialogs[r] \subseteq Requests
  /\ \A u \in People : wishes[u] = NONE \/ wishes[u] \subseteq Requests

\* What the calls made beforehand have inserted
Inserted(r) ==
  CASE Op(r) \in Creates -> NewContent(r)
    [] Op(r) = "createShortlink" -> [slug |-> Key(r), clicks |-> 0]
    [] Op(r) = "createCoupon" -> [code |-> Key(r), active |-> TRUE, text |-> r]
    [] Op(r) \in {"createPromotion", "createBundle"} -> [active |-> TRUE, text |-> r]
    [] Op(r) = "saveMenu" -> [slug |-> Key(r), location |-> Place(r), text |-> r]
    [] Op(r) = "createCourse" ->
         [slug |-> Key(r), strict |-> Arg(r) = "STRICT", thumbnail |-> NONE]
    [] Op(r) = "addChapter" -> [course |-> On(r), order |-> call[r].no]
    [] Op(r) = "addLesson" ->
         [chapter |-> On(r), order |-> call[r].no, preview |-> Arg(r) = "PREVIEW"]
    [] Op(r) = "enroll" -> [course |-> On(r), user |-> By(r), status |-> Arg(r)]
    [] Op(r) = "assess" -> [course |-> On(r), attempts |-> call[r].no]
    [] Op(r) = "updateProgress" ->
         [user |-> By(r), course |-> Place(r), lesson |-> On(r), done |-> Arg(r) = "DONE"]
    [] Op(r) = "startAttempt" ->
         [user |-> By(r), assessment |-> On(r), status |-> "IN_PROGRESS"]
    [] Op(r) = "createModule" -> [key |-> Key(r), deps |-> call[r].to]
    [] Op(r) \in Slips -> Slip(r)
    [] Op(r) = "createRegistry" -> [key |-> Key(r), active |-> Arg(r) # "OFF"]

Init ==
  /\ CallsInit
  /\ rows = [r \in Requests |-> IF Made(r) /\ Op(r) # "none" THEN Inserted(r) ELSE NONE]
  /\ held = [r \in Requests |-> NONE]
  /\ ContentInit
  /\ CacheInit
  /\ LearningInit
  /\ MarketingInit
  /\ BackofficeInit

Step(r) ==
  \/ ContentStep(r) /\ UNCHANGED <<cache, points, marketingVars, backofficeVars>>
  \/ CacheStep(r) /\ UNCHANGED <<contentVars, points, marketingVars, backofficeVars>>
  \/ LearningStep(r) /\ UNCHANGED <<contentVars, cache, marketingVars, backofficeVars>>
  \/ RegistryStep(r) /\ UNCHANGED <<contentVars, cache, points, marketingVars, backofficeVars>>
  \/ MarketingStep(r) /\ UNCHANGED <<contentVars, cache, points, backofficeVars>>
  \/ BackofficeStep(r) /\ UNCHANGED <<contentVars, cache, points, marketingVars>>
  \/ /\ Fails(r)
     /\ UNCHANGED <<recordVars, contentVars, cache, points, marketingVars, backofficeVars>>

Next ==
  \/ \E r \in {q \in Requests : ~Ended(q)} : Step(r) /\ UNCHANGED call
  \/ \E k \in CacheKeys :
       CacheExpires(k) /\ UNCHANGED <<contentVars, points, marketingVars, backofficeVars>>

Spec == Init /\ [][Next]_vars

----------------------------------------------------------------------------
Begun(r) == pc[r] # "idle" /\ ~Made(r)
Together(r, s) == Begun(r) /\ Begun(s) /\ Overlap(r, s)

WritersOf(x) == {x} \cup {w \in Requests : Op(w) = "updateArticle" /\ On(w) = x}

\* No text of an article is lost.  What an acknowledged call has written is in
\* the row or in a revision, until the article or old revisions are deleted;
\* an article whose create had not ended well when it was updated may have had
\* no document, and then got no revision.  And a create that was undone leaves
\* no row.  In both cases an update or a publication that read the row before
\* and saved it afterwards may be the exception.
ContentKept ==
  /\ \A x \in Requests : IsArticle(x) =>
       \A w \in WritersOf(x) :
         \/ pc[w] # "ok"
         \/ rows[x] # NONE /\ rows[x].text = w
         \/ \E v \in revisions : v.of = x /\ v.row = w
         \/ \E s \in stale : target[s] = x \/ Op(s) = "processScheduledPosts"
         \/ \E d \in Requests : Begun(d) /\ (\/ Op(d) = "deleteArticle" /\ On(d) = x
                                             \/ Op(d) = "cleanupOldRevisions")
         \/ \E u \in WritersOf(x) : Together(u, x)
  /\ \A x \in Requests :
       (Op(x) \in Creates /\ pc[x] = "failed" /\ target[x] = NONE) =>
         rows[x] = NONE \/ \E s \in stale : target[s] = x \/ Op(s) = "processScheduledPosts"

OpsOf(k) == CASE k[1] = "coupon" -> CouponOps
              [] k[1] = "promotions" -> PromotionOps
              [] k[1] = "menu" -> MenuOps
              [] OTHER -> {}
Current(k) == CASE k[1] = "coupon" -> {Entities(Coupon(k[2]))}
                [] k[1] = "promotions" -> {Entities(Table("createPromotion"))}
                [] OTHER -> {Entities({x}) : x \in Menu(k[2])}

\* An entry of the cache is what the table holds, unless a writer is between
\* the two or has stopped there, or overlapped with another writer or with a
\* reader that filled the entry; or a menu has moved and left its old place
\* filled.  (The site map and the feed are never cleared.)
CacheCurrent ==
  \A k \in {j \in CacheKeys : OpsOf(j) # {} /\ cache[j] # NONE} :
    \/ cache[k] \in Current(k)
    \/ \E w \in Requests :
         /\ Begun(w) /\ Op(w) \in OpsOf(k) \cap CacheWrites
         /\ \/ pc[w] # "ok"
            \/ \E s \in Requests : Op(s) \in OpsOf(k) /\ Together(w, s)
            \/ Op(w) = "saveMenu" /\ Place(w) # k[2]

Learner(r) == <<By(r), On(r)>>
Twice(op) ==
  {Learner(r) : r \in {q \in Requests : Op(q) = op /\ \E s \in Requests :
                         Op(s) = op /\ Learner(s) = Learner(q) /\ Together(q, s)}}
Done(l, u) == \E x \in ProgressOn(l, u) : rows[x].done
Unsaved == \E s \in stale : Op(s) = "updateProgress"
\* A lesson was reported under a course that it is not of.
Misplaced(u, c) ==
  \E x \in Table("updateProgress") : By(x) = u /\ Place(x) = c /\ On(On(On(x))) # c
\* A course that was deleted was saved again with its thumbnail.
Revived(c) == \E s \in stale : Op(s) = "updateThumbnail" /\ On(s) = c

\* A certificate is given for lessons that are completed: all that were there
\* when it was asked for, unless others were added meanwhile, a progress that
\* had been saved was overwritten or reported under another course, or the
\* course had been deleted and saved again.  Certificates and answers of an
\* attempt are single, and attempts no more than allowed, unless two calls of
\* one learner overlapped.  Who was granted a lesson of a course in strict
\* order has completed the one before it, if there is one (of two with the same
\* number one will do).
CredentialsEarned ==
  /\ \A x \in Table("checkAndGenerate") :
       \/ Unsaved \/ Misplaced(By(x), On(x)) \/ Revived(On(x))
       \/ \E s \in Requests : Op(s) = "addLesson" /\ Together(s, x)
       \/ \A l \in LessonsOf(On(x)) : (Made(l) \/ l \in before[x]) => Done(l, By(x))
  /\ \A c \in Table("createCourse"), u \in People :
       Cardinality(Certificates(c, u)) > 1 => <<u, c>> \in Twice("checkAndGenerate")
  /\ \A a \in Table("assess"), u \in People :
       Cardinality(AttemptsAt(a, u)) > rows[a].attempts => <<u, a>> \in Twice("startAttempt")
  /\ \A a \in Table("startAttempt") :
       LET answered == Submissions(a) \cap Table("submitAssessment")
       IN  /\ rows[a].status = "COMPLETED" => answered # {}
           /\ Cardinality(answered) > 1 => <<By(a), a>> \in Twice("submitAssessment")
  /\ \A r \in Requests :
       (Op(r) = "checkAccess" /\ pc[r] = "ok" /\ Live(On(r)) /\ ~rows[On(r)].preview) =>
         \/ Unsaved
         \/ \E s \in Requests : Op(s) \in {"addLesson", "reorderLessons"} /\ Begun(s)
         \/ \A c \in Table("createCourse") :
              (rows[c].strict /\ On(r) \in LessonsOf(c)) =>
                Previous(r) = {} \/ \E l \in Previous(r) : Done(l, By(r))

\* An active module has what it needs, directly and indirectly, installed and
\* active, unless: it was installed while another was turned off; it was turned
\* on again, which checks nothing; or a registration was saved that had changed
\* since it was read.
DependenciesActive ==
  \A x \in Table("createRegistry") :
    \/ ~rows[x].active
    \/ Dependencies(rows[x].key) \subseteq ActiveModules
    \/ \E s \in Requests : /\ Op(s) = "updateRegistry" /\ Begun(s)
                           /\ \/ Arg(s) = "OFF" /\ Together(s, x)
                              \/ Arg(s) = "ON" /\ On(s) = x
                              \/ s \in stale

Overlapped(op) == \E r, s \in Requests : Op(r) = op /\ Op(s) = op /\ Together(r, s)

\* What is looked for before it is inserted is single, although no index keeps
\* it so: the pending abandoned cart of a user, the buffer of a product, the
\* layout of a warehouse and the configuration of a carrier; unless two of the
\* calls that insert it overlapped.
SinglesKept ==
  /\ \A u \in People : Cardinality(Pending(u)) > 1 => Overlapped("trackAbandonedCarts")
  /\ \A op \in Singles : \A x, y \in Table(op) :
       rows[x].key = rows[y].key => x = y \/ Overlapped(op)

Opposite == [addToWishlist |-> "removeFromWishlist", removeFromWishlist |-> "addToWishlist"]
Acknowledged(op, x) == {c \in Requests : Op(c) = op /\ On(c) = x /\ pc[c] = "ok"}

\* What has been added to a document stays in it: a message in the conversation
\* of its ticket, a product on the list of its user until it is taken off (and
\* then it stays off); and the clicks on a short link are all counted.  The
\* exception is a save of the whole that had been read before another one.
EntriesKept ==
  /\ \A t \in Table("createTicket"), w \in Requests :
       (pc[w] = "ok" /\ (w = t \/ (Op(w) = "addMessage" /\ On(w) = t))) =>
         w \in dialogs[t] \/ \E s \in stale : Op(s) = "addMessage" /\ On(s) = t
  /\ \A w \in Requests :
       (Op(w) \in DOMAIN Opposite /\ pc[w] = "ok") =>
         \/ On(w) \in wishes[By(w)] <=> Op(w) = "addToWishlist"
         \/ \E s \in stale : Op(s) \in WishOps /\ By(s) = By(w)
         \/ \E s \in Requests : /\ Op(s) = Opposite[Op(w)] /\ Begun(s) /\ s \notin before[w]
                                /\ On(s) = On(w) /\ By(s) = By(w)
  /\ \A l \in Table("createShortlink") :
       \/ rows[l].clicks = Cardinality(Acknowledged("resolveShortlink", l))
       \/ \E s \in stale : target[s] = l
=============================================================================
