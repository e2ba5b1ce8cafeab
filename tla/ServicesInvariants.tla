-------------------------- MODULE ServicesInvariants --------------------------
(***************************************************************************)
(* What the proofs about Services speak of: where each operation may be,   *)
(* what a step may write, and, for each property, the inductive invariant  *)
(* it follows from, part by part.                                          *)
(***************************************************************************)
EXTENDS Services

\* The operations that pass through an await.
Fits(op, label) ==
  /\ label \in {"insert_content", "insert_detail", "undo"} => op \in Creates
  /\ label \in {"find_detail", "revise", "save_content", "redirect", "refind_detail",
                "save_detail"} => op \in Updates
  /\ label \in {"delete_content", "delete_detail"} => op \in Deletes
  /\ label \in {"delete_revisions", "delete_redirects", "delete_shortlinks"} =>
       op = "deleteArticle"
  /\ label = "click" => op = "resolveShortlink"
  /\ label = "publish" => op = "processScheduledPosts"
  /\ label = "get_detail" => op \in {"getArticle", "getProductById"}
  /\ label \in {"search_details", "search_both", "log_search"} => op = "searchArticles"
  /\ label = "query" => op \in CacheReads
  /\ label = "cache_set" => op \in CacheReads \cup {"createCoupon", "updateCoupon"}
  /\ label = "log_coupon" => op = "validateCoupon"
  /\ label = "save_coupon" => op \in {"updateCoupon", "removeCoupon"}
  /\ label = "save_promotion" => op \in {"updatePromotion", "removePromotion"}
  /\ label = "save_menu" => op = "saveMenu"
  /\ label = "cache_del" => op \in {"updateCoupon", "removeCoupon", "createPromotion",
                                    "updatePromotion", "removePromotion", "saveMenu"}
  /\ label = "insert_course" => op = "createCourse"
  /\ label \in {"upload_thumbnail", "save_thumbnail"} => op = "updateThumbnail"
  /\ label = "delete_course" => op = "deleteCourse"
  /\ label = "reorder" => op \in {"reorderLessons", "reorderChapters"}
  /\ label \in {"find_enrollment", "find_course", "find_previous", "find_progress"} =>
       op = "checkAccess"
  /\ label \in {"find_points", "award", "save_progress"} => op = "updateProgress"
  /\ label \in {"count_lessons", "insert_certificate"} => op = "checkAndGenerate"
  /\ label = "count_completed" => op \in {"checkAndGenerate", "createReview", "getCourseProgress"}
  /\ label \in {"find_review", "insert_review"} => op = "createReview"
  /\ label \in {"count_attempts", "insert_attempt"} => op = "startAttempt"
  /\ label \in {"find_questions", "insert_submission", "save_attempt"} => op = "submitAssessment"
  /\ label \in {"find_submission", "save_submission"} => op = "uploadAssignment"
  /\ label = "save_enrollment" => op = "updateEnrollmentStatus"
  /\ label = "insert_remark" => op \in {"addComment", "uploadMaterial"}
  /\ label = "remove_note" => op = "deleteNote"
  /\ label = "find_attempts" => op \in {"getCoursePerformance", "getLearnerReport"}
  /\ label \in {"find_installed", "insert_registry"} => op = "createRegistry"
  /\ label \in {"find_dependents", "find_active", "save_registry"} => op = "updateRegistry"
  /\ label \in {"commit_bundle", "find_bundle"} => op = "createBundle"
  /\ label = "save_bundle" => op \in {"updateBundle", "removeBundle"}
  /\ label = "log" => op \in {"findLinkByCode", "addPoints"}
  /\ label \in {"track", "insert_abandoned"} => op = "trackAbandonedCarts"
  /\ label = "save_abandoned" => op = "markRecovered"
  /\ label = "save_slip" => op \in DOMAIN Statuses
  /\ label = "save_view" => op = "updateHeartbeat"
  /\ label = "use_zone" => op \in {"addMethodToZone", "calculateShipping"}
  /\ label = "save_single" => op \in Singles
  /\ label \in {"find_rule", "find_config"} => op = "calculateTax"
  /\ label \in {"find_from", "find_to"} => op = "convert"
  /\ label = "insert_dialog" => op = "createTicket"
  /\ label = "save_dialog" => op = "addMessage"
  /\ label = "find_wishes" => op = "addToWishlist"
  /\ label = "create_wishes" => op \in WishOps
  /\ label = "save_wishes" => op \in {"addToWishlist", "removeFromWishlist"}

\* The rows an operation may write.
Reaches(op, of) ==
  \/ op = of
  \/ Names(op, of)
  \/ op = "processScheduledPosts" /\ of \in Creates
  \/ op = "deleteArticle" /\ of = "createShortlink"
  \/ op = "deleteCourse" /\ of \in {"addChapter", "addLesson"}
  \/ op \in {"reorderLessons", "reorderChapters"} /\ of \in {"addLesson", "addChapter"}
  \/ op = "uploadAssignment" /\ of = "submitAssessment"

\* Where a request stands that has found what its id names
Finders ==
  {"find_detail", "revise", "save_content", "redirect", "refind_detail", "save_detail",
   "delete_content", "delete_detail", "delete_revisions", "delete_redirects",
   "delete_shortlinks", "click", "get_detail", "save_coupon", "save_promotion",
   "upload_thumbnail", "save_thumbnail", "delete_course", "find_enrollment", "find_course",
   "find_previous", "find_progress", "count_attempts", "insert_attempt", "find_questions",
   "insert_submission", "save_attempt", "save_enrollment", "remove_note", "find_dependents",
   "find_active", "save_registry", "save_bundle", "save_slip", "save_view", "use_zone"}

\* What a request has found is what it may write.
Grips(r) ==
  /\ pc[r] \in Finders => target[r] \in Requests /\ target[r] = On(r)
  /\ target[r] \in Requests /\ Op(r) \notin AbandonedOps => Reaches(Op(r), Op(target[r]))
  /\ Op(r) = "processScheduledPosts" => \A x \in todo[r] : x \in Requests /\ Op(x) \in Creates
  /\ pc[r] = "reorder" => held[r] \in 1 .. Len(call[r].ids)

LocalsTyped ==
  /\ DOMAIN pc = Requests /\ DOMAIN before = Requests
  /\ DOMAIN target = Requests /\ DOMAIN seen = Requests /\ DOMAIN todo = Requests
  /\ DOMAIN held = Requests /\ DOMAIN rows = Requests
  /\ stale \subseteq Requests

\* Each call is where its operation leads.
OnTheWay ==
  /\ call \in Plans
  /\ LocalsTyped
  /\ \A r \in Requests : Fits(Op(r), pc[r]) /\ Grips(r)

\* A step of r moves r and nobody else, ...
Paces(r) ==
  /\ DOMAIN pc' = Requests /\ DOMAIN before' = Requests
  /\ pc'[r] # "idle"
  /\ \A q \in Requests \ {r} : pc'[q] = pc[q] /\ before'[q] = before[q]
  /\ before'[r] = IF pc[r] = "idle" THEN {s \in Requests : pc[s] = "ok"} ELSE before[r]
Bears(r) ==
  /\ DOMAIN target' = Requests /\ DOMAIN seen' = Requests /\ DOMAIN todo' = Requests
  /\ \A q \in Requests \ {r} : target'[q] = target[q] /\ seen'[q] = seen[q] /\ todo'[q] = todo[q]
  /\ stale \subseteq stale' /\ stale' \subseteq stale \cup {r}
Holds(r) ==
  /\ DOMAIN held' = Requests
  /\ \A q \in Requests \ {r} : held'[q] = held[q]
Own(r) == Paces(r) /\ Bears(r) /\ Holds(r)
\* ... and writes no rows but those it may.
Touches(r) ==
  /\ DOMAIN rows' = Requests
  /\ \A x \in Requests : rows'[x] = rows[x] \/ Reaches(Op(r), Op(x))
Strides(r) == Own(r) /\ Fits(Op(r), pc'[r]) /\ Touches(r) /\ Grips(r)'
----------------------------------------------------------------------------
\* A step of a module is one of a call of its operations.
ContentCalls == ArticleOps \cup ProductOps \cup AdvancedOps \cup JobOps
CacheCalls == CouponOps \cup PromotionOps \cup MenuOps \cup FeedOps
LearningCalls ==
  CourseOps \cup CurriculumOps \cup PlayerOps \cup AssessmentOps \cup CredentialOps
  \cup ForumOps \cup ReviewOps \cup OperationOps \cup AdvancedLearningOps \cup ReportingOps
MarketingCalls == BundleOps \cup AffiliateOps \cup LoyaltyOps \cup AbandonedOps
BackofficeCalls ==
  Slips \cup DOMAIN Statuses \cup DOMAIN UpdatedTo \cup WishOps
  \cup {"updateHeartbeat", "calculateShipping", "calculateTax", "convert", "addMessage",
        "listRequests", "listTickets", "getConversation", "listReviews", "getRatingSummary",
        "getMySubscriptions", "getMyPreOrders", "listPOs", "getFulfillmentByOrder",
        "getArticleStats", "getPopularQueries", "getCategories", "getTags", "getRedirects",
        "getTenantStats", "getSignals", "getWidgets", "listCarriers", "listCurrencies"}
----------------------------------------------------------------------------
\* A call made beforehand has ended well, and so have those known to have.
Timely ==
  /\ \A r \in Requests : Made(r) => pc[r] = "ok"
  /\ \A r \in Requests : before[r] \subseteq {s \in Requests : pc[s] = "ok"}
----------------------------------------------------------------------------
Alone(x, y, op) == rows[x].key = rows[y].key => x = y \/ Overlapped(op)
\* Who is going to save the row of a key knows the only one there is.
Replacing(r) ==
  pc[r] = "save_single" =>
    \A x \in Table(Op(r)) : rows[x].key = Key(r) => x = target[r] \/ Overlapped(Op(r))
SinglesHeld ==
  /\ \A op \in Singles : \A x, y \in Table(op) : Alone(x, y, op)
  /\ \A r \in Requests : Replacing(r)
----------------------------------------------------------------------------
Tracked(r, u) == \A x \in Pending(u) : x = r \/ Overlapped("trackAbandonedCarts")
AbandonedHeld ==
  /\ abandoned \in [Requests \X People -> {"PENDING", "RECOVERED", NONE}]
  /\ \A u \in People, x, y \in Requests :
       x \in Pending(u) /\ y \in Pending(u) => x = y \/ Overlapped("trackAbandonedCarts")
  /\ \A r \in Requests :
       pc[r] = "insert_abandoned" => target[r] \in People /\ Tracked(r, target[r])

\* What must hold for the rows that are looked for to be single
SinglesInv == OnTheWay /\ Timely /\ SinglesHeld /\ AbandonedHeld
----------------------------------------------------------------------------
\* The calls that keep a document as a whole
Documents == {"createTicket", "addMessage", "getWishlist", "addToWishlist", "removeFromWishlist"}
----------------------------------------------------------------------------
\* A call that adds to what another made has found that one at its end.
Added == {"addMessage", "resolveShortlink"}
Rooted(r) == Op(r) \in Added /\ pc[r] # "idle" => On(r) \in Requests /\ Ended(On(r))

Spoiled(t) == \E s \in stale : Op(s) = "addMessage" /\ On(s) = t
Heard(w, t) == pc[w] = "ok" => w \in dialogs[t] \/ Spoiled(t)
DialogsHeld ==
  /\ DOMAIN dialogs = Requests
  /\ \A r \in Requests : Rooted(r)
  /\ \A t \in Requests : Op(t) = "createTicket" => Heard(t, t)
  /\ \A w \in Requests : Op(w) = "addMessage" => Heard(w, On(w))
----------------------------------------------------------------------------
\* What is on its way into a list
Wishing(r) ==
  /\ Op(r) = "addToWishlist" /\ pc[r] \notin {"idle", "failed"} => On(r) \in Requests
  /\ pc[r] = "save_wishes" => held[r] \subseteq Requests /\ wishes[By(r)] # NONE
  /\ pc[r] = "create_wishes" => Op(r) \in WishOps
\* The exceptions: a list that was read before another save of it, ...
Mixed(u) == \E s \in stale : Op(s) \in WishOps /\ By(s) = u
\* ... and a call for the opposite that ended later.
Undone(w) ==
  \E s \in Requests : /\ Op(s) = Opposite[Op(w)] /\ Begun(s) /\ s \notin before[w]
                      /\ On(s) = On(w) /\ By(s) = By(w)
Wished(w) ==
  Op(w) \in DOMAIN Opposite /\ pc[w] = "ok" =>
    /\ wishes[By(w)] # NONE
    /\ (On(w) \in wishes[By(w)] <=> Op(w) = "addToWishlist") \/ Mixed(By(w)) \/ Undone(w)
WishesHeld ==
  /\ DOMAIN wishes = People
  /\ \A u \in People : wishes[u] = NONE \/ wishes[u] \subseteq Requests
  /\ \A r \in Requests : Wishing(r) /\ Wished(r)
----------------------------------------------------------------------------
Linkers == {"createShortlink", "resolveShortlink", "deleteArticle"}

Links == [slug : Keys \cup {NONE}, clicks : Nat]
Clicks(l) == Acknowledged("resolveShortlink", l)
Lost(l) == \E s \in stale : Op(s) = "resolveShortlink" /\ target[s] = l /\ pc[s] = "ok"
Counted(l) ==
  rows[l] # NONE => rows[l] \in Links /\ (rows[l].clicks = Cardinality(Clicks(l)) \/ Lost(l))
Clicking(r) == Op(r) = "resolveShortlink" /\ pc[r] = "click" => seen[r] \in Links \ {NONE}
LinksHeld ==
  /\ \A r \in Requests : Op(r) = "resolveShortlink" => Rooted(r) /\ Clicking(r)
  /\ \A l \in Requests : Op(l) = "createShortlink" => Counted(l)

\* What must hold for what is added to stay
EntriesInv == OnTheWay /\ Timely /\ DialogsHeld /\ WishesHeld /\ LinksHeld
----------------------------------------------------------------------------
\* What kind of row an operation inserts
RowFits(op, row) ==
  /\ row \in Rows
  /\ op \in ArticleCreates => row \in ArticleRows
  /\ op = "createProduct" => row \in ProductRows
  /\ op = "createShortlink" => row \in Shortlinks
  /\ op = "searchArticles" => row \in [found : Nat]
  /\ op = "createCoupon" => row \in Coupons
  /\ op = "validateCoupon" => row \in [valid : BOOLEAN]
  /\ op = "createPromotion" => row \in Promotions
  /\ op = "saveMenu" => row \in Menus
  /\ op = "createCourse" => row \in CourseRows
  /\ op = "addChapter" => row \in ChapterRows
  /\ op = "addLesson" => row \in LessonRows
  /\ op = "enroll" => row \in EnrollmentRows
  /\ op = "updateProgress" => row \in ProgressRows
  /\ op = "checkAndGenerate" => row \in CertificateRows
  /\ op = "assess" => row \in AssessmentRows
  /\ op = "startAttempt" => row \in AttemptRows
  /\ op \in {"submitAssessment", "uploadAssignment"} => row \in SubmissionRows
  /\ op = "createReview" => row \in ReviewRows
  /\ op \in {"createNote", "createThread", "addComment", "uploadMaterial"} => row \in Remarks
  /\ op = "createModule" => row \in ModuleRows
  /\ op = "createRegistry" => row \in RegistryRows
  /\ op = "createBundle" => row \in BundleRows
  /\ op = "createProgram" => row \in ProgramRows
  /\ op = "createLink" => row \in LinkRows
  /\ op = "createTier" => row \in TierRows
  /\ op = "addPoints" => row \in PointRows
  /\ op \in Slips => row \in SlipRows

\* Where a request stands that has found a row, unless it is to make a new one
Returners == {"find_points", "award", "save_progress", "save_submission", "save_single"}
\* and the row that it is going to change then
Resumes(op, of) == of = op \/ (op = "uploadAssignment" /\ of = "submitAssessment")
\* Where it holds a list of rows
Searchers == {"publish", "search_details", "search_both", "log_search"}

\* What a request has seen is a row of the kind it has found.
Sight(r) ==
  \/ seen[r] = NONE
  \/ Op(r) = "processScheduledPosts"
  \/ target[r] \in Requests /\ RowFits(Op(target[r]), seen[r])
Facing(r) ==
  /\ pc[r] \in Finders => seen[r] # NONE
  /\ pc[r] \in Returners =>
       target[r] = r \/ (seen[r] # NONE /\ Resumes(Op(r), Op(target[r])))
  /\ pc[r] \in Searchers => todo[r] \subseteq Requests
  /\ pc[r] = "publish" => \A x \in todo[r] : IsArticle(x) /\ RowFits(Op(x), seen[r][x])
  /\ Op(r) \in AbandonedOps => seen[r] = NONE
RowsTyped ==
  /\ \A x \in Requests : rows[x] = NONE \/ RowFits(Op(x), rows[x])
  /\ \A r \in Requests : Sight(r) /\ Facing(r)

\* What a step of r must do for the types
RowsKeep == \A x \in Requests : rows'[x] \in {rows[x], NONE} \/ RowFits(Op(x), rows'[x])
Keeps(r) == RowsKeep /\ Sight(r)' /\ Facing(r)'
----------------------------------------------------------------------------
\* The calls that write articles and products
Authors == Creates \cup Updates \cup Deletes \cup JobOps

\* Those that name an article or a product, and leave it as it is
Onlookers ==
  OfProducts \cup {"getArticle", "getRelatedPosts", "recordView", "getArticleStats",
                   "getProductById", "listReviews", "addToWishlist", "removeFromWishlist",
                   "getRatingSummary"}
----------------------------------------------------------------------------
\* Why a text of x may be gone: a row was saved that had changed since it was
\* read, ...
Overwritten(x) ==
  \E s \in stale : (Op(s) \in Updates /\ target[s] = x) \/ Op(s) = "processScheduledPosts"
\* ... the article or old revisions were deleted, ...
Cleared(x) ==
  \E d \in Requests : Begun(d) /\ (\/ Op(d) = "deleteArticle" /\ On(d) = x
                                   \/ Op(d) = "cleanupOldRevisions")
\* ... or it was updated while it was not there yet.
Crossed(x) == \E u \in WritersOf(x) : Together(u, x)
Excused(x) == Overwritten(x) \/ Cleared(x) \/ Crossed(x)

InRow(x, w) == rows[x] # NONE /\ rows[x].text = w
InRevision(x, w) == \E v \in revisions : v.of = x /\ v.row = w
Wrote(w) ==
  \/ Op(w) \in ArticleCreates /\ pc[w] \in {"insert_detail", "ok"}
  \/ Op(w) = "updateArticle" /\ pc[w] \in {"redirect", "refind_detail", "save_detail", "ok"}

\* A create has no row before it inserts it, and none when it was undone.
Making(x) ==
  /\ pc[x] \in {"idle", "insert_content", "insert_detail", "undo", "ok", "failed"}
  /\ (pc[x] \in {"idle", "insert_content"} \/ (pc[x] = "failed" /\ target[x] = NONE)) =>
       rows[x] = NONE \/ Overwritten(x)
  /\ pc[x] \in {"insert_detail", "undo"} => target[x] = x
\* An update follows the create, or they overlap.
Following(u) ==
  pc[u] # "idle" => \/ On(u) \in before[u] \/ Together(u, On(u)) \/ Overwritten(On(u))
\* What it is going to overwrite has a revision.
Revising(u) ==
  pc[u] = "save_content" => InRevision(On(u), seen[u].text) \/ Excused(On(u))
Documented(x) == pc[x] = "ok" => details[x] # NONE \/ Cleared(x)
Recorded(x, w) == Wrote(w) => InRow(x, w) \/ InRevision(x, w) \/ Excused(x)

ContentHeld ==
  /\ DOMAIN details = Requests
  /\ \A s \in stale : pc[s] # "idle"
  /\ \A x \in Requests : Op(x) \in Creates => Making(x)
  /\ \A u \in Requests : Op(u) = "updateArticle" /\ On(u) # NONE => Following(u) /\ Revising(u)
  /\ \A x \in Requests : IsArticle(x) =>
       Documented(x) /\ \A w \in WritersOf(x) : Recorded(x, w)
----------------------------------------------------------------------------
\* What a step of r must do to what others have written, ...
Settled(r) ==
  /\ DOMAIN details' = Requests
  /\ \A x, w \in Requests :
       IsArticle(x) /\ InRevision(x, w) => InRevision(x, w)' \/ Excused(x)'
  /\ \A x, w \in Requests :
       (IsArticle(x) /\ w \in WritersOf(x) \ {r} /\ Wrote(w) /\ InRow(x, w)) =>
         InRow(x, w)' \/ InRevision(x, w)' \/ Excused(x)'
  /\ \A x \in Requests \ {r} :
       Op(x) \in Creates /\ rows[x] = NONE => rows'[x] = NONE \/ Overwritten(x)'
  /\ \A x \in Requests :
       IsArticle(x) => details'[x] \in {details[x]} \cup Requests \/ Cleared(x)'
\* ... and where it must lead r.
Leading(r) ==
  /\ Op(r) \in Creates => Making(r)
  /\ IsArticle(r) => Documented(r) /\ Recorded(r, r)
  /\ Op(r) = "updateArticle" /\ On(r) # NONE =>
       Following(r) /\ Revising(r) /\ Recorded(On(r), r)
----------------------------------------------------------------------------
ContentInv == OnTheWay /\ Timely /\ RowsTyped /\ ContentHeld
----------------------------------------------------------------------------
\* The calls that change what is kept under k
Writing(w, k) == Begun(w) /\ Op(w) \in OpsOf(k) \cap CacheWrites
\* None of them has overlapped with another call so far, or moved a menu.
Calm(k) ==
  \A w \in Requests : Writing(w, k) =>
    /\ Op(w) = "saveMenu" => Place(w) = k[2]
    /\ \A s \in Requests : Op(s) \in OpsOf(k) => ~Together(w, s)
\* What such a call has still to fill or to clear
Owes(w, k) ==
  /\ Writing(w, k)
  /\ \/ pc[w] = "failed"
     \/ pc[w] = "cache_del" /\ (k = DelKey(w) \/ (Op(w) = "updateCoupon" /\ k = SetKey(w)))
     \/ pc[w] = "cache_set" /\ k = SetKey(w)
Fresh(k) == cache[k] = NONE \/ cache[k] \in Current(k)
\* What a call in between has read is what the table holds.
Carries(q, k) ==
  /\ pc[q] = "cache_set" /\ Op(q) \in CacheReads /\ CacheKey(q) = k => held[q] \in Current(k)
  /\ pc[q] = "save_coupon" => rows[target[q]] = seen[q]
  /\ pc[q] \in {"cache_set", "cache_del"} /\ Op(q) \in {"createCoupon", "updateCoupon"} =>
       \E x \in Table("createCoupon") : held[q] = Entities({x})
CodesUnique ==
  \A x, y \in Table("createCoupon") : rows[x].code = rows[y].code => x = y
\* A coupon is there only after its create has begun, and only then found.
CouponsBorn ==
  /\ \A x \in Requests : Op(x) = "createCoupon" /\ pc[x] = "idle" => rows[x] = NONE
  /\ \A q \in Requests : pc[q] = "save_coupon" => pc[target[q]] # "idle"
CacheHeld ==
  /\ DOMAIN cache = CacheKeys
  /\ CodesUnique
  /\ CouponsBorn
  /\ \A k \in CacheKeys : OpsOf(k) # {} /\ Calm(k) =>
       /\ Fresh(k) \/ \E w \in Requests : Owes(w, k)
       /\ \A q \in Requests : Op(q) \in OpsOf(k) => Carries(q, k)
----------------------------------------------------------------------------
Cachers == CouponOps \cup PromotionOps \cup MenuOps

\* Where the rows that are kept come from
Origins == {"createCoupon", "createPromotion", "saveMenu"}
----------------------------------------------------------------------------
\* What holds of a key that is calm
Held(k) ==
  /\ Fresh(k) \/ \E w \in Requests : Owes(w, k)
  /\ \A q \in Requests : Op(q) \in OpsOf(k) => Carries(q, k)
----------------------------------------------------------------------------
CacheInv == OnTheWay /\ Timely /\ RowsTyped /\ CacheHeld
----------------------------------------------------------------------------
\* What the locals of a call are: it may have found a row or a user, ...
Places == Requests \cup People \cup {NONE}
LocalsShaped ==
  /\ target \in [Requests -> Places]
  /\ todo \in [Requests -> SUBSET (Requests \cup People)]
  /\ before \in [Requests -> SUBSET Requests]
\* ... and holds what it is about to write elsewhere.
Entry(value) == \A e \in value : e[1] \in Requests /\ e[2] \in Rows
\* (A call at any other label holds nothing that matters.)
Light(r, label) ==
  /\ label \notin {"idle", "revise", "cache_set", "award", "save_dialog", "save_wishes"}
  /\ label = "cache_del" => Op(r) # "updateCoupon"
HeldShaped(r) ==
  /\ pc[r] = "revise" => held[r] \in Requests
  /\ pc[r] = "cache_set" \/ (pc[r] = "cache_del" /\ Op(r) = "updateCoupon") => Entry(held[r])
  /\ pc[r] = "award" => held[r] \in Nat \cup {NONE}
  /\ pc[r] \in {"save_dialog", "save_wishes"} => held[r] \subseteq Requests
Shapes(r) == LocalsShaped' /\ HeldShaped(r)'
----------------------------------------------------------------------------
\* What the tables hold besides rows
StateShaped ==
  /\ details \in [Requests -> Requests \cup {NONE}]
  /\ revisions \subseteq Revisions /\ redirects \subseteq Redirects
  /\ DOMAIN cache = CacheKeys /\ \A k \in CacheKeys : cache[k] = NONE \/ Entry(cache[k])
  /\ points \in [People -> Nat \cup {NONE}]
  /\ logged \subseteq Requests
  /\ abandoned \in [Requests \X People -> {"PENDING", "RECOVERED", NONE}]
  /\ DOMAIN dialogs = Requests /\ \A r \in Requests : dialogs[r] = NONE \/ dialogs[r] \subseteq Requests
  /\ DOMAIN wishes = People /\ \A u \in People : wishes[u] = NONE \/ wishes[u] \subseteq Requests
Shaped == LocalsShaped /\ StateShaped /\ \A r \in Requests : HeldShaped(r)
----------------------------------------------------------------------------
ContentShaped ==
  details \in [Requests -> Requests \cup {NONE}] /\ revisions \subseteq Revisions
  /\ redirects \subseteq Redirects

CacheShaped == DOMAIN cache = CacheKeys /\ \A k \in CacheKeys : cache[k] = NONE \/ Entry(cache[k])
----------------------------------------------------------------------------
MarketingShaped ==
  logged \subseteq Requests /\ abandoned \in [Requests \X People -> {"PENDING", "RECOVERED", NONE}]

DocumentsShaped ==
  /\ DOMAIN dialogs = Requests /\ \A r \in Requests : dialogs[r] = NONE \/ dialogs[r] \subseteq Requests
  /\ DOMAIN wishes = People /\ \A u \in People : wishes[u] = NONE \/ wishes[u] \subseteq Requests
----------------------------------------------------------------------------
TypesInv == OnTheWay /\ Timely /\ RowsTyped /\ Shaped
----------------------------------------------------------------------------
\* What a key needs among some modules, told by the calls that made them
Closed(ms, k, ks) == \A m \in ms : Key(m) \in ks \cup {k} => call[m].to \subseteq ks
Needs(ms, k) == {d \in Keys : \A ks \in SUBSET Keys : Closed(ms, k, ks) => d \in ks}
AsksKeys(ms) == \A m \in ms : call[m].to \subseteq Keys
----------------------------------------------------------------------------
\* A module stays as it was asked for, ...
ModulesStand ==
  \A m \in Requests : (Op(m) = "createModule" /\ rows[m] # NONE) =>
    rows[m] = [key |-> Key(m), deps |-> call[m].to] /\ pc[m] = "ok"
ModuleOf(k) == {m \in Table("createModule") : Key(m) = k}
----------------------------------------------------------------------------
\* Two modules have one key only if both were there before.
ModulesApart ==
  \A m, n \in Table("createModule") : Key(m) = Key(n) => m = n \/ (Made(m) /\ Made(n))
\* Of two calls one knew of every call the other knew of, and of what was made.
Known ==
  /\ \A q, r \in Requests : Begun(q) /\ Begun(r) =>
       before[q] \subseteq before[r] \/ before[r] \subseteq before[q]
  /\ \A q, r \in Requests : Begun(q) /\ Made(r) => r \in before[q]

\* What may have spoiled the registrations
Switcher(s) == Op(s) = "updateRegistry" /\ Begun(s)
OffSince(y) == \E s \in Requests : Switcher(s) /\ Arg(s) = "OFF" /\ s \notin before[y]
OffBeside(x) == \E s \in Requests : Switcher(s) /\ Arg(s) = "OFF" /\ Together(s, x)
TurnedOn(x) == \E s \in Requests : Switcher(s) /\ Arg(s) = "ON" /\ On(s) = x
SavedOver == \E s \in stale : Switcher(s)

\* A module is registered when it is there, ...
HasBefore(y) ==
  \E m \in Table("createModule") :
    /\ Key(m) = Key(y)
    /\ IF Made(y) THEN Made(m) ELSE m \in before[y]
ModulesBefore(y) == {m \in Table("createModule") : m \in before[y]}
Standing(y) == rows[y] # NONE \/ pc[y] = "insert_registry"
Placed(y) ==
  /\ rows[y] # NONE => pc[y] = "ok" /\ rows[y].key = Key(y)
  /\ rows[y] # NONE \/ pc[y] \in {"find_installed", "insert_registry"} => HasBefore(y)
  /\ pc[y] = "find_installed" => held[y] = Needs(ModulesBefore(y), Key(y))
  /\ Standing(y) => \A d \in Dependencies(Key(y)) : ModuleOf(d) # {}
\* ... with what it needs, ...
Supplied(y) ==
  Standing(y) /\ ~Made(y) =>
    \A d \in Dependencies(Key(y)) : d \in ActiveModules \/ OffSince(y) \/ SavedOver
\* ... and active with it.
Running(y) ==
  rows[y] # NONE /\ rows[y].active =>
    Dependencies(Key(y)) \subseteq ActiveModules \/ OffBeside(y) \/ TurnedOn(y) \/ SavedOver
\* Who turns one off knows those that need it and were there when it began.
UsersBefore(s) ==
  {x \in Table("createRegistry") : x \in before[s] /\ Key(On(s)) \in Dependencies(Key(x))}
Switching(s) ==
  /\ pc[s] \in {"find_dependents", "find_active", "save_registry"} =>
       On(s) \in Table("createRegistry") /\ seen[s].key = Key(On(s))
  /\ pc[s] = "find_active" => \A x \in UsersBefore(s) : Key(x) \in held[s]
  /\ pc[s] = "save_registry" /\ Arg(s) = "OFF" /\ seen[s].active =>
       \A x \in UsersBefore(s) : ~rows[x].active \/ TurnedOn(x) \/ SavedOver
RegistryHeld ==
  /\ ModulesStand /\ ModulesApart /\ Known
  /\ \A y \in Requests : Op(y) = "createRegistry" => Placed(y) /\ Supplied(y) /\ Running(y)
  /\ \A s \in Requests : Op(s) = "updateRegistry" => Switching(s)
----------------------------------------------------------------------------
\* The ways in which the modules may go on
NewModules(r, more) ==
  /\ Table("createModule")' = Table("createModule") \cup more
  /\ more \in SUBSET {r} /\ \A m \in more : pc[m] = "idle"
  /\ \A m \in more, n \in Table("createModule") : Key(n) # Key(m)
----------------------------------------------------------------------------
\* What holds of a call that registers, or changes a registration
Registering(q) ==
  /\ Op(q) = "createRegistry" => Placed(q) /\ Supplied(q) /\ Running(q)
  /\ Op(q) = "updateRegistry" => Switching(q)
----------------------------------------------------------------------------
RegistryInv == OnTheWay /\ Timely /\ RowsTyped /\ RegistryHeld
----------------------------------------------------------------------------
\* The rows that credentials are earned with
Schooled ==
  {"createCourse", "addChapter", "addLesson", "enroll", "updateProgress", "checkAndGenerate",
   "assess", "startAttempt", "submitAssessment"}
Still == \A x \in Requests : Op(x) \in Schooled => rows'[x] = rows[x]
\* What a step of a learner's call reads, and what it writes of them
Learns(r) ==
  /\ \/ target'[r] = target[r] /\ seen'[r] = seen[r]
     \/ seen'[r] = NONE
     \/ target'[r] \in Requests /\ seen'[r] = rows[target'[r]]
  /\ \/ Still
     \/ createCourse(r) \/ updateThumbnail(r) \/ deleteCourse(r) \/ addChapter(r) \/ addLesson(r)
     \/ Reorder(r) \/ SaveProgress(r) \/ InsertCertificate(r) \/ InsertAttempt(r)
     \/ InsertSubmission(r) \/ SaveAttempt(r) \/ uploadAssignment(r) \/ updateEnrollmentStatus(r)
----------------------------------------------------------------------------
\* What the columns of a row say that never change
Meant(x, row) ==
  /\ Op(x) = "createCourse" => row.strict = (Arg(x) = "STRICT")
  /\ Op(x) = "addChapter" => row.course = On(x)
  /\ Op(x) = "addLesson" => row.chapter = On(x) /\ row.preview = (Arg(x) = "PREVIEW")
  /\ Op(x) = "updateProgress" => row.user = By(x) /\ row.course = Place(x) /\ row.lesson = On(x)
  /\ Op(x) = "checkAndGenerate" => row = [user |-> By(x), course |-> On(x)]
  /\ Op(x) = "assess" => row.attempts = call[x].no
  /\ Op(x) = "startAttempt" => row.user = By(x) /\ row.assessment = On(x)
  /\ Op(x) = "submitAssessment" => row.attempt = On(x)
\* Rows that no call deletes
Lasting == Schooled \ {"createCourse", "addChapter", "addLesson"}
RowsMeant ==
  /\ \A x \in Requests : rows[x] # NONE => Meant(x, rows[x])
  /\ \A r \in Requests : target[r] \in Requests /\ seen[r] # NONE /\ Op(r) \in LearningCalls =>
       Meant(target[r], seen[r]) /\ (Op(target[r]) \in Lasting => rows[target[r]] # NONE)
CourseOf(l) == On(On(l))
\* Chapters and lessons are of what is there, and go only with their course.
Seated(x) ==
  /\ Op(x) \in {"addChapter", "addLesson"} /\ rows[x] # NONE => Live(On(x))
  /\ Op(x) = "addLesson" /\ pc[x] = "ok" /\ rows[CourseOf(x)] # NONE =>
       rows[x] # NONE \/ Revived(CourseOf(x))
\* What a step of r may do to such a row: r inserts it; ...
Erased(c) ==
  {x \in Requests : \/ x = c
                    \/ Op(x) = "addChapter" /\ On(x) = c
                    \/ Op(x) = "addLesson" /\ CourseOf(x) = c}
\* ... deletes it with its course; ...
Erases(r, x) ==
  /\ Op(r) = "deleteCourse"
  /\ x \in Erased(On(r))
  /\ \A y \in Erased(On(r)) : rows'[y] = NONE
\* ... inserts a course again; ...
Revives(r, x) == Op(x) = "createCourse" /\ rows'[x] # NONE /\ Revived(x)'
\* ... or alters it.
Alters(r, x) ==
  /\ rows[x] # NONE /\ rows'[x] # NONE
  /\ Op(x) = "updateProgress" /\ rows[x].done => rows'[x].done \/ Unsaved'
  /\ Op(x) = "startAttempt" =>
       Op(r) = "submitAssessment" /\ pc[r] = "save_attempt" /\ x = On(r)
       /\ rows'[x].status = "COMPLETED"
  /\ Op(x) = "addLesson" => Op(r) = "reorderLessons"
Changes(r, x) ==
  \/ rows'[x] = rows[x]
  \/ x = r /\ rows'[x] # NONE
  \/ Erases(r, x) \/ Revives(r, x) \/ Alters(r, x)
----------------------------------------------------------------------------
\* Where calls stand that name another's row, or whose row is there
Led(r) ==
  /\ Op(r) \in {"addChapter", "addLesson", "updateProgress", "checkAccess"} /\ pc[r] # "idle" =>
       On(r) \in Requests /\ Ended(On(r))
  /\ Op(r) = "checkAndGenerate" /\ pc[r] # "idle" /\ On(r) # NONE => Ended(On(r))
  /\ Op(r) \in {"addChapter", "addLesson"} => pc[r] \in {"idle", "ok"}
  /\ Op(r) \in {"addLesson", "updateProgress", "checkAndGenerate", "startAttempt"}
       /\ rows[r] # NONE => pc[r] = "ok"
Grounds ==
  /\ OnTheWay /\ Timely /\ RowsTyped /\ RowsMeant
  /\ \A x \in Requests : Seated(x) /\ Led(x)
\* The reasons for a certificate that does not fit
Excepted(x) ==
  \/ Unsaved \/ Misplaced(By(x), On(x)) \/ Revived(On(x))
  \/ \E s \in Requests : Op(s) = "addLesson" /\ Together(s, x)
\* The curriculum has changed.
Rewritten == \E s \in Requests : Op(s) \in {"addLesson", "reorderLessons"} /\ Begun(s)
----------------------------------------------------------------------------
\* Progress is reported once.
OneProgress ==
  \A x, y \in Table("updateProgress") : By(x) = By(y) /\ On(x) = On(y) => x = y
\* A certificate is there or asked for.
Asking(x) ==
  /\ Op(x) = "checkAndGenerate"
  /\ rows[x] # NONE \/ pc[x] \in {"count_lessons", "count_completed", "insert_certificate"}
OneCertificate ==
  \A x, y \in Requests : Asking(x) /\ Asking(y) /\ Learner(x) = Learner(y) =>
    x = y \/ Together(x, y)
----------------------------------------------------------------------------
\* Attempts that were made or are about to be
Attempting(z, u) ==
  {x \in Requests : /\ Op(x) = "startAttempt" /\ On(x) = z /\ By(x) = u
                    /\ rows[x] # NONE \/ pc[x] = "insert_attempt"}
FewAttempts ==
  \A z \in Requests, u \in People :
    Op(z) = "assess" =>
      Cardinality(Attempting(z, u)) <= call[z].no \/ <<u, z>> \in Twice("startAttempt")
----------------------------------------------------------------------------
\* Who submits has found an attempt of his that was not completed.
Submitting(s) ==
  Op(s) = "submitAssessment" =>
    /\ pc[s] # "idle" => On(s) \in Requests /\ rows[On(s)] # NONE /\ By(On(s)) = By(s)
    /\ rows[s] # NONE => pc[s] # "idle"
    /\ pc[s] = "save_attempt" => rows[s] # NONE
    /\ pc[s] = "ok" => rows[On(s)].status = "COMPLETED"
    /\ \A q \in before[s] : Op(q) = "submitAssessment" => On(q) # On(s)
\* An attempt that is completed was submitted.
Answered(z) ==
  Op(z) = "startAttempt" /\ rows[z] # NONE /\ rows[z].status = "COMPLETED" =>
    \E s \in Requests : Op(s) = "submitAssessment" /\ On(s) = z /\ rows[s] # NONE
AnswersHeld == \A s \in Requests : Submitting(s) /\ Answered(s)
----------------------------------------------------------------------------
\* x comes before the lesson that r is about, ...
Earlier(x, r) ==
  /\ Op(x) = "addLesson" /\ rows[x] # NONE
  /\ On(x) = On(On(r)) /\ rows[x].order + 1 = seen[r].order
\* ... and u has completed it.
Finished(l, u) ==
  \E p \in Requests : /\ Op(p) = "updateProgress" /\ rows[p] # NONE
                      /\ On(p) = l /\ By(p) = u /\ rows[p].done
Granted(r) ==
  \/ Rewritten \/ Unsaved \/ rows[On(r)] = NONE \/ Arg(On(r)) = "PREVIEW"
  \/ Arg(CourseOf(On(r))) # "STRICT"
  \/ \A x \in Requests : ~Earlier(x, r)
  \/ \E x \in Requests : Earlier(x, r) /\ Finished(x, By(r))
Access(r) ==
  Op(r) = "checkAccess" /\ pc[r] # "idle" =>
    /\ target[r] = On(r) /\ seen[r] # NONE
    /\ pc[r] = "find_course" => held[r] = CourseOf(On(r))
    /\ pc[r] = "find_progress" =>
         \/ Rewritten \/ rows[On(r)] = NONE
         \/ held[r] \in Requests /\ Earlier(held[r], r)
    /\ pc[r] = "ok" => Granted(r)
----------------------------------------------------------------------------
Lessons(c) == {l \in Requests : Op(l) = "addLesson" /\ rows[l] # NONE /\ CourseOf(l) = c}
\* Who is asked for a certificate has counted the lessons, and has found as
\* many completed: those that he had to find are.
Certifying(x) ==
  Op(x) = "checkAndGenerate" =>
    /\ pc[x] = "count_completed" /\ Live(On(x)) =>
         held[x] = Cardinality(Lessons(On(x))) \/ Excepted(x)
    /\ pc[x] = "insert_certificate" \/ rows[x] # NONE =>
         \/ \A l \in Lessons(On(x)) : (Made(l) \/ l \in before[x]) => Finished(l, By(x))
         \/ Excepted(x)
----------------------------------------------------------------------------
\* What the credentials rest on
LearningHeld ==
  /\ OneProgress /\ OneCertificate /\ FewAttempts /\ AnswersHeld
  /\ \A x \in Requests : Certifying(x) /\ Access(x)
CredentialsInv == Grounds /\ LearningHeld
===============================================================================
