----------------------------- MODULE MCServices ------------------------------
(***************************************************************************)
(* Two users.  Each plan has up to five calls made beforehand, m1 to m5,   *)
(* and up to five that come together, r1 to r5.                            *)
(***************************************************************************)
EXTENDS Services, TLC

CONSTANTS m1, m2, m3, m4, m5, r1, r2, r3, r4, r5, a, b, k1, k2, k3

MCRequests == {m1, m2, m3, m4, m5, r1, r2, r3, r4, r5}
MCPeople == {a, b}
MCKeys == {k1, k2, k3}

\* A call of user a; the rest is said with EXCEPT.
Call(op, x, key, arg) ==
  [op |-> op, by |-> a, on |-> x, to |-> {}, key |-> key, at |-> NONE, arg |-> arg,
   ids |-> <<>>, no |-> 1, made |-> FALSE]
Had(c) == [c EXCEPT !.made = TRUE]
By1(u, c) == [c EXCEPT !.by = u]
Do(op) == Call(op, NONE, NONE, "NONE")
On1(op, x) == Call(op, x, NONE, "NONE")
Of(op, key) == Call(op, NONE, key, "NONE")
For(op, set) == [Do(op) EXCEPT !.to = set]
None == Do("none")

Article(key, status) == Call("createArticle", NONE, key, status)
Update(x, key) == Call("updateArticle", x, key, "NONE")
Menu1(key, place) == [Of("saveMenu", key) EXCEPT !.at = place]
Lesson(chapter, no) == [On1("addLesson", chapter) EXCEPT !.no = no]
Course(arg) == Had(Call("createCourse", NONE, k1, arg))
Chapter(c) == Had(On1("addChapter", c))
Enrolled(c) == Had(Call("enroll", c, NONE, "ACTIVE"))
Progress(l, c, arg) == [Call("updateProgress", l, NONE, arg) EXCEPT !.at = c]
Module(key, deps) == [Of("createModule", key) EXCEPT !.to = deps]
Install(key) == Of("createRegistry", key)
Switch(x, arg) == Call("updateRegistry", x, NONE, arg)

Plan(p, q) ==
  LET made == p \o [i \in 1 .. 5 - Len(p) |-> None]
      come == q \o [i \in 1 .. 5 - Len(q) |-> None]
  IN  m1 :> Had(made[1]) @@ m2 :> Had(made[2]) @@ m3 :> Had(made[3]) @@ m4 :> Had(made[4])
      @@ m5 :> Had(made[5])
      @@ r1 :> come[1] @@ r2 :> come[2] @@ r3 :> come[3] @@ r4 :> come[4] @@ r5 :> come[5]

ContentPlans == {
  Plan(<<Article(k1, "PUBLISHED")>>, <<Update(m1, k2), Update(m1, NONE)>>),
  Plan(<<Article(k1, "PUBLISHED"), Of("createShortlink", k1)>>,
       <<On1("deleteArticle", m1), Update(m1, k2), On1("resolveShortlink", m2)>>),
  Plan(<<Article(k1, "SCHEDULED")>>,
       <<Do("processScheduledPosts"), Update(m1, NONE), Do("cleanupOldRevisions"),
         Do("generateSitemap")>>),
  Plan(<<>>, <<Article(k1, "DRAFT"), Of("submitGuestPost", k1), On1("getArticle", r1)>>),
  Plan(<<>>, <<Article(k1, "DRAFT"), Update(r1, k2), Update(r1, NONE)>>),
  Plan(<<Article(k1, "PUBLISHED")>>,
       <<Of("searchArticles", k1), Do("listArticles"), Do("generateRSS")>>),
  Plan(<<Call("createProduct", NONE, k1, "ACTIVE")>>,
       <<Call("updateProduct", m1, NONE, "INACTIVE"), On1("deleteProduct", m1),
         Call("createProduct", NONE, k1, "ACTIVE")>>),
  Plan(<<Call("createProduct", NONE, k1, "ACTIVE")>>,
       <<On1("getProductById", m1), Do("getAllProducts"), Of("createShortlink", k1),
         Of("createShortlink", k2)>>)}

CachePlans == {
  Plan(<<Of("createCoupon", k1)>>,
       <<On1("removeCoupon", m1), Of("validateCoupon", k1), Of("validateCoupon", k1)>>),
  Plan(<<Of("createCoupon", k1)>>,
       <<Call("updateCoupon", m1, k2, "ACTIVE"), Of("validateCoupon", k1),
         Call("updateCoupon", m1, k1, "INACTIVE")>>),
  Plan(<<>>, <<Of("createCoupon", k1), Of("validateCoupon", k1), Do("findAllCoupons"),
               On1("findOneCoupon", r1)>>),
  Plan(<<Do("createPromotion")>>,
       <<On1("removePromotion", m1), Do("findAllPromotions"),
         Call("updatePromotion", m1, NONE, "INACTIVE")>>),
  Plan(<<Do("createPromotion")>>,
       <<Do("createPromotion"), Do("findAllPromotions"), On1("findOnePromotion", m1)>>),
  Plan(<<Menu1(k1, k1)>>,
       <<Menu1(k1, k2), Of("getMenu", k1), Of("getMenu", k2), On1("getRelatedPosts", NONE)>>),
  Plan(<<Menu1(k1, k1)>>, <<Menu1(k1, k1), Menu1(k2, k1), Of("getMenu", k1)>>)}

LearningPlans == {
  Plan(<<Course("FREE"), Chapter(m1), Had(Lesson(m2, 1)), Enrolled(m1)>>,
       <<Progress(m3, m1, "DONE"), Lesson(m2, 2), Progress(r2, m1, "DONE"),
         On1("checkAndGenerate", m1)>>),
  Plan(<<Course("FREE"), Chapter(m1), Had(Lesson(m2, 1)), Progress(m3, m1, "DONE")>>,
       <<On1("checkAndGenerate", m1), On1("checkAndGenerate", m1), On1("createReview", m1),
         On1("createReview", m1)>>),
  Plan(<<Course("STRICT"), Chapter(m1), Had(Lesson(m2, 1)), Had(Lesson(m2, 2)), Enrolled(m1)>>,
       <<Progress(m3, m1, "DONE"), On1("checkAccess", m4),
         [Do("reorderLessons") EXCEPT !.ids = <<m4, m3>>]>>),
  Plan(<<Course("STRICT"), Chapter(m1), Had(Lesson(m2, 1)), Progress(m3, m1, "NONE"),
         Enrolled(m1)>>,
       <<Progress(m3, m1, "DONE"), Progress(m3, m1, "NONE"), On1("checkAccess", m3),
         Call("updateEnrollmentStatus", m5, NONE, "EXPIRED")>>),
  Plan(<<Course("FREE"), Had(On1("assess", m1))>>,
       <<On1("startAttempt", m2), On1("startAttempt", m2), On1("submitAssessment", r1)>>),
  Plan(<<Course("FREE"), Had(On1("assess", m1)), Had(On1("startAttempt", m2))>>,
       <<On1("submitAssessment", m3), On1("submitAssessment", m3), On1("uploadAssignment", m3)>>),
  Plan(<<Course("FREE")>>,
       <<On1("updateThumbnail", m1), On1("deleteCourse", m1), On1("addChapter", m1),
         Lesson(r3, 1)>>),
  Plan(<<Course("FREE"), Chapter(m1), Had([Lesson(m2, 1) EXCEPT !.arg = "PREVIEW"])>>,
       <<On1("createThread", m3), On1("addComment", r1), On1("uploadMaterial", m3),
         On1("checkAccess", m3)>>),
  Plan(<<>>, <<Call("createCourse", NONE, k1, "FREE"), Call("createCourse", NONE, k1, "STRICT"),
               Do("listCourses"), On1("getCourseProgress", r1)>>),
  Plan(<<Course("FREE"), Chapter(m1), Had(Lesson(m2, 1))>>,
       <<On1("createNote", m3), On1("deleteNote", r1), By1(b, On1("deleteNote", r1)),
         On1("getMyNotes", m3)>>),
  Plan(<<Course("FREE"), Chapter(m1), Enrolled(m1), Had(On1("assess", m1))>>,
       <<On1("getCoursePerformance", m1), Do("getLearnerReport"), On1("startAttempt", m4),
         [Do("reorderChapters") EXCEPT !.ids = <<m2>>]>>),
  Plan(<<Course("FREE"), Chapter(m1), Had(Lesson(m2, 1)),
         [Course("FREE") EXCEPT !.key = k2], Chapter(m4)>>,
       <<Lesson(m5, 1), Progress(r1, m1, "DONE"), On1("checkAndGenerate", m1)>>),
  Plan(<<Course("FREE"), Chapter(m1), Had(Lesson(m2, 1)), Progress(m3, m1, "DONE")>>,
       <<On1("updateThumbnail", m1), On1("deleteCourse", m1), On1("addChapter", m1),
         Lesson(r3, 1), On1("checkAndGenerate", m1)>>)}

RegistryPlans == {
  Plan(<<Module(k1, {k2}), Module(k2, {}), Install(k2)>>,
       <<Install(k1), Switch(m3, "OFF"), Switch(m3, "NONE"), Of("checkModuleAccess", k2)>>),
  Plan(<<Module(k1, {k2}), Module(k2, {k3}), Module(k3, {}), Install(k3)>>,
       <<Install(k2), Install(k1), Switch(m4, "OFF")>>),
  Plan(<<Module(k1, {k2}), Module(k2, {}), Install(k2), Install(k1)>>,
       <<Switch(m4, "OFF"), Switch(m3, "OFF"), Switch(m4, "ON")>>),
  Plan(<<Module(k2, {k3}), Module(k3, {}), Install(k3)>>,
       <<Module(k1, {k2}), Install(k1), Install(k2), Switch(m3, "OFF")>>),
  Plan(<<Module(k2, {}), Install(k2)>>,
       <<Module(k1, {k2}), Do("findAllModules"), Do("findAllRegistries")>>)}

MarketingPlans == {
  Plan(<<>>, <<For("trackAbandonedCarts", {a, b}), For("trackAbandonedCarts", {a}),
               Do("markRecovered")>>),
  Plan(<<>>, <<For("trackAbandonedCarts", {a, b}), Do("markRecovered"), Do("listAbandoned")>>),
  Plan(<<Do("createBundle")>>,
       <<Do("createBundle"), Call("updateBundle", m1, NONE, "ACTIVE"), On1("removeBundle", m1),
         Do("findAllBundles")>>),
  Plan(<<>>, <<Of("createLink", k1), Of("findLinkByCode", k1), Do("logConversion"),
               Do("createProgram")>>),
  Plan(<<>>, <<Call("addPoints", NONE, NONE, "EARN"), Call("addPoints", NONE, NONE, "REDEEM"),
               Of("createTier", k1), Do("getBalance")>>)}

Product(key) == Had(Call("createProduct", NONE, key, "ACTIVE"))
At(op, key, place) == [Of(op, key) EXCEPT !.at = place]

BackofficePlans == {
  Plan(<<Do("createTicket")>>,
       <<On1("addMessage", m1), On1("addMessage", m1), On1("addMessage", m1),
         On1("getConversation", m1)>>),
  Plan(<<>>, <<Do("createTicket"), On1("addMessage", r1), Do("listTickets"),
               On1("closeTicket", r1)>>),
  Plan(<<Product(k1), Product(k2)>>,
       <<On1("addToWishlist", m1), On1("addToWishlist", m2), On1("removeFromWishlist", m1),
         Do("getWishlist")>>),
  Plan(<<Of("createPO", k1)>>,
       <<Call("updatePOStatus", m1, NONE, "SENT"), Call("updatePOStatus", m1, NONE, "RECEIVED"),
         Of("createPO", k1), Do("listPOs")>>),
  Plan(<<Do("createRequest"), Of("createFulfillment", k1)>>,
       <<Call("updateRMAStatus", m1, NONE, "RECEIVED"), On1("addInspection", m1),
         Call("updateFulfillmentStatus", m2, NONE, "SHIPPED"), Of("getFulfillmentByOrder", k1)>>),
  Plan(<<Product(k1)>>,
       <<On1("createProductReview", m1), On1("toggleVisibility", r1), On1("deleteProduct", m1),
         On1("getRatingSummary", m1)>>),
  Plan(<<Product(k1)>>,
       <<On1("createSubscription", m1), On1("cancelSubscription", r1), On1("createPreOrder", m1),
         On1("deleteProduct", m1)>>),
  Plan(<<Do("createZone")>>,
       <<On1("addMethodToZone", m1), On1("calculateShipping", m1), Of("saveCarrierConfig", k1),
         Of("saveCarrierConfig", k1)>>),
  Plan(<<>>, <<At("createTaxRule", k1, k2), Of("createTaxRule", k1), Of("createTaxRule", k3),
               At("calculateTax", k1, k2)>>),
  Plan(<<>>, <<At("updateRate", k1, k2), At("convert", k1, k2), Do("calculateTax"),
               Do("createTaxRule")>>),
  Plan(<<Do("recordView")>>,
       <<On1("updateHeartbeat", m1), On1("updateHeartbeat", m1), On1("getArticleStats", NONE),
         Do("logSearch")>>),
  Plan(<<Of("createShortlink", k1)>>,
       <<On1("resolveShortlink", m1), On1("resolveShortlink", m1), Of("createCategory", k1),
         Of("createCategory", k1)>>),
  Plan(<<Do("saveRule")>>,
       <<On1("saveRule", m1), Of("setBuffer", k1), Of("setBuffer", k1), Do("createWarehouse")>>),
  Plan(<<Of("saveLayout", k1)>>,
       <<Of("saveLayout", k1), Of("saveLayout", k2), Of("saveLayout", k2), Do("saveRule")>>)}

MCPlans == BackofficePlans \cup ContentPlans \cup CachePlans \cup LearningPlans \cup RegistryPlans \cup MarketingPlans
=============================================================================
