------------------------------- MODULE Content -------------------------------
(***************************************************************************)
(* Articles and products.  Both keep a row in PostgreSQL and a document in *)
(* MongoDB, which no transaction covers: a create undoes its row when the  *)
(* document cannot be written.  An article has revisions, redirects and    *)
(* short links, and a job publishes what is scheduled.  A text is named    *)
(* after the request that wrote it.                                        *)
(***************************************************************************)
EXTENDS Records

VARIABLES
  details,   \* the request whose text is in the document of an article or product
  revisions, \* the texts of row and document that an update was going to change
  redirects  \* of an article, from a slug to another

contentVars == <<details, revisions, redirects>>

ArticleCreates == {"createArticle", "submitGuestPost"}
Creates == ArticleCreates \cup {"createProduct"}
Updates == {"updateArticle", "updateProduct"}
Deletes == {"deleteArticle", "deleteProduct"}

ArticleOps == {"createArticle", "updateArticle", "deleteArticle", "getArticle",
               "listArticles", "searchArticles"}
ProductOps == {"createProduct", "updateProduct", "deleteProduct", "getAllProducts",
               "getProductById"}
AdvancedOps == {"submitGuestPost", "createShortlink", "resolveShortlink"}
OfProducts == {"createProductReview", "createSubscription", "createPreOrder"}
JobOps == {"processScheduledPosts", "cleanupOldRevisions"}

ArticleRows ==
  [slug : Keys, status : {"DRAFT", "PENDING_REVIEW", "PUBLISHED", "SCHEDULED"}, text : Requests]
ProductRows == [slug : Keys, status : {"ACTIVE", "INACTIVE"}, text : Requests]
Shortlinks == [slug : Keys, clicks : Nat]
Revisions == [of : Requests, row : Requests, detail : Requests]
Redirects == [of : Requests, from : Keys, to : Keys]

ContentInit ==
  /\ details = [r \in Requests |-> IF Made(r) /\ Op(r) \in Creates THEN r ELSE NONE]
  /\ revisions = {}
  /\ redirects = {}

IsArticle(x) == Op(x) \in ArticleCreates
Contents == {x \in Requests : Op(x) \in Creates /\ rows[x] # NONE}
SlugTaken(x, slug) ==
  \E y \in Contents \ {x} : rows[y].slug = slug /\ (IsArticle(x) <=> IsArticle(y))

NewContent(r) ==
  [slug |-> Key(r),
   status |-> IF Op(r) = "submitGuestPost" THEN "PENDING_REVIEW" ELSE Arg(r),
   text |-> r]

----------------------------------------------------------------------------
\* The slug is free now ...
CreateFind(r) ==
  /\ pc[r] = "idle" /\ Op(r) \in Creates
  /\ ~SlugTaken(r, Key(r))
  /\ Goto(r, "insert_content")
  /\ UNCHANGED <<recordVars, contentVars, locals>>

\* ... and must be when the row is inserted: the column is unique.
CreateInsert(r) ==
  /\ pc[r] = "insert_content"
  /\ ~SlugTaken(r, Key(r))
  /\ Put(r, NewContent(r))
  /\ Reads(r, r, NewContent(r))
  /\ Goto(r, "insert_detail")
  /\ UNCHANGED <<held, contentVars>>

CreateDetail(r) ==
  /\ pc[r] = "insert_detail"
  /\ details' = [details EXCEPT ![r] = r]
  /\ \E outcome \in {"ok", "undo"} : Goto(r, outcome)
  /\ UNCHANGED <<recordVars, revisions, redirects, locals>>

\* MongoDB refuses.  (CreateDetail is also the write whose answer is lost.)
DetailRejected(r) ==
  /\ pc[r] = "insert_detail"
  /\ Goto(r, "undo")
  /\ UNCHANGED <<recordVars, contentVars, locals>>

\* Mutation: the row stays.
KeepRow(r) ==
  /\ pc[r] = "undo"
  /\ Reads(r, NONE, NONE)
  /\ Goto(r, "failed")
  /\ UNCHANGED <<recordVars, contentVars>>

\* The catch block deletes the row, and the call fails.
UndoCreate(r) ==
  /\ pc[r] = "undo"
  /\ Put(r, NONE)
  /\ Reads(r, NONE, NONE)
  /\ Goto(r, "failed")
  /\ UNCHANGED <<held, contentVars>>

----------------------------------------------------------------------------
UpdateFind(r) ==
  /\ pc[r] = "idle" /\ Op(r) \in Updates
  /\ Find(r, IF IsArticle(On(r)) THEN "find_detail" ELSE "save_content")
  /\ UNCHANGED contentVars

FindDetail(r) ==
  /\ pc[r] = "find_detail"
  /\ Hold(r, details[target[r]])
  /\ Goto(r, IF details[target[r]] = NONE THEN "save_content" ELSE "revise")
  /\ UNCHANGED <<rows, contentVars, locals>>

createRevision(r) ==
  /\ pc[r] = "revise"
  /\ revisions' = revisions \cup {[of |-> target[r], row |-> seen[r].text, detail |-> held[r]]}
  /\ Goto(r, "save_content")
  /\ UNCHANGED <<recordVars, details, redirects, locals>>

NewSlug(r) == IF IsArticle(target[r]) /\ Key(r) # NONE THEN Key(r) ELSE seen[r].slug

\* Mutation: a status that is not given is written all the same.
SaveGivenStatus(r) ==
  /\ pc[r] = "save_content"
  /\ ~SlugTaken(target[r], NewSlug(r))
  /\ Save(r, [slug |-> NewSlug(r), status |-> Arg(r), text |-> r],
          IF NewSlug(r) = seen[r].slug THEN "refind_detail" ELSE "redirect")
  /\ UNCHANGED contentVars

SaveContent(r) ==
  /\ pc[r] = "save_content"
  /\ ~SlugTaken(target[r], NewSlug(r))
  /\ Save(r, [slug |-> NewSlug(r),
              status |-> IF Arg(r) = "NONE" THEN seen[r].status ELSE Arg(r),
              text |-> r],
          IF NewSlug(r) = seen[r].slug THEN "refind_detail" ELSE "redirect")
  /\ UNCHANGED contentVars

SaveRedirect(r) ==
  /\ pc[r] = "redirect"
  /\ redirects' = redirects \cup {[of |-> target[r], from |-> seen[r].slug, to |-> NewSlug(r)]}
  /\ Goto(r, "refind_detail")
  /\ UNCHANGED <<recordVars, details, revisions, locals>>

RefindDetail(r) ==
  /\ pc[r] = "refind_detail"
  /\ Hold(r, details[target[r]])
  /\ Goto(r, IF details[target[r]] = NONE THEN "ok" ELSE "save_detail")
  /\ UNCHANGED <<rows, contentVars, locals>>

\* A document that was deleted meanwhile is inserted again.
SaveDetail(r) ==
  /\ pc[r] = "save_detail"
  /\ details' = [details EXCEPT ![target[r]] = r]
  /\ stale' = IF details[target[r]] = held[r] THEN stale ELSE stale \cup {r}
  /\ Goto(r, "ok")
  /\ UNCHANGED <<recordVars, revisions, redirects, target, seen, todo>>

----------------------------------------------------------------------------
DeleteFind(r) ==
  /\ pc[r] = "idle" /\ Op(r) \in Deletes
  /\ Find(r, "delete_content")
  /\ UNCHANGED contentVars

\* Not what a foreign key holds
DeleteRow(r) ==
  /\ pc[r] = "delete_content"
  /\ \A x \in Requests : Op(x) \in OfProducts /\ Live(x) => rows[x].about # target[r]
  /\ Put(target[r], NONE)
  /\ Goto(r, "delete_detail")
  /\ UNCHANGED <<held, contentVars, locals>>

DeleteDetail(r) ==
  /\ pc[r] = "delete_detail"
  /\ details' = [details EXCEPT ![target[r]] = NONE]
  /\ Goto(r, IF IsArticle(target[r]) THEN "delete_revisions" ELSE "ok")
  /\ UNCHANGED <<recordVars, revisions, redirects, locals>>

DeleteRevisions(r) ==
  /\ pc[r] = "delete_revisions"
  /\ revisions' = {v \in revisions : v.of # target[r]}
  /\ Goto(r, "delete_redirects")
  /\ UNCHANGED <<recordVars, details, redirects, locals>>

DeleteRedirects(r) ==
  /\ pc[r] = "delete_redirects"
  /\ redirects' = {d \in redirects : d.of # target[r]}
  /\ Goto(r, "delete_shortlinks")
  /\ UNCHANGED <<recordVars, details, revisions, locals>>

\* Those whose target holds the slug that was read
DeleteShortlinks(r) ==
  /\ pc[r] = "delete_shortlinks"
  /\ rows' = [x \in Requests |->
                IF x \in Table("createShortlink") /\ rows[x].slug = seen[r].slug
                THEN NONE ELSE rows[x]]
  /\ Goto(r, "ok")
  /\ UNCHANGED <<held, contentVars, locals>>

createShortlink(r) ==
  /\ Insert(r, "createShortlink", [slug |-> Key(r), clicks |-> 0])
  /\ UNCHANGED contentVars

resolveShortlink(r) ==
  /\ \/ Began(r, "resolveShortlink") /\ Find(r, "click")
     \/ /\ pc[r] = "click"
        /\ Save(r, [seen[r] EXCEPT !.clicks = @ + 1], "ok")
  /\ UNCHANGED contentVars

----------------------------------------------------------------------------
\* Every minute: the articles whose time has come, each as it is now
PublishFind(r) ==
  /\ Began(r, "processScheduledPosts")
  /\ todo' = [todo EXCEPT ![r] = {x \in Contents : rows[x].status = "SCHEDULED"}]
  /\ seen' = [seen EXCEPT ![r] = rows]
  /\ Goto(r, "publish")
  /\ UNCHANGED <<recordVars, contentVars, target, stale>>

Publish(r, x) ==
  /\ pc[r] = "publish" /\ x \in todo[r]
  /\ ~SlugTaken(x, seen[r][x].slug)
  /\ Put(x, [seen[r][x] EXCEPT !.status = "PUBLISHED"])
  /\ stale' = IF rows[x] = seen[r][x] THEN stale ELSE stale \cup {r}
  /\ todo' = [todo EXCEPT ![r] = @ \ {x}]
  /\ UNCHANGED <<held, contentVars, pc, before, target, seen>>

PublishEnd(r) ==
  /\ pc[r] = "publish" /\ todo[r] = {}
  /\ Goto(r, "ok")
  /\ UNCHANGED <<recordVars, contentVars, locals>>

\* At midnight: the revisions of more than thirty days, which may be all of
\* them or none.  An error is logged.
cleanupOldRevisions(r) ==
  /\ Began(r, "cleanupOldRevisions")
  /\ revisions' \in {revisions, {}}
  /\ Goto(r, "ok")
  /\ UNCHANGED <<recordVars, details, redirects, locals>>

----------------------------------------------------------------------------
\* Row and document are two reads.
GetContent(r) ==
  /\ pc[r] = "idle" /\ Op(r) \in {"getArticle", "getProductById"}
  /\ Find(r, "get_detail")
  /\ UNCHANGED contentVars

GetDetail(r) ==
  /\ pc[r] = "get_detail"
  /\ Hold(r, details[target[r]])
  /\ Goto(r, "ok")
  /\ UNCHANGED <<rows, contentVars, locals>>

ListContent(r) ==
  /\ \/ Answer(r, "listArticles", {x \in Contents : IsArticle(x)})
     \/ Answer(r, "getAllProducts", Contents \cap Table("createProduct"))
  /\ UNCHANGED contentVars

\* Rows that match, then documents that match, then the rows of both; the
\* controller logs the search.
SearchRows(r) ==
  /\ Began(r, "searchArticles")
  /\ Sees(r, {x \in Contents : IsArticle(x) /\ rows[x].slug = Key(r)})
  /\ Goto(r, "search_details")
  /\ UNCHANGED <<recordVars, contentVars>>

SearchDetails(r) ==
  /\ pc[r] = "search_details"
  /\ \E found \in SUBSET {x \in Requests : IsArticle(x) /\ details[x] # NONE} :
       Sees(r, todo[r] \cup found)
  /\ Goto(r, "search_both")
  /\ UNCHANGED <<recordVars, contentVars>>

SearchBoth(r) ==
  /\ pc[r] = "search_both"
  /\ Sees(r, todo[r] \cap Contents)
  /\ Goto(r, "log_search")
  /\ UNCHANGED <<recordVars, contentVars>>

logSearch(r) ==
  /\ pc[r] = "log_search"
  /\ Put(r, [found |-> Cardinality(todo[r])])
  /\ Goto(r, "ok")
  /\ UNCHANGED <<held, contentVars, locals>>

----------------------------------------------------------------------------
CreateStep(r) ==
  CreateFind(r) \/ CreateInsert(r) \/ CreateDetail(r) \/ DetailRejected(r) \/ UndoCreate(r)
UpdateStep(r) ==
  \/ UpdateFind(r) \/ FindDetail(r) \/ createRevision(r) \/ SaveContent(r)
  \/ SaveRedirect(r) \/ RefindDetail(r) \/ SaveDetail(r)
DeleteStep(r) ==
  \/ DeleteFind(r) \/ DeleteRow(r) \/ DeleteDetail(r)
  \/ DeleteRevisions(r) \/ DeleteRedirects(r) \/ DeleteShortlinks(r)
JobStep(r) ==
  PublishFind(r) \/ PublishEnd(r) \/ cleanupOldRevisions(r) \/ \E x \in Requests : Publish(r, x)
ReadStep(r) ==
  \/ GetContent(r) \/ GetDetail(r) \/ ListContent(r)
  \/ SearchRows(r) \/ SearchDetails(r) \/ SearchBoth(r) \/ logSearch(r)

ContentStep(r) ==
  \/ CreateStep(r) \/ UpdateStep(r) \/ DeleteStep(r) \/ JobStep(r) \/ ReadStep(r)
  \/ createShortlink(r) \/ resolveShortlink(r)
=============================================================================
