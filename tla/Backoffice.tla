----------------------------- MODULE Backoffice ------------------------------
(***************************************************************************)
(* What is kept around an order and an article: tickets with their         *)
(* conversations, wish lists, returns, purchase orders, fulfillments,      *)
(* shipping, warehouses, commission rules, subscriptions, product reviews, *)
(* tax rules and rates, view logs, categories and tags.  Most are rows     *)
(* that are inserted, given a status and listed; the conversation of a     *)
(* ticket and a wish list are documents of MongoDB that are read, changed  *)
(* and saved as a whole.                                                   *)
(***************************************************************************)
EXTENDS Marketing

VARIABLES
  dialogs, \* the messages of each ticket's conversation, or NONE
  wishes   \* the products on each user's list, or NONE

backofficeVars == <<dialogs, wishes>>

ReturnOps == {"createRequest", "updateRMAStatus", "addInspection", "listRequests"}
TicketOps == {"createTicket", "addMessage", "closeTicket", "listTickets", "getConversation"}
ProductReviewOps == {"createProductReview", "toggleVisibility", "listReviews", "getRatingSummary"}
WishOps == {"getWishlist", "addToWishlist", "removeFromWishlist"}
SubscriptionOps == {"createSubscription", "cancelSubscription", "getMySubscriptions"}
PreOrderOps == {"createPreOrder", "getMyPreOrders"}
ProcurementOps == {"createPO", "updatePOStatus", "listPOs"}
FulfillmentOps == {"createFulfillment", "updateFulfillmentStatus", "getFulfillmentByOrder"}
ShippingOps == {"createZone", "addMethodToZone", "saveCarrierConfig", "calculateShipping",
                "listCarriers"}
StockOps == {"createWarehouse", "setBuffer", "saveLayout"}
TaxOps == {"createTaxRule", "calculateTax"}
CurrencyOps == {"updateRate", "convert", "listCurrencies"}
AnalyticsOps == {"recordView", "updateHeartbeat", "logSearch", "getArticleStats",
                 "getPopularQueries"}
TaxonomyOps == {"createCategory", "createTag", "getCategories", "getTags"}
BackofficeReads == {"getTenantStats", "getSignals", "getWidgets", "getRedirects"}

\* The operations whose row is a slip: a status and whom it belongs to
Slips ==
  {"createRequest", "createTicket", "createProductReview", "createSubscription",
   "createPreOrder", "createPO", "createFulfillment", "addInspection", "createZone",
   "addMethodToZone", "saveCarrierConfig", "createTaxRule", "updateRate", "recordView",
   "logSearch", "createCategory", "createTag", "createWarehouse", "setBuffer", "saveLayout",
   "saveRule"}
\* The status of a new row; KEPT where there is none
FirstStatus ==
  [op \in Slips |-> CASE op \in {"createRequest", "createFulfillment"} -> "PENDING"
                     [] op \in {"createTicket", "createPreOrder"} -> "OPEN"
                     [] op = "createProductReview" -> "VISIBLE"
                     [] op = "createSubscription" -> "ACTIVE"
                     [] op = "createPO" -> "DRAFT"
                     [] OTHER -> "KEPT"]
Statuses ==
  [updateRMAStatus |-> {"PENDING", "APPROVED", "REJECTED", "RECEIVED", "COMPLETED"},
   updatePOStatus |-> {"DRAFT", "SENT", "RECEIVED", "CANCELLED"},
   updateFulfillmentStatus |->
     {"PENDING", "PICKING", "PACKED", "SHIPPED", "DELIVERED", "CANCELLED"}]
UpdatedTo == [toggleVisibility |-> "HIDDEN", cancelSubscription |-> "CANCELLED",
              closeTicket |-> "CLOSED"]
SlipStatuses == {FirstStatus[op] : op \in Slips}
                \cup (UNION {Statuses[op] : op \in DOMAIN Statuses})
                \cup {UpdatedTo[op] : op \in DOMAIN UpdatedTo}
SlipRows == [user : People, about : Requests \cup {NONE}, key : Keys \cup {NONE},
             at : Keys \cup Requests \cup {NONE}, status : SlipStatuses]

Slip(r) == [user |-> By(r), about |-> On(r), key |-> Key(r), at |-> Place(r),
            status |-> FirstStatus[Op(r)]]

BackofficeInit ==
  /\ dialogs = [r \in Requests |-> IF Made(r) /\ Op(r) = "createTicket" THEN {r} ELSE NONE]
  /\ wishes = [u \in People |-> NONE]

\* Those whose key is unique
Numbered == {"createPO", "createCategory", "createTag"}
\* Those of which a key has one, which is looked for before
Singles == {"saveCarrierConfig", "setBuffer", "saveLayout"}

----------------------------------------------------------------------------
InsertSlip(r) ==
  /\ Op(r) \in Slips \ ({"createTicket", "addMethodToZone", "saveRule"} \cup Singles)
  /\ Op(r) \in OfProducts => Live(On(r))
  /\ Op(r) \in Numbered => \A x \in Table(Op(r)) : rows[x].key # Key(r)
  /\ Insert(r, Op(r), Slip(r))

\* findOne and save
ChangeSlip(r) ==
  \/ pc[r] = "idle" /\ Op(r) \in DOMAIN Statuses /\ Find(r, "save_slip")
  \/ /\ pc[r] = "save_slip"
     /\ Save(r, [seen[r] EXCEPT !.status = Arg(r)], "ok")

\* One UPDATE, whether or not the row is there
UpdateSlip(r) ==
  /\ pc[r] = "idle" /\ Op(r) \in DOMAIN UpdatedTo
  /\ IF Live(On(r)) THEN Put(On(r), [rows[On(r)] EXCEPT !.status = UpdatedTo[Op(r)]])
     ELSE UNCHANGED rows
  /\ Goto(r, "ok")
  /\ UNCHANGED <<held, locals>>

\* The whole document is saved again; its duration is left out.
updateHeartbeat(r) ==
  \/ Began(r, "updateHeartbeat") /\ Find(r, "save_view")
  \/ pc[r] = "save_view" /\ Save(r, seen[r], "ok")

\* The zone must be there.
UseZone(r) ==
  \/ /\ pc[r] = "idle" /\ Op(r) \in {"addMethodToZone", "calculateShipping"}
     /\ Find(r, "use_zone")
  \/ /\ pc[r] = "use_zone"
     /\ IF Op(r) = "addMethodToZone" THEN Put(r, Slip(r)) /\ UNCHANGED held
        ELSE /\ Hold(r, {x \in Table("addMethodToZone") : rows[x].about = On(r)})
             /\ UNCHANGED rows
     /\ Goto(r, "ok")
     /\ UNCHANGED locals

ToReplace(r) == {x \in Table(Op(r)) : rows[x].key = Key(r)}

\* The configuration of the carrier, the buffer of the product or the layout
\* of the warehouse is replaced, or a new one inserted.
saveSingle(r) ==
  \/ /\ pc[r] = "idle" /\ Op(r) \in Singles
     /\ \/ ToReplace(r) = {} /\ Reads(r, r, NONE)
        \/ \E x \in ToReplace(r) : Reads(r, x, rows[x])
     /\ Goto(r, "save_single")
     /\ UNCHANGED recordVars
  \/ pc[r] = "save_single" /\ Save(r, Slip(r), "ok")

\* save(create(dto)): the client may name the rule to be replaced.
saveRule(r) ==
  /\ Began(r, "saveRule")
  /\ Put(IF On(r) = NONE THEN r ELSE On(r), Slip(r))
  /\ Goto(r, "ok")
  /\ UNCHANGED <<held, locals>>

SlipStep(r) ==
  /\ \/ InsertSlip(r) \/ ChangeSlip(r) \/ UpdateSlip(r) \/ updateHeartbeat(r)
     \/ UseZone(r) \/ saveSingle(r) \/ saveRule(r)
  /\ UNCHANGED backofficeVars

----------------------------------------------------------------------------
\* Rules of country and region, of the country, and then any rule; what the
\* client does not give is not asked for.
RulesAt(r, level) ==
  {x \in Table("createTaxRule") : /\ level < 3 => rows[x].key = Key(r)
                                  /\ level = 1 /\ Place(r) # NONE => rows[x].at = Place(r)}

calculateTax(r) ==
  \/ /\ Began(r, "calculateTax")
     /\ Hold(r, IF Key(r) = NONE THEN 3 ELSE 1)
     /\ Goto(r, "find_rule")
     /\ UNCHANGED <<rows, locals>>
  \/ /\ pc[r] = "find_rule"
     /\ \/ \E x \in RulesAt(r, held[r]) : Hold(r, x) /\ Goto(r, "find_config")
        \/ /\ RulesAt(r, held[r]) = {}
           /\ IF held[r] < 3 THEN Hold(r, held[r] + 1) /\ UNCHANGED <<pc, before>>
              ELSE Hold(r, NONE) /\ Goto(r, "find_config")
     /\ UNCHANGED <<rows, locals>>
  \/ /\ pc[r] = "find_config"
     /\ Goto(r, "ok")
     /\ UNCHANGED <<recordVars, locals>>

\* A direct rate, or else the two currencies, which this code only reads
convert(r) ==
  \/ /\ Began(r, "convert")
     /\ LET rates == {x \in Table("updateRate") : rows[x].key = Key(r) /\ rows[x].at = Place(r)}
        IN  /\ Hold(r, rates)
            /\ Goto(r, IF Key(r) = Place(r) \/ rates # {} THEN "ok" ELSE "find_from")
     /\ UNCHANGED <<rows, locals>>
  \/ /\ pc[r] \in {"find_from", "find_to"}
     /\ Goto(r, IF pc[r] = "find_from" THEN "find_to" ELSE "ok")
     /\ UNCHANGED <<recordVars, locals>>

FinanceStep(r) == (calculateTax(r) \/ convert(r)) /\ UNCHANGED backofficeVars

----------------------------------------------------------------------------
\* The row, and then the conversation with the first message
createTicket(r) ==
  \/ /\ Began(r, "createTicket")
     /\ Put(r, Slip(r))
     /\ Goto(r, "insert_dialog")
     /\ UNCHANGED <<held, backofficeVars, locals>>
  \/ /\ pc[r] = "insert_dialog"
     /\ dialogs' = [dialogs EXCEPT ![r] = {r}]
     /\ Goto(r, "ok")
     /\ UNCHANGED <<recordVars, wishes, locals>>

Talked == {t \in Requests : dialogs[t] # NONE}

FindDialog(r) ==
  /\ Began(r, "addMessage")
  /\ On(r) \in Talked
  /\ Hold(r, dialogs[On(r)])
  /\ Goto(r, "save_dialog")
  /\ UNCHANGED <<rows, backofficeVars, locals>>

SavesAs(r, dialog) ==
  /\ pc[r] = "save_dialog"
  /\ dialogs' = [dialogs EXCEPT ![On(r)] = dialog]
  /\ stale' = IF dialogs[On(r)] = held[r] THEN stale ELSE stale \cup {r}
  /\ Goto(r, "ok")
  /\ UNCHANGED <<recordVars, wishes, target, seen, todo>>

\* Mutation: the messages are replaced.
ReplaceDialog(r) == SavesAs(r, {r})

SaveDialog(r) == SavesAs(r, held[r] \cup {r})

----------------------------------------------------------------------------
\* Only what is wished must be a product.
FindProduct(r) ==
  /\ Began(r, "addToWishlist")
  /\ Live(On(r))
  /\ Goto(r, "find_wishes")
  /\ UNCHANGED <<recordVars, backofficeVars, locals>>

NextWish(r) == IF Op(r) = "getWishlist" THEN "ok" ELSE "save_wishes"

FindWishes(r) ==
  /\ \/ pc[r] = "find_wishes"
     \/ Began(r, "getWishlist") \/ Began(r, "removeFromWishlist")
  /\ Hold(r, wishes[By(r)])
  /\ Goto(r, IF wishes[By(r)] = NONE THEN "create_wishes" ELSE NextWish(r))
  /\ UNCHANGED <<rows, backofficeVars, locals>>

\* A user has one list.
CreateWishes(r) ==
  /\ pc[r] = "create_wishes"
  /\ wishes[By(r)] = NONE
  /\ wishes' = [wishes EXCEPT ![By(r)] = {}]
  /\ Hold(r, {})
  /\ Goto(r, NextWish(r))
  /\ UNCHANGED <<rows, dialogs, locals>>

SaveWishes(r) ==
  /\ pc[r] = "save_wishes"
  /\ wishes' = [wishes EXCEPT ![By(r)] =
                  IF Op(r) = "addToWishlist" THEN held[r] \cup {On(r)} ELSE held[r] \ {On(r)}]
  /\ stale' = IF wishes[By(r)] = held[r] THEN stale ELSE stale \cup {r}
  /\ Goto(r, "ok")
  /\ UNCHANGED <<recordVars, dialogs, target, seen, todo>>

DocumentStep(r) ==
  \/ createTicket(r) \/ FindDialog(r) \/ SaveDialog(r)
  \/ FindProduct(r) \/ FindWishes(r) \/ CreateWishes(r) \/ SaveWishes(r)

----------------------------------------------------------------------------
VisibleReviews(x) ==
  {y \in Table("createProductReview") : rows[y].about = x /\ rows[y].status = "VISIBLE"}
OwnSlips(op, r) == {x \in Table(op) : rows[x].user = By(r)}

BackofficeAnswers(r) ==
  [listRequests |-> Table("createRequest"),
   listTickets |-> IF Arg(r) = "ADMIN" THEN Table("createTicket") ELSE OwnSlips("createTicket", r),
   getConversation |-> UNION {dialogs[t] : t \in Talked \cap {On(r)}},
   listReviews |-> VisibleReviews(On(r)),
   getRatingSummary |-> VisibleReviews(On(r)),
   getMySubscriptions |-> OwnSlips("createSubscription", r),
   getMyPreOrders |-> OwnSlips("createPreOrder", r),
   listPOs |-> Table("createPO"),
   getFulfillmentByOrder |-> {x \in Table("createFulfillment") : rows[x].key = Key(r)},
   getArticleStats |-> {x \in Table("recordView") : rows[x].about = On(r)},
   getPopularQueries |-> Table("logSearch") \cup Table("searchArticles"),
   getCategories |-> Table("createCategory"), getTags |-> Table("createTag"),
   getRedirects |-> {d.of : d \in redirects},
   getTenantStats |-> {}, getSignals |-> {}, getWidgets |-> {}, listCarriers |-> {},
   listCurrencies |-> {}]

AnswerBackoffice(r) ==
  /\ Op(r) \in DOMAIN BackofficeAnswers(r)
  /\ Answer(r, Op(r), BackofficeAnswers(r)[Op(r)])
  /\ UNCHANGED backofficeVars

BackofficeStep(r) == SlipStep(r) \/ FinanceStep(r) \/ DocumentStep(r) \/ AnswerBackoffice(r)
=============================================================================
