----------------------------- MODULE Marketing ------------------------------
(***************************************************************************)
(* Bundles, affiliates, loyalty points and the registry of abandoned       *)
(* carts.  Only a bundle is made in a transaction.                         *)
(***************************************************************************)
EXTENDS Registry

VARIABLES
  logged,   \* the requests that are in the marketing log
  abandoned \* what each tracking has noted for each user: PENDING, RECOVERED or NONE

marketingVars == <<logged, abandoned>>

BundleOps == {"createBundle", "updateBundle", "removeBundle", "findAllBundles", "findOneBundle"}
AffiliateOps == {"createProgram", "findAllPrograms", "createLink", "getMyLinks",
                 "findLinkByCode", "logConversion"}
LoyaltyOps == {"createTier", "findAllTiers", "addPoints", "getBalance", "getHistory"}
AbandonedOps == {"trackAbandonedCarts", "listAbandoned", "markRecovered"}

BundleRows == [active : BOOLEAN, text : Requests]
ProgramRows == [active : BOOLEAN]
LinkRows == [code : Keys, user : People, active : BOOLEAN]
TierRows == [tier : Keys]
PointRows == [user : People, type : {"EARN", "REDEEM"}]

MarketingInit ==
  /\ logged = {}
  /\ abandoned = [x \in Requests \X People |-> NONE]

----------------------------------------------------------------------------
\* Bundle and items are committed together, and then read.
createBundle(r) ==
  \/ /\ Began(r, "createBundle")
     /\ Goto(r, "commit_bundle")
     /\ UNCHANGED <<recordVars, locals>>
  \/ /\ pc[r] = "commit_bundle"
     /\ Put(r, [active |-> TRUE, text |-> r])
     /\ Goto(r, "find_bundle")
     /\ UNCHANGED <<held, locals>>
  \/ /\ pc[r] = "find_bundle" /\ Live(r)
     /\ Goto(r, "ok")
     /\ UNCHANGED <<recordVars, locals>>

changeBundle(r) ==
  \/ pc[r] = "idle" /\ Op(r) \in {"updateBundle", "removeBundle"} /\ Find(r, "save_bundle")
  \/ /\ pc[r] = "save_bundle"
     /\ Save(r, IF Op(r) = "removeBundle" THEN [seen[r] EXCEPT !.active = FALSE]
                ELSE [active |-> Arg(r) = "ACTIVE", text |-> r],
             "ok")

BundleStep(r) == (createBundle(r) \/ changeBundle(r)) /\ UNCHANGED marketingVars

----------------------------------------------------------------------------
Logs(r) ==
  /\ logged' = logged \cup {r}
  /\ Goto(r, "ok")
  /\ UNCHANGED <<recordVars, abandoned, locals>>

createLink(r) ==
  /\ \A x \in Table("createLink") : rows[x].code # Key(r)
  /\ Insert(r, "createLink", [code |-> Key(r), user |-> By(r), active |-> TRUE])
  /\ UNCHANGED marketingVars

LinksOf(code) == {x \in Table("createLink") : rows[x].code = code /\ rows[x].active}

\* A link that is found is clicked.
findLinkByCode(r) ==
  \/ /\ Began(r, "findLinkByCode")
     /\ Sees(r, LinksOf(Key(r)))
     /\ Goto(r, IF LinksOf(Key(r)) = {} THEN "ok" ELSE "log")
     /\ UNCHANGED <<recordVars, marketingVars>>
  \/ pc[r] = "log" /\ Logs(r)

logConversion(r) == Began(r, "logConversion") /\ Logs(r)

AffiliateStep(r) ==
  \/ Insert(r, "createProgram", [active |-> TRUE]) /\ UNCHANGED marketingVars
  \/ createLink(r) \/ findLinkByCode(r) \/ logConversion(r)

----------------------------------------------------------------------------
\* The entry, and then the log; a balance may become negative.
addPoints(r) ==
  /\ Began(r, "addPoints")
  /\ Put(r, [user |-> By(r), type |-> Arg(r)])
  /\ Goto(r, "log")
  /\ UNCHANGED <<held, marketingVars, locals>>

LoyaltyStep(r) ==
  \/ Insert(r, "createTier", [tier |-> Key(r)]) /\ UNCHANGED marketingVars
  \/ addPoints(r)

----------------------------------------------------------------------------
Pending(u) == {x \in Requests : abandoned[<<x, u>>] = "PENDING"}

\* The users whose carts lie idle, which are the users of the call
TrackCarts(r) ==
  /\ Began(r, "trackAbandonedCarts")
  /\ Sees(r, call[r].to)
  /\ Goto(r, "track")
  /\ UNCHANGED <<recordVars, marketingVars>>

\* Mutation: what is pending is not looked up.
TrackAgain(r, u) ==
  /\ pc[r] = "track" /\ u \in todo[r]
  /\ todo' = [todo EXCEPT ![r] = @ \ {u}]
  /\ target' = [target EXCEPT ![r] = u]
  /\ Goto(r, "insert_abandoned")
  /\ UNCHANGED <<recordVars, marketingVars, seen, stale>>

TrackFind(r, u) ==
  /\ pc[r] = "track" /\ u \in todo[r]
  /\ todo' = [todo EXCEPT ![r] = @ \ {u}]
  /\ target' = [target EXCEPT ![r] = u]
  /\ Goto(r, IF Pending(u) = {} THEN "insert_abandoned" ELSE "track")
  /\ UNCHANGED <<recordVars, marketingVars, seen, stale>>

TrackInsert(r) ==
  /\ pc[r] = "insert_abandoned"
  /\ abandoned' = [abandoned EXCEPT ![<<r, target[r]>>] = "PENDING"]
  /\ Goto(r, "track")
  /\ UNCHANGED <<recordVars, logged, locals>>

TrackEnd(r) ==
  /\ pc[r] = "track" /\ todo[r] = {}
  /\ Goto(r, "ok")
  /\ UNCHANGED <<recordVars, marketingVars, locals>>

\* One that is pending, if any
markRecovered(r) ==
  \/ /\ Began(r, "markRecovered")
     /\ \/ Pending(By(r)) = {} /\ Goto(r, "ok") /\ UNCHANGED target
        \/ \E x \in Pending(By(r)) :
             target' = [target EXCEPT ![r] = x] /\ Goto(r, "save_abandoned")
     /\ UNCHANGED <<recordVars, marketingVars, seen, todo, stale>>
  \/ /\ pc[r] = "save_abandoned"
     /\ abandoned' = [abandoned EXCEPT ![<<target[r], By(r)>>] = "RECOVERED"]
     /\ Goto(r, "ok")
     /\ UNCHANGED <<recordVars, logged, locals>>

AbandonedStep(r) ==
  \/ TrackCarts(r) \/ TrackInsert(r) \/ TrackEnd(r) \/ markRecovered(r)
  \/ \E u \in People : TrackFind(r, u)

----------------------------------------------------------------------------
MarketingAnswers(r) ==
  [findAllBundles |-> Table("createBundle"),
   findOneBundle |-> {On(r)} \cap Table("createBundle"),
   findAllPrograms |-> {x \in Table("createProgram") : rows[x].active},
   getMyLinks |-> {x \in Table("createLink") : rows[x].user = By(r)},
   findAllTiers |-> Table("createTier"),
   getBalance |-> {x \in Table("addPoints") : rows[x].user = By(r)},
   getHistory |-> {x \in Table("addPoints") : rows[x].user = By(r)},
   listAbandoned |-> {x \in Requests : \E u \in People : abandoned[<<x, u>>] # NONE}]

AnswerMarketing(r) ==
  /\ Op(r) \in DOMAIN MarketingAnswers(r)
  /\ Answer(r, Op(r), MarketingAnswers(r)[Op(r)])
  /\ UNCHANGED marketingVars

MarketingStep(r) ==
  \/ BundleStep(r) \/ AffiliateStep(r) \/ LoyaltyStep(r) \/ AbandonedStep(r)
  \/ AnswerMarketing(r)
=============================================================================
