------------------------------- MODULE Caches --------------------------------
(***************************************************************************)
(* What is kept in Redis next to its table: coupons by code, the list of   *)
(* promotions, menus by place, the site map and the feed.  A reader that   *)
(* misses reads the table and then fills the cache; a writer saves the row *)
(* and then fills or clears the entry.  The time to live may end at any    *)
(* moment, so that any entry may be lost.                                  *)
(***************************************************************************)
EXTENDS Content

VARIABLE cache \* what each key holds: entities with their rows, or NONE

CouponOps == {"createCoupon", "updateCoupon", "removeCoupon", "validateCoupon",
              "findOneCoupon", "findAllCoupons"}
PromotionOps == {"createPromotion", "updatePromotion", "removePromotion", "findAllPromotions",
                 "findOnePromotion"}
MenuOps == {"saveMenu", "getMenu", "getRelatedPosts"}
FeedOps == {"generateSitemap", "generateRSS"}
CacheReads == {"validateCoupon", "findAllPromotions", "getMenu"} \cup FeedOps
CacheWrites == (CouponOps \cup PromotionOps \cup MenuOps)
               \ (CacheReads \cup {"findOneCoupon", "findAllCoupons", "findOnePromotion",
                                   "getRelatedPosts"})

Coupons == [code : Keys, active : BOOLEAN, text : Requests]
Promotions == [active : BOOLEAN, text : Requests]
Menus == [slug : Keys, location : Keys, text : Requests]
CacheKeys == ({"coupon", "menu"} \X Keys) \cup ({"promotions", "sitemap", "rss"} \X {NONE})

CacheInit == cache = [k \in CacheKeys |-> NONE]

Entities(xs) == {<<x, rows[x]>> : x \in xs}
Coupon(code) == {x \in Table("createCoupon") : rows[x].code = code}
Menu(place) == {x \in Table("saveMenu") : rows[x].location = place}
Published == {x \in Contents : rows[x].status = "PUBLISHED"}

CacheKey(r) ==
  CASE Op(r) = "validateCoupon" -> <<"coupon", Key(r)>>
    [] Op(r) = "getMenu" -> <<"menu", Key(r)>>
    [] Op(r) = "generateSitemap" -> <<"sitemap", NONE>>
    [] Op(r) = "generateRSS" -> <<"rss", NONE>>
    [] OTHER -> <<"promotions", NONE>>

\* What the table holds for the key; of several menus at a place any.
Found(r) ==
  CASE Op(r) = "validateCoupon" -> {Entities({x \in Coupon(Key(r)) : rows[x].active})}
    [] Op(r) = "getMenu" ->
         IF Menu(Key(r)) = {} THEN {{}} ELSE {Entities({x}) : x \in Menu(Key(r))}
    [] Op(r) = "findAllPromotions" -> {Entities(Table("createPromotion"))}
    [] OTHER -> {Entities(Published)}

----------------------------------------------------------------------------
Validates(r, entry) ==
  Op(r) = "validateCoupon" /\ \E e \in entry : e[2].active

CacheGet(r) ==
  /\ pc[r] = "idle" /\ Op(r) \in CacheReads
  /\ Hold(r, cache[CacheKey(r)])
  /\ Goto(r, IF cache[CacheKey(r)] = NONE THEN "query"
             ELSE IF Validates(r, cache[CacheKey(r)]) THEN "log_coupon" ELSE "ok")
  /\ UNCHANGED <<rows, cache, locals>>

\* No entry is made for a coupon or a menu that is not there.
CacheQuery(r) ==
  /\ pc[r] = "query"
  /\ \E found \in Found(r) :
       /\ Hold(r, found)
       /\ Goto(r, IF found = {} /\ Op(r) \in {"validateCoupon", "getMenu"}
                  THEN "ok" ELSE "cache_set")
  /\ UNCHANGED <<rows, cache, locals>>

SetKey(r) ==
  IF Op(r) \in CacheReads THEN CacheKey(r)
  ELSE <<"coupon", (CHOOSE e \in held[r] : TRUE)[2].code>>

CacheSet(r) ==
  /\ pc[r] = "cache_set"
  /\ cache' = [cache EXCEPT ![SetKey(r)] = held[r]]
  /\ Goto(r, IF Validates(r, held[r]) THEN "log_coupon" ELSE "ok")
  /\ UNCHANGED <<recordVars, locals>>

\* The dates and the limit decide; nothing counts the uses.
LogCoupon(r) ==
  /\ pc[r] = "log_coupon"
  /\ \E valid \in BOOLEAN : Put(r, [valid |-> valid])
  /\ Goto(r, "ok")
  /\ UNCHANGED <<held, cache, locals>>

----------------------------------------------------------------------------
CouponTaken(x, code) == Coupon(code) \ {x} # {}

createCoupon(r) ==
  /\ Began(r, "createCoupon")
  /\ ~CouponTaken(r, Key(r))
  /\ LET row == [code |-> Key(r), active |-> TRUE, text |-> r]
     IN  Put(r, row) /\ Hold(r, {<<r, row>>})
  /\ Goto(r, "cache_set")
  /\ UNCHANGED <<cache, locals>>

CouponFind(r) ==
  /\ pc[r] = "idle" /\ Op(r) \in {"updateCoupon", "removeCoupon"}
  /\ Find(r, "save_coupon")
  /\ UNCHANGED cache

NewCoupon(r) ==
  IF Op(r) = "removeCoupon" THEN [seen[r] EXCEPT !.active = FALSE]
  ELSE [code |-> Key(r), active |-> Arg(r) = "ACTIVE", text |-> r]

SaveCoupon(r) ==
  /\ pc[r] = "save_coupon"
  /\ ~CouponTaken(target[r], NewCoupon(r).code)
  /\ Put(target[r], NewCoupon(r))
  /\ Hold(r, {<<target[r], NewCoupon(r)>>})
  /\ Writes(r, rows[target[r]])
  /\ Goto(r, IF Op(r) = "removeCoupon" \/ NewCoupon(r).code # seen[r].code
             THEN "cache_del" ELSE "cache_set")
  /\ UNCHANGED cache

----------------------------------------------------------------------------
createPromotion(r) ==
  /\ Began(r, "createPromotion")
  /\ Put(r, [active |-> TRUE, text |-> r])
  /\ Goto(r, "cache_del")
  /\ UNCHANGED <<held, cache, locals>>

PromotionFind(r) ==
  /\ pc[r] = "idle" /\ Op(r) \in {"updatePromotion", "removePromotion"}
  /\ Find(r, "save_promotion")
  /\ UNCHANGED cache

SavePromotion(r) ==
  /\ pc[r] = "save_promotion"
  /\ Save(r, IF Op(r) = "removePromotion" THEN [seen[r] EXCEPT !.active = FALSE]
             ELSE [active |-> Arg(r) = "ACTIVE", text |-> r],
          "cache_del")
  /\ UNCHANGED cache

\* The menu with that slug, or a new one
MenuFind(r) ==
  /\ Began(r, "saveMenu")
  /\ LET found == {x \in Table("saveMenu") : rows[x].slug = Key(r)}
         x == IF found = {} THEN r ELSE CHOOSE y \in found : TRUE
     IN  Reads(r, x, rows[x])
  /\ Goto(r, "save_menu")
  /\ UNCHANGED <<recordVars, cache>>

\* The slug is unique.
SaveMenu(r) ==
  /\ pc[r] = "save_menu"
  /\ \A x \in Table("saveMenu") \ {target[r]} : rows[x].slug # Key(r)
  /\ Save(r, [slug |-> Key(r), location |-> Place(r), text |-> r], "cache_del")
  /\ UNCHANGED cache

\* The entry of the place where the menu is now, not of the one where it was
DelKey(r) ==
  CASE Op(r) \in CouponOps -> <<"coupon", seen[r].code>>
    [] Op(r) \in PromotionOps -> <<"promotions", NONE>>
    [] OTHER -> <<"menu", Place(r)>>

\* Mutation: remove does not clear the entry.
KeepEntry(r) ==
  /\ pc[r] = "cache_del"
  /\ cache' = IF Op(r) = "removeCoupon" THEN cache ELSE [cache EXCEPT ![DelKey(r)] = NONE]
  /\ Goto(r, IF Op(r) = "updateCoupon" THEN "cache_set" ELSE "ok")
  /\ UNCHANGED <<recordVars, locals>>

CacheDel(r) ==
  /\ pc[r] = "cache_del"
  /\ cache' = [cache EXCEPT ![DelKey(r)] = NONE]
  /\ Goto(r, IF Op(r) = "updateCoupon" THEN "cache_set" ELSE "ok")
  /\ UNCHANGED <<recordVars, locals>>

CacheExpires(k) ==
  /\ cache[k] # NONE
  /\ cache' = [cache EXCEPT ![k] = NONE]
  /\ UNCHANGED <<callVars, recordVars>>

----------------------------------------------------------------------------
CacheReadStep(r) == CacheGet(r) \/ CacheQuery(r) \/ CacheSet(r) \/ LogCoupon(r)
CouponStep(r) == createCoupon(r) \/ CouponFind(r) \/ SaveCoupon(r)
PromotionStep(r) == createPromotion(r) \/ PromotionFind(r) \/ SavePromotion(r)
MenuStep(r) == MenuFind(r) \/ SaveMenu(r)
CacheListStep(r) ==
  /\ \/ Answer(r, "findAllCoupons", Table("createCoupon"))
     \/ Answer(r, "findOneCoupon", {On(r)} \cap Table("createCoupon"))
     \/ Answer(r, "findOnePromotion", {On(r)} \cap Table("createPromotion"))
     \/ Answer(r, "getRelatedPosts", Published \ {On(r)})
  /\ UNCHANGED cache

CacheStep(r) ==
  \/ CacheReadStep(r) \/ CouponStep(r) \/ PromotionStep(r) \/ MenuStep(r)
  \/ CacheDel(r) \/ CacheListStep(r)
=============================================================================
