-------------------------- MODULE MCExtensionParts --------------------------
(***************************************************************************)
(* The parts of the extension beside the gateway and the sync, one at a    *)
(* time: they share no variable, so a behaviour first picks the part it is *)
(* of and the other parts stay as they began.  The invariants of a part    *)
(* are checked in all the states it can reach, and what a timer owes is    *)
(* asked of the part that has the timer.                                   *)
(***************************************************************************)
EXTENDS P2PListing, SteamFees, MarketSale, MarketHome, OffersPage, TradeOfferTags,
        InventoryPage, BuffPage, CSFloatPage, PriceRefresh, SyncSchedule, TLC

VARIABLE part

Parts == {"listing", "fees", "sale", "home", "offers", "tags", "inventory", "buff", "csfloat",
          "refresh", "schedule"}

vars == <<part, listingVars, feeVars, saleVars, homeVars, offersVars, tagsVars, inventoryVars,
          buffVars, csfloatVars, refreshVars, scheduleVars>>

\* A part whose beginning is open begins in one way only where another part is looked at.
Init ==
  /\ part \in Parts
  /\ ListingInit /\ (part # "listing" => market = [a \in Assets |-> Unlisted])
  /\ FeeInit /\ SaleInit /\ HomeInit /\ OffersInit
  /\ TagsInit /\ InventoryInit
  /\ BuffInit /\ (part # "buff" => stored = NoSettings /\ shown.view = CHOOSE v \in Views : TRUE)
  /\ CSFloatInit /\ (part # "csfloat" => ~storage.show)
  /\ RefreshInit /\ (part # "refresh" => feed = "prices")
  /\ ScheduleInit /\ (part # "schedule" => hold = NoHold)

Listing == part = "listing" /\ ListingNext /\ UNCHANGED <<part, feeVars, saleVars, homeVars,
  offersVars, tagsVars, inventoryVars, buffVars, csfloatVars, refreshVars, scheduleVars>>
Fees == part = "fees" /\ FeeNext /\ UNCHANGED <<part, listingVars, saleVars, homeVars, offersVars,
  tagsVars, inventoryVars, buffVars, csfloatVars, refreshVars, scheduleVars>>
Sale == part = "sale" /\ SaleNext /\ UNCHANGED <<part, listingVars, feeVars, homeVars, offersVars,
  tagsVars, inventoryVars, buffVars, csfloatVars, refreshVars, scheduleVars>>
Home == part = "home" /\ HomeNext /\ UNCHANGED <<part, listingVars, feeVars, saleVars, offersVars,
  tagsVars, inventoryVars, buffVars, csfloatVars, refreshVars, scheduleVars>>
OffersList == part = "offers" /\ OffersNext /\ UNCHANGED <<part, listingVars, feeVars, saleVars,
  homeVars, tagsVars, inventoryVars, buffVars, csfloatVars, refreshVars, scheduleVars>>
Tags == part = "tags" /\ TagsNext /\ UNCHANGED <<part, listingVars, feeVars, saleVars, homeVars,
  offersVars, inventoryVars, buffVars, csfloatVars, refreshVars, scheduleVars>>
Inventory == part = "inventory" /\ InventoryNext /\ UNCHANGED <<part, listingVars, feeVars,
  saleVars, homeVars, offersVars, tagsVars, buffVars, csfloatVars, refreshVars, scheduleVars>>
Buff == part = "buff" /\ BuffNext /\ UNCHANGED <<part, listingVars, feeVars, saleVars, homeVars,
  offersVars, tagsVars, inventoryVars, csfloatVars, refreshVars, scheduleVars>>
CSFloat == part = "csfloat" /\ CSFloatNext /\ UNCHANGED <<part, listingVars, feeVars, saleVars,
  homeVars, offersVars, tagsVars, inventoryVars, buffVars, refreshVars, scheduleVars>>
PriceFeeds == part = "refresh" /\ RefreshNext /\ UNCHANGED <<part, listingVars, feeVars, saleVars,
  homeVars, offersVars, tagsVars, inventoryVars, buffVars, csfloatVars, scheduleVars>>
Schedule == part = "schedule" /\ ScheduleNext /\ UNCHANGED <<part, listingVars, feeVars, saleVars,
  homeVars, offersVars, tagsVars, inventoryVars, buffVars, csfloatVars, refreshVars>>

Next ==
  \/ Listing \/ Fees \/ Sale \/ Home \/ OffersList  \/ Tags \/ Inventory
  \/ Buff \/ CSFloat \/ PriceFeeds \/ Schedule

\* The fairness of InventoryPage and of PriceRefresh, of that part only.
Fairness ==
  /\ WF_inventoryVars(part = "inventory" /\ Recheck)
  /\ WF_refreshVars(part = "refresh" /\ AlarmRings)
  /\ SF_refreshVars(part = "refresh" /\ AnAnswer) /\ SF_refreshVars(part = "refresh" /\ AStore)

Spec == Init /\ [][Next]_vars /\ Fairness

\* What tells two states of a behaviour apart: the other parts are as they began.
PartView ==
  <<part, CASE part = "listing" -> listingVars [] part = "fees" -> feeVars
            [] part = "sale" -> saleVars [] part = "home" -> homeVars
            [] part = "offers" -> offersVars [] part = "tags" -> tagsVars
            [] part = "inventory" -> inventoryVars [] part = "buff" -> buffVars
            [] part = "csfloat" -> csfloatVars [] part = "refresh" -> refreshVars
            [] part = "schedule" -> scheduleVars>>

\* Every variable of every part has its type.
PartsTypeOK ==
  /\ part \in Parts
  /\ ListingTypeOK /\ SaleTypeOK /\ HomeTypeOK /\ OffersTypeOK
  /\ TagsTypeOK /\ InventoryTypeOK /\ BuffTypeOK /\ CSFloatTypeOK /\ ScheduleTypeOK

\* What PriceRefresh promises, of that part.
RefreshCatchesUp == part = "refresh" => PricesCatchUp

(***************************************************************************)
(* Values of the constants.                                                *)
(***************************************************************************)
\* Steam's rates, for a wallet whose smallest fee is one unit, two, or none with a base of three.
MCWallets ==
  {[percent |-> 5, publisher |-> 10, base |-> 0, minimum |-> 1],
   [percent |-> 5, publisher |-> 10, base |-> 0, minimum |-> 2],
   [percent |-> 5, publisher |-> 0, base |-> 0, minimum |-> 1],
   [percent |-> 5, publisher |-> 10, base |-> 3, minimum |-> 1]}

\* Two listings of one name, so that scans overlap on it.
MCMarketNameOf == "l1" :> "n1" @@ "l2" :> "n1"

\* An own and a partner's item of the same class.
MCClassOf == "a" :> "k1" @@ "x" :> "k1"

\* A tradable and a held item with the same numeric id.
MCAssetIdOf == "t" :> 1 @@ "h" :> 1

\* A list of one order, and a history.
MCKindOf == "p1" :> "sell_order" @@ "h" :> "price_history"
MCOrdersIn == "p1" :> <<"o1">> @@ "h" :> <<>>
MCGoodsOf == "o1" :> "g"

MCTitle == "l" :> "k"
=============================================================================
