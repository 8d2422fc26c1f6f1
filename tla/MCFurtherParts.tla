--------------------------- MODULE MCFurtherParts ---------------------------
(***************************************************************************)
(* The parts that MCExtensionParts does not have, in the same way: a       *)
(* behaviour picks one, and the others stay as they began.                 *)
(***************************************************************************)
EXTENDS PortfolioCollector, ExtensionSettings, PortfolioPanel, MessageRouting,
        SteamReadSession, PriceEngine, CSFloatGrid, CSFloatSell, TradeHistory, TradeOfferPage,
        SellPanel, TLC

VARIABLE part

MCSelection == [currency |-> "EUR", source |-> "dmarket"]

Parts == {"collector", "settings", "panel", "routing", "session", "engine", "grid",
          "sell", "history", "trade", "lookup"}

vars == <<part, collectorVars, settingsVars, panelVarsAll, routingVars, sessionVars,
          engineVars, gridVars, sellVars, historyVars, tradePageVars,
          sellPanelVars>>

\* A part whose beginning is open begins in one way only where another part is looked at.
\* The engine's settings are none, or others than the defaults; the user may choose any later.
Init ==
  /\ part \in Parts
  /\ CollectorInit
  /\ SettingsInit /\ (part # "settings" => kept.version = 0)
  /\ PanelInit /\ (part # "panel" => local = {})
  /\ RoutingInit /\ (part # "routing" => ~device)
  /\ SessionInit /\ EngineInit
  /\ part # "engine" => /\ book = [r \in Rows |-> {}] /\ rated = {} /\ wanted = Unset
                        /\ page.kind = "inventory"
  /\ part = "engine" => wanted \in {Unset, MCSelection} /\ book["base"] \in {{}, SourceSet}
  /\ GridInit /\ (part # "grid" => csfRates.known = {})
  /\ SellInit /\ (part # "sell" => ~site.selling)
  /\ HistoryInit /\ (part # "history" => made = 1)
  /\ TradePageInit /\ SellPanelInit

Collector == part = "collector" /\ CollectorNext /\ UNCHANGED <<part, settingsVars, panelVarsAll,
  routingVars, sessionVars, engineVars, gridVars, sellVars, historyVars,
  tradePageVars, sellPanelVars>>
Settings == part = "settings" /\ SettingsNext /\ UNCHANGED <<part, collectorVars, panelVarsAll,
  routingVars, sessionVars, engineVars, gridVars, sellVars, historyVars,
  tradePageVars, sellPanelVars>>
PortfolioTab == part = "panel" /\ PanelNext /\ UNCHANGED <<part, collectorVars, settingsVars,
  routingVars, sessionVars, engineVars, gridVars, sellVars, historyVars,
  tradePageVars, sellPanelVars>>
Routing == part = "routing" /\ RoutingNext /\ UNCHANGED <<part, collectorVars, settingsVars,
  panelVarsAll, sessionVars, engineVars, gridVars, sellVars, historyVars,
  tradePageVars, sellPanelVars>>
Session == part = "session" /\ SessionNext /\ UNCHANGED <<part, collectorVars, settingsVars,
  panelVarsAll, routingVars, engineVars, gridVars, sellVars, historyVars,
  tradePageVars, sellPanelVars>>
Engine == part = "engine" /\ EngineNext /\ UNCHANGED <<part, collectorVars, settingsVars,
  panelVarsAll, routingVars, sessionVars, gridVars, sellVars, historyVars,
  tradePageVars, sellPanelVars>>
Grid == part = "grid" /\ GridNext /\ UNCHANGED <<part, collectorVars, settingsVars, panelVarsAll,
  routingVars, sessionVars, engineVars, sellVars, historyVars, tradePageVars, sellPanelVars>>
SellPage == part = "sell" /\ SellNext /\ UNCHANGED <<part, collectorVars, settingsVars,
  panelVarsAll, routingVars, sessionVars, engineVars, gridVars, historyVars,
  tradePageVars, sellPanelVars>>
History == part = "history" /\ HistoryNext /\ UNCHANGED <<part, collectorVars, settingsVars,
  panelVarsAll, routingVars, sessionVars, engineVars, gridVars, sellVars,
  tradePageVars, sellPanelVars>>
Trade == part = "trade" /\ TradePageNext /\ UNCHANGED <<part, collectorVars, settingsVars,
  panelVarsAll, routingVars, sessionVars, engineVars, gridVars, sellVars,
  historyVars, sellPanelVars>>
SellingPanel == part = "lookup" /\ SellPanelNext /\ UNCHANGED <<part, collectorVars, settingsVars,
  panelVarsAll, routingVars, sessionVars, engineVars, gridVars, sellVars, historyVars,
  tradePageVars>>

Next ==
  \/ Collector \/ Settings \/ PortfolioTab \/ Routing \/ Session \/ Engine
  \/ Grid \/ SellPage \/ History \/ Trade \/ SellingPanel

Spec == Init /\ [][Next]_vars

\* What tells two states of a behaviour apart: the other parts are as they began.
PartView ==
  <<part, CASE part = "collector" -> collectorVars [] part = "settings" -> settingsVars
            [] part = "panel" -> panelVarsAll [] part = "routing" -> routingVars
            [] part = "session" -> sessionVars
            [] part = "engine" -> engineVars [] part = "grid" -> gridVars
            [] part = "sell" -> sellVars [] part = "history" -> historyVars
            [] part = "trade" -> tradePageVars [] part = "lookup" -> sellPanelVars>>

\* Every variable of the part that is looked at has its type.
FurtherTypeOK ==
  CASE part = "collector" -> CollectorTypeOK [] part = "settings" -> SettingsTypeOK
    [] part = "panel" -> PanelTypeOK
    [] part = "engine" -> EngineTypeOK [] part = "grid" -> GridTypeOK
    [] part = "sell" -> SellTypeOK [] part = "history" -> HistoryTypeOK
    [] part = "trade" -> TradePageTypeOK
    [] part = "lookup" -> SellPanelTypeOK [] part = "session" -> SessionTypeOK
    [] OTHER -> TRUE

(***************************************************************************)
(* Values of the constants.                                                *)
(***************************************************************************)
\* A source without prices of phases, and one that has them.
MCSources == <<"buff163", "dmarket">>

\* A page of two cards and one of one, and one similar item.
MCMarketCards == <<"a", "b", "c">>
MCPageEnds == <<2, 3>>
MCStrip == <<"s">>

\* Two items of one name that only their floats tell apart, of different worth.
MCInventory == <<"k2", "k1">>
MCSellName == [i \in {"k1", "k2"} |-> "n"]
MCFloatOf == "k1" :> 1 @@ "k2" :> 2
MCReference == "k1" :> 10 @@ "k2" :> 20

\* Two items of one name on two pages, the last with room for another; the sides are alike,
\* so the other one is left empty.
MCNameOf == "a" :> "n1" @@ "b" :> "n2" @@ "c" :> "n1"
MCPagesOf == [your |-> << <<"a", "b">>, <<"c">> >>, their |-> << >>]

\* A gift, a loss and a profit.
MCGiven == <<0, 5, 1>>
MCReceived == <<1, 1, 5>>

\* Two items of one name.
MCTitleOf == "k1" :> "k" @@ "k2" :> "k"
=============================================================================
