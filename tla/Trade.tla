------------------------------- MODULE Trade -------------------------------
(***************************************************************************)
(* The exchange of items and gold between two players: the trade packets   *)
(* of TradeHandler.cpp, TradeData and the places where a Player drops its  *)
(* trade.  All trade packets are PROCESS_THREADUNSAFE: they are handled by *)
(* the world thread, so a handler is one step.  What makes the protocol    *)
(* hard is what happens between two packets: the offers change, items and  *)
(* gold leave the inventory without the trade being told, a player leaves. *)
(*                                                                         *)
(* An item is one object that takes one place of an inventory.  Its        *)
(* template may limit how many of its kind a player can have (MaxCount).   *)
(***************************************************************************)
EXTENDS Integers, FiniteSets

CONSTANTS
    Player, Item,
    TRADE_SLOT_TRADED_COUNT,
    Spell,              \* enchants that can be put on the item that is shown only
    NULL,               \* no trade, no item, no spell
    Capacity,           \* places in the inventory of a player
    kind,               \* ItemTemplate of an item
    MaxCount,           \* ItemTemplate::MaxCount of a kind
    BindedNotWith,      \* <<item, player>>: Item::IsBindedNotWith
    MAX_MONEY_AMOUNT,
    Start,              \* where the items are when the server starts
    StartMoney,         \* the gold of the players then
    MaxEvents           \* bound: events outside of the trade packets

TRADE_SLOT_NONTRADED == TRADE_SLOT_TRADED_COUNT
TradedSlots == 0 .. TRADE_SLOT_TRADED_COUNT - 1
TradeSlots == 0 .. TRADE_SLOT_NONTRADED
Kind == {kind[i] : i \in Item}

TradeData ==
    [trader : Player, accepted : BOOLEAN, money : 0 .. MAX_MONEY_AMOUNT,
     items : [TradeSlots -> Item \cup {NULL}], spell : Spell \cup {NULL}]

ASSUME TradeAssumption ==
    /\ TRADE_SLOT_TRADED_COUNT \in Nat \ {0}
    /\ NULL \notin Player \cup Item \cup Spell \cup TradeData
    /\ IsFiniteSet(Item)
    /\ Capacity \in [Player -> Nat]
    /\ MaxCount \in [Kind -> Nat \ {0}]
    /\ BindedNotWith \subseteq Item \X Player
    /\ MAX_MONEY_AMOUNT \in Nat \ {0}
    /\ Start \in [Item -> Player]
    /\ StartMoney \in [Player -> 0 .. MAX_MONEY_AMOUNT - 1]
    /\ MaxEvents \in Nat

VARIABLES
    m_trade,    \* Player::m_trade: a TradeData or NULL
    where,      \* the player whose inventory holds the item, or NULL
    bound,      \* items that Item::CanBeTraded refuses
    money,      \* Player::GetMoney
    online,     \* players in the world
    saved,      \* gold of the characters in the database
    earned,     \* gold won or spent since a character was last saved (history)
    agreed,     \* what a player saw when he accepted (history)
    events      \* events so far, see MaxEvents

vars == <<m_trade, where, bound, money, online, saved, earned, agreed, events>>

NewTradeData(trader) ==
    [trader |-> trader, accepted |-> FALSE, money |-> 0,
     items |-> [s \in TradeSlots |-> NULL], spell |-> NULL]

\* What a player offers: this is what his partner is shown and consents to.
Offer(t, p) == [money |-> t[p].money, items |-> t[p].items, spell |-> t[p].spell]

\* History: the offers of both sides at the moment a player accepted.
Remember(t) ==
    agreed' = [p \in Player |->
                 CASE t[p] = NULL -> NULL
                   [] t[p] # NULL /\ ~t[p].accepted -> NULL
                   [] t[p] # NULL /\ t[p].accepted ->
                        IF agreed[p] # NULL THEN agreed[p]
                        ELSE [mine |-> Offer(t, p), his |-> Offer(t, t[p].trader)]]

Init ==
    /\ m_trade = [p \in Player |-> NULL]
    /\ where = Start
    /\ bound = {}
    /\ money = StartMoney
    /\ online = Player
    /\ saved = money
    /\ earned = [p \in Player |-> 0]
    /\ agreed = [p \in Player |-> NULL]
    /\ events = 0

-----------------------------------------------------------------------------
(* TradeData.  An operator takes the trades t and returns the new ones.    *)

Unaccept(t, p) == [t EXCEPT ![p].accepted = FALSE]

\* Mutant: only the player who changes his offer has to accept again.
UnacceptMine(t, p) == Unaccept(t, p)

\* SetAccepted(false) and GetTraderData()->SetAccepted(false)
UnacceptBoth(t, p) == Unaccept(Unaccept(t, p), t[p].trader)

SetSpell(t, p, spell) ==
    IF t[p].spell = spell THEN t
    ELSE UnacceptBoth([t EXCEPT ![p].spell = spell], p)

\* The trader's spell is removed from a changed item, and so is the player's
\* own, for which he may have moved the reagent.
SetItem(t, p, slot, item) ==
    LET changed == UnacceptBoth([t EXCEPT ![p].items[slot] = item], p)
        target == IF slot = TRADE_SLOT_NONTRADED
                    THEN SetSpell(changed, t[p].trader, NULL) ELSE changed
    IN  IF t[p].items[slot] = item THEN t ELSE SetSpell(target, p, NULL)

HasEnoughMoney(p, amount) == money[p] >= amount

SetMoney(t, p, amount) ==
    IF t[p].money = amount \/ ~HasEnoughMoney(p, amount) THEN t
    ELSE UnacceptBoth([t EXCEPT ![p].money = amount], p)

\* The item of a slot if it is still in the inventory.
GetItem(p, slot) ==
    LET item == m_trade[p].items[slot]
    IN  IF item # NULL /\ where[item] = p THEN item ELSE NULL

HasItem(p, item) == \E s \in TradeSlots : m_trade[p].items[s] = item

-----------------------------------------------------------------------------
(* The inventory.  w says where the items are.                             *)

Stored(w, p) == {i \in Item : w[i] = p}

\* With the item itself not counted.
CanTakeMoreSimilarItems(w, p, item) ==
    Cardinality({i \in Stored(w, p) : kind[i] = kind[item]}) + 1 <= MaxCount[kind[item]]

CanStoreItem(w, p, item) ==
    /\ <<item, p>> \notin BindedNotWith
    /\ CanTakeMoreSimilarItems(w, p, item)
    /\ Cardinality(Stored(w, p)) < Capacity[p]

\* The items that change hands.
TradedItems(p) == {GetItem(p, s) : s \in TradedSlots} \ {NULL}

\* Mutant: every item is tested on its own.
CanStoreEachItem(p, items) ==
    \A i \in items : /\ <<i, p>> \notin BindedNotWith
                     /\ CanTakeMoreSimilarItems(where, p, i)
                     /\ Cardinality(Stored(where, p) \ TradedItems(p)) < Capacity[p]

\* The places of the items marked SetInTrade count as free, and the items
\* need a place each; MaxCount is tested for each item on its own.
CanStoreItems(p, items) ==
    /\ \A i \in items : /\ <<i, p>> \notin BindedNotWith
                        /\ CanTakeMoreSimilarItems(where, p, i)
    /\ Cardinality(Stored(where, p) \ TradedItems(p)) + Cardinality(items) <= Capacity[p]

\* Step 1 of the exchange: the items leave both inventories.
Removed(items) == [i \in Item |-> IF i \in items THEN NULL ELSE where[i]]

Put(w, item, p) == IF item = NULL THEN w ELSE [w EXCEPT ![item] = p]

PutIfRoom(w, item, p) ==
    IF item # NULL /\ CanStoreItem(w, p, item) THEN [w EXCEPT ![item] = p] ELSE w

\* Step 2, for one slot: both items go to the other side, or both go back to
\* their owners if there is room for them.
MoveSlot(w, p, mine, q, his) ==
    IF /\ mine # NULL => CanStoreItem(w, q, mine)
       /\ his # NULL => CanStoreItem(w, p, his)
      THEN Put(Put(w, mine, q), his, p)
      ELSE PutIfRoom(PutIfRoom(w, mine, p), his, q)

moveItems(p, q) ==
    LET upto[n \in 0 .. TRADE_SLOT_TRADED_COUNT] ==
          IF n = 0 THEN Removed(TradedItems(p) \cup TradedItems(q))
          ELSE MoveSlot(upto[n - 1], p, GetItem(p, n - 1), q, GetItem(q, n - 1))
    IN  upto[TRADE_SLOT_TRADED_COUNT]

\* Player::ModifyMoney takes at most what is there and gives nothing that
\* would exceed the maximum.
Less(gold, amount) == IF gold > amount THEN gold - amount ELSE 0
More(gold, amount) == IF gold + amount < MAX_MONEY_AMOUNT THEN gold + amount ELSE gold

-----------------------------------------------------------------------------
(* The handlers of the trade packets.                                      *)

Trading(p) == p \in online /\ m_trade[p] # NULL

SetTrades(t) ==
    /\ m_trade' = t
    /\ Remember(t)

CanTradeWith(p, q) == q # p /\ m_trade[q] = NULL

\* The tests of life, distance, faction, level and ignore list may refuse.
HandleInitiateTradeOpcode(p, q) ==
    /\ {p, q} \subseteq online
    /\ m_trade[p] = NULL
    /\ CanTradeWith(p, q)
    /\ SetTrades([m_trade EXCEPT ![p] = NewTradeData(q), ![q] = NewTradeData(p)])
    /\ UNCHANGED <<where, bound, money, online, saved, earned, events>>

HandleSetTradeGoldOpcode(p, gold) ==
    /\ Trading(p)
    /\ SetTrades(SetMoney(m_trade, p, gold))
    /\ UNCHANGED <<where, bound, money, online, saved, earned, events>>

HandleSetTradeItemOpcode(p, slot, item) ==
    /\ Trading(p)
    /\ where[item] = p
    /\ slot # TRADE_SLOT_NONTRADED => item \notin bound
    /\ ~HasItem(p, item)
    /\ SetTrades(SetItem(m_trade, p, slot, item))
    /\ UNCHANGED <<where, bound, money, online, saved, earned, events>>

HandleClearTradeItemOpcode(p, slot) ==
    /\ Trading(p)
    /\ SetTrades(SetItem(m_trade, p, slot, NULL))
    /\ UNCHANGED <<where, bound, money, online, saved, earned, events>>

\* Spell::cast on the item that the trader only shows: it is remembered.  An
\* enchant without a target fails in CheckItems.
CastOnTradeItem(p, spell) ==
    /\ Trading(p)
    /\ GetItem(m_trade[p].trader, TRADE_SLOT_NONTRADED) # NULL
    /\ m_trade[p].spell = NULL
    /\ SetTrades(SetSpell(m_trade, p, spell))
    /\ UNCHANGED <<where, bound, money, online, saved, earned, events>>

HandleUnacceptTradeOpcode(p) ==
    /\ Trading(p)
    /\ SetTrades(Unaccept(m_trade, p))
    /\ UNCHANGED <<where, bound, money, online, saved, earned, events>>

\* Mutant: the partner keeps his TradeData.
DropMine(p) == [m_trade EXCEPT ![p] = NULL]

DropTrade(p) == [m_trade EXCEPT ![p] = NULL, ![m_trade[p].trader] = NULL]

\* Also IgnoreTrade and the start of a taxi flight.
TradeCancel(p) ==
    /\ Trading(p)
    /\ SetTrades(DropTrade(p))
    /\ UNCHANGED <<where, bound, money, online, saved, earned, events>>

\* The player whose gold does not allow the exchange: he has to accept again.
WithoutGold(p, q) ==
    IF ~HasEnoughMoney(p, m_trade[p].money) THEN p
    ELSE IF ~HasEnoughMoney(q, m_trade[q].money) THEN q
    ELSE IF money[p] >= MAX_MONEY_AMOUNT - m_trade[q].money THEN p
    ELSE IF money[q] >= MAX_MONEY_AMOUNT - m_trade[p].money THEN q
    ELSE NULL

Accept(p) == [m_trade EXCEPT ![p].accepted = TRUE]

SomeItemRefused(p, q) ==
    \/ \E i \in TradedItems(p) : i \in bound \/ <<i, q>> \in BindedNotWith
    \/ \E i \in TradedItems(q) : i \in bound

AcceptWithoutGold(p, q) ==
    /\ WithoutGold(p, q) # NULL
    /\ SetTrades(Unaccept(Accept(p), WithoutGold(p, q)))
    /\ UNCHANGED <<where, money, saved, earned>>

\* The player stays accepted when an item cannot be traded any more, and
\* when his partner has not accepted yet.
AcceptAndWait(p, q) ==
    /\ WithoutGold(p, q) = NULL
    /\ SomeItemRefused(p, q) \/ ~m_trade[q].accepted
    /\ SetTrades(Accept(p))
    /\ UNCHANGED <<where, money, saved, earned>>

BothAccept(p, q) ==
    /\ WithoutGold(p, q) = NULL
    /\ ~SomeItemRefused(p, q)
    /\ m_trade[q].accepted

\* The spell of a has no target: b shows no item any more.
LacksTarget(a, b) == m_trade[a].spell # NULL /\ GetItem(b, TRADE_SLOT_NONTRADED) = NULL

\* CheckCast may fail for reasons of its own.
AcceptSpellFails(p, q) ==
    /\ BothAccept(p, q)
    /\ \E caster \in {p, q} :
         /\ m_trade[caster].spell # NULL
         /\ caster = q => ~LacksTarget(p, q)
         /\ SetTrades(SetSpell(Accept(p), caster, NULL))
    /\ UNCHANGED <<where, money, saved, earned>>

SpellsCastable(p, q) == BothAccept(p, q) /\ ~LacksTarget(p, q) /\ ~LacksTarget(q, p)

HaveRoom(p, q) == CanStoreItems(q, TradedItems(p)) /\ CanStoreItems(p, TradedItems(q))

AcceptWithoutRoom(p, q) ==
    /\ SpellsCastable(p, q)
    /\ ~HaveRoom(p, q)
    /\ SetTrades(UnacceptBoth(m_trade, p))
    /\ UNCHANGED <<where, money, saved, earned>>

\* Mutant: only the player whose packet ends the trade is saved.
SaveMine(p, q) == {p}

SavedWith(p, q) == {p, q}

\* Items, then gold, then the end of the trade and one transaction for both.
AcceptExchange(p, q) ==
    LET mine == m_trade[p].money
        his == m_trade[q].money
    IN  /\ SpellsCastable(p, q)
        /\ HaveRoom(p, q)
        /\ where' = moveItems(p, q)
        /\ money' = [money EXCEPT ![p] = More(Less(@, mine), his),
                                  ![q] = More(Less(@, his), mine)]
        /\ SetTrades(DropTrade(p))
        /\ saved' = [a \in Player |-> IF a \in SavedWith(p, q) THEN money'[a] ELSE saved[a]]
        /\ earned' = [a \in Player |-> IF a \in {p, q} THEN 0 ELSE earned[a]]

HandleAcceptTradeOpcode(p, q) ==
    /\ Trading(p)
    /\ q = m_trade[p].trader
    /\ m_trade[q] # NULL
    /\ \/ AcceptWithoutGold(p, q)
       \/ AcceptAndWait(p, q)
       \/ AcceptSpellFails(p, q)
       \/ AcceptWithoutRoom(p, q)
       \/ AcceptExchange(p, q)
    /\ UNCHANGED <<bound, online, events>>

-----------------------------------------------------------------------------
(* What else happens to the items, the gold and the players.               *)

Event == events < MaxEvents /\ events' = events + 1

\* Mails, auctions, vendors, DestroyItem: the trade is not told.
ItemLeaves(item) ==
    /\ Event
    /\ where[item] \in online
    /\ where' = [where EXCEPT ![item] = NULL]
    /\ UNCHANGED <<m_trade, bound, money, online, saved, earned, agreed>>

\* The item is put on, or enchanted, and becomes soulbound.
SetBinding(item) ==
    /\ Event
    /\ where[item] \in online
    /\ item \notin bound
    /\ bound' = bound \cup {item}
    /\ UNCHANGED <<m_trade, where, money, online, saved, earned, agreed>>

ModifyMoney(p, amount) ==
    /\ Event
    /\ p \in online
    /\ money[p] + amount \in 0 .. MAX_MONEY_AMOUNT - 1
    /\ money' = [money EXCEPT ![p] = @ + amount]
    /\ earned' = [earned EXCEPT ![p] = @ + amount]
    /\ UNCHANGED <<m_trade, where, bound, online, saved, agreed>>

SaveToDB(p) ==
    /\ p \in online
    /\ saved' = [saved EXCEPT ![p] = money[p]]
    /\ earned' = [earned EXCEPT ![p] = 0]
    /\ UNCHANGED <<m_trade, where, bound, money, online, agreed, events>>

\* LogoutPlayer saves the character; CleanupsBeforeDelete drops the trade.
LogoutPlayer(p) ==
    /\ Event
    /\ p \in online
    /\ online' = online \ {p}
    /\ SetTrades(IF m_trade[p] = NULL THEN m_trade ELSE DropTrade(p))
    /\ saved' = [saved EXCEPT ![p] = money[p]]
    /\ earned' = [earned EXCEPT ![p] = 0]
    /\ UNCHANGED <<where, bound, money>>

LoadFromDB(p) ==
    /\ p \notin online
    /\ online' = online \cup {p}
    /\ UNCHANGED <<m_trade, where, bound, money, saved, earned, agreed, events>>

Next ==
    \/ \E p, q \in Player :
         HandleInitiateTradeOpcode(p, q) \/ HandleAcceptTradeOpcode(p, q)
    \/ \E p \in Player :
         \/ \E gold \in 0 .. MAX_MONEY_AMOUNT : HandleSetTradeGoldOpcode(p, gold)
         \/ \E slot \in TradeSlots :
              \/ \E item \in Item : HandleSetTradeItemOpcode(p, slot, item)
              \/ HandleClearTradeItemOpcode(p, slot)
         \/ \E spell \in Spell : CastOnTradeItem(p, spell)
         \/ HandleUnacceptTradeOpcode(p)
         \/ TradeCancel(p)
         \/ \E amount \in {-1, 1} : ModifyMoney(p, amount)
         \/ SaveToDB(p)
         \/ LogoutPlayer(p)
         \/ LoadFromDB(p)
    \/ \E item \in Item : ItemLeaves(item) \/ SetBinding(item)

Spec == Init /\ [][Next]_vars

-----------------------------------------------------------------------------
\* The type of the state.
TypeOK ==
    /\ m_trade \in [Player -> TradeData \cup {NULL}]
    /\ where \in [Item -> Player \cup {NULL}]
    /\ bound \subseteq Item
    /\ money \in [Player -> 0 .. MAX_MONEY_AMOUNT]
    /\ online \subseteq Player
    /\ saved \in [Player -> 0 .. MAX_MONEY_AMOUNT]
    /\ earned \in [Player -> Int]
    /\ events \in 0 .. MaxEvents

(***************************************************************************)
(* Trades come in pairs: the trader of a trading player is another player  *)
(* in the world whose trade is with him.  GetTraderData(), which the       *)
(* setters follow without a test, is never null, and no TradeData points   *)
(* to a deleted Player.                                                    *)
(***************************************************************************)
TradersPaired ==
    \A p \in Player : m_trade[p] # NULL =>
        LET q == m_trade[p].trader
        IN  /\ {p, q} \subseteq online
            /\ q # p
            /\ m_trade[q] # NULL
            /\ m_trade[q].trader = p

\* The trade of p ends and something changed hands.
Exchanged(p) ==
    /\ m_trade[p] # NULL
    /\ m_trade'[p] = NULL
    /\ <<where, money>>' # <<where, money>>

\* The offers p consents to: those he accepted before, or those of this moment.
Terms(p) ==
    IF agreed[p] # NULL THEN agreed[p]
    ELSE [mine |-> Offer(m_trade, p), his |-> Offer(m_trade, m_trade[p].trader)]

(***************************************************************************)
(* Nothing changes hands that both players have not consented to: both     *)
(* accepted the same two offers, and the gold that moves is exactly the    *)
(* gold of these offers, whatever was won or spent in between.             *)
(***************************************************************************)
AgreedExchange ==
    [][\A p \in Player : Exchanged(p) =>
         LET q == m_trade[p].trader
         IN  /\ Terms(p).mine = Terms(q).his
             /\ money'[p] = money[p] - Terms(q).his.money + Terms(p).his.money]_vars

ItemsOf(offer) == {offer.items[s] : s \in TradedSlots}

\* Whether p may have what he keeps and what q gives him.
WithinMaxCount(p, q) ==
    LET after == (Stored(where, p) \ TradedItems(p)) \cup TradedItems(q)
    IN  \A i \in after : Cardinality({j \in after : kind[j] = kind[i]}) <= MaxCount[kind[i]]

(***************************************************************************)
(* No item leaves a player that the other one did not accept, and the test *)
(* of CanStoreItems before the items are removed is enough: if nobody ends *)
(* with more items of a kind than MaxCount, every item of both sides is    *)
(* stored with the other player, and moveItems never has to give one back, *)
(* whatever the slots they are in.  (The test looks at MaxCount item by    *)
(* item, so without the condition an item can be given back; and an        *)
(* offered item that has left the inventory does not stop the exchange.)   *)
(***************************************************************************)
OfferedItemsMove ==
    [][\A p \in Player : Exchanged(p) =>
         LET q == m_trade[p].trader
         IN  /\ \A i \in Item : where[i] = p /\ where'[i] # p => i \in ItemsOf(Terms(q).his)
             /\ WithinMaxCount(p, q) /\ WithinMaxCount(q, p) =>
                  \A i \in TradedItems(p) : where'[i] = q]_vars

(***************************************************************************)
(* A crash after any step loses or doubles no gold of a trade: the         *)
(* database holds what each player had less what he won since it was       *)
(* saved, because a trade saves both players in one transaction.           *)
(***************************************************************************)
SavedGold == \A p \in Player : saved[p] + earned[p] = money[p]
=============================================================================
