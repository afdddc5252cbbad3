---------------------------- MODULE Trade_proofs ----------------------------
(***************************************************************************)
(* Proof that trades come in pairs, that what changes hands is what both   *)
(* players accepted, and that the gold of a trade survives a crash, for    *)
(* any players, items, spells and any number of trade slots.               *)
(*                                                                         *)
(* Every handler that changes an offer is a composition of the setters of  *)
(* TradeData, which follow the pointer to the trader.  The lemmas say that *)
(* a setter keeps the type and who trades with whom, provided that trades  *)
(* are paired; then it is enough to look at the handlers that begin and    *)
(* end a trade.  The last part follows moveItems from slot to slot.        *)
(***************************************************************************)
EXTENDS Trade, FiniteSetTheorems, WellFoundedInduction, TLAPS

Trades == [Player -> TradeData \cup {NULL}]

\* TypeOK without the items, whose places nothing here depends on.
ControlType ==
    /\ m_trade \in Trades
    /\ money \in [Player -> 0 .. MAX_MONEY_AMOUNT]
    /\ saved \in [Player -> 0 .. MAX_MONEY_AMOUNT]
    /\ earned \in [Player -> Int]

\* TradersPaired for the trades t, without the presence of the players.
Paired(t) ==
    \A p \in Player : t[p] # NULL =>
        /\ t[p].trader # p
        /\ t[t[p].trader] # NULL
        /\ t[t[p].trader].trader = p

\* The same players trade with each other in t and in u.
SameTraders(t, u) ==
    \A p \in Player : /\ t[p] = NULL <=> u[p] = NULL
                      /\ t[p] # NULL => u[p].trader = t[p].trader

Keeps(t, u) == u \in Trades /\ SameTraders(t, u)

IInv == ControlType /\ TradersPaired

-----------------------------------------------------------------------------
\* A change of one TradeData that leaves the trader alone keeps who trades.
LEMMA OneChanged ==
    ASSUME NEW t \in Trades, NEW p \in Player, t[p] # NULL,
           NEW d \in TradeData, d.trader = t[p].trader
    PROVE  Keeps(t, [t EXCEPT ![p] = d])
  BY TradeAssumption DEF Trades, Keeps, SameTraders

\* Players who trade in t trade in u, and pairs stay pairs.
LEMMA KeepsPaired ==
    ASSUME NEW t \in Trades, NEW u, Keeps(t, u), Paired(t)
    PROVE  Paired(u) /\ u \in Trades
  <1>1. \A p \in Player : t[p] # NULL => t[p].trader \in Player
    BY DEF Trades, TradeData
  <1> QED
    BY <1>1 DEF Keeps, SameTraders, Paired

\* Setters can be composed.
LEMMA KeepsTransitive ==
    ASSUME NEW t, NEW u, NEW v, Keeps(t, u), Keeps(u, v)
    PROVE  Keeps(t, v)
  BY DEF Keeps, SameTraders

\* TradeData::SetAccepted(false) of one player.
LEMMA UnacceptKeeps ==
    ASSUME NEW t \in Trades, NEW p \in Player, t[p] # NULL
    PROVE  Keeps(t, Unaccept(t, p))
  <1>1. t[p] \in TradeData
    BY DEF Trades
  <1>2. [t[p] EXCEPT !.accepted = FALSE] \in TradeData
    BY <1>1 DEF TradeData
  <1>3. [t[p] EXCEPT !.accepted = FALSE].trader = t[p].trader
    BY <1>1 DEF TradeData
  <1>4. Unaccept(t, p) = [t EXCEPT ![p] = [t[p] EXCEPT !.accepted = FALSE]]
    BY DEF Unaccept
  <1> QED
    BY <1>2, <1>3, <1>4, OneChanged

\* SetAccepted(false) on both sides: the pointer to the trader is followed.
LEMMA UnacceptBothKeeps ==
    ASSUME NEW t \in Trades, Paired(t), NEW p \in Player, t[p] # NULL
    PROVE  Keeps(t, UnacceptBoth(t, p))
  <1> DEFINE u == Unaccept(t, p)
             q == t[p].trader
  <1>1. Keeps(t, u)
    BY UnacceptKeeps
  <1>2. q \in Player /\ t[q] # NULL
    BY DEF Trades, TradeData, Paired
  <1>3. u \in Trades /\ u[q] # NULL
    BY <1>1, <1>2 DEF Keeps, SameTraders
  <1>4. Keeps(u, Unaccept(u, q))
    BY <1>2, <1>3, UnacceptKeeps
  <1> QED
    BY <1>1, <1>4, KeepsTransitive DEF UnacceptBoth

\* A change of one TradeData after which both sides have to accept again.
LEMMA ChangedOffer ==
    ASSUME NEW t \in Trades, Paired(t), NEW p \in Player, t[p] # NULL,
           NEW d \in TradeData, d.trader = t[p].trader
    PROVE  Keeps(t, UnacceptBoth([t EXCEPT ![p] = d], p))
  <1> DEFINE u == [t EXCEPT ![p] = d]
  <1>1. Keeps(t, u)
    BY OneChanged
  <1>2. u \in Trades /\ Paired(u)
    BY <1>1, KeepsPaired
  <1>3. u[p] # NULL
    BY <1>1 DEF Keeps, SameTraders
  <1>4. Keeps(u, UnacceptBoth(u, p))
    BY <1>2, <1>3, UnacceptBothKeeps
  <1> QED
    BY <1>1, <1>4, KeepsTransitive

\* TradeData::SetSpell, which does nothing when the spell is the same.
LEMMA SetSpellKeeps ==
    ASSUME NEW t \in Trades, Paired(t), NEW p \in Player, t[p] # NULL,
           NEW spell \in Spell \cup {NULL}
    PROVE  Keeps(t, SetSpell(t, p, spell))
  <1> DEFINE d == [t[p] EXCEPT !.spell = spell]
  <1>1. t[p] \in TradeData
    BY DEF Trades
  <1>2. d \in TradeData /\ d.trader = t[p].trader
    BY <1>1 DEF TradeData
  <1>3. Keeps(t, t)
    BY DEF Keeps, SameTraders
  <1>4. Keeps(t, UnacceptBoth([t EXCEPT ![p] = d], p))
    BY <1>2, ChangedOffer
  <1> QED
    BY <1>3, <1>4 DEF SetSpell

\* TradeData::SetMoney.
LEMMA SetMoneyKeeps ==
    ASSUME NEW t \in Trades, Paired(t), NEW p \in Player, t[p] # NULL,
           NEW amount \in 0 .. MAX_MONEY_AMOUNT
    PROVE  Keeps(t, SetMoney(t, p, amount))
  <1> DEFINE d == [t[p] EXCEPT !.money = amount]
  <1>1. t[p] \in TradeData
    BY DEF Trades
  <1>2. d \in TradeData /\ d.trader = t[p].trader
    BY <1>1 DEF TradeData
  <1>3. Keeps(t, t)
    BY DEF Keeps, SameTraders
  <1>4. Keeps(t, UnacceptBoth([t EXCEPT ![p] = d], p))
    BY <1>2, ChangedOffer
  <1> QED
    BY <1>3, <1>4 DEF SetMoney

\* TradeData::SetItem, which also removes the spells of both sides.
LEMMA SetItemKeeps ==
    ASSUME NEW t \in Trades, Paired(t), NEW p \in Player, t[p] # NULL,
           NEW slot \in TradeSlots, NEW item \in Item \cup {NULL}
    PROVE  Keeps(t, SetItem(t, p, slot, item))
  <1> DEFINE d == [t[p] EXCEPT !.items[slot] = item]
             changed == UnacceptBoth([t EXCEPT ![p].items[slot] = item], p)
             q == t[p].trader
             target == IF slot = TRADE_SLOT_NONTRADED
                         THEN SetSpell(changed, q, NULL) ELSE changed
  <1>1. t[p] \in TradeData
    BY DEF Trades
  <1>2. d \in TradeData /\ d.trader = t[p].trader
    BY <1>1 DEF TradeData
  <1>3. Keeps(t, changed)
    BY <1>2, ChangedOffer
  <1>4. changed \in Trades /\ Paired(changed)
    BY <1>3, KeepsPaired
  <1>5. q \in Player /\ t[q] # NULL
    BY DEF Trades, TradeData, Paired
  <1>6. changed[p] # NULL /\ changed[q] # NULL
    BY <1>3, <1>5 DEF Keeps, SameTraders
  <1> HIDE DEF changed
  <1>7. Keeps(changed, SetSpell(changed, q, NULL))
    BY <1>4, <1>5, <1>6, SetSpellKeeps
  <1>8. Keeps(changed, changed)
    BY <1>4 DEF Keeps, SameTraders
  <1>9. Keeps(changed, target)
    BY <1>7, <1>8
  <1>10. target \in Trades /\ Paired(target) /\ target[p] # NULL
    <2>1. target \in Trades /\ Paired(target)
      BY <1>4, <1>9, KeepsPaired
    <2>2. target[p] # NULL
      BY <1>6, <1>9 DEF Keeps, SameTraders
    <2> QED
      BY <2>1, <2>2
  <1> HIDE DEF target
  <1>11. Keeps(target, SetSpell(target, p, NULL))
    BY <1>10, SetSpellKeeps
  <1>12. Keeps(t, SetSpell(target, p, NULL))
    BY <1>3, <1>9, <1>11, KeepsTransitive
  <1>13. Keeps(t, t)
    BY DEF Keeps, SameTraders
  <1>14. SetItem(t, p, slot, item) =
           IF t[p].items[slot] = item THEN t ELSE SetSpell(target, p, NULL)
    BY DEF SetItem, changed, target
  <1> QED
    BY <1>12, <1>13, <1>14

-----------------------------------------------------------------------------
\* TradersPaired is Paired and the presence of the players.
LEMMA PairedOfTraders ==
    ASSUME ControlType
    PROVE  TradersPaired <=>
             /\ Paired(m_trade)
             /\ \A p \in Player : m_trade[p] # NULL => p \in online
  <1>1. \A p \in Player : m_trade[p] # NULL => m_trade[p].trader \in Player
    BY DEF ControlType, Trades, TradeData
  <1> QED
    BY <1>1 DEF TradersPaired, Paired

\* A step that changes offers only, through the setters, keeps the invariant.
LEMMA OfferKeepsIInv ==
    ASSUME IInv, Keeps(m_trade, m_trade'), UNCHANGED online, ControlType'
    PROVE  IInv'
  <1>1. /\ Paired(m_trade)
        /\ \A p \in Player : m_trade[p] # NULL => p \in online
    BY PairedOfTraders DEF IInv
  <1>2. Paired(m_trade')
    BY <1>1, KeepsPaired DEF IInv, ControlType
  <1>3. \A p \in Player : m_trade'[p] # NULL => p \in online'
    BY <1>1 DEF Keeps, SameTraders
  <1>4. \A p \in Player : m_trade'[p] # NULL => m_trade'[p].trader \in Player
    BY DEF ControlType, Trades, TradeData
  <1> QED
    BY <1>2, <1>3, <1>4 DEF IInv, TradersPaired, Paired

\* The end of a trade keeps the invariant: both sides are dropped.
LEMMA DropKeeps ==
    ASSUME IInv, NEW p \in Player, m_trade[p] # NULL
    PROVE  /\ DropTrade(p) \in Trades
           /\ Paired(DropTrade(p))
           /\ \A a \in Player : DropTrade(p)[a] # NULL => a \in online \ {p}
  <1>1. m_trade[p].trader \in Player
    BY DEF IInv, ControlType, Trades, TradeData
  <1>2. \A a \in Player : m_trade[a] # NULL => m_trade[a].trader \in Player
    BY DEF IInv, ControlType, Trades, TradeData
  <1>3. DropTrade(p) \in Trades
    BY <1>1 DEF DropTrade, IInv, ControlType, Trades
  <1>4. \A a \in Player : DropTrade(p)[a] =
           IF a \in {p, m_trade[p].trader} THEN NULL ELSE m_trade[a]
    BY <1>1 DEF DropTrade, IInv, ControlType, Trades
  <1>5. Paired(DropTrade(p))
    BY <1>1, <1>2, <1>4 DEF Paired, IInv, TradersPaired
  <1>6. \A a \in Player : DropTrade(p)[a] # NULL => a \in online \ {p}
    BY <1>4 DEF IInv, TradersPaired
  <1> QED
    BY <1>3, <1>5, <1>6

\* A player who logs in or begins to trade: enough for TradersPaired.
LEMMA PairedOnline ==
    ASSUME m_trade \in Trades, Paired(m_trade),
           \A p \in Player : m_trade[p] # NULL => p \in online
    PROVE  TradersPaired
  <1>1. \A p \in Player : m_trade[p] # NULL => m_trade[p].trader \in Player
    BY DEF Trades, TradeData
  <1> QED
    BY <1>1 DEF TradersPaired, Paired

-----------------------------------------------------------------------------
\* Nobody trades when the server starts.
LEMMA InitIInv == Init => IInv /\ SavedGold
  <1> SUFFICES ASSUME Init PROVE IInv /\ SavedGold
    OBVIOUS
  <1>1. ControlType
    BY TradeAssumption DEF Init, ControlType, Trades
  <1>2. TradersPaired
    BY DEF Init, TradersPaired
  <1>3. SavedGold
    BY TradeAssumption DEF Init, SavedGold
  <1> QED
    BY <1>1, <1>2, <1>3 DEF IInv

\* The packets that change an offer: the gold of the players stays as it is.
LEMMA SettersKeepIInv ==
    ASSUME IInv, NEW p \in Player,
           \/ \E gold \in 0 .. MAX_MONEY_AMOUNT : HandleSetTradeGoldOpcode(p, gold)
           \/ \E slot \in TradeSlots, item \in Item : HandleSetTradeItemOpcode(p, slot, item)
           \/ \E slot \in TradeSlots : HandleClearTradeItemOpcode(p, slot)
           \/ \E spell \in Spell : CastOnTradeItem(p, spell)
           \/ HandleUnacceptTradeOpcode(p)
    PROVE  IInv' /\ UNCHANGED <<money, saved, earned>>
  <1>1. m_trade \in Trades /\ Paired(m_trade)
    BY PairedOfTraders DEF IInv, ControlType
  <1>2. Keeps(m_trade, m_trade') /\ UNCHANGED <<money, saved, earned, online>>
    <2>1. ASSUME NEW gold \in 0 .. MAX_MONEY_AMOUNT, HandleSetTradeGoldOpcode(p, gold)
          PROVE  Keeps(m_trade, m_trade') /\ UNCHANGED <<money, saved, earned, online>>
      BY <1>1, <2>1, SetMoneyKeeps DEF HandleSetTradeGoldOpcode, Trading, SetTrades
    <2>2. ASSUME NEW slot \in TradeSlots, NEW item \in Item,
                 HandleSetTradeItemOpcode(p, slot, item)
          PROVE  Keeps(m_trade, m_trade') /\ UNCHANGED <<money, saved, earned, online>>
      BY <1>1, <2>2, SetItemKeeps DEF HandleSetTradeItemOpcode, Trading, SetTrades
    <2>3. ASSUME NEW slot \in TradeSlots, HandleClearTradeItemOpcode(p, slot)
          PROVE  Keeps(m_trade, m_trade') /\ UNCHANGED <<money, saved, earned, online>>
      BY <1>1, <2>3, SetItemKeeps DEF HandleClearTradeItemOpcode, Trading, SetTrades
    <2>4. ASSUME NEW spell \in Spell, CastOnTradeItem(p, spell)
          PROVE  Keeps(m_trade, m_trade') /\ UNCHANGED <<money, saved, earned, online>>
      BY <1>1, <2>4, SetSpellKeeps DEF CastOnTradeItem, Trading, SetTrades
    <2>5. CASE HandleUnacceptTradeOpcode(p)
      BY <1>1, <2>5, UnacceptKeeps DEF HandleUnacceptTradeOpcode, Trading, SetTrades
    <2> QED
      BY <2>1, <2>2, <2>3, <2>4, <2>5
  <1>3. ControlType'
    BY <1>2 DEF IInv, ControlType, Keeps
  <1> QED
    BY <1>2, <1>3, OfferKeepsIInv

\* Begin and end of a trade without an exchange, and players who come and go.
LEMMA TradersKeepIInv ==
    ASSUME IInv, NEW p \in Player,
           \/ \E q \in Player : HandleInitiateTradeOpcode(p, q)
           \/ TradeCancel(p)
           \/ LogoutPlayer(p)
           \/ LoadFromDB(p)
    PROVE  IInv'
  <1>1. /\ ControlType
        /\ m_trade \in Trades
        /\ Paired(m_trade)
        /\ \A a \in Player : m_trade[a] # NULL => a \in online
    BY PairedOfTraders DEF IInv, ControlType
  <1>2. SUFFICES /\ m_trade' \in Trades
                 /\ Paired(m_trade')
                 /\ \A a \in Player : m_trade'[a] # NULL => a \in online'
    <2>1. TradersPaired'
      <3>1. \A a \in Player : m_trade'[a] # NULL => m_trade'[a].trader \in Player
        BY <1>2 DEF Trades, TradeData
      <3> QED
        BY <1>2, <3>1 DEF TradersPaired, Paired
    <2>2. ControlType'
      <3>1. UNCHANGED money /\ (UNCHANGED <<saved, earned>> \/ LogoutPlayer(p))
        BY DEF HandleInitiateTradeOpcode, TradeCancel, LogoutPlayer, LoadFromDB
      <3> QED
        BY <1>1, <1>2, <3>1 DEF ControlType, LogoutPlayer
    <2> QED
      BY <2>1, <2>2 DEF IInv
  <1>3. ASSUME NEW q \in Player, HandleInitiateTradeOpcode(p, q)
        PROVE  /\ m_trade' \in Trades
               /\ Paired(m_trade')
               /\ \A a \in Player : m_trade'[a] # NULL => a \in online'
    <2>1. \A a \in Player : /\ NewTradeData(a) \in TradeData
                            /\ NewTradeData(a).trader = a
      BY TradeAssumption DEF NewTradeData, TradeData
    <2>2. /\ p # q /\ m_trade[p] = NULL /\ m_trade[q] = NULL
          /\ {p, q} \subseteq online /\ online' = online
          /\ m_trade' = [m_trade EXCEPT ![p] = NewTradeData(q), ![q] = NewTradeData(p)]
      BY <1>3 DEF HandleInitiateTradeOpcode, CanTradeWith, SetTrades
    <2>3. \A a \in Player : m_trade'[a] = IF a = q THEN NewTradeData(p)
                                          ELSE IF a = p THEN NewTradeData(q)
                                          ELSE m_trade[a]
      BY <1>1, <2>2 DEF Trades
    <2>4. m_trade' \in Trades
      BY <1>1, <2>1, <2>2 DEF Trades
    <2>5. \A a \in Player : m_trade[a] # NULL => m_trade[a].trader \in Player \ {p, q}
      BY <1>1, <2>2 DEF Paired, Trades, TradeData
    <2>6. \A a \in Player : NewTradeData(a) # NULL
      BY <2>1, TradeAssumption
    <2>7. ASSUME NEW a \in Player, m_trade'[a] # NULL
          PROVE  /\ m_trade'[a].trader # a
                 /\ m_trade'[m_trade'[a].trader] # NULL
                 /\ m_trade'[m_trade'[a].trader].trader = a
      <3>1. CASE a \in {p, q}
        <4>1. m_trade'[p] = NewTradeData(q) /\ m_trade'[q] = NewTradeData(p)
          BY <2>2, <2>3
        <4>2. m_trade'[p].trader = q /\ m_trade'[q].trader = p
          BY <2>1, <4>1
        <4>3. m_trade'[p] # NULL /\ m_trade'[q] # NULL
          BY <2>6, <4>1
        <4>4. a = p \/ a = q
          BY <3>1
        <4> QED
          BY <2>2, <4>2, <4>3, <4>4
      <3>2. CASE a \notin {p, q}
        <4>1. m_trade'[a] = m_trade[a]
          BY <2>3, <3>2
        <4>2. m_trade'[m_trade[a].trader] = m_trade[m_trade[a].trader]
          BY <2>3, <2>5, <2>7, <4>1
        <4> QED
          BY <1>1, <2>7, <4>1, <4>2 DEF Paired
      <3> QED
        BY <3>1, <3>2
    <2>8. Paired(m_trade')
      BY <2>7 DEF Paired
    <2> QED
      BY <1>1, <2>2, <2>3, <2>4, <2>8
  <1>4. CASE TradeCancel(p)
    BY <1>4, DropKeeps DEF TradeCancel, Trading, SetTrades
  <1>5. CASE LogoutPlayer(p)
    <2>1. CASE m_trade[p] = NULL
      BY <1>1, <1>5, <2>1 DEF LogoutPlayer, SetTrades
    <2>2. CASE m_trade[p] # NULL
      BY <1>5, <2>2, DropKeeps DEF LogoutPlayer, SetTrades
    <2> QED
      BY <2>1, <2>2
  <1>6. CASE LoadFromDB(p)
    BY <1>1, <1>6 DEF LoadFromDB
  <1> QED
    BY <1>3, <1>4, <1>5, <1>6

\* Player::ModifyMoney stays between zero and the maximum.
LEMMA MoneyInRange ==
    ASSUME NEW gold \in 0 .. MAX_MONEY_AMOUNT, NEW x \in 0 .. MAX_MONEY_AMOUNT,
           NEW y \in 0 .. MAX_MONEY_AMOUNT
    PROVE  More(Less(gold, x), y) \in 0 .. MAX_MONEY_AMOUNT
  BY TradeAssumption DEF More, Less

\* CMSG_ACCEPT_TRADE in all its outcomes.
LEMMA AcceptKeepsIInv ==
    ASSUME IInv, NEW p \in Player, NEW q \in Player, HandleAcceptTradeOpcode(p, q)
    PROVE  IInv'
  <1>1. /\ ControlType
        /\ m_trade \in Trades
        /\ Paired(m_trade)
        /\ \A a \in Player : m_trade[a] # NULL => a \in online
    BY PairedOfTraders DEF IInv, ControlType
  <1>2. /\ m_trade[p] # NULL /\ m_trade[q] # NULL
        /\ m_trade[p] \in TradeData /\ m_trade[q] \in TradeData
        /\ q = m_trade[p].trader
        /\ online' = online
    BY <1>1 DEF HandleAcceptTradeOpcode, Trading, Trades
  <1>3. Keeps(m_trade, Accept(p)) /\ Accept(p) \in Trades /\ Paired(Accept(p))
        /\ Accept(p)[p] # NULL /\ Accept(p)[q] # NULL
    <2> DEFINE d == [m_trade[p] EXCEPT !.accepted = TRUE]
    <2>1. d \in TradeData /\ d.trader = m_trade[p].trader
      BY <1>2 DEF TradeData
    <2>2. Keeps(m_trade, [m_trade EXCEPT ![p] = d])
      BY <1>1, <1>2, <2>1, OneChanged
    <2>3. Keeps(m_trade, Accept(p))
      BY <2>2 DEF Accept
    <2>4. Accept(p) \in Trades /\ Paired(Accept(p))
      BY <1>1, <2>3, KeepsPaired
    <2>5. Accept(p)[p] # NULL /\ Accept(p)[q] # NULL
      BY <1>2, <2>3 DEF Keeps, SameTraders
    <2> QED
      BY <2>3, <2>4, <2>5
  <1> HIDE DEF Accept
  <1>4. ASSUME Keeps(m_trade, m_trade'), UNCHANGED <<money, saved, earned>>
        PROVE  IInv'
    <2>1. ControlType'
      BY <1>1, <1>4 DEF ControlType, Keeps
    <2> QED
      BY <1>2, <1>4, <2>1, OfferKeepsIInv
  <1>5. CASE AcceptWithoutGold(p, q)
    <2>1. WithoutGold(p, q) \in {p, q}
      BY <1>5 DEF AcceptWithoutGold, WithoutGold
    <2>2. Keeps(Accept(p), Unaccept(Accept(p), WithoutGold(p, q)))
      BY <1>3, <2>1, UnacceptKeeps
    <2>3. Keeps(m_trade, m_trade')
      BY <1>3, <1>5, <2>2, KeepsTransitive DEF AcceptWithoutGold, SetTrades
    <2> QED
      BY <1>4, <1>5, <2>3 DEF AcceptWithoutGold
  <1>6. CASE AcceptAndWait(p, q)
    BY <1>3, <1>4, <1>6 DEF AcceptAndWait, SetTrades
  <1>7. CASE AcceptSpellFails(p, q)
    <2>1. PICK caster \in {p, q} : m_trade' = SetSpell(Accept(p), caster, NULL)
      BY <1>7 DEF AcceptSpellFails, SetTrades
    <2>2. Keeps(Accept(p), SetSpell(Accept(p), caster, NULL))
      BY <1>3, SetSpellKeeps
    <2>3. Keeps(m_trade, m_trade')
      BY <1>3, <2>1, <2>2, KeepsTransitive
    <2> QED
      BY <1>4, <1>7, <2>3 DEF AcceptSpellFails
  <1>8. CASE AcceptWithoutRoom(p, q)
    BY <1>1, <1>2, <1>4, <1>8, UnacceptBothKeeps DEF AcceptWithoutRoom, SetTrades
  <1>9. CASE AcceptExchange(p, q)
    <2>1. /\ m_trade' = DropTrade(p)
          /\ money' = [money EXCEPT ![p] = More(Less(@, m_trade[p].money), m_trade[q].money),
                                    ![q] = More(Less(@, m_trade[q].money), m_trade[p].money)]
          /\ saved' = [a \in Player |-> IF a \in SavedWith(p, q) THEN money'[a] ELSE saved[a]]
          /\ earned' = [a \in Player |-> IF a \in {p, q} THEN 0 ELSE earned[a]]
      BY <1>9 DEF AcceptExchange, SetTrades
    <2>2. /\ m_trade' \in Trades
          /\ Paired(m_trade')
          /\ \A a \in Player : m_trade'[a] # NULL => a \in online'
      BY <1>2, <2>1, DropKeeps
    <2>3. m_trade[p].money \in 0 .. MAX_MONEY_AMOUNT /\ m_trade[q].money \in 0 .. MAX_MONEY_AMOUNT
      BY <1>2 DEF TradeData
    <2>4. p # q
      BY <1>1, <1>2 DEF Paired
    <2>5. money' \in [Player -> 0 .. MAX_MONEY_AMOUNT]
      BY <1>1, <2>1, <2>3, <2>4, MoneyInRange DEF ControlType
    <2>6. ControlType'
      BY <1>1, <2>1, <2>2, <2>5 DEF ControlType
    <2>7. \A a \in Player : m_trade'[a] # NULL => m_trade'[a].trader \in Player
      BY <2>2 DEF Trades, TradeData
    <2> QED
      BY <2>2, <2>6, <2>7 DEF IInv, TradersPaired, Paired
  <1> QED
    BY <1>5, <1>6, <1>7, <1>8, <1>9 DEF HandleAcceptTradeOpcode

\* What happens outside of the trade packets changes no trade.
LEMMA EventsKeepIInv ==
    ASSUME IInv,
           \/ \E item \in Item : ItemLeaves(item) \/ SetBinding(item)
           \/ \E p \in Player : SaveToDB(p)
           \/ \E p \in Player, amount \in {-1, 1} : ModifyMoney(p, amount)
           \/ UNCHANGED vars
    PROVE  IInv'
  <1>1. UNCHANGED <<m_trade, online>>
    BY DEF ItemLeaves, SetBinding, SaveToDB, ModifyMoney, vars
  <1>2. ControlType'
    <2> USE DEF IInv, ControlType
    <2>1. ASSUME NEW item \in Item, ItemLeaves(item) \/ SetBinding(item)
          PROVE  ControlType'
      BY <2>1 DEF ItemLeaves, SetBinding
    <2>2. ASSUME NEW p \in Player, SaveToDB(p)
          PROVE  ControlType'
      BY <2>2 DEF SaveToDB
    <2>3. ASSUME NEW p \in Player, NEW amount \in {-1, 1}, ModifyMoney(p, amount)
          PROVE  ControlType'
      BY <2>3, TradeAssumption DEF ModifyMoney
    <2>4. CASE UNCHANGED vars
      BY <2>4 DEF vars
    <2> QED
      BY <2>1, <2>2, <2>3, <2>4
  <1>3. TradersPaired'
    BY <1>1 DEF IInv, TradersPaired
  <1> QED
    BY <1>2, <1>3 DEF IInv

\* Every step keeps the invariant.
LEMMA NextIInv == IInv /\ [Next]_vars => IInv'
  <1> SUFFICES ASSUME IInv, [Next]_vars PROVE IInv'
    OBVIOUS
  <1> QED
    BY SettersKeepIInv, TradersKeepIInv, AcceptKeepsIInv, EventsKeepIInv DEF Next

-----------------------------------------------------------------------------
\* What the database holds agrees with memory up to what was won since.
LEMMA NextSavedGold == IInv /\ SavedGold /\ [Next]_vars => SavedGold'
  <1> SUFFICES ASSUME IInv, SavedGold, [Next]_vars PROVE SavedGold'
    OBVIOUS
  <1>1. /\ money \in [Player -> 0 .. MAX_MONEY_AMOUNT]
        /\ saved \in [Player -> 0 .. MAX_MONEY_AMOUNT]
        /\ earned \in [Player -> Int]
        /\ MAX_MONEY_AMOUNT \in Nat
    BY TradeAssumption DEF IInv, ControlType
  <1>2. IInv'
    BY NextIInv
  <1>3. ASSUME UNCHANGED <<money, saved, earned>> PROVE SavedGold'
    BY <1>3 DEF SavedGold
  <1>4. ASSUME NEW p \in Player, NEW q \in Player, HandleAcceptTradeOpcode(p, q)
        PROVE  SavedGold'
    <2>1. CASE AcceptExchange(p, q)
      <3>1. /\ saved' = [a \in Player |-> IF a \in {p, q} THEN money'[a] ELSE saved[a]]
            /\ earned' = [a \in Player |-> IF a \in {p, q} THEN 0 ELSE earned[a]]
            /\ \A a \in Player \ {p, q} : money'[a] = money[a]
        BY <1>1, <2>1 DEF AcceptExchange, SavedWith
      <3>2. money' \in [Player -> 0 .. MAX_MONEY_AMOUNT]
        BY <1>2 DEF IInv, ControlType
      <3> QED
        BY <1>1, <3>1, <3>2 DEF SavedGold
    <2>2. CASE ~AcceptExchange(p, q)
      BY <1>3, <1>4, <2>2 DEF HandleAcceptTradeOpcode, AcceptWithoutGold, AcceptAndWait,
                              AcceptSpellFails, AcceptWithoutRoom
    <2> QED
      BY <2>1, <2>2
  <1>5. ASSUME NEW p \in Player, SaveToDB(p) \/ LogoutPlayer(p) PROVE SavedGold'
    BY <1>1, <1>5 DEF SaveToDB, LogoutPlayer, SavedGold
  <1>6. ASSUME NEW p \in Player, NEW amount \in {-1, 1}, ModifyMoney(p, amount)
        PROVE  SavedGold'
    BY <1>1, <1>6 DEF ModifyMoney, SavedGold
  <1>7. ASSUME NEW item \in Item, ItemLeaves(item) \/ SetBinding(item) PROVE SavedGold'
    BY <1>3, <1>7 DEF ItemLeaves, SetBinding
  <1>8. ASSUME NEW p \in Player,
               (\E q \in Player : HandleInitiateTradeOpcode(p, q)) \/ TradeCancel(p) \/ LoadFromDB(p)
        PROVE  SavedGold'
    BY <1>3, <1>8 DEF HandleInitiateTradeOpcode, TradeCancel, LoadFromDB
  <1>9. CASE UNCHANGED vars
    BY <1>3, <1>9 DEF vars
  <1> QED
    BY <1>3, <1>4, <1>5, <1>6, <1>7, <1>8, <1>9, SettersKeepIInv DEF Next

\* The invariant holds in every reachable state.
LEMMA Invariance == Spec => [](IInv /\ SavedGold)
  <1>1. Init => IInv /\ SavedGold
    BY InitIInv
  <1>2. (IInv /\ SavedGold) /\ [Next]_vars => (IInv /\ SavedGold)'
    BY NextIInv, NextSavedGold
  <1> QED
    BY <1>1, <1>2, PTL DEF Spec

\* Trades come in pairs of players who are in the world: the setters of
\* TradeData never follow a null or a dangling pointer to the trader.
THEOREM TradersAlwaysPaired == Spec => []TradersPaired
  <1>1. IInv /\ SavedGold => TradersPaired
    BY DEF IInv
  <1> QED
    BY <1>1, Invariance, PTL

\* The gold that moves in a trade is stored for both players or for none.
THEOREM GoldAlwaysSaved == Spec => []SavedGold
  <1>1. IInv /\ SavedGold => SavedGold
    OBVIOUS
  <1> QED
    BY <1>1, Invariance, PTL

-----------------------------------------------------------------------------
(* What a player accepted is what is offered.                              *)

\* The two offers as they are.
Offers(t, p) == [mine |-> Offer(t, p), his |-> Offer(t, t[p].trader)]

\* A player who has accepted is still shown what he accepted.
Consent ==
    \A p \in Player : agreed[p] # NULL =>
        /\ m_trade[p] # NULL
        /\ m_trade[p].accepted
        /\ agreed[p] = Offers(m_trade, p)

\* A player who has accepted before and after a change sees no difference.
Honest(t, u) ==
    \A p \in Player : t[p] # NULL /\ u[p] # NULL /\ t[p].accepted /\ u[p].accepted =>
        Offers(u, p) = Offers(t, p)

\* A change by which nobody accepts.
Mild(t, u) ==
    \A p \in Player : t[p] # NULL /\ u[p] # NULL /\ u[p].accepted =>
        /\ t[p].accepted
        /\ Offers(u, p) = Offers(t, p)

\* History: an honest change of the trades keeps the consent.
LEMMA HonestKeepsConsent ==
    ASSUME Consent, NEW u, SetTrades(u), Honest(m_trade, u)
    PROVE  Consent'
  <1>1. m_trade' = u
    BY DEF SetTrades
  <1>2. ASSUME NEW p \in Player, agreed'[p] # NULL
        PROVE  u[p] # NULL /\ u[p].accepted /\ agreed'[p] = Offers(u, p)
    <2>1. u[p] # NULL /\ u[p].accepted
      BY <1>2 DEF SetTrades, Remember
    <2>2. agreed'[p] = IF agreed[p] # NULL THEN agreed[p] ELSE Offers(u, p)
      BY <2>1 DEF SetTrades, Remember, Offers
    <2>3. CASE agreed[p] # NULL
      BY <2>1, <2>2, <2>3 DEF Consent, Honest
    <2> QED
      BY <2>1, <2>2, <2>3
  <1> QED
    BY <1>1, <1>2 DEF Consent

\* Two changes by which nobody accepts make one.
LEMMA MildTransitive ==
    ASSUME NEW t, NEW u, NEW v, SameTraders(t, u), Mild(t, u), Mild(u, v)
    PROVE  Mild(t, v)
  BY DEF Mild, SameTraders

\* An honest change and then one by which nobody accepts.
LEMMA MildAfterHonest ==
    ASSUME NEW t, NEW u, NEW v, SameTraders(t, u), Honest(t, u), Mild(u, v)
    PROVE  Honest(t, v)
  BY DEF Mild, Honest, SameTraders

\* SetAccepted(false) of one player changes no offer.
LEMMA UnacceptMild ==
    ASSUME NEW t \in Trades, NEW p \in Player, t[p] # NULL
    PROVE  /\ ~Unaccept(t, p)[p].accepted
           /\ \A a \in Player \ {p} : Unaccept(t, p)[a] = t[a]
           /\ \A a \in Player : Offer(Unaccept(t, p), a) = Offer(t, a)
           /\ Mild(t, Unaccept(t, p))
  <1> DEFINE u == Unaccept(t, p)
             d == [t[p] EXCEPT !.accepted = FALSE]
  <1>1. t[p] \in TradeData
    BY DEF Trades
  <1>2. /\ d.accepted = FALSE /\ d.trader = t[p].trader
        /\ d.money = t[p].money /\ d.items = t[p].items /\ d.spell = t[p].spell
    BY <1>1 DEF TradeData
  <1>3. u = [t EXCEPT ![p] = d]
    BY DEF Unaccept
  <1> HIDE DEF d, u
  <1>4. u[p] = d /\ \A a \in Player \ {p} : u[a] = t[a]
    BY <1>3 DEF Trades
  <1>5. \A a \in Player : Offer(u, a) = Offer(t, a)
    BY <1>2, <1>4 DEF Offer
  <1>6. \A a \in Player : t[a] # NULL => t[a].trader \in Player
    BY DEF Trades, TradeData
  <1>7. Mild(t, u)
    BY <1>2, <1>4, <1>5, <1>6 DEF Mild, Offers
  <1> QED
    BY <1>2, <1>4, <1>5, <1>7 DEF u

\* A change of one offer after which neither side has accepted.
LEMMA ChangedOfferMild ==
    ASSUME NEW t \in Trades, Paired(t), NEW p \in Player, t[p] # NULL,
           NEW d \in TradeData, d.trader = t[p].trader
    PROVE  Mild(t, UnacceptBoth([t EXCEPT ![p] = d], p))
  <1> DEFINE u == [t EXCEPT ![p] = d]
             q == t[p].trader
             v == Unaccept(u, p)
             w == Unaccept(v, q)
  <1>1. q \in Player /\ t[q] # NULL
    BY DEF Trades, TradeData, Paired
  <1>2. Keeps(t, u)
    BY OneChanged
  <1>3. u \in Trades /\ u[p] # NULL /\ u[p].trader = q
    BY <1>2 DEF Keeps, SameTraders
  <1>4. \A a \in Player \ {p} : u[a] = t[a]
    BY DEF Trades
  <1> HIDE DEF u
  <1>5. Keeps(u, v)
    BY <1>3, UnacceptKeeps
  <1>6. v \in Trades /\ v[q] # NULL
    BY <1>1, <1>2, <1>5 DEF Keeps, SameTraders
  <1>7. ~v[p].accepted /\ \A a \in Player \ {p} : v[a] = u[a]
    BY <1>3, UnacceptMild
  <1> HIDE DEF v
  <1>8. ~w[q].accepted /\ \A a \in Player \ {q} : w[a] = v[a]
    BY <1>1, <1>6, UnacceptMild
  <1> HIDE DEF w
  <1>9. ~w[p].accepted /\ ~w[q].accepted
    BY <1>7, <1>8
  <1>10. \A a \in Player \ {p, q} : w[a] = t[a]
    BY <1>4, <1>7, <1>8
  <1>11. \A a \in Player \ {p, q} : t[a] # NULL => t[a].trader \in Player \ {p, q}
    BY <1>1 DEF Paired, Trades, TradeData
  <1>12. Mild(t, w)
    BY <1>9, <1>10, <1>11 DEF Mild, Offers, Offer
  <1> QED
    BY <1>3, <1>12 DEF UnacceptBoth, u, v, w

\* No change is a change by which nobody accepts.
LEMMA SameMild == ASSUME NEW t PROVE Mild(t, t)
  BY DEF Mild

\* UnacceptBoth alone.
LEMMA UnacceptBothMild ==
    ASSUME NEW t \in Trades, Paired(t), NEW p \in Player, t[p] # NULL
    PROVE  Mild(t, UnacceptBoth(t, p))
  <1>1. t[p] \in TradeData /\ t = [t EXCEPT ![p] = t[p]]
    BY DEF Trades
  <1> QED
    BY <1>1, ChangedOfferMild

\* By TradeData::SetSpell nobody accepts.
LEMMA SetSpellMild ==
    ASSUME NEW t \in Trades, Paired(t), NEW p \in Player, t[p] # NULL,
           NEW spell \in Spell \cup {NULL}
    PROVE  Mild(t, SetSpell(t, p, spell))
  <1> DEFINE d == [t[p] EXCEPT !.spell = spell]
  <1>1. t[p] \in TradeData
    BY DEF Trades
  <1>2. d \in TradeData /\ d.trader = t[p].trader
    BY <1>1 DEF TradeData
  <1>3. Mild(t, UnacceptBoth([t EXCEPT ![p] = d], p))
    BY <1>2, ChangedOfferMild
  <1> QED
    BY <1>3, SameMild DEF SetSpell

\* By TradeData::SetMoney nobody accepts.
LEMMA SetMoneyMild ==
    ASSUME NEW t \in Trades, Paired(t), NEW p \in Player, t[p] # NULL,
           NEW amount \in 0 .. MAX_MONEY_AMOUNT
    PROVE  Mild(t, SetMoney(t, p, amount))
  <1> DEFINE d == [t[p] EXCEPT !.money = amount]
  <1>1. t[p] \in TradeData
    BY DEF Trades
  <1>2. d \in TradeData /\ d.trader = t[p].trader
    BY <1>1 DEF TradeData
  <1>3. Mild(t, UnacceptBoth([t EXCEPT ![p] = d], p))
    BY <1>2, ChangedOfferMild
  <1> QED
    BY <1>3, SameMild DEF SetMoney

\* By TradeData::SetItem nobody accepts.
LEMMA SetItemMild ==
    ASSUME NEW t \in Trades, Paired(t), NEW p \in Player, t[p] # NULL,
           NEW slot \in TradeSlots, NEW item \in Item \cup {NULL}
    PROVE  Mild(t, SetItem(t, p, slot, item))
  <1> DEFINE d == [t[p] EXCEPT !.items[slot] = item]
             changed == UnacceptBoth([t EXCEPT ![p].items[slot] = item], p)
             q == t[p].trader
             target == IF slot = TRADE_SLOT_NONTRADED
                         THEN SetSpell(changed, q, NULL) ELSE changed
             last == SetSpell(target, p, NULL)
  <1>1. t[p] \in TradeData
    BY DEF Trades
  <1>2. d \in TradeData /\ d.trader = t[p].trader
    BY <1>1 DEF TradeData
  <1>3. Keeps(t, changed) /\ Mild(t, changed)
    BY <1>2, ChangedOffer, ChangedOfferMild
  <1>4. changed \in Trades /\ Paired(changed)
    BY <1>3, KeepsPaired
  <1>5. q \in Player /\ t[q] # NULL
    BY DEF Trades, TradeData, Paired
  <1>6. changed[p] # NULL /\ changed[q] # NULL
    BY <1>3, <1>5 DEF Keeps, SameTraders
  <1> HIDE DEF changed
  <1>7. Keeps(changed, SetSpell(changed, q, NULL)) /\ Mild(changed, SetSpell(changed, q, NULL))
    BY <1>4, <1>5, <1>6, SetSpellKeeps, SetSpellMild
  <1>8. Keeps(changed, changed) /\ Mild(changed, changed)
    BY <1>4, SameMild DEF Keeps, SameTraders
  <1>9. Keeps(changed, target) /\ Mild(changed, target)
    BY <1>7, <1>8
  <1>10. target \in Trades /\ Paired(target)
    BY <1>4, <1>9, KeepsPaired
  <1>11. target[p] # NULL
    BY <1>6, <1>9 DEF Keeps, SameTraders
  <1> HIDE DEF target
  <1>12. Mild(target, last)
    BY <1>10, <1>11, SetSpellMild
  <1>13. Mild(t, target) /\ SameTraders(t, target)
    BY <1>3, <1>9, MildTransitive, KeepsTransitive DEF Keeps
  <1>14. Mild(t, last)
    BY <1>12, <1>13, MildTransitive
  <1>15. SetItem(t, p, slot, item) = IF t[p].items[slot] = item THEN t ELSE last
    BY DEF SetItem, changed, target
  <1> QED
    BY <1>14, <1>15, SameMild

\* A change by which nobody accepts is honest.
LEMMA MildIsHonest == ASSUME NEW t, NEW u, Mild(t, u) PROVE Honest(t, u)
  BY DEF Mild, Honest

\* The end of a trade is no concern of the other players.
LEMMA DropHonest ==
    ASSUME IInv, NEW p \in Player, m_trade[p] # NULL
    PROVE  Honest(m_trade, DropTrade(p))
  <1> DEFINE q == m_trade[p].trader
  <1>1. q \in Player
    BY DEF IInv, ControlType, Trades, TradeData
  <1>2. \A a \in Player : DropTrade(p)[a] = IF a \in {p, q} THEN NULL ELSE m_trade[a]
    BY <1>1 DEF DropTrade, IInv, ControlType, Trades
  <1>3. \A a \in Player \ {p, q} : m_trade[a] # NULL => m_trade[a].trader \in Player \ {p, q}
    BY DEF IInv, ControlType, TradersPaired, Trades, TradeData
  <1> QED
    BY <1>2, <1>3 DEF Honest, Offers, Offer

\* To accept changes no offer.
LEMMA AcceptHonest ==
    ASSUME IInv, NEW p \in Player, m_trade[p] # NULL
    PROVE  /\ Honest(m_trade, Accept(p))
           /\ Keeps(m_trade, Accept(p))
  <1> DEFINE d == [m_trade[p] EXCEPT !.accepted = TRUE]
  <1>1. m_trade[p] \in TradeData /\ m_trade \in Trades
    BY DEF IInv, ControlType, Trades
  <1>2. /\ d \in TradeData /\ d.trader = m_trade[p].trader
        /\ d.money = m_trade[p].money /\ d.items = m_trade[p].items /\ d.spell = m_trade[p].spell
    BY <1>1 DEF TradeData
  <1>3. Accept(p) = [m_trade EXCEPT ![p] = d]
    BY DEF Accept
  <1>4. Keeps(m_trade, Accept(p))
    BY <1>1, <1>2, <1>3, OneChanged
  <1> HIDE DEF d
  <1>5. Accept(p)[p] = d /\ \A a \in Player \ {p} : Accept(p)[a] = m_trade[a]
    BY <1>1, <1>3 DEF Trades
  <1>6. \A a \in Player : Offer(Accept(p), a) = Offer(m_trade, a)
    BY <1>2, <1>5 DEF Offer
  <1>7. \A a \in Player : m_trade[a] # NULL => /\ m_trade[a].trader \in Player
                                               /\ Accept(p)[a].trader = m_trade[a].trader
    BY <1>1, <1>2, <1>5 DEF Trades, TradeData
  <1>8. Honest(m_trade, Accept(p))
    BY <1>6, <1>7 DEF Honest, Offers
  <1> QED
    BY <1>4, <1>8

\* The outcomes of CMSG_ACCEPT_TRADE keep the consent.
LEMMA AcceptKeepsConsent ==
    ASSUME IInv, Consent, NEW p \in Player, NEW q \in Player, HandleAcceptTradeOpcode(p, q)
    PROVE  Consent'
  <1>1. /\ m_trade[p] # NULL /\ m_trade[q] # NULL
        /\ m_trade \in Trades /\ Paired(m_trade)
    BY PairedOfTraders DEF HandleAcceptTradeOpcode, Trading, IInv, ControlType
  <1>2. Honest(m_trade, Accept(p)) /\ Keeps(m_trade, Accept(p))
    BY <1>1, AcceptHonest
  <1>3. /\ Accept(p) \in Trades /\ Paired(Accept(p))
        /\ Accept(p)[p] # NULL /\ Accept(p)[q] # NULL
        /\ SameTraders(m_trade, Accept(p))
    BY <1>1, <1>2, KeepsPaired DEF Keeps, SameTraders
  <1>4. CASE AcceptWithoutGold(p, q)
    <2> DEFINE u == Unaccept(Accept(p), WithoutGold(p, q))
    <2>1. WithoutGold(p, q) \in {p, q} /\ SetTrades(u)
      BY <1>4 DEF AcceptWithoutGold, WithoutGold
    <2>2. Mild(Accept(p), u)
      BY <1>3, <2>1, UnacceptMild
    <2>3. Honest(m_trade, u)
      BY <1>2, <1>3, <2>2, MildAfterHonest
    <2> QED
      BY <2>1, <2>3, HonestKeepsConsent
  <1>5. CASE AcceptAndWait(p, q)
    BY <1>2, <1>5, HonestKeepsConsent DEF AcceptAndWait
  <1>6. CASE AcceptSpellFails(p, q)
    <2>1. PICK caster \in {p, q} : SetTrades(SetSpell(Accept(p), caster, NULL))
      BY <1>6 DEF AcceptSpellFails
    <2>2. Mild(Accept(p), SetSpell(Accept(p), caster, NULL))
      BY <1>3, SetSpellMild
    <2>3. Honest(m_trade, SetSpell(Accept(p), caster, NULL))
      BY <1>2, <1>3, <2>2, MildAfterHonest
    <2> QED
      BY <2>1, <2>3, HonestKeepsConsent
  <1>7. CASE AcceptWithoutRoom(p, q)
    <2>1. SetTrades(UnacceptBoth(m_trade, p))
      BY <1>7 DEF AcceptWithoutRoom
    <2>2. Honest(m_trade, UnacceptBoth(m_trade, p))
      BY <1>1, UnacceptBothMild, MildIsHonest
    <2> QED
      BY <2>1, <2>2, HonestKeepsConsent
  <1>8. CASE AcceptExchange(p, q)
    <2>1. SetTrades(DropTrade(p))
      BY <1>8 DEF AcceptExchange
    <2> QED
      BY <1>1, <2>1, DropHonest, HonestKeepsConsent
  <1> QED
    BY <1>4, <1>5, <1>6, <1>7, <1>8 DEF HandleAcceptTradeOpcode

\* The packets that change an offer keep the consent.
LEMMA SettersKeepConsent ==
    ASSUME IInv, Consent, NEW p \in Player,
           \/ \E gold \in 0 .. MAX_MONEY_AMOUNT : HandleSetTradeGoldOpcode(p, gold)
           \/ \E slot \in TradeSlots, item \in Item : HandleSetTradeItemOpcode(p, slot, item)
           \/ \E slot \in TradeSlots : HandleClearTradeItemOpcode(p, slot)
           \/ \E spell \in Spell : CastOnTradeItem(p, spell)
           \/ HandleUnacceptTradeOpcode(p)
    PROVE  Consent'
  <1>1. m_trade \in Trades /\ Paired(m_trade)
    BY PairedOfTraders DEF IInv, ControlType
  <1>2. ASSUME NEW u, SetTrades(u), Mild(m_trade, u) PROVE Consent'
    BY <1>2, MildIsHonest, HonestKeepsConsent
  <1>3. ASSUME NEW gold \in 0 .. MAX_MONEY_AMOUNT, HandleSetTradeGoldOpcode(p, gold)
        PROVE  Consent'
    <2>1. m_trade[p] # NULL /\ SetTrades(SetMoney(m_trade, p, gold))
      BY <1>3 DEF HandleSetTradeGoldOpcode, Trading
    <2> QED
      BY <1>1, <1>2, <2>1, SetMoneyMild
  <1>4. ASSUME NEW slot \in TradeSlots, NEW item \in Item \cup {NULL}, m_trade[p] # NULL,
               SetTrades(SetItem(m_trade, p, slot, item))
        PROVE  Consent'
    BY <1>1, <1>2, <1>4, SetItemMild
  <1>5. ASSUME NEW slot \in TradeSlots, NEW item \in Item, HandleSetTradeItemOpcode(p, slot, item)
        PROVE  Consent'
    BY <1>4, <1>5 DEF HandleSetTradeItemOpcode, Trading
  <1>6. ASSUME NEW slot \in TradeSlots, HandleClearTradeItemOpcode(p, slot)
        PROVE  Consent'
    BY <1>4, <1>6 DEF HandleClearTradeItemOpcode, Trading
  <1>7. ASSUME NEW spell \in Spell, CastOnTradeItem(p, spell)
        PROVE  Consent'
    <2>1. m_trade[p] # NULL /\ SetTrades(SetSpell(m_trade, p, spell))
      BY <1>7 DEF CastOnTradeItem, Trading
    <2> QED
      BY <1>1, <1>2, <2>1, SetSpellMild
  <1>8. CASE HandleUnacceptTradeOpcode(p)
    <2>1. m_trade[p] # NULL /\ SetTrades(Unaccept(m_trade, p))
      BY <1>8 DEF HandleUnacceptTradeOpcode, Trading
    <2> QED
      BY <1>1, <1>2, <2>1, UnacceptMild
  <1> QED
    BY <1>3, <1>5, <1>6, <1>7, <1>8

\* Players who begin or end a trade, come or go keep the consent.
LEMMA TradersKeepConsent ==
    ASSUME IInv, Consent, NEW p \in Player,
           \/ \E q \in Player : HandleInitiateTradeOpcode(p, q)
           \/ TradeCancel(p)
           \/ LogoutPlayer(p)
           \/ LoadFromDB(p)
    PROVE  Consent'
  <1>1. ASSUME NEW q \in Player, HandleInitiateTradeOpcode(p, q) PROVE Consent'
    <2> DEFINE u == [m_trade EXCEPT ![p] = NewTradeData(q), ![q] = NewTradeData(p)]
    <2>1. SetTrades(u) /\ m_trade[p] = NULL /\ m_trade[q] = NULL
      BY <1>1 DEF HandleInitiateTradeOpcode, CanTradeWith
    <2>2. \A a \in Player \ {p, q} : u[a] = m_trade[a]
      BY DEF IInv, ControlType, Trades
    <2>3. \A a \in Player \ {p, q} : m_trade[a] # NULL => m_trade[a].trader \in Player \ {p, q}
      BY <2>1 DEF IInv, ControlType, TradersPaired, Trades, TradeData
    <2> HIDE DEF u
    <2>4. Honest(m_trade, u)
      BY <2>1, <2>2, <2>3 DEF Honest, Offers, Offer
    <2> QED
      BY <2>1, <2>4, HonestKeepsConsent
  <1>2. CASE TradeCancel(p)
    BY <1>2, DropHonest, HonestKeepsConsent DEF TradeCancel, Trading
  <1>3. CASE LogoutPlayer(p)
    <2>1. Honest(m_trade, m_trade)
      BY DEF Honest
    <2>2. CASE m_trade[p] = NULL
      BY <1>3, <2>1, <2>2, HonestKeepsConsent DEF LogoutPlayer
    <2>3. CASE m_trade[p] # NULL
      BY <1>3, <2>3, DropHonest, HonestKeepsConsent DEF LogoutPlayer
    <2> QED
      BY <2>2, <2>3
  <1>4. CASE LoadFromDB(p)
    BY <1>4 DEF LoadFromDB, Consent
  <1> QED
    BY <1>1, <1>2, <1>3, <1>4

\* Every step keeps the consent.
LEMMA NextConsent == IInv /\ Consent /\ [Next]_vars => Consent'
  <1> SUFFICES ASSUME IInv, Consent, [Next]_vars PROVE Consent'
    OBVIOUS
  <1>1. ASSUME UNCHANGED <<m_trade, agreed>> PROVE Consent'
    BY <1>1 DEF Consent
  <1>2. ASSUME \/ \E item \in Item : ItemLeaves(item) \/ SetBinding(item)
               \/ \E p \in Player : SaveToDB(p)
               \/ \E p \in Player, amount \in {-1, 1} : ModifyMoney(p, amount)
               \/ UNCHANGED vars
        PROVE  Consent'
    BY <1>1, <1>2 DEF ItemLeaves, SetBinding, SaveToDB, ModifyMoney, vars
  <1> QED
    BY <1>2, AcceptKeepsConsent, SettersKeepConsent, TradersKeepConsent DEF Next

-----------------------------------------------------------------------------
\* Something changes hands at the end of a trade only in AcceptExchange.
LEMMA OnlyExchange ==
    ASSUME IInv, [Next]_vars, NEW p \in Player, Exchanged(p)
    PROVE  \E x, y \in Player : /\ AcceptExchange(x, y)
                                /\ m_trade[x] # NULL /\ m_trade[y] # NULL
                                /\ y = m_trade[x].trader
                                /\ p \in {x, y}
  <1>1. ASSUME UNCHANGED m_trade PROVE FALSE
    BY <1>1 DEF Exchanged
  <1>2. ASSUME UNCHANGED <<where, money>> PROVE FALSE
    BY <1>2 DEF Exchanged
  <1>3. PICK x \in Player, y \in Player : HandleAcceptTradeOpcode(x, y)
    BY <1>1, <1>2 DEF Next, HandleInitiateTradeOpcode, HandleSetTradeGoldOpcode,
          HandleSetTradeItemOpcode, HandleClearTradeItemOpcode, CastOnTradeItem,
          HandleUnacceptTradeOpcode, TradeCancel, ModifyMoney, SaveToDB, LogoutPlayer,
          LoadFromDB, ItemLeaves, SetBinding, vars
  <1>4. AcceptExchange(x, y)
    BY <1>2, <1>3 DEF HandleAcceptTradeOpcode, AcceptWithoutGold, AcceptAndWait,
          AcceptSpellFails, AcceptWithoutRoom
  <1>5. m_trade[x] # NULL /\ m_trade[y] # NULL /\ y = m_trade[x].trader
    BY <1>3 DEF HandleAcceptTradeOpcode, Trading
  <1>6. m_trade' = [m_trade EXCEPT ![x] = NULL, ![y] = NULL]
    BY <1>4, <1>5 DEF AcceptExchange, SetTrades, DropTrade
  <1>7. p \in {x, y}
    BY <1>6 DEF Exchanged, IInv, ControlType, Trades
  <1> QED
    BY <1>4, <1>5, <1>7

\* The gold that moves is the gold of the two offers.
LEMMA ExchangedGold ==
    ASSUME IInv, NEW x \in Player, NEW y \in Player, AcceptExchange(x, y),
           m_trade[x] # NULL, m_trade[y] # NULL, y = m_trade[x].trader
    PROVE  /\ money'[x] = money[x] - m_trade[x].money + m_trade[y].money
           /\ money'[y] = money[y] - m_trade[y].money + m_trade[x].money
  <1>1. /\ m_trade[x].money \in 0 .. MAX_MONEY_AMOUNT
        /\ m_trade[y].money \in 0 .. MAX_MONEY_AMOUNT
        /\ money \in [Player -> 0 .. MAX_MONEY_AMOUNT]
        /\ MAX_MONEY_AMOUNT \in Nat
    BY TradeAssumption DEF IInv, ControlType, Trades, TradeData
  <1>2. x # y
    BY DEF IInv, TradersPaired
  <1>3. WithoutGold(x, y) = NULL /\ x # NULL /\ y # NULL
    BY TradeAssumption DEF AcceptExchange, SpellsCastable, BothAccept
  <1>4. /\ money[x] >= m_trade[x].money /\ money[y] >= m_trade[y].money
        /\ ~(money[x] >= MAX_MONEY_AMOUNT - m_trade[y].money)
        /\ ~(money[y] >= MAX_MONEY_AMOUNT - m_trade[x].money)
    BY <1>3 DEF WithoutGold, HasEnoughMoney
  <1>5. /\ money'[x] = More(Less(money[x], m_trade[x].money), m_trade[y].money)
        /\ money'[y] = More(Less(money[y], m_trade[y].money), m_trade[x].money)
    BY <1>1, <1>2 DEF AcceptExchange
  <1> QED
    BY <1>1, <1>4, <1>5 DEF More, Less

\* What p consents to is what is offered when the exchange happens.
LEMMA TermsAreOffers ==
    ASSUME Consent, NEW p \in Player
    PROVE  Terms(p) = Offers(m_trade, p)
  BY DEF Consent, Terms, Offers

\* Both players consent to the same terms, and the gold is that of the terms.
LEMMA StepAgreed ==
    ASSUME IInv, Consent, [Next]_vars, NEW p \in Player, Exchanged(p)
    PROVE  LET q == m_trade[p].trader
           IN  /\ Terms(p).mine = Terms(q).his
               /\ money'[p] = money[p] - Terms(q).his.money + Terms(p).his.money
  <1> DEFINE q == m_trade[p].trader
  <1>1. PICK x \in Player, y \in Player :
               /\ AcceptExchange(x, y)
               /\ m_trade[x] # NULL /\ m_trade[y] # NULL
               /\ y = m_trade[x].trader
               /\ p \in {x, y}
    BY OnlyExchange
  <1>2. q \in Player /\ m_trade[q].trader = p /\ {x, y} = {p, q}
    BY <1>1 DEF IInv, TradersPaired
  <1>3. money'[p] = money[p] - m_trade[p].money + m_trade[q].money
    BY <1>1, <1>2, ExchangedGold
  <1>4. Terms(p) = Offers(m_trade, p) /\ Terms(q) = Offers(m_trade, q)
    BY <1>2, TermsAreOffers
  <1>5. /\ Terms(p).mine = Offer(m_trade, p) /\ Terms(p).his = Offer(m_trade, q)
        /\ Terms(q).his = Offer(m_trade, p)
    BY <1>2, <1>4 DEF Offers
  <1>6. Terms(q).his.money = m_trade[p].money /\ Terms(p).his.money = m_trade[q].money
    BY <1>5 DEF Offer
  <1> QED
    BY <1>3, <1>5, <1>6

\* An exchange executes the terms that both players accepted, and moves
\* exactly their gold: HandleAcceptTradeOpcode and the setters of TradeData.
THEOREM ExchangesAgreed == Spec => AgreedExchange
  <1>1. Init => Consent
    BY DEF Init, Consent
  <1>2. IInv /\ Consent /\ [Next]_vars =>
          [\A p \in Player : Exchanged(p) =>
             LET q == m_trade[p].trader
             IN  /\ Terms(p).mine = Terms(q).his
                 /\ money'[p] = money[p] - Terms(q).his.money + Terms(p).his.money]_vars
    BY StepAgreed
  <1>3. Init => IInv
    BY InitIInv
  <1> QED
    BY <1>1, <1>2, <1>3, NextIInv, NextConsent, PTL DEF Spec, AgreedExchange
-----------------------------------------------------------------------------
(* An item is in one slot of an offer at most.                             *)

\* TradeData::HasItem: no item is offered twice by a player.
Single(t) ==
    \A p \in Player : t[p] # NULL =>
        \A r, s \in TradeSlots :
            t[p].items[r] = t[p].items[s] /\ t[p].items[r] # NULL => r = s

\* Whoever trades in u offers the items that he offers in t.
SameItems(t, u) ==
    \A p \in Player : u[p] # NULL => t[p] # NULL /\ u[p].items = t[p].items

\* Two changes that leave the items alone make one.
LEMMA SameItemsTransitive ==
    ASSUME NEW t, NEW u, NEW v, SameItems(t, u), SameItems(u, v)
    PROVE  SameItems(t, v)
  BY DEF SameItems

\* What is offered once stays offered once when no item changes.
LEMMA SameItemsSingle ==
    ASSUME NEW t, NEW u, SameItems(t, u), Single(t)
    PROVE  Single(u)
  BY DEF SameItems, Single

\* A changed TradeData with the items of the old one.
LEMMA OneChangedItems ==
    ASSUME NEW t \in Trades, NEW p \in Player, t[p] # NULL, NEW d, d.items = t[p].items
    PROVE  SameItems(t, [t EXCEPT ![p] = d])
  BY DEF SameItems, Trades

\* SetAccepted(false) of one player.
LEMMA UnacceptItems ==
    ASSUME NEW t \in Trades, NEW p \in Player, t[p] # NULL
    PROVE  SameItems(t, Unaccept(t, p))
  <1> DEFINE d == [t[p] EXCEPT !.accepted = FALSE]
  <1>1. t[p] \in TradeData
    BY DEF Trades
  <1>2. d.items = t[p].items
    BY <1>1 DEF TradeData
  <1> QED
    BY <1>2, OneChangedItems DEF Unaccept

\* SetAccepted(false) of both sides.
LEMMA UnacceptBothItems ==
    ASSUME NEW t \in Trades, Paired(t), NEW p \in Player, t[p] # NULL
    PROVE  SameItems(t, UnacceptBoth(t, p))
  <1> DEFINE u == Unaccept(t, p)
             q == t[p].trader
  <1>1. q \in Player /\ t[q] # NULL
    BY DEF Trades, TradeData, Paired
  <1>2. u \in Trades /\ u[q] # NULL
    BY <1>1, UnacceptKeeps DEF Keeps, SameTraders
  <1>3. SameItems(t, u) /\ SameItems(u, Unaccept(u, q))
    BY <1>1, <1>2, UnacceptItems
  <1> QED
    BY <1>3, SameItemsTransitive DEF UnacceptBoth

\* A change of one TradeData after which both sides have to accept again.
LEMMA ChangedOfferItems ==
    ASSUME NEW t \in Trades, Paired(t), NEW p \in Player, t[p] # NULL,
           NEW d \in TradeData, d.trader = t[p].trader
    PROVE  SameItems([t EXCEPT ![p] = d], UnacceptBoth([t EXCEPT ![p] = d], p))
  <1> DEFINE u == [t EXCEPT ![p] = d]
  <1>1. Keeps(t, u)
    BY OneChanged
  <1>2. u \in Trades /\ Paired(u) /\ u[p] # NULL
    BY <1>1, KeepsPaired DEF Keeps, SameTraders
  <1> QED
    BY <1>2, UnacceptBothItems

\* TradeData::SetSpell changes no item.
LEMMA SetSpellItems ==
    ASSUME NEW t \in Trades, Paired(t), NEW p \in Player, t[p] # NULL,
           NEW spell \in Spell \cup {NULL}
    PROVE  SameItems(t, SetSpell(t, p, spell))
  <1> DEFINE d == [t[p] EXCEPT !.spell = spell]
  <1>1. t[p] \in TradeData
    BY DEF Trades
  <1>2. d \in TradeData /\ d.trader = t[p].trader /\ d.items = t[p].items
    BY <1>1 DEF TradeData
  <1>3. SameItems(t, [t EXCEPT ![p] = d])
    BY <1>2, OneChangedItems
  <1>4. SameItems(t, UnacceptBoth([t EXCEPT ![p] = d], p))
    BY <1>2, <1>3, ChangedOfferItems, SameItemsTransitive
  <1>5. SameItems(t, t)
    BY DEF SameItems
  <1> QED
    BY <1>4, <1>5 DEF SetSpell

\* TradeData::SetMoney changes no item.
LEMMA SetMoneyItems ==
    ASSUME NEW t \in Trades, Paired(t), NEW p \in Player, t[p] # NULL,
           NEW amount \in 0 .. MAX_MONEY_AMOUNT
    PROVE  SameItems(t, SetMoney(t, p, amount))
  <1> DEFINE d == [t[p] EXCEPT !.money = amount]
  <1>1. t[p] \in TradeData
    BY DEF Trades
  <1>2. d \in TradeData /\ d.trader = t[p].trader /\ d.items = t[p].items
    BY <1>1 DEF TradeData
  <1>3. SameItems(t, [t EXCEPT ![p] = d])
    BY <1>2, OneChangedItems
  <1>4. SameItems(t, UnacceptBoth([t EXCEPT ![p] = d], p))
    BY <1>2, <1>3, ChangedOfferItems, SameItemsTransitive
  <1>5. SameItems(t, t)
    BY DEF SameItems
  <1> QED
    BY <1>4, <1>5 DEF SetMoney

\* TradeData::SetItem offers an item that was not offered, or takes one back.
LEMMA SetItemSingle ==
    ASSUME NEW t \in Trades, Paired(t), Single(t), NEW p \in Player, t[p] # NULL,
           NEW slot \in TradeSlots, NEW item \in Item \cup {NULL},
           item # NULL => \A s \in TradeSlots : t[p].items[s] # item
    PROVE  Single(SetItem(t, p, slot, item))
  <1> DEFINE d == [t[p] EXCEPT !.items[slot] = item]
             v == [t EXCEPT ![p] = d]
             changed == UnacceptBoth([t EXCEPT ![p].items[slot] = item], p)
             q == t[p].trader
             target == IF slot = TRADE_SLOT_NONTRADED
                         THEN SetSpell(changed, q, NULL) ELSE changed
             last == SetSpell(target, p, NULL)
  <1>1. t[p] \in TradeData
    BY DEF Trades
  <1>2. d \in TradeData /\ d.trader = t[p].trader
    BY <1>1 DEF TradeData
  <1>3. /\ t[p].items \in [TradeSlots -> Item \cup {NULL}]
        /\ d.items = [t[p].items EXCEPT ![slot] = item]
    BY <1>1 DEF TradeData
  <1>4. \A r, s \in TradeSlots : d.items[r] = d.items[s] /\ d.items[r] # NULL => r = s
    BY <1>3 DEF Single
  <1> HIDE DEF d
  <1>5. Single(v)
    <2>1. v[p] = d /\ \A a \in Player \ {p} : v[a] = t[a]
      BY DEF Trades
    <2> HIDE DEF v
    <2>2. \A a \in Player \ {p} : v[a] # NULL =>
            \A r, s \in TradeSlots :
              v[a].items[r] = v[a].items[s] /\ v[a].items[r] # NULL => r = s
      BY <2>1 DEF Single
    <2> QED
      BY <1>4, <2>1, <2>2 DEF Single
  <1>6. changed = UnacceptBoth(v, p)
    BY DEF d
  <1>7. Keeps(t, changed) /\ SameItems(v, changed)
    BY <1>2, <1>6, ChangedOffer, ChangedOfferItems
  <1>8. changed \in Trades /\ Paired(changed)
    BY <1>7, KeepsPaired
  <1>9. q \in Player /\ t[q] # NULL
    BY DEF Trades, TradeData, Paired
  <1>10. changed[p] # NULL /\ changed[q] # NULL
    BY <1>7, <1>9 DEF Keeps, SameTraders
  <1> HIDE DEF changed, v
  <1>11. /\ Keeps(changed, SetSpell(changed, q, NULL))
         /\ SameItems(changed, SetSpell(changed, q, NULL))
    BY <1>8, <1>9, <1>10, SetSpellKeeps, SetSpellItems
  <1>12. Keeps(changed, target) /\ SameItems(changed, target)
    BY <1>8, <1>11 DEF Keeps, SameTraders, SameItems
  <1>13. target \in Trades /\ Paired(target)
    BY <1>8, <1>12, KeepsPaired
  <1>14. target[p] # NULL
    BY <1>10, <1>12 DEF Keeps, SameTraders
  <1> HIDE DEF target
  <1>15. SameItems(target, last)
    BY <1>13, <1>14, SetSpellItems
  <1>16. Single(last)
    BY <1>5, <1>7, <1>12, <1>15, SameItemsSingle
  <1>17. SetItem(t, p, slot, item) = IF t[p].items[slot] = item THEN t ELSE last
    BY DEF SetItem, changed, target
  <1> QED
    BY <1>16, <1>17

\* The end of a trade leaves the other offers alone.
LEMMA DropItems ==
    ASSUME IInv, NEW p \in Player, m_trade[p] # NULL
    PROVE  SameItems(m_trade, DropTrade(p))
  <1>1. m_trade[p].trader \in Player
    BY DEF IInv, ControlType, Trades, TradeData
  <1>2. \A a \in Player : DropTrade(p)[a] =
           IF a \in {p, m_trade[p].trader} THEN NULL ELSE m_trade[a]
    BY <1>1 DEF DropTrade, IInv, ControlType, Trades
  <1> QED
    BY <1>2 DEF SameItems

\* The outcomes of CMSG_ACCEPT_TRADE change no item of an offer.
LEMMA AcceptItems ==
    ASSUME IInv, NEW p \in Player, NEW q \in Player, HandleAcceptTradeOpcode(p, q)
    PROVE  SameItems(m_trade, m_trade')
  <1>1. /\ m_trade[p] # NULL /\ m_trade[q] # NULL
        /\ m_trade \in Trades /\ Paired(m_trade)
    BY PairedOfTraders DEF HandleAcceptTradeOpcode, Trading, IInv, ControlType
  <1>2. Keeps(m_trade, Accept(p)) /\ SameItems(m_trade, Accept(p))
    <2> DEFINE d == [m_trade[p] EXCEPT !.accepted = TRUE]
    <2>1. m_trade[p] \in TradeData
      BY <1>1 DEF Trades
    <2>2. d.items = m_trade[p].items
      BY <2>1 DEF TradeData
    <2>3. SameItems(m_trade, [m_trade EXCEPT ![p] = d])
      BY <1>1, <2>2, OneChangedItems
    <2> QED
      BY <1>1, <2>3, AcceptHonest DEF Accept
  <1>3. /\ Accept(p) \in Trades /\ Paired(Accept(p))
        /\ Accept(p)[p] # NULL /\ Accept(p)[q] # NULL
    BY <1>1, <1>2, KeepsPaired DEF Keeps, SameTraders
  <1>4. CASE AcceptWithoutGold(p, q)
    <2>1. WithoutGold(p, q) \in {p, q} /\ m_trade' = Unaccept(Accept(p), WithoutGold(p, q))
      BY <1>4 DEF AcceptWithoutGold, WithoutGold, SetTrades
    <2>2. SameItems(Accept(p), m_trade')
      BY <1>3, <2>1, UnacceptItems
    <2> QED
      BY <1>2, <2>2, SameItemsTransitive
  <1>5. CASE AcceptAndWait(p, q)
    BY <1>2, <1>5 DEF AcceptAndWait, SetTrades
  <1>6. CASE AcceptSpellFails(p, q)
    <2>1. PICK caster \in {p, q} : m_trade' = SetSpell(Accept(p), caster, NULL)
      BY <1>6 DEF AcceptSpellFails, SetTrades
    <2>2. SameItems(Accept(p), m_trade')
      BY <1>3, <2>1, SetSpellItems
    <2> QED
      BY <1>2, <2>2, SameItemsTransitive
  <1>7. CASE AcceptWithoutRoom(p, q)
    BY <1>1, <1>7, UnacceptBothItems DEF AcceptWithoutRoom, SetTrades
  <1>8. CASE AcceptExchange(p, q)
    BY <1>1, <1>8, DropItems DEF AcceptExchange, SetTrades
  <1> QED
    BY <1>4, <1>5, <1>6, <1>7, <1>8 DEF HandleAcceptTradeOpcode

\* Every step offers an item once.
LEMMA NextSingle ==
    ASSUME IInv, Single(m_trade), [Next]_vars
    PROVE  Single(m_trade')
  <1>1. m_trade \in Trades /\ Paired(m_trade)
    BY PairedOfTraders DEF IInv, ControlType
  <1>2. ASSUME SameItems(m_trade, m_trade') PROVE Single(m_trade')
    BY <1>2, SameItemsSingle
  <1>3. SameItems(m_trade, m_trade)
    BY DEF SameItems
  <1>4. ASSUME NEW p \in Player, NEW q \in Player, HandleInitiateTradeOpcode(p, q)
        PROVE  Single(m_trade')
    <2>1. /\ m_trade' = [m_trade EXCEPT ![p] = NewTradeData(q), ![q] = NewTradeData(p)]
      BY <1>4 DEF HandleInitiateTradeOpcode, SetTrades
    <2>2. \A a \in Player : \/ m_trade'[a] = m_trade[a]
                            \/ m_trade'[a] \in {NewTradeData(p), NewTradeData(q)}
      BY <1>1, <2>1 DEF Trades
    <2>3. \A r \in Player, s \in TradeSlots : NewTradeData(r).items[s] = NULL
      BY DEF NewTradeData
    <2> QED
      BY <2>2, <2>3 DEF Single
  <1>5. ASSUME NEW p \in Player, NEW q \in Player, HandleAcceptTradeOpcode(p, q)
        PROVE  Single(m_trade')
    BY <1>2, <1>5, AcceptItems
  <1>6. ASSUME NEW p \in Player, NEW gold \in 0 .. MAX_MONEY_AMOUNT,
               HandleSetTradeGoldOpcode(p, gold)
        PROVE  Single(m_trade')
    BY <1>1, <1>2, <1>6, SetMoneyItems DEF HandleSetTradeGoldOpcode, Trading, SetTrades
  <1>7. ASSUME NEW p \in Player, NEW slot \in TradeSlots, NEW item \in Item,
               HandleSetTradeItemOpcode(p, slot, item)
        PROVE  Single(m_trade')
    <2>1. /\ m_trade[p] # NULL /\ m_trade' = SetItem(m_trade, p, slot, item)
          /\ \A s \in TradeSlots : m_trade[p].items[s] # item
      BY <1>7 DEF HandleSetTradeItemOpcode, Trading, SetTrades, HasItem
    <2> QED
      BY <1>1, <2>1, SetItemSingle
  <1>8. ASSUME NEW p \in Player, NEW slot \in TradeSlots, HandleClearTradeItemOpcode(p, slot)
        PROVE  Single(m_trade')
    BY <1>1, <1>8, SetItemSingle DEF HandleClearTradeItemOpcode, Trading, SetTrades
  <1>9. ASSUME NEW p \in Player, NEW spell \in Spell, CastOnTradeItem(p, spell)
        PROVE  Single(m_trade')
    BY <1>1, <1>2, <1>9, SetSpellItems DEF CastOnTradeItem, Trading, SetTrades
  <1>10. ASSUME NEW p \in Player, HandleUnacceptTradeOpcode(p) PROVE Single(m_trade')
    BY <1>1, <1>2, <1>10, UnacceptItems DEF HandleUnacceptTradeOpcode, Trading, SetTrades
  <1>11. ASSUME NEW p \in Player, TradeCancel(p) \/ LogoutPlayer(p) PROVE Single(m_trade')
    BY <1>2, <1>3, <1>11, DropItems DEF TradeCancel, Trading, LogoutPlayer, SetTrades
  <1>12. ASSUME UNCHANGED m_trade PROVE Single(m_trade')
    BY <1>2, <1>3, <1>12
  <1>13. ASSUME \/ \E item \in Item : ItemLeaves(item) \/ SetBinding(item)
                \/ \E p \in Player : SaveToDB(p) \/ LoadFromDB(p)
                \/ \E p \in Player, amount \in {-1, 1} : ModifyMoney(p, amount)
                \/ UNCHANGED vars
         PROVE  Single(m_trade')
    BY <1>12, <1>13 DEF ItemLeaves, SetBinding, SaveToDB, LoadFromDB, ModifyMoney, vars
  <1> QED
    BY <1>4, <1>5, <1>6, <1>7, <1>8, <1>9, <1>10, <1>11, <1>13 DEF Next
-----------------------------------------------------------------------------
(* What moveItems does with the items of the slots.                        *)

\* A set of numbers that is not empty has a least one.
LEMMA Least == ASSUME NEW T \in SUBSET Nat, T # {} PROVE \E m \in T : \A n \in T : m <= n
  <1> DEFINE R == OpToRel(<, Nat)
  <1>1. IsWellFoundedOn(R, Nat)
    BY NatLessThanWellFounded
  <1>2. \A x, y \in Nat : x < y => <<x, y>> \in R
    BY DEF OpToRel
  <1> HIDE DEF R
  <1>3. \E x \in T : \A y \in T : ~ (<<y, x>> \in R)
    BY <1>1, WFMin
  <1>4. PICK x \in T : \A y \in T : ~ (<<y, x>> \in R)
    BY <1>3
  <1>5. ASSUME NEW y \in T PROVE x <= y
    <2>1. x \in Nat /\ y \in Nat
      OBVIOUS
    <2>2. ~ (y < x)
      BY <1>2, <1>4, <2>1
    <2> QED
      BY <2>1, <2>2
  <1> QED
    BY <1>4, <1>5

\* Induction over the slots: a set of numbers that has 0 and every successor.
LEMMA SlotInduction ==
    ASSUME NEW N \in Nat, NEW T, 0 \in T,
           \A i \in 0 .. N - 1 : i \in T => i + 1 \in T
    PROVE  \A i \in 0 .. N : i \in T
  <1> SUFFICES ASSUME NEW k \in 0 .. N, k \notin T PROVE FALSE
    OBVIOUS
  <1> DEFINE Bad == {i \in 0 .. N : i \notin T}
  <1>1. Bad \in SUBSET Nat /\ Bad # {}
    OBVIOUS
  <1>2. \A n : n \in Bad <=> n \in 0 .. N /\ n \notin T
    OBVIOUS
  <1> HIDE DEF Bad
  <1>3. PICK m \in Bad : \A n \in Bad : m <= n
    BY <1>1, Least
  <1>4. m \in 0 .. N /\ m \notin T /\ m # 0
    BY <1>2, <1>3
  <1>5. m - 1 \in 0 .. N - 1 /\ m - 1 \notin Bad
    BY <1>3, <1>4
  <1> QED
    BY <1>2, <1>4, <1>5

\* f says where the items are after each of the first n slots.
MovesUpto(p, q, n, f) ==
    f = [i \in 0 .. n |->
           IF i = 0 THEN Removed(TradedItems(p) \cup TradedItems(q))
           ELSE MoveSlot(f[i - 1], p, GetItem(p, i - 1), q, GetItem(q, i - 1))]

\* The next slot.
LEMMA MovesNext ==
    ASSUME NEW p, NEW q, NEW N \in Nat, NEW f, MovesUpto(p, q, N, f), NEW n \in 0 .. N - 1
    PROVE  f[n + 1] = MoveSlot(f[n], p, GetItem(p, n), q, GetItem(q, n))
  <1>1. n + 1 \in 0 .. N /\ n + 1 # 0
    OBVIOUS
  <1>2. ASSUME NEW m \in 0 .. N, m # 0
        PROVE  f[m] = MoveSlot(f[m - 1], p, GetItem(p, m - 1), q, GetItem(q, m - 1))
    BY <1>2 DEF MovesUpto
  <1>3. \A m : m = n + 1 => m - 1 = n
    OBVIOUS
  <1> QED
    BY <1>1, <1>2, <1>3

\* The loop of moveItems can go through any number of slots.
LEMMA MovesExist ==
    ASSUME NEW p, NEW q, NEW N \in Nat
    PROVE  \E f : MovesUpto(p, q, N, f)
  <1> DEFINE T == {n \in Nat : \E f : MovesUpto(p, q, n, f)}
  <1>1. \A n : n \in T <=> n \in Nat /\ \E f : MovesUpto(p, q, n, f)
    OBVIOUS
  <1> HIDE DEF T
  <1>2. 0 \in T
    <2> DEFINE h == [i \in 0 .. 0 |-> Removed(TradedItems(p) \cup TradedItems(q))]
    <2>1. MovesUpto(p, q, 0, h)
      BY DEF MovesUpto
    <2> QED
      BY <1>1, <2>1
  <1>3. ASSUME NEW n \in 0 .. N - 1, n \in T PROVE n + 1 \in T
    <2>1. PICK g : MovesUpto(p, q, n, g)
      BY <1>1, <1>3
    <2> DEFINE h == [i \in 0 .. n + 1 |->
                       IF i = n + 1 THEN MoveSlot(g[n], p, GetItem(p, n), q, GetItem(q, n))
                       ELSE g[i]]
    <2>2. ASSUME NEW i \in 0 .. n + 1
          PROVE  h[i] = IF i = 0 THEN Removed(TradedItems(p) \cup TradedItems(q))
                        ELSE MoveSlot(h[i - 1], p, GetItem(p, i - 1), q, GetItem(q, i - 1))
      <3>1. CASE i = n + 1
        <4>1. i - 1 = n /\ i # 0 /\ i - 1 \in 0 .. n + 1
          BY <3>1
        <4> QED
          BY <3>1, <4>1
      <3>2. CASE i # n + 1
        <4>1. i \in 0 .. n /\ (i # 0 => i - 1 \in 0 .. n /\ i - 1 \in 0 .. n + 1 /\ i - 1 # n + 1)
          BY <3>2
        <4> QED
          BY <2>1, <3>2, <4>1 DEF MovesUpto
      <3> QED
        BY <3>1, <3>2
    <2>3. h = [i \in 0 .. n + 1 |-> h[i]]
      OBVIOUS
    <2> HIDE DEF h
    <2>4. MovesUpto(p, q, n + 1, h)
      BY <2>2, <2>3 DEF MovesUpto
    <2> QED
      BY <1>1, <2>4
  <1> QED
    BY <1>1, <1>2, <1>3, SlotInduction

\* moveItems is what is left after the last slot.
LEMMA MovesDefined ==
    ASSUME NEW p, NEW q
    PROVE  \E f : /\ MovesUpto(p, q, TRADE_SLOT_TRADED_COUNT, f)
                  /\ moveItems(p, q) = f[TRADE_SLOT_TRADED_COUNT]
  <1> DEFINE N == TRADE_SLOT_TRADED_COUNT
             upto[n \in 0 .. N] ==
               IF n = 0 THEN Removed(TradedItems(p) \cup TradedItems(q))
               ELSE MoveSlot(upto[n - 1], p, GetItem(p, n - 1), q, GetItem(q, n - 1))
  <1>1. N \in Nat
    BY TradeAssumption
  <1>2. PICK g : MovesUpto(p, q, N, g)
    BY <1>1, MovesExist
  <1>3. moveItems(p, q) = upto[N]
    BY DEF moveItems
  <1>4. upto = [n \in 0 .. N |->
          IF n = 0 THEN Removed(TradedItems(p) \cup TradedItems(q))
          ELSE MoveSlot(upto[n - 1], p, GetItem(p, n - 1), q, GetItem(q, n - 1))]
    BY <1>2 DEF MovesUpto
  <1> HIDE DEF upto
  <1>5. MovesUpto(p, q, N, upto)
    BY <1>4 DEF MovesUpto
  <1> QED
    BY <1>3, <1>5

\* The types of the places.
Place == Player \cup {NULL}
Places == where \in [Item -> Place]

\* One slot leaves every item in a place.
LEMMA SlotPlaces ==
    ASSUME NEW w \in [Item -> Place], NEW p \in Player, NEW q \in Player,
           NEW mine \in Item \cup {NULL}, NEW his \in Item \cup {NULL}
    PROVE  MoveSlot(w, p, mine, q, his) \in [Item -> Place]
  <1>1. ASSUME NEW v \in [Item -> Place], NEW item \in Item \cup {NULL}, NEW r \in Player
        PROVE  Put(v, item, r) \in [Item -> Place] /\ PutIfRoom(v, item, r) \in [Item -> Place]
    BY DEF Put, PutIfRoom, Place
  <1> QED
    BY <1>1 DEF MoveSlot

\* One slot moves its two items at most.
LEMMA SlotMoves ==
    ASSUME NEW w \in [Item -> Place], NEW p \in Player, NEW q \in Player,
           NEW mine \in Item \cup {NULL}, NEW his \in Item \cup {NULL}
    PROVE  \A i \in Item \ {mine, his} : MoveSlot(w, p, mine, q, his)[i] = w[i]
  BY DEF MoveSlot, Put, PutIfRoom, Place

\* What GetItem finds in the slots.
LEMMA GetItemIs ==
    ASSUME IInv, NEW p \in Player, m_trade[p] # NULL, NEW s \in TradedSlots
    PROVE  /\ GetItem(p, s) \in Item \cup {NULL}
           /\ GetItem(p, s) # NULL => /\ GetItem(p, s) \in TradedItems(p)
                                      /\ where[GetItem(p, s)] = p
                                      /\ m_trade[p].items[s] = GetItem(p, s)
  <1>1. s \in TradeSlots
    BY TradeAssumption DEF TradedSlots, TradeSlots, TRADE_SLOT_NONTRADED
  <1>2. m_trade[p].items[s] \in Item \cup {NULL}
    BY <1>1 DEF IInv, ControlType, Trades, TradeData
  <1> QED
    BY <1>2 DEF GetItem, TradedItems

\* The items that change hands are in the inventory and on offer.
LEMMA TradedAre ==
    ASSUME IInv, NEW p \in Player, m_trade[p] # NULL, NEW i \in TradedItems(p)
    PROVE  /\ i \in Item /\ where[i] = p
           /\ \E s \in TradedSlots : i = m_trade[p].items[s]
  <1>1. PICK s \in TradedSlots : i = GetItem(p, s) /\ i # NULL
    BY DEF TradedItems
  <1> QED
    BY <1>1, GetItemIs

\* In w only items on offer are elsewhere.
Untouched(p, q, w) ==
    /\ w \in [Item -> Place]
    /\ \A i \in Item \ (TradedItems(p) \cup TradedItems(q)) : w[i] = where[i]

\* A slot touches no other item.
LEMMA SlotUntouched ==
    ASSUME NEW p \in Player, NEW q \in Player, NEW w, Untouched(p, q, w),
           NEW mine \in Item \cup {NULL}, mine \in TradedItems(p) \cup {NULL},
           NEW his \in Item \cup {NULL}, his \in TradedItems(q) \cup {NULL}
    PROVE  Untouched(p, q, MoveSlot(w, p, mine, q, his))
  <1>1. w \in [Item -> Place] /\ NULL \notin Item
    BY TradeAssumption DEF Untouched
  <1>2. MoveSlot(w, p, mine, q, his) \in [Item -> Place]
    BY <1>1, SlotPlaces
  <1>3. \A i \in Item \ {mine, his} : MoveSlot(w, p, mine, q, his)[i] = w[i]
    BY <1>1, SlotMoves
  <1> QED
    BY <1>1, <1>2, <1>3 DEF Untouched

\* Nothing but the items on offer moves.
LEMMA OthersStay ==
    ASSUME IInv, Places, NEW p \in Player, NEW q \in Player, m_trade[p] # NULL, m_trade[q] # NULL
    PROVE  Untouched(p, q, moveItems(p, q))
  <1> DEFINE N == TRADE_SLOT_TRADED_COUNT
  <1>1. N \in Nat /\ TradedSlots = 0 .. N - 1
    BY TradeAssumption DEF TradedSlots
  <1>2. PICK f : MovesUpto(p, q, N, f) /\ moveItems(p, q) = f[N]
    BY MovesDefined
  <1> DEFINE T == {n \in 0 .. N : Untouched(p, q, f[n])}
  <1>3. \A n : n \in T <=> n \in 0 .. N /\ Untouched(p, q, f[n])
    OBVIOUS
  <1> HIDE DEF T
  <1>4. 0 \in T
    <2>1. f[0] = Removed(TradedItems(p) \cup TradedItems(q))
      BY <1>1, <1>2 DEF MovesUpto
    <2>2. Untouched(p, q, Removed(TradedItems(p) \cup TradedItems(q)))
      BY DEF Untouched, Removed, Places, Place
    <2> QED
      BY <1>1, <1>3, <2>1, <2>2
  <1>5. ASSUME NEW n \in 0 .. N - 1, n \in T PROVE n + 1 \in T
    <2>1. n + 1 \in 0 .. N
      BY <1>1
    <2>2. f[n + 1] = MoveSlot(f[n], p, GetItem(p, n), q, GetItem(q, n))
      BY <1>1, <1>2, MovesNext
    <2>3. Untouched(p, q, f[n])
      BY <1>3, <1>5
    <2>4. /\ GetItem(p, n) \in TradedItems(p) \cup {NULL} /\ GetItem(p, n) \in Item \cup {NULL}
          /\ GetItem(q, n) \in TradedItems(q) \cup {NULL} /\ GetItem(q, n) \in Item \cup {NULL}
      BY <1>1, GetItemIs
    <2>5. Untouched(p, q, f[n + 1])
      BY <2>2, <2>3, <2>4, SlotUntouched
    <2> QED
      BY <1>3, <2>1, <2>5
  <1>6. N \in T
    BY <1>1, <1>4, <1>5, SlotInduction
  <1> QED
    BY <1>2, <1>3, <1>6
\* A set with an element outside of it is smaller than a set that has both.
LEMMA OneMore ==
    ASSUME NEW S, NEW e, NEW T, IsFiniteSet(T), S \cup {e} \subseteq T, e \notin S
    PROVE  Cardinality(S) + 1 <= Cardinality(T)
  <1>1. IsFiniteSet(S) /\ IsFiniteSet(S \cup {e}) /\ Cardinality(S \cup {e}) <= Cardinality(T)
    BY FS_Subset
  <1>2. Cardinality(S \cup {e}) = Cardinality(S) + 1
    BY <1>1, FS_AddElement
  <1> QED
    BY <1>1, <1>2

\* The items of the first n slots.
Given(p, n) == {GetItem(p, s) : s \in 0 .. n - 1} \ {NULL}

\* The next slot.
LEMMA GivenNext ==
    ASSUME NEW p, NEW n \in Nat
    PROVE  Given(p, n + 1) = Given(p, n) \cup ({GetItem(p, n)} \ {NULL})
  <1>1. 0 .. n + 1 - 1 = (0 .. n - 1) \cup {n}
    OBVIOUS
  <1>2. {GetItem(p, s) : s \in (0 .. n - 1) \cup {n}} =
          {GetItem(p, s) : s \in 0 .. n - 1} \cup {GetItem(p, n)}
    OBVIOUS
  <1>3. {GetItem(p, s) : s \in 0 .. n + 1 - 1} =
          {GetItem(p, s) : s \in 0 .. n - 1} \cup {GetItem(p, n)}
    BY <1>1, <1>2
  <1> QED
    BY <1>3 DEF Given

\* The items of the first slots are among those that change hands.
LEMMA GivenAre ==
    ASSUME NEW p, NEW n \in 0 .. TRADE_SLOT_TRADED_COUNT
    PROVE  /\ Given(p, n) \subseteq TradedItems(p)
           /\ Given(p, 0) = {} /\ Given(p, TRADE_SLOT_TRADED_COUNT) = TradedItems(p)
  <1>1. TRADE_SLOT_TRADED_COUNT \in Nat
    BY TradeAssumption
  <1>2. 0 .. n - 1 \subseteq TradedSlots /\ 0 .. 0 - 1 = {}
    BY <1>1 DEF TradedSlots
  <1> QED
    BY <1>2 DEF Given, TradedItems, TradedSlots

\* No item is given twice.
LEMMA GivenOnce ==
    ASSUME IInv, Single(m_trade), NEW p \in Player, m_trade[p] # NULL,
           NEW n \in TradedSlots, GetItem(p, n) # NULL
    PROVE  GetItem(p, n) \notin Given(p, n)
  <1> SUFFICES ASSUME NEW s \in 0 .. n - 1, GetItem(p, s) = GetItem(p, n) PROVE FALSE
    BY DEF Given
  <1>1. /\ s \in TradedSlots /\ s \in TradeSlots /\ n \in TradeSlots /\ s # n
    BY TradeAssumption DEF TradedSlots, TradeSlots, TRADE_SLOT_NONTRADED
  <1>2. m_trade[p].items[s] = m_trade[p].items[n] /\ m_trade[p].items[s] # NULL
    BY <1>1, GetItemIs
  <1> QED
    BY <1>1, <1>2 DEF Single

\* There is room for the item of a slot, if the player may have all of them:
\* the test of CanStoreItems was made before the items were removed.
LEMMA ItemFits ==
    ASSUME IInv, Single(m_trade), NEW x \in Player, NEW y \in Player, x # y,
           m_trade[x] # NULL, m_trade[y] # NULL,
           CanStoreItems(y, TradedItems(x)), WithinMaxCount(y, x),
           NEW n \in TradedSlots, GetItem(x, n) # NULL,
           NEW w, Stored(w, y) = (Stored(where, y) \ TradedItems(y)) \cup Given(x, n)
    PROVE  CanStoreItem(w, y, GetItem(x, n))
  <1> DEFINE mine == GetItem(x, n)
             keep == Stored(where, y) \ TradedItems(y)
             after == keep \cup TradedItems(x)
             has == Stored(w, y)
             same == {j \in has : kind[j] = kind[mine]}
             limit == {j \in after : kind[j] = kind[mine]}
  <1>1. mine \in TradedItems(x) /\ mine \in Item /\ where[mine] = x
    BY GetItemIs
  <1>2. mine \notin Given(x, n)
    BY GivenOnce
  <1>3. Given(x, n) \subseteq TradedItems(x)
    BY GivenAre, TradeAssumption DEF TradedSlots
  <1>4. mine \notin has
    BY <1>1, <1>2 DEF Stored
  <1>5. has \cup {mine} \subseteq after
    BY <1>1, <1>3
  <1>6. TradedItems(x) \subseteq Item /\ keep \subseteq Item /\ after \subseteq Item
    BY TradedAre DEF Stored
  <1>7. /\ IsFiniteSet(Item) /\ Capacity[y] \in Nat /\ MaxCount[kind[mine]] \in Nat
    BY <1>1, TradeAssumption DEF Kind
  <1>8. /\ IsFiniteSet(TradedItems(x)) /\ IsFiniteSet(keep) /\ IsFiniteSet(after)
    BY <1>6, <1>7, FS_Subset
  <1>9. /\ \A i \in TradedItems(x) : <<i, y>> \notin BindedNotWith
        /\ Cardinality(keep) + Cardinality(TradedItems(x)) <= Capacity[y]
    BY DEF CanStoreItems
  <1>10. Cardinality(limit) <= MaxCount[kind[mine]]
    BY <1>1 DEF WithinMaxCount
  <1> HIDE DEF mine, keep, has
  <1>11. Cardinality(same) + 1 <= Cardinality(limit)
    <2>1. same \cup {mine} \subseteq limit /\ mine \notin same
      BY <1>4, <1>5
    <2>2. IsFiniteSet(limit)
      BY <1>8, FS_Subset
    <2> HIDE DEF same, limit
    <2> QED
      BY <2>1, <2>2, OneMore
  <1>12. Cardinality(has) + 1 <= Cardinality(after)
    BY <1>4, <1>5, <1>8, OneMore
  <1>13. Cardinality(after) <= Cardinality(keep) + Cardinality(TradedItems(x))
    <2>1. /\ Cardinality(after) = Cardinality(keep) + Cardinality(TradedItems(x))
               - Cardinality(keep \cap TradedItems(x))
          /\ IsFiniteSet(keep \cap TradedItems(x))
      BY <1>8, FS_Union, FS_Intersection
    <2>2. /\ Cardinality(keep) \in Nat /\ Cardinality(TradedItems(x)) \in Nat
          /\ Cardinality(keep \cap TradedItems(x)) \in Nat
      BY <1>8, <2>1, FS_CardinalityType
    <2> QED
      BY <2>1, <2>2
  <1>14. /\ Cardinality(same) \in Nat /\ Cardinality(limit) \in Nat /\ Cardinality(has) \in Nat
         /\ Cardinality(after) \in Nat /\ Cardinality(keep) \in Nat
         /\ Cardinality(TradedItems(x)) \in Nat
    <2>1. has \subseteq after /\ same \subseteq after /\ limit \subseteq after
      BY <1>5
    <2>2. IsFiniteSet(has) /\ IsFiniteSet(same) /\ IsFiniteSet(limit)
      BY <1>8, <2>1, FS_Subset
    <2> HIDE DEF same, limit, after
    <2> QED
      BY <1>8, <2>2, FS_CardinalityType
  <1>15. same = {j \in Stored(w, y) : kind[j] = kind[mine]} /\ has = Stored(w, y)
    BY DEF has
  <1> HIDE DEF same, limit, after
  <1>16. Cardinality(same) + 1 <= MaxCount[kind[mine]]
    BY <1>7, <1>10, <1>11, <1>14
  <1>17. Cardinality(has) < Capacity[y]
    BY <1>7, <1>9, <1>12, <1>13, <1>14
  <1>18. CanStoreItem(w, y, mine)
    BY <1>1, <1>9, <1>15, <1>16, <1>17 DEF CanStoreItem, CanTakeMoreSimilarItems
  <1> QED
    BY <1>18 DEF mine
\* Where the items are after n slots, if there was room for all of them.
Moved(x, y, n) ==
    [i \in Item |-> IF i \in Given(x, n) THEN y
                    ELSE IF i \in Given(y, n) THEN x
                    ELSE IF i \in TradedItems(x) \cup TradedItems(y) THEN NULL
                    ELSE where[i]]

\* What the two players have then.
LEMMA StoredMoved ==
    ASSUME IInv, NEW x \in Player, NEW y \in Player, x # y, m_trade[x] # NULL, m_trade[y] # NULL,
           NEW n \in 0 .. TRADE_SLOT_TRADED_COUNT
    PROVE  /\ Stored(Moved(x, y, n), y) = (Stored(where, y) \ TradedItems(y)) \cup Given(x, n)
           /\ Stored(Moved(x, y, n), x) = (Stored(where, x) \ TradedItems(x)) \cup Given(y, n)
  <1>1. x # NULL /\ y # NULL
    BY TradeAssumption
  <1>2. /\ Given(x, n) \subseteq TradedItems(x) /\ Given(y, n) \subseteq TradedItems(y)
    BY GivenAre
  <1>3. /\ \A i \in TradedItems(x) : i \in Item /\ where[i] = x
        /\ \A i \in TradedItems(y) : i \in Item /\ where[i] = y
    BY TradedAre
  <1> QED
    BY <1>1, <1>2, <1>3 DEF Stored, Moved

\* One slot when there is room for both of its items.
LEMMA SlotMoved ==
    ASSUME IInv, Single(m_trade), NEW x \in Player, NEW y \in Player, x # y,
           m_trade[x] # NULL, m_trade[y] # NULL, HaveRoom(x, y),
           WithinMaxCount(x, y), WithinMaxCount(y, x), NEW n \in TradedSlots
    PROVE  MoveSlot(Moved(x, y, n), x, GetItem(x, n), y, GetItem(y, n)) = Moved(x, y, n + 1)
  <1> DEFINE w == Moved(x, y, n)
             mine == GetItem(x, n)
             his == GetItem(y, n)
  <1>1. n \in Nat /\ n \in 0 .. TRADE_SLOT_TRADED_COUNT
    BY TradeAssumption DEF TradedSlots
  <1>2. /\ mine # NULL => CanStoreItem(w, y, mine)
        /\ his # NULL => CanStoreItem(w, x, his)
    BY <1>1, StoredMoved, ItemFits DEF HaveRoom
  <1>3. MoveSlot(w, x, mine, y, his) = Put(Put(w, mine, y), his, x)
    BY <1>2 DEF MoveSlot
  <1>4. /\ mine # NULL => mine \in TradedItems(x) /\ mine \in Item /\ where[mine] = x
        /\ his # NULL => his \in TradedItems(y) /\ his \in Item /\ where[his] = y
    BY GetItemIs
  <1>5. /\ Given(x, n + 1) = Given(x, n) \cup ({mine} \ {NULL})
        /\ Given(y, n + 1) = Given(y, n) \cup ({his} \ {NULL})
    BY <1>1, GivenNext
  <1>6. /\ Given(x, n) \subseteq TradedItems(x) /\ Given(y, n) \subseteq TradedItems(y)
        /\ \A i \in TradedItems(x) : where[i] = x
        /\ \A i \in TradedItems(y) : where[i] = y
    BY <1>1, GivenAre, TradedAre
  <1>7. w = Moved(x, y, n)
    OBVIOUS
  <1> HIDE DEF w, mine, his
  <1>8. /\ DOMAIN w = Item /\ w = [i \in Item |-> w[i]]
        /\ \A i \in Item : w[i] = IF i \in Given(x, n) THEN y
                                  ELSE IF i \in Given(y, n) THEN x
                                  ELSE IF i \in TradedItems(x) \cup TradedItems(y) THEN NULL
                                  ELSE where[i]
    BY <1>7 DEF Moved
  <1>9. Put(w, mine, y) = [i \in Item |-> IF i = mine /\ mine # NULL THEN y ELSE w[i]]
    BY <1>4, <1>8 DEF Put
  <1>10. NULL \notin Item
    BY TradeAssumption
  <1>11. Put(Put(w, mine, y), his, x) =
           [i \in Item |-> IF i = his /\ his # NULL THEN x
                           ELSE IF i = mine /\ mine # NULL THEN y ELSE w[i]]
    <2> DEFINE v == Put(w, mine, y)
    <2>1. v = [i \in Item |-> IF i = mine /\ mine # NULL THEN y ELSE w[i]]
      BY <1>9
    <2> HIDE DEF v
    <2>2. Put(v, his, x) = [i \in Item |-> IF i = his /\ his # NULL THEN x ELSE v[i]]
      BY <1>4, <2>1 DEF Put
    <2>3. Put(v, his, x) = [i \in Item |-> IF i = his /\ his # NULL THEN x
                           ELSE IF i = mine /\ mine # NULL THEN y ELSE w[i]]
      BY <2>1, <2>2
    <2> QED
      BY <2>3 DEF v
  <1>12. ASSUME NEW i \in Item
         PROVE  (IF i = his /\ his # NULL THEN x ELSE IF i = mine /\ mine # NULL THEN y ELSE w[i])
                  = IF i \in Given(x, n + 1) THEN y
                    ELSE IF i \in Given(y, n + 1) THEN x
                    ELSE IF i \in TradedItems(x) \cup TradedItems(y) THEN NULL
                    ELSE where[i]
    BY <1>4, <1>5, <1>6, <1>8, <1>10
  <1>13. Put(Put(w, mine, y), his, x) = Moved(x, y, n + 1)
    BY <1>11, <1>12 DEF Moved
  <1> QED
    BY <1>3, <1>13 DEF w, mine, his

\* moveItems gives every item of both offers to the other side.
LEMMA AllMoved ==
    ASSUME IInv, Single(m_trade), NEW x \in Player, NEW y \in Player, x # y,
           m_trade[x] # NULL, m_trade[y] # NULL, HaveRoom(x, y),
           WithinMaxCount(x, y), WithinMaxCount(y, x)
    PROVE  /\ \A i \in TradedItems(x) : moveItems(x, y)[i] = y
           /\ \A i \in TradedItems(y) : moveItems(x, y)[i] = x
  <1> DEFINE N == TRADE_SLOT_TRADED_COUNT
  <1>1. N \in Nat /\ TradedSlots = 0 .. N - 1
    BY TradeAssumption DEF TradedSlots
  <1>2. PICK f : MovesUpto(x, y, N, f) /\ moveItems(x, y) = f[N]
    BY MovesDefined
  <1> DEFINE T == {n \in 0 .. N : f[n] = Moved(x, y, n)}
  <1>3. \A n : n \in T <=> n \in 0 .. N /\ f[n] = Moved(x, y, n)
    OBVIOUS
  <1> HIDE DEF T
  <1>4. 0 \in T
    <2>1. f[0] = Removed(TradedItems(x) \cup TradedItems(y))
      BY <1>1, <1>2 DEF MovesUpto
    <2>2. Given(x, 0) = {} /\ Given(y, 0) = {}
      BY <1>1, GivenAre
    <2>3. Removed(TradedItems(x) \cup TradedItems(y)) = Moved(x, y, 0)
      BY <2>2 DEF Removed, Moved
    <2> QED
      BY <1>1, <1>3, <2>1, <2>3
  <1>5. ASSUME NEW n \in 0 .. N - 1, n \in T PROVE n + 1 \in T
    <2>1. n + 1 \in 0 .. N
      BY <1>1
    <2>2. f[n + 1] = MoveSlot(f[n], x, GetItem(x, n), y, GetItem(y, n))
      BY <1>1, <1>2, MovesNext
    <2>3. f[n] = Moved(x, y, n)
      BY <1>3, <1>5
    <2>4. f[n + 1] = Moved(x, y, n + 1)
      BY <1>1, <2>2, <2>3, SlotMoved
    <2> QED
      BY <1>3, <2>1, <2>4
  <1>6. N \in T
    BY <1>1, <1>4, <1>5, SlotInduction
  <1>7. moveItems(x, y) = Moved(x, y, N)
    BY <1>2, <1>3, <1>6
  <1>8. Given(x, N) = TradedItems(x) /\ Given(y, N) = TradedItems(y)
    BY <1>1, GivenAre
  <1>9. /\ \A i \in TradedItems(x) : i \in Item /\ where[i] = x
        /\ \A i \in TradedItems(y) : i \in Item /\ where[i] = y
    BY TradedAre
  <1> QED
    BY <1>7, <1>8, <1>9 DEF Moved

\* Every step leaves every item in a place.
LEMMA NextPlaces ==
    ASSUME IInv, Places, [Next]_vars
    PROVE  Places'
  <1>1. ASSUME UNCHANGED where PROVE Places'
    BY <1>1 DEF Places
  <1>2. ASSUME NEW item \in Item, ItemLeaves(item) PROVE Places'
    BY <1>2 DEF ItemLeaves, Places, Place
  <1>3. ASSUME NEW p \in Player, NEW q \in Player, HandleAcceptTradeOpcode(p, q) PROVE Places'
    <2>1. CASE AcceptExchange(p, q)
      <3>1. where' = moveItems(p, q) /\ m_trade[p] # NULL /\ m_trade[q] # NULL
        BY <1>3, <2>1 DEF HandleAcceptTradeOpcode, Trading, AcceptExchange
      <3> QED
        BY <3>1, OthersStay DEF Untouched, Places
    <2>2. CASE ~AcceptExchange(p, q)
      BY <1>1, <1>3, <2>2 DEF HandleAcceptTradeOpcode, AcceptWithoutGold, AcceptAndWait,
            AcceptSpellFails, AcceptWithoutRoom
    <2> QED
      BY <2>1, <2>2
  <1> QED
    BY <1>1, <1>2, <1>3 DEF Next, HandleInitiateTradeOpcode, HandleSetTradeGoldOpcode,
          HandleSetTradeItemOpcode, HandleClearTradeItemOpcode, CastOnTradeItem,
          HandleUnacceptTradeOpcode, TradeCancel, ModifyMoney, SaveToDB, LogoutPlayer,
          LoadFromDB, SetBinding, vars

\* Only offered items leave, and all of them arrive.
LEMMA StepMoved ==
    ASSUME IInv, Consent, Single(m_trade), Places, [Next]_vars, NEW p \in Player, Exchanged(p)
    PROVE  LET q == m_trade[p].trader
           IN  /\ \A i \in Item : where[i] = p /\ where'[i] # p => i \in ItemsOf(Terms(q).his)
               /\ WithinMaxCount(p, q) /\ WithinMaxCount(q, p) =>
                    \A i \in TradedItems(p) : where'[i] = q
  <1> DEFINE q == m_trade[p].trader
  <1>1. PICK x \in Player, y \in Player :
               /\ AcceptExchange(x, y)
               /\ m_trade[x] # NULL /\ m_trade[y] # NULL
               /\ y = m_trade[x].trader
               /\ p \in {x, y}
    BY OnlyExchange
  <1>2. /\ q \in Player /\ m_trade[q].trader = p /\ p # q
        /\ \/ p = x /\ q = y
           \/ p = y /\ q = x
    BY <1>1 DEF IInv, TradersPaired
  <1>3. where' = moveItems(x, y) /\ HaveRoom(x, y)
    BY <1>1 DEF AcceptExchange
  <1>4. Terms(q).his = Offer(m_trade, p)
    BY <1>2, TermsAreOffers DEF Offers
  <1>5. ItemsOf(Terms(q).his) = {m_trade[p].items[s] : s \in TradedSlots}
    BY <1>4 DEF ItemsOf, Offer
  <1> HIDE DEF q
  <1>6. ASSUME NEW i \in Item, where[i] = p, where'[i] # p
        PROVE  i \in ItemsOf(Terms(q).his)
    <2>1. i \in TradedItems(x) \cup TradedItems(y)
      BY <1>1, <1>3, <1>6, OthersStay DEF Untouched
    <2>2. i \in TradedItems(p)
      BY <1>1, <1>2, <1>6, <2>1, TradedAre
    <2>3. \E s \in TradedSlots : i = m_trade[p].items[s]
      BY <1>1, <1>2, <2>2, TradedAre
    <2> QED
      BY <1>5, <2>3
  <1>7. ASSUME WithinMaxCount(p, q), WithinMaxCount(q, p)
        PROVE  \A i \in TradedItems(p) : where'[i] = q
    <2>1. WithinMaxCount(x, y) /\ WithinMaxCount(y, x) /\ x # y
      BY <1>2, <1>7
    <2>2. /\ \A i \in TradedItems(x) : where'[i] = y
          /\ \A i \in TradedItems(y) : where'[i] = x
      BY <1>1, <1>3, <2>1, AllMoved
    <2> QED
      BY <1>2, <2>2
  <1> QED
    BY <1>6, <1>7 DEF q

\* moveItems takes nothing that was not accepted, and where CanStoreItems let
\* the exchange pass it gives nothing back, as long as nobody ends with more
\* items of a kind than he may have.
THEOREM ExchangedItemsMove == Spec => OfferedItemsMove
  <1>1. Init => IInv /\ Consent /\ Single(m_trade) /\ Places
    BY InitIInv, TradeAssumption DEF Init, Consent, Single, Places, Place
  <1>2. IInv /\ Consent /\ Single(m_trade) /\ Places /\ [Next]_vars =>
          IInv' /\ Consent' /\ Single(m_trade)' /\ Places'
    <2> SUFFICES ASSUME IInv, Consent, Single(m_trade), Places, [Next]_vars
                 PROVE  IInv' /\ Consent' /\ Single(m_trade') /\ Places'
      BY DEF Single
    <2> QED
      BY NextIInv, NextConsent, NextSingle, NextPlaces
  <1>3. IInv /\ Consent /\ Single(m_trade) /\ Places /\ [Next]_vars =>
          [\A p \in Player : Exchanged(p) =>
             LET q == m_trade[p].trader
             IN  /\ \A i \in Item : where[i] = p /\ where'[i] # p => i \in ItemsOf(Terms(q).his)
                 /\ WithinMaxCount(p, q) /\ WithinMaxCount(q, p) =>
                      \A i \in TradedItems(p) : where'[i] = q]_vars
    BY StepMoved
  <1> QED
    BY <1>1, <1>2, <1>3, PTL DEF Spec, OfferedItemsMove
=============================================================================
