---------------------------- MODULE AuctionHouse ----------------------------
(***************************************************************************)
(* The auction house and the mails that carry its gold and its items, as   *)
(* the world thread and the character database see them.  The handlers     *)
(* change the characters, the AuctionsMap and the loaded mails in memory   *)
(* at once and put one transaction, sometimes several, into the queue of   *)
(* the database; a worker executes it later.  The world thread's own       *)
(* queries go past that queue.  The server can crash at any moment and     *)
(* then starts again from what was executed.                               *)
(*                                                                         *)
(* dbs[1] is what the database holds, dbs[i+1] what it will hold once the  *)
(* i-th queued transaction is executed.  Items are counted in units of one *)
(* stackable item; how a character's units are cut into stacks is left     *)
(* open.  The money of a character and of a mail is a uint64, as in the    *)
(* packets; the statements that store a mail write a uint32, and the       *)
(* handlers negate signed integers of 32 or 64 bits.                       *)
(***************************************************************************)
EXTENDS Integers, FiniteSets, FiniteSetsExt, SequencesExt

CONSTANTS
    Players,
    StartGold,      \* gold of a character at the beginning
    StartUnits,     \* units of a character at the beginning
    StartBids,      \* start bids that clients send
    Prices,         \* prices that clients bid
    Buyouts,        \* buyouts that clients send, 0 for none
    Counts,         \* counts of the stacks that clients put into one auction
    Deposit,        \* GetAuctionDeposit
    CutPercent,     \* cutPercent of the auction house
    MailCost,       \* 30 copper for a letter
    Letters,        \* letters that clients send: gold, cod, whether with units
    GameMasters,    \* players whose letters need not be paid for
    MAX_MONEY_AMOUNT,
    UInt, ULong,    \* numbers of values of a uint32 and of a uint64
    Nobody,
    MaxDeals,       \* bound: auctions and letters, together
    MaxMails,       \* bound: mails that are returned to their senders have lower ids
    MaxPending,     \* bound: transactions in the queue of the database
    MaxBreaks       \* bound: logouts and crashes of the server, together

ASSUME AuctionAssumption ==
    /\ IsFiniteSet(Players)
    /\ StartGold \in [Players -> Nat] /\ StartUnits \in [Players -> Nat]
    /\ StartBids \cup Prices \subseteq Nat \ {0} /\ Buyouts \subseteq Nat
    /\ Counts \subseteq Seq(Nat \ {0})
    /\ Deposit \in 0 .. UInt - 1 /\ CutPercent \in 0 .. 100 /\ MailCost \in Nat
    /\ MAX_MONEY_AMOUNT \in Nat
    /\ UInt \in Nat \ {0} /\ ULong \in Nat \ {0}
    /\ \A l \in Letters : l.gold \in Nat /\ l.cod \in Nat
    /\ Nobody \notin Players
    /\ MaxPending \in Nat \ {0, 1}

VARIABLES
    server,     \* "up", or the step of the start after a crash
    state,      \* a character is online, offline, or waits for its login query
    behind,     \* queued transactions in front of a login query
    gold, inv,  \* money and units of the characters in memory
    box,        \* m_mail and m_mailsLoaded of the characters in memory
    auctions,   \* AuctionsMap
    aitems,     \* mAitems, by auction
    dbs,        \* the database, and what each queued transaction makes of it
    expired,    \* auctions whose time is over
    ghosts,     \* auctions settled at a start and loaded all the same
    altered,    \* has an amount not been taken or given as it is
    nextAuction, nextMail, letters, breaks

vars == <<server, state, behind, gold, inv, box, auctions, aitems, dbs, expired,
          ghosts, altered, nextAuction, nextMail, letters, breaks>>

\* The sum of the naturals f[x]: one coin for each of 1 .. f[x].
Coins(f) == UNION {{x} \X (1 .. f[x]) : x \in DOMAIN f}
Sum(f) == Cardinality(Coins(f))

Database == Last(dbs)
Room(n) == Len(dbs) - 1 + n <= MaxPending
Online(p) == server = "up" /\ state[p] = "online"

NoAuctions == [id \in {} |-> Nobody]
NotLoaded == [loaded |-> FALSE, mails |-> {}]

(***************************************************************************)
(* The last six fields of a database state are histories, for the          *)
(* properties: owed is the deposit that a character paid after it was      *)
(* saved, transit the units that have left a stack and are not yet in a    *)
(* stored auction, lost those of them that a crash took, unsent the units  *)
(* of auctions settled without their item, burnt the gold that is gone,    *)
(* regained the gold that a crash gave back.                               *)
(***************************************************************************)
Init ==
    /\ server = "up"
    /\ state = [p \in Players |-> "online"]
    /\ behind = [p \in Players |-> 0]
    /\ gold = StartGold
    /\ inv = StartUnits
    /\ box = [p \in Players |-> NotLoaded]
    /\ auctions = NoAuctions
    /\ aitems = {}
    /\ dbs = << [gold |-> StartGold, inv |-> StartUnits, auctions |-> NoAuctions,
                 mails |-> {}, owed |-> [p \in Players |-> 0], transit |-> 0,
                 lost |-> 0, unsent |-> 0, burnt |-> 0, regained |-> 0] >>
    /\ expired = {} /\ ghosts = {} /\ altered = FALSE
    /\ nextAuction = 1 /\ nextMail = 1 /\ letters = 0 /\ breaks = 0

-----------------------------------------------------------------------------
\* Money.

\* The signed integer of as many bits: int32(n) for UInt, int64(n) for ULong.
Signed(n, w) == IF 2 * n < w THEN n ELSE n - w

\* -int64(n); the smallest value is its own negation.
Minus(n, w) == IF 2 * n = w THEN -n ELSE -Signed(n, w)

\* -int32(n) as an int64: the negation of the smallest value is undefined, it may
\* be done in 32 or in 64 bits.
MinusInt32(n) == {Minus(n, UInt), -Signed(n, UInt)}

\* MAX_MONEY_AMOUNT is unsigned: above it the difference wraps around.
HasRoom(g, amount) == amount <= 0 \/ g < (MAX_MONEY_AMOUNT - amount) % ULong

Modified(g, amount) ==
    CASE ~HasRoom(g, amount) -> g
      [] HasRoom(g, amount) /\ g + amount > 0 -> (g + amount) % ULong
      [] OTHER -> 0

ModifyMoney(p, amount) == gold' = [gold EXCEPT ![p] = Modified(@, amount)]

\* History: the step does to the gold what it is meant to do.
Exact(meant) == altered' = (altered \/ ~meant)

\* ModifyMoney(-int64(n))
Pay(p, n) == ModifyMoney(p, Minus(n, ULong)) /\ Exact(gold'[p] = gold[p] - n)

-----------------------------------------------------------------------------
\* The statements that transactions are made of, as functions of the database.

SaveGold(d, p, g) == [d EXCEPT !.gold[p] = g, !.owed[p] = 0]
SaveInventoryAndGold(d, p, g, n) == [SaveGold(d, p, g) EXCEPT !.inv[p] = n]

WithRow(rows, id, a) == [i \in DOMAIN rows \cup {id} |-> IF i = id THEN a ELSE rows[i]]

InsertAuction(d, id, a) == [d EXCEPT !.auctions = WithRow(@, id, a)]
UpdateBid(d, id, a) ==
    IF id \in DOMAIN d.auctions
    THEN [d EXCEPT !.auctions[id].bidder = a.bidder, !.auctions[id].bid = a.bid]
    ELSE d
DeleteAuction(d, id) ==
    [d EXCEPT !.auctions = [i \in DOMAIN @ \ {id} |-> @[i]]]

Mail(to, from, g, n, cod) ==
    [to |-> to, from |-> from, gold |-> g, units |-> n, cod |-> cod]

\* MailDraft::SendMailTo for the drafts of a handler: each takes a mail id.
Stamped(draft, id) ==
    [id |-> id, to |-> draft.to, from |-> draft.from, gold |-> draft.gold,
     units |-> draft.units, cod |-> draft.cod]
Post(drafts) == {Stamped(drafts[i], nextMail + i - 1) : i \in DOMAIN drafts}

\* The statements take the money and the COD of a mail as uint32.
Row(m) == [m EXCEPT !.gold = @ % UInt, !.cod = @ % UInt]

InsertMails(d, drafts) == [d EXCEPT !.mails = @ \cup {Row(m) : m \in Post(drafts)}]

\* UPDATE and DELETE by the id of a mail: nothing happens without the row.
UpdateMail(mails, m) ==
    {IF y.id = m.id THEN [y EXCEPT !.gold = m.gold % UInt, !.cod = m.cod % UInt] ELSE y :
        y \in mails}
Emptied(mails, m, field) == {IF y.id = m.id THEN [y EXCEPT ![field] = 0] ELSE y : y \in mails}
DeleteMail(mails, m) == {x \in mails : x.id # m.id}

\* An online receiver that has loaded its mails gets a new one in memory too.
Boxes(current, drafts) ==
    [p \in Players |->
        IF state[p] = "online" /\ current[p].loaded
        THEN [current[p] EXCEPT !.mails = @ \cup {m \in Post(drafts) : m.to = p}]
        ELSE current[p]]

Deliver(current, drafts) ==
    /\ box' = Boxes(current, drafts)
    /\ nextMail' = nextMail + Len(drafts)

Commit(transactions) ==
    /\ Room(Len(transactions))
    /\ dbs' = dbs \o transactions

-----------------------------------------------------------------------------
\* Selling.

NewAuction(p, n, bid, buyout) ==
    [owner |-> p, units |-> n, startbid |-> bid % UInt, buyout |-> buyout % UInt,
     bidder |-> Nobody, bid |-> 0, deposit |-> Deposit]

\* Mutant: the remaining stack is not saved.
SplitUnsaved(d, p, n) == [d EXCEPT !.transit = @ + n]

\* The transaction that takes the units from the stack they are split from.
Split(d, p, n) == [d EXCEPT !.inv[p] = @ - n, !.transit = @ + n]

\* The units of the first i stacks.
Taken(counts, i) == Sum([j \in 1 .. i |-> counts[j]])

\* One transaction for each stack.
Splits(p, counts) == [i \in 1 .. Len(counts) |-> Split(Database, p, Taken(counts, i))]

\* The auction, the item and the character; the deposit is taken afterwards.
Listed(id, a) ==
    [SaveInventoryAndGold(InsertAuction(Database, id, a), a.owner, gold[a.owner],
                          inv[a.owner] - a.units) EXCEPT !.owed[a.owner] = Deposit]

\* A whole stack moves into the auction in one transaction, otherwise a clone with
\* the units of all stacks is listed.  A stack is not named twice.
HandleAuctionSellItem(p, counts, bid, buyout) ==
    LET id == nextAuction
        n == Sum(counts)
        a == NewAuction(p, n, bid, buyout)
    IN  /\ Online(p) /\ id + letters <= MaxDeals
        /\ counts # << >> /\ n <= inv[p]
        /\ gold[p] >= Deposit
        /\ \/ Len(counts) = 1 /\ Commit(<<Listed(id, a)>>)
           \/ /\ Len(counts) = 1 => n < inv[p]
              /\ Commit(Append(Splits(p, counts), Listed(id, a)))
        /\ auctions' = WithRow(auctions, id, a)
        /\ aitems' = aitems \cup {id}
        /\ inv' = [inv EXCEPT ![p] = @ - n]
        /\ \E amount \in MinusInt32(Deposit) : ModifyMoney(p, amount)
        /\ Exact(gold'[p] = gold[p] - Deposit)
        /\ nextAuction' = id + 1
        /\ UNCHANGED <<server, state, behind, box, expired, ghosts, nextMail, letters,
                       breaks>>

-----------------------------------------------------------------------------
\* Bidding and settling.

GetAuctionCut(bid) == (bid * CutPercent) \div 100
GetAuctionOutBid(bid) == Max({1, (bid * 5) \div 100})

IsBuyout(a, price) == a.buyout # 0 /\ price >= a.buyout

MayBid(p, a, price) ==
    /\ a.owner # p
    /\ price > a.bid /\ price >= a.startbid
    /\ IsBuyout(a, price) \/ price >= (a.bid + GetAuctionOutBid(a.bid)) % UInt
    /\ gold[p] >= price

\* Mutant: the whole price is taken although the old bid is not sent back.
FullPayment(a, p, price) == price

\* A player that leads already only pays the difference.
Payment(a, p, price) == IF a.bidder = p THEN price - a.bid ELSE price

\* SendAuctionOutbiddedMail: the old bid goes back to another leading bidder.
Outbidded(a, p) ==
    IF a.bidder \in {Nobody, p} THEN << >> ELSE <<Mail(a.bidder, Nobody, a.bid, 0, 0)>>

Profit(a) == (a.bid + a.deposit - GetAuctionCut(a.bid)) % UInt

\* SendAuctionSalePendingMail: the price is only in the text.
SalePending(a) == <<Mail(a.owner, Nobody, 0, 0, 0)>>

\* An item is only sent if it is loaded.
ItemMail(to, a, hasItem) == IF hasItem THEN <<Mail(to, Nobody, 0, a.units, 0)>> ELSE << >>

\* SendAuctionExpiredMail, or SendAuctionSuccessfulMail and SendAuctionWonMail.
Settlement(a, hasItem) ==
    IF a.bidder = Nobody
    THEN ItemMail(a.owner, a, hasItem)
    ELSE <<Mail(a.owner, Nobody, Profit(a), 0, 0)>> \o ItemMail(a.bidder, a, hasItem)

\* The settled auction is deleted with its mails sent; what it kept is gone.
Settled(d, id, a, hasItem, drafts) ==
    [DeleteAuction(InsertMails(d, drafts), id) EXCEPT
        !.burnt = @ + (IF a.bidder = Nobody THEN a.deposit ELSE a.bid + a.deposit - Profit(a)),
        !.unsent = @ + (IF hasItem THEN 0 ELSE a.units)]

RemoveAuction(id) ==
    /\ auctions' = [i \in DOMAIN auctions \ {id} |-> auctions[i]]
    /\ aitems' = aitems \ {id}

\* HandleAuctionPlaceBid below the buyout: the bid is stored as a uint32.
Bid(p, id, price) ==
    LET a == auctions[id]
        b == [a EXCEPT !.bidder = p, !.bid = price % UInt]
        d == UpdateBid(InsertMails(Database, Outbidded(a, p)), id, b)
    IN  /\ Online(p) /\ MayBid(p, a, price) /\ ~IsBuyout(a, price)
        /\ Pay(p, Payment(a, p, price))
        /\ Commit(<<[SaveInventoryAndGold(d, p, gold'[p], inv[p]) EXCEPT
                        !.burnt = @ + price - (price % UInt)]>>)
        /\ auctions' = [auctions EXCEPT ![id] = b]
        /\ Deliver(box, Outbidded(a, p))
        /\ UNCHANGED <<server, state, behind, inv, aitems, expired, ghosts, nextAuction,
                       letters, breaks>>

\* HandleAuctionPlaceBid at or above the buyout: the buyout is the price.
Buyout(p, id, price) ==
    LET a == auctions[id]
        b == [a EXCEPT !.bidder = p, !.bid = a.buyout]
        drafts == Outbidded(a, p) \o SalePending(b) \o Settlement(b, id \in aitems)
        d == Settled(Database, id, b, id \in aitems, drafts)
    IN  /\ Online(p) /\ MayBid(p, a, price) /\ IsBuyout(a, price)
        /\ Pay(p, Payment(a, p, a.buyout))
        /\ Commit(<<SaveInventoryAndGold(d, p, gold'[p], inv[p])>>)
        /\ RemoveAuction(id)
        /\ Deliver(box, drafts)
        /\ UNCHANGED <<server, state, behind, inv, expired, ghosts, nextAuction, letters,
                       breaks>>

\* SendAuctionCancelledToBidderMail and the mail that returns the item.
Cancellation(a) == Outbidded(a, Nobody) \o <<Mail(a.owner, Nobody, 0, a.units, 0)>>

HandleAuctionRemoveItem(p, id) ==
    LET a == auctions[id]
        cut == IF a.bidder = Nobody THEN 0 ELSE GetAuctionCut(a.bid)
        d == DeleteAuction(InsertMails(Database, Cancellation(a)), id)
    IN  /\ Online(p) /\ a.owner = p /\ id \in aitems
        /\ gold[p] >= cut
        /\ Pay(p, cut)
        /\ Commit(<<[SaveInventoryAndGold(d, p, gold'[p], inv[p]) EXCEPT
                        !.burnt = @ + cut + a.deposit]>>)
        /\ RemoveAuction(id)
        /\ Deliver(box, Cancellation(a))
        /\ UNCHANGED <<server, state, behind, inv, expired, ghosts, nextAuction, letters,
                       breaks>>

Expire(id) ==
    /\ id \in (DOMAIN auctions \cup DOMAIN Database.auctions) \ expired
    /\ expired' = expired \cup {id}
    /\ UNCHANGED <<server, state, behind, gold, inv, box, auctions, aitems, dbs,
                   ghosts, altered, nextAuction, nextMail, letters, breaks>>

\* One iteration of AuctionHouseObject::Update: the ids come from a query that
\* does not see what is queued, the auction from memory.
Update(id) ==
    LET a == auctions[id]
        hasItem == id \in aitems
        drafts == Settlement(a, hasItem)
    IN  /\ server = "up"
        /\ id \in expired \cap DOMAIN dbs[1].auctions
        /\ Commit(<<Settled(Database, id, a, hasItem, drafts)>>)
        /\ RemoveAuction(id)
        /\ Deliver(box, drafts)
        /\ UNCHANGED <<server, state, behind, gold, inv, expired, ghosts, altered,
                       nextAuction, letters, breaks>>

-----------------------------------------------------------------------------
\* Mails.

\* The COD is narrowed by MailDraft::AddCOD; the sum of money and cost may wrap.
HandleSendMail(p, q, l) ==
    LET n == IF l.withUnits THEN inv[p] ELSE 0
        drafts == <<Mail(q, p, l.gold, n, l.cod % UInt)>>
        reqmoney == (l.gold + MailCost) % ULong
    IN  /\ Online(p) /\ p # q /\ nextAuction + letters <= MaxDeals
        /\ l.withUnits => inv[p] > 0
        /\ gold[p] >= reqmoney \/ p \in GameMasters
        /\ ModifyMoney(p, Minus(reqmoney, ULong))
        /\ Exact(gold'[p] = gold[p] - (l.gold + MailCost) /\ l.gold < UInt)
        /\ Commit(<<[SaveInventoryAndGold(InsertMails(Database, drafts), p, gold'[p], inv[p] - n)
                        EXCEPT !.burnt = @ + MailCost]>>)
        /\ inv' = [inv EXCEPT ![p] = @ - n]
        /\ Deliver(box, drafts)
        /\ letters' = letters + 1
        /\ UNCHANGED <<server, state, behind, auctions, aitems, expired, ghosts,
                       nextAuction, breaks>>

\* HandleGetMailList: the query does not see what is queued.
HandleGetMailList(p) ==
    /\ Online(p) /\ ~box[p].loaded
    /\ box' = [box EXCEPT ![p] = [loaded |-> TRUE,
                                  mails |-> {m \in dbs[1].mails : m.to = p}]]
    /\ UNCHANGED <<server, state, behind, gold, inv, auctions, aitems, dbs, expired,
                   ghosts, altered, nextAuction, nextMail, letters, breaks>>

\* A mail without gold changes nothing and is left out.
HandleMailTakeMoney(p, m) ==
    LET amount == Signed(m.gold, ULong)
        d == [Database EXCEPT !.mails = UpdateMail(@, [m EXCEPT !.gold = 0])]
    IN  /\ m.gold > 0
        /\ HasRoom(gold[p], amount)
        /\ ModifyMoney(p, amount)
        /\ Exact(gold'[p] = gold[p] + Row(m).gold)
        /\ box' = [box EXCEPT ![p].mails = Emptied(@, m, "gold")]
        /\ Commit(<<SaveGold(d, p, gold'[p])>>)
        /\ UNCHANGED <<server, state, behind, inv, auctions, aitems, expired, ghosts,
                       nextAuction, nextMail, letters, breaks>>

\* The mail the packet names is m, the item may be that of another mail x.  A COD is
\* paid to the sender of m by a new mail.
HandleMailTakeItem(p, m, x) ==
    LET drafts == IF m.cod > 0 THEN <<Mail(m.from, p, m.cod, 0, 0)>> ELSE << >>
        rows == UpdateMail(Database.mails, [m EXCEPT !.cod = 0])
        d == InsertMails([Database EXCEPT !.mails = Emptied(rows, x, "units")], drafts)
    IN  /\ x.units > 0
        /\ gold[p] >= m.cod
        /\ \E amount \in MinusInt32(m.cod) : ModifyMoney(p, amount)
        /\ Exact(gold'[p] = gold[p] - m.cod)
        /\ inv' = [inv EXCEPT ![p] = @ + x.units]
        /\ Deliver([box EXCEPT ![p].mails = Emptied(Emptied(@, m, "cod"), x, "units")], drafts)
        /\ Commit(<<SaveInventoryAndGold(d, p, gold'[p], inv[p] + x.units)>>)
        /\ UNCHANGED <<server, state, behind, auctions, aitems, expired, ghosts,
                       nextAuction, letters, breaks>>

\* The client offers this for the mails of players only; the handler would
\* delete the content of another mail.
HandleMailReturnToSender(p, m) ==
    LET drafts == <<Mail(m.from, p, m.gold, m.units, 0)>>
    IN  /\ m.from # Nobody /\ nextMail <= MaxMails
        /\ Deliver([box EXCEPT ![p].mails = DeleteMail(@, m)], drafts)
        /\ Commit(<<InsertMails([Database EXCEPT !.mails = DeleteMail(@, m)], drafts)>>)
        /\ UNCHANGED <<server, state, behind, gold, inv, auctions, aitems, expired,
                       ghosts, altered, nextAuction, letters, breaks>>

MailOperation(p) ==
    /\ Online(p) /\ box[p].loaded
    /\ \E m \in box[p].mails :
          \/ HandleMailTakeMoney(p, m)
          \/ \E x \in box[p].mails : HandleMailTakeItem(p, m, x)
          \/ HandleMailReturnToSender(p, m)

-----------------------------------------------------------------------------
\* Saving, logging out and in.

\* The periodic save; one that changes nothing is left out.
SaveToDB(p) ==
    /\ Online(p) /\ Database.gold[p] # gold[p]
    /\ Commit(<<SaveInventoryAndGold(Database, p, gold[p], inv[p])>>)
    /\ UNCHANGED <<server, state, behind, gold, inv, box, auctions, aitems, expired,
                   ghosts, altered, nextAuction, nextMail, letters, breaks>>

\* The character is saved and leaves the memory.
LogoutPlayer(p) ==
    /\ Online(p) /\ breaks < MaxBreaks
    /\ Commit(<<SaveInventoryAndGold(Database, p, gold[p], inv[p])>>)
    /\ state' = [state EXCEPT ![p] = "offline"]
    /\ gold' = [gold EXCEPT ![p] = 0]
    /\ inv' = [inv EXCEPT ![p] = 0]
    /\ box' = [box EXCEPT ![p] = NotLoaded]
    /\ breaks' = breaks + 1
    /\ UNCHANGED <<server, behind, auctions, aitems, expired, ghosts, altered,
                   nextAuction, nextMail, letters>>

\* Mutant: the login query goes past the queue.
NothingAhead == 0

\* The login query goes through the queue of the transactions.
QueriesAhead == Len(dbs) - 1

HandlePlayerLoginOpcode(p) ==
    /\ server = "up" /\ state[p] = "offline"
    /\ state' = [state EXCEPT ![p] = "loading"]
    /\ behind' = [behind EXCEPT ![p] = QueriesAhead]
    /\ UNCHANGED <<server, gold, inv, box, auctions, aitems, dbs, expired, ghosts,
                   altered, nextAuction, nextMail, letters, breaks>>

\* Player::LoadFromDB cuts off what is above MAX_MONEY_AMOUNT.
LoadedMoney(p) == Min({MAX_MONEY_AMOUNT, dbs[1].gold[p]})

HandlePlayerLogin(p) ==
    /\ server = "up" /\ state[p] = "loading" /\ behind[p] = 0
    /\ state' = [state EXCEPT ![p] = "online"]
    /\ gold' = [gold EXCEPT ![p] = LoadedMoney(p)]
    /\ Exact(LoadedMoney(p) = dbs[1].gold[p])
    /\ inv' = [inv EXCEPT ![p] = dbs[1].inv[p]]
    /\ UNCHANGED <<server, behind, box, auctions, aitems, dbs, expired, ghosts,
                   nextAuction, nextMail, letters, breaks>>

-----------------------------------------------------------------------------
\* The database worker, a crash and the start after it.

Execute ==
    /\ Len(dbs) > 1
    /\ dbs' = Tail(dbs)
    /\ behind' = [p \in Players |-> Max({behind[p] - 1, 0})]
    /\ UNCHANGED <<server, state, gold, inv, box, auctions, aitems, expired, ghosts,
                   altered, nextAuction, nextMail, letters, breaks>>

\* Memory and queue are gone, and with them what was not stored.
Crash ==
    /\ server = "up" /\ breaks < MaxBreaks
    /\ breaks' = breaks + 1
    /\ server' = "expiring"
    /\ dbs' = << [dbs[1] EXCEPT !.regained = @ + Sum(dbs[1].owed),
                                !.owed = [p \in Players |-> 0],
                                !.lost = @ + dbs[1].transit,
                                !.transit = 0] >>
    /\ state' = [p \in Players |-> "offline"]
    /\ behind' = [p \in Players |-> 0]
    /\ gold' = [p \in Players |-> 0]
    /\ inv' = [p \in Players |-> 0]
    /\ box' = [p \in Players |-> NotLoaded]
    /\ auctions' = NoAuctions
    /\ aitems' = {}
    /\ UNCHANGED <<expired, ghosts, altered, nextAuction, nextMail, letters>>

Overdue == expired \cap DOMAIN Database.auctions

\* One iteration of DeleteExpiredAuctionsAtStartup: no item is loaded yet.
DeleteExpiredAuctionsAtStartup(id) ==
    LET a == Database.auctions[id]
        drafts == Settlement(a, id \in aitems)
    IN  /\ server = "expiring"
        /\ id \in Overdue
        /\ Commit(<<Settled(Database, id, a, id \in aitems, drafts)>>)
        /\ Deliver(box, drafts)
        /\ UNCHANGED <<server, state, behind, gold, inv, auctions, aitems, expired,
                       ghosts, altered, nextAuction, letters, breaks>>

LoadAuctionItems ==
    /\ server = "expiring" /\ Overdue = {}
    /\ aitems' = DOMAIN dbs[1].auctions
    /\ server' = "loading"
    /\ UNCHANGED <<state, behind, gold, inv, box, auctions, dbs, expired, ghosts,
                   altered, nextAuction, nextMail, letters, breaks>>

\* A row whose deletion is still queued is loaded like any other.
LoadAuctions ==
    /\ server = "loading"
    /\ auctions' = dbs[1].auctions
    /\ ghosts' = ghosts \cup (DOMAIN dbs[1].auctions \ DOMAIN Database.auctions)
    /\ server' = "up"
    /\ UNCHANGED <<state, behind, gold, inv, box, aitems, dbs, altered, expired,
                   nextAuction, nextMail, letters, breaks>>

-----------------------------------------------------------------------------
Next ==
    \/ \E p \in Players :
        \/ \E counts \in Counts, bid \in StartBids, buyout \in Buyouts :
              HandleAuctionSellItem(p, counts, bid, buyout)
        \/ \E id \in DOMAIN auctions, price \in Prices :
              Bid(p, id, price) \/ Buyout(p, id, price)
        \/ \E id \in DOMAIN auctions : HandleAuctionRemoveItem(p, id)
        \/ \E q \in Players, l \in Letters : HandleSendMail(p, q, l)
        \/ HandleGetMailList(p)
        \/ MailOperation(p)
        \/ SaveToDB(p) \/ LogoutPlayer(p)
        \/ HandlePlayerLoginOpcode(p) \/ HandlePlayerLogin(p)
    \/ \E id \in 1 .. MaxDeals : Expire(id) \/ DeleteExpiredAuctionsAtStartup(id)
    \/ \E id \in DOMAIN auctions : Update(id)
    \/ Execute \/ Crash \/ LoadAuctionItems \/ LoadAuctions

Spec == Init /\ [][Next]_vars

-----------------------------------------------------------------------------
(***************************************************************************)
(* Properties.                                                             *)
(***************************************************************************)

\* Values of the variables (the C++ types of the state).
TypeOK ==
    /\ server \in {"up", "expiring", "loading"}
    /\ state \in [Players -> {"online", "offline", "loading"}]
    /\ gold \in [Players -> Nat] /\ inv \in [Players -> Nat]
    /\ Len(dbs) \in 1 .. MaxPending + 1
    /\ ghosts \subseteq expired
    /\ altered \in BOOLEAN

\* Gold of characters, in leading bids, deposits and mails.
Held(d) ==
    Sum(d.gold)
    + Sum([id \in DOMAIN d.auctions |-> d.auctions[id].bid + d.auctions[id].deposit])
    + Sum([m \in d.mails |-> m.gold])

\* Units of characters, in auctions and in mails.
Units(d) ==
    Sum(d.inv) + Sum([id \in DOMAIN d.auctions |-> d.auctions[id].units])
    + Sum([m \in d.mails |-> m.units])

(***************************************************************************)
(* In every state that the database goes through, and so after a crash at  *)
(* any moment, the gold of the characters, bids, deposits and mails is the *)
(* gold of the beginning without what the handlers take (cuts, deposits of *)
(* unsold items, postage, the part of a bid above a uint32) and with the   *)
(* deposits that HandleAuctionSellItem takes only after its transaction:   *)
(* a bid is sent back exactly once, a seller is paid exactly once, a mail  *)
(* is emptied once.  Not claimed once an auction that was settled at the   *)
(* start has been loaded as well, nor once an amount was not taken or      *)
(* given as it is: ModifyMoney with a converted or refused amount, the     *)
(* letter of a game master, a letter whose gold is no uint32, gold above   *)
(* MAX_MONEY_AMOUNT at a login.                                            *)
(***************************************************************************)
GoldAccounted ==
    ghosts = {} /\ ~altered =>
        \A i \in DOMAIN dbs :
            Held(dbs[i]) + dbs[i].burnt
                = Sum(StartGold) + dbs[i].regained + Sum(dbs[i].owed)

(***************************************************************************)
(* In every state of the database that owes nobody the units of an auction *)
(* settled without its item (WinnerGetsItem), each unit is in one          *)
(* inventory, auction or mail, except those of a stack whose transaction   *)
(* is executed before that of its auction.                                 *)
(***************************************************************************)
UnitsAccounted ==
    ghosts = {} =>
        \A i \in DOMAIN dbs :
            dbs[i].unsent = 0 =>
                Units(dbs[i]) + dbs[i].transit + dbs[i].lost = Sum(StartUnits)

(***************************************************************************)
(* A mail that a character has in memory is, as the statements write it,   *)
(* in the database as the queued transactions leave it: although           *)
(* HandleGetMailList reads past the queue it never finds gold or an item   *)
(* that was already taken out, whatever letters are sent.                  *)
(***************************************************************************)
LoadedMailsCurrent ==
    \A p \in Players :
        box[p].loaded => {Row(m) : m \in box[p].mails} \subseteq Database.mails


(***************************************************************************)
(* "Send the item to the winner and money to seller"                       *)
(* (DeleteExpiredAuctionsAtStartup): when an auction with a bidder is      *)
(* settled at the start of the server, a mail takes its units to him.      *)
(***************************************************************************)
WinnerGetsItem ==
    [][server = "expiring" =>
          \A id \in DOMAIN Database.auctions \ DOMAIN Database'.auctions :
              LET a == Database.auctions[id]
              IN  a.bidder # Nobody =>
                      \E m \in Database'.mails \ Database.mails :
                          m.to = a.bidder /\ m.units = a.units]_vars

=============================================================================
