------------------------ MODULE AuctionHouse_proofs ------------------------
(***************************************************************************)
(* Two results about AuctionHouse, for any characters, auctions, letters   *)
(* and bounds; the money of a letter may be any number.                    *)
(*                                                                         *)
(* The mails that characters have in memory: HandleGetMailList reads past  *)
(* the queue of the transactions and still never finds a mail that was     *)
(* emptied, because only the character itself empties its mails, and its   *)
(* login query goes through the queue.                                     *)
(*                                                                         *)
(* The gold and the units: every state that the database goes through is   *)
(* worth the same, because each transaction moves exactly what memory and  *)
(* database differ by, and what a crash loses was never written.           *)
(***************************************************************************)
EXTENDS AuctionHouse, FiniteSetTheorems, SequenceTheorems, TLAPS

\* The mails that a state of the database holds for a character.
MailsOf(d, p) == {m \in d.mails : m.to = p}

\* Mails as the statements write them.
Rows(mails) == {Row(m) : m \in mails}

IsFcn(f) == f = [x \in DOMAIN f |-> f[x]]

\* A mail: its money is a uint64, its COD was narrowed by the draft.
IsLetter(m) ==
    /\ IsFcn(m) /\ DOMAIN m = {"id", "to", "from", "gold", "units", "cod"}
    /\ m.id \in Nat /\ m.gold \in Nat /\ m.cod \in 0 .. UInt - 1

\* A draft is a mail without an id.
IsDraft(x) ==
    /\ DOMAIN x = {"to", "from", "gold", "units", "cod"}
    /\ x.gold \in Nat /\ x.cod \in 0 .. UInt - 1

Drafted(drafts) ==
    /\ Len(drafts) \in Nat /\ DOMAIN drafts = 1 .. Len(drafts)
    /\ \A i \in DOMAIN drafts : IsDraft(drafts[i])

\* A mail has an id of its own, below the next one.
Stored(mails, next) ==
    /\ \A m \in mails : IsLetter(m) /\ m.id < next
    /\ \A m, n \in mails : m.id = n.id => m = n

\* The money of a row is a uint32.
Narrow(mails) == \A m \in mails : m.gold < UInt

\* The prices of an auction are uint32.
HasPrices(a) ==
    /\ {"bidder", "bid"} \subseteq DOMAIN a
    /\ a.bid \in 0 .. UInt - 1 /\ a.buyout \in 0 .. UInt - 1 /\ a.deposit \in Nat

Priced(rows) == \A id \in DOMAIN rows : HasPrices(rows[id])

Tabled(d) == {"mails", "auctions"} \subseteq DOMAIN d /\ Priced(d.auctions)

WellKept(d, next) == Tabled(d) /\ Stored(d.mails, next) /\ Narrow(d.mails)

With(q, d) == q \o <<d>>
IsSeq(q) == q \in Seq({q[i] : i \in DOMAIN q})

\* The shape of the state, as far as mails depend on it.
Shape ==
    /\ nextMail \in Nat
    /\ IsSeq(dbs) /\ dbs # <<>>
    /\ \A i \in DOMAIN dbs : WellKept(dbs[i], nextMail)
    /\ Priced(auctions)
    /\ state \in [Players -> {"online", "offline", "loading"}]
    /\ behind \in [Players -> Nat]
    /\ DOMAIN box = Players
    /\ \A p \in Players : /\ DOMAIN box[p] = {"loaded", "mails"}
                          /\ Stored(box[p].mails, nextMail)

\* Only an online character has mails in memory, its own, and the rows of all
\* of them are in the database as the queue leaves it.
BoxCurrent(p) ==
    /\ box[p].loaded => state[p] = "online" /\ Rows(box[p].mails) \subseteq MailsOf(Database, p)
    /\ ~box[p].loaded => box[p].mails = {}

\* From the n-th state of the database on, no mail of p is taken out any more.
KeptFrom(p, n) ==
    \A i \in DOMAIN dbs : i >= n => MailsOf(dbs[i], p) \subseteq Database.mails

\* What is taken out of the mails of a character is taken out by the character
\* itself, and a login query waits until all of that is executed.
QueryCurrent(p) ==
    /\ state[p] = "online" /\ ~box[p].loaded => KeptFrom(p, 1)
    /\ state[p] = "loading" => behind[p] < Len(dbs) /\ KeptFrom(p, behind[p] + 1)

\* The inductive invariant.
IInv == Shape /\ \A p \in Players : BoxCurrent(p) /\ QueryCurrent(p)

-----------------------------------------------------------------------------
(* Numbers that a statement or the draft of a mail makes narrower.         *)

(***************************************************************************)
(* A remainder of a division by the number of values of a uint32.          *)
(***************************************************************************)
LEMMA Narrowed ==
  ASSUME NEW n \in Nat
  PROVE  n % UInt \in 0 .. UInt - 1 /\ (n < UInt => n % UInt = n)
  BY AuctionAssumption

\* The profit of an auction is a uint32.
LEMMA NarrowProfit ==
  ASSUME NEW a, HasPrices(a)
  PROVE  GetAuctionCut(a.bid) \in Int /\ Profit(a) \in 0 .. UInt - 1
  <1> DEFINE cut == GetAuctionCut(a.bid)
             profit == a.bid + a.deposit - cut
  <1>1. a.bid \in Int /\ a.deposit \in Int /\ CutPercent \in Int
    BY AuctionAssumption DEF HasPrices
  <1>2. cut \in Int
    <2>1. a.bid * CutPercent \in Int
      BY <1>1
    <2> QED
      BY <2>1 DEF GetAuctionCut
  <1>3. profit \in Int
    BY <1>1, <1>2
  <1> HIDE DEF profit, cut
  <1>4. UInt \in Nat \ {0}
    BY AuctionAssumption
  <1>5. profit % UInt \in 0 .. UInt - 1
    BY <1>3, <1>4
  <1> QED
    BY <1>2, <1>5 DEF Profit, profit, cut

(***************************************************************************)
(* The row of a mail is a mail; only its gold can differ.                  *)
(***************************************************************************)
LEMMA RowOf ==
  ASSUME NEW m, IsLetter(m)
  PROVE  /\ IsLetter(Row(m)) /\ Row(m).gold < UInt
         /\ Row(m).id = m.id /\ Row(m).to = m.to /\ Row(m).from = m.from
         /\ Row(m).units = m.units /\ Row(m).cod = m.cod
         /\ Row(m).gold = m.gold % UInt
         /\ m.gold < UInt => Row(m) = m
  <1> DEFINE g == m.gold % UInt
             c == m.cod % UInt
  <1>1. g \in 0 .. UInt - 1 /\ (m.gold < UInt => g = m.gold) /\ c = m.cod
    <2>1. m.gold \in Nat /\ m.cod \in Nat /\ m.cod < UInt
      BY AuctionAssumption DEF IsLetter
    <2> QED
      BY <2>1, Narrowed
  <1>2. UInt \in Nat /\ g \in Nat /\ g < UInt /\ m.cod \in 0 .. UInt - 1 /\ m.id \in Nat
    BY <1>1, AuctionAssumption DEF IsLetter
  <1>3. DOMAIN m = {"id", "to", "from", "gold", "units", "cod"}
    BY DEF IsLetter
  <1>4. Row(m) = [m EXCEPT !.gold = g, !.cod = c]
    BY DEF Row
  <1> HIDE DEF g, c
  <1>5. /\ DOMAIN Row(m) = {"id", "to", "from", "gold", "units", "cod"}
        /\ Row(m).id = m.id /\ Row(m).to = m.to /\ Row(m).from = m.from
        /\ Row(m).units = m.units /\ Row(m).cod = m.cod
        /\ Row(m).gold = g
    BY <1>1, <1>3, <1>4
  <1>6. ASSUME m.gold < UInt PROVE Row(m) = m
    <2>1. g = m.gold /\ c = m.cod
      BY <1>1, <1>6
    <2>2. m = [x \in {"id", "to", "from", "gold", "units", "cod"} |-> m[x]]
      BY <1>3 DEF IsLetter, IsFcn
    <2> QED
      BY <1>3, <1>4, <2>1, <2>2
  <1>7. IsFcn(Row(m))
    BY <1>3, <1>4 DEF IsFcn
  <1> QED
    BY <1>2, <1>5, <1>6, <1>7 DEF IsLetter, g

(***************************************************************************)
(* The rows of stored mails are stored and narrow.                         *)
(***************************************************************************)
LEMMA RowsStored ==
  ASSUME NEW B, NEW n, Stored(B, n)
  PROVE  /\ Stored(Rows(B), n) /\ Narrow(Rows(B))
         /\ Narrow(B) => Rows(B) = B
  <1>1. \A m \in B : /\ IsLetter(Row(m)) /\ Row(m).gold < UInt /\ Row(m).id = m.id
                     /\ m.gold < UInt => Row(m) = m
    BY RowOf DEF Stored
  <1>2. ASSUME NEW r \in Rows(B)
        PROVE  \E m \in B : /\ r = Row(m) /\ r.id = m.id
                            /\ IsLetter(r) /\ r.gold < UInt /\ r.id < n
    <2>1. PICK m \in B : r = Row(m)
      BY DEF Rows
    <2>2. m.id < n
      BY DEF Stored
    <2>3. IsLetter(r) /\ r.gold < UInt /\ r.id = m.id
      BY <1>1, <2>1
    <2> QED
      BY <2>1, <2>2, <2>3
  <1>3. Narrow(Rows(B))
    BY <1>2 DEF Narrow
  <1>4. \A r \in Rows(B) : IsLetter(r) /\ r.id < n
    BY <1>2
  <1>5. ASSUME NEW r \in Rows(B), NEW s \in Rows(B), r.id = s.id PROVE r = s
    <2>1. PICK m \in B : r = Row(m) /\ r.id = m.id
      BY <1>2
    <2>2. PICK k \in B : s = Row(k) /\ s.id = k.id
      BY <1>2
    <2>3. m = k
      BY <1>5, <2>1, <2>2 DEF Stored
    <2> QED
      BY <2>1, <2>2, <2>3
  <1>6. ASSUME Narrow(B) PROVE Rows(B) = B
    <2>1. \A m \in B : Row(m) = m
      BY <1>1, <1>6 DEF Narrow
    <2> QED
      BY <2>1 DEF Rows
  <1> QED
    BY <1>3, <1>4, <1>5, <1>6 DEF Stored

-----------------------------------------------------------------------------
(* The statements of the transactions, as far as the mails go.             *)

(***************************************************************************)
(* Statements about characters leave the mails alone.                      *)
(***************************************************************************)
LEMMA SaveKeepsMails ==
  ASSUME NEW d, Tabled(d), NEW p, NEW g, NEW n
  PROVE  /\ Tabled(SaveGold(d, p, g)) /\ SaveGold(d, p, g).mails = d.mails
         /\ Tabled(SaveInventoryAndGold(d, p, g, n))
         /\ SaveInventoryAndGold(d, p, g, n).mails = d.mails
  <1> DEFINE e == SaveGold(d, p, g)
  <1>1. Tabled(e) /\ e.mails = d.mails
    BY DEF SaveGold, Tabled
  <1>2. SaveInventoryAndGold(d, p, g, n) = [e EXCEPT !.inv[p] = n]
    BY DEF SaveInventoryAndGold
  <1> HIDE DEF e
  <1>3. Tabled([e EXCEPT !.inv[p] = n]) /\ [e EXCEPT !.inv[p] = n].mails = e.mails
    BY <1>1 DEF Tabled
  <1> QED
    BY <1>1, <1>2, <1>3 DEF e

(***************************************************************************)
(* The same for the rows of the auctions, whose prices are narrow.         *)
(***************************************************************************)
LEMMA AuctionsKeepMails ==
  ASSUME NEW d, Tabled(d), NEW id, NEW a, HasPrices(a)
  PROVE  /\ Tabled(InsertAuction(d, id, a)) /\ InsertAuction(d, id, a).mails = d.mails
         /\ Tabled(UpdateBid(d, id, a)) /\ UpdateBid(d, id, a).mails = d.mails
  <1>1. Tabled(InsertAuction(d, id, a)) /\ InsertAuction(d, id, a).mails = d.mails
    <2>1. Priced(WithRow(d.auctions, id, a))
      BY DEF WithRow, Priced, Tabled
    <2> QED
      BY <2>1 DEF InsertAuction, Tabled
  <1>2. Tabled(UpdateBid(d, id, a)) /\ UpdateBid(d, id, a).mails = d.mails
    <2> DEFINE x == [d.auctions[id] EXCEPT !.bidder = a.bidder]
               y == [x EXCEPT !.bid = a.bid]
               rows == [d.auctions EXCEPT ![id] = y]
    <2>1. CASE id \in DOMAIN d.auctions
      <3>1. HasPrices(d.auctions[id])
        BY <2>1 DEF Tabled, Priced
      <3>2. HasPrices(y)
        BY <3>1 DEF HasPrices
      <3>3. UpdateBid(d, id, a) = [d EXCEPT !.auctions = rows]
        BY <2>1 DEF UpdateBid
      <3> HIDE DEF y
      <3>4. Priced(rows)
        BY <3>2 DEF Priced, Tabled
      <3> HIDE DEF rows
      <3> QED
        BY <3>3, <3>4 DEF Tabled
    <2>2. CASE id \notin DOMAIN d.auctions
      BY <2>2 DEF UpdateBid
    <2> QED
      BY <2>1, <2>2
  <1> QED
    BY <1>1, <1>2

\* A row that is deleted leaves the mails and the other rows alone.
LEMMA DeleteKeepsMails ==
  ASSUME NEW d, Tabled(d), NEW id
  PROVE  Tabled(DeleteAuction(d, id)) /\ DeleteAuction(d, id).mails = d.mails
  BY DEF DeleteAuction, Tabled, Priced

(***************************************************************************)
(* The histories do not touch the mails.                                   *)
(***************************************************************************)
LEMMA HistoriesKeepMails ==
  ASSUME NEW d, Tabled(d), NEW x, NEW y
  PROVE  /\ Tabled([d EXCEPT !.burnt = x]) /\ [d EXCEPT !.burnt = x].mails = d.mails
         /\ Tabled([d EXCEPT !.owed[y] = x]) /\ [d EXCEPT !.owed[y] = x].mails = d.mails
  BY DEF Tabled

\* Nor does the split of a stack.
LEMMA SplitKeepsMails ==
  ASSUME NEW d, Tabled(d), NEW p, NEW n
  PROVE  Tabled(Split(d, p, n)) /\ Split(d, p, n).mails = d.mails
  BY DEF Split, Tabled

(***************************************************************************)
(* MailDraft::SendMailTo adds the rows of the drafts, and a settlement     *)
(* does so too.                                                            *)
(***************************************************************************)
LEMMA InsertsMails ==
  ASSUME NEW d, Tabled(d), NEW drafts, NEW id, NEW a, NEW hasItem
  PROVE  /\ Tabled(InsertMails(d, drafts))
         /\ InsertMails(d, drafts).mails = d.mails \cup Rows(Post(drafts))
         /\ Tabled(Settled(d, id, a, hasItem, drafts))
         /\ Settled(d, id, a, hasItem, drafts).mails = d.mails \cup Rows(Post(drafts))
  <1>1. /\ Tabled(InsertMails(d, drafts))
        /\ InsertMails(d, drafts).mails = d.mails \cup Rows(Post(drafts))
    BY DEF InsertMails, Rows, Tabled
  <1> DEFINE e == DeleteAuction(InsertMails(d, drafts), id)
  <1>2. Tabled(e) /\ e.mails = InsertMails(d, drafts).mails
    BY <1>1, DeleteKeepsMails
  <1> HIDE DEF e
  <1> DEFINE x == e.burnt + (IF a.bidder = Nobody THEN a.deposit
                             ELSE a.bid + a.deposit - Profit(a))
             y == e.unsent + (IF hasItem THEN 0 ELSE a.units)
  <1> HIDE DEF x, y
  <1>3. /\ Tabled([e EXCEPT !.burnt = x, !.unsent = y])
        /\ [e EXCEPT !.burnt = x, !.unsent = y].mails = e.mails
    BY <1>2 DEF Tabled
  <1>4. Settled(d, id, a, hasItem, drafts) = [e EXCEPT !.burnt = x, !.unsent = y]
    BY DEF Settled, e, x, y
  <1> QED
    BY <1>1, <1>2, <1>3, <1>4

(***************************************************************************)
(* A posted mail has the id of its draft, which no stored mail has; so has *)
(* its row.                                                                *)
(***************************************************************************)
LEMMA PostStored ==
  ASSUME NEW B, nextMail \in Nat, Stored(B, nextMail), NEW drafts, Drafted(drafts)
  PROVE  /\ Stored(B \cup Post(drafts), nextMail + Len(drafts))
         /\ Stored(Post(drafts), nextMail + Len(drafts))
         /\ Stored(B \cup Rows(Post(drafts)), nextMail + Len(drafts))
         /\ Narrow(Rows(Post(drafts)))
         /\ nextMail + Len(drafts) \in Nat /\ nextMail + Len(drafts) >= nextMail
  <1> DEFINE L == Len(drafts)
             P == Post(drafts)
             M(i) == Stamped(drafts[i], nextMail + i - 1)
  <1>0. L \in Nat /\ DOMAIN drafts = 1 .. L
    BY DEF Drafted
  <1>1. \A i \in 1 .. L : IsLetter(M(i)) /\ M(i).id = nextMail + i - 1
    BY <1>0 DEF Stamped, Drafted, IsDraft, IsLetter, IsFcn
  <1>2. \A m \in P : \E i \in 1 .. L : m = M(i)
    BY <1>0 DEF Post
  <1> HIDE DEF L, P, M
  <1>3. \A m \in P : /\ IsLetter(m)
                     /\ m.id \in Nat /\ m.id >= nextMail /\ m.id < nextMail + L
    BY <1>0, <1>1, <1>2
  <1>4. \A m, n \in P : m.id = n.id => m = n
    <2> SUFFICES ASSUME NEW m \in P, NEW n \in P, m.id = n.id PROVE m = n
      OBVIOUS
    <2>1. PICK i \in 1 .. L : m = M(i)
      BY <1>2
    <2>2. PICK j \in 1 .. L : n = M(j)
      BY <1>2
    <2>3. nextMail + i - 1 = nextMail + j - 1
      BY <1>1, <2>1, <2>2
    <2>4. i = j
      BY <1>0, <2>3
    <2> QED
      BY <2>1, <2>2, <2>4
  <1>5. Stored(P, nextMail + L)
    BY <1>3, <1>4 DEF Stored
  <1>6. /\ Stored(Rows(P), nextMail + L) /\ Narrow(Rows(P))
        /\ \A r \in Rows(P) : r.id \in Nat /\ r.id >= nextMail
    <2>1. \A r \in Rows(P) : r.id \in Nat /\ r.id >= nextMail
      BY <1>3, RowOf DEF Rows
    <2> QED
      BY <1>5, <2>1, RowsStored
  <1>7. ASSUME NEW Q, Stored(Q, nextMail + L), \A r \in Q : r.id \in Nat /\ r.id >= nextMail
        PROVE  Stored(B \cup Q, nextMail + L)
    <2>1. \A m \in B : IsLetter(m) /\ m.id \in Nat /\ m.id < nextMail
      BY DEF Stored, IsLetter
    <2>2. \A m \in B : m.id < nextMail + L
      BY <1>0, <2>1
    <2>3. \A m \in B, n \in Q : m.id # n.id
      BY <1>7, <2>1
    <2> QED
      BY <1>7, <2>1, <2>2, <2>3 DEF Stored
  <1>8. Stored(B \cup P, nextMail + L) /\ Stored(B \cup Rows(P), nextMail + L)
    BY <1>3, <1>5, <1>6, <1>7
  <1>9. nextMail + L \in Nat /\ nextMail + L >= nextMail
    BY <1>0
  <1> QED
    BY <1>5, <1>6, <1>8, <1>9 DEF L, P

(***************************************************************************)
(* A later id is still above all mails, and so are fewer mails below it.   *)
(***************************************************************************)
LEMMA StoredLater ==
  ASSUME NEW B, NEW n \in Nat, NEW k \in Nat, n <= k, Stored(B, n), NEW C, C \subseteq B
  PROVE  Stored(C, k)
  BY DEF Stored, IsLetter

(***************************************************************************)
(* UPDATE and DELETE by id: the row of one mail changes, all others stay.  *)
(***************************************************************************)
Replaced(B, id, new) == {IF y.id = id THEN new ELSE y : y \in B}

\* One mail of a stored set changes, the others stay.
LEMMA ReplaceOne ==
  ASSUME NEW B, NEW n, Stored(B, n), NEW m \in B, NEW new, IsLetter(new), new.id = m.id
  PROVE  /\ Stored(Replaced(B, m.id, new), n)
         /\ new \in Replaced(B, m.id, new)
         /\ \A x \in B : x # m => x \in Replaced(B, m.id, new)
         /\ \A x \in Replaced(B, m.id, new) : x = new \/ (x \in B /\ x # m)
         /\ Replaced(B, m.id, new) = (B \ {m}) \cup {new}
  <1>1. \A x \in B : x.id = m.id <=> x = m
    BY DEF Stored
  <1>2. Replaced(B, m.id, new) = (B \ {m}) \cup {new}
    BY <1>1 DEF Replaced
  <1>3. Stored((B \ {m}) \cup {new}, n)
    BY <1>1 DEF Stored
  <1> QED
    BY <1>2, <1>3

(***************************************************************************)
(* The mails C of a character and rows B that hold those of all of them.   *)
(***************************************************************************)
Mirrored(B, C, n, p) ==
    /\ Stored(B, n) /\ Narrow(B) /\ Stored(C, n) /\ Rows(C) \subseteq B
    /\ \A x \in C : x.to = p

\* What is not addressed to p stays.
OthersStay(B, D, p) == \A x \in B : x.to # p => x \in D

(***************************************************************************)
(* The same change of a mail in memory and of its row.                     *)
(***************************************************************************)
LEMMA ReplaceBoth ==
  ASSUME NEW B, NEW C, NEW n, NEW p, Mirrored(B, C, n, p),
         NEW m, m \in C, NEW new, IsLetter(new), new.id = m.id, new.to = m.to,
         NEW D, D = Replaced(B, m.id, Row(new)), NEW E, E = Replaced(C, m.id, new)
  PROVE  /\ Mirrored(D, E, n, p) /\ OthersStay(B, D, p)
         /\ D = (B \ {Row(m)}) \cup {Row(new)}
         /\ E = (C \ {m}) \cup {new}
  <1>0. /\ Stored(B, n) /\ Narrow(B) /\ Stored(C, n) /\ Rows(C) \subseteq B
        /\ \A x \in C : x.to = p
    BY DEF Mirrored
  <1>1. IsLetter(m) /\ Row(m) \in B /\ Row(m).id = m.id /\ Row(m).to = m.to
    BY <1>0, RowOf DEF Stored, Rows
  <1>2. IsLetter(Row(new)) /\ Row(new).id = m.id /\ Row(new).gold < UInt
    BY RowOf
  <1>3. /\ Stored(D, n) /\ Row(new) \in D
        /\ \A x \in B : x # Row(m) => x \in D
        /\ \A x \in D : x = Row(new) \/ (x \in B /\ x # Row(m))
        /\ D = (B \ {Row(m)}) \cup {Row(new)}
    BY <1>0, <1>1, <1>2, ReplaceOne
  <1>4. /\ Stored(E, n)
        /\ \A x \in E : x = new \/ (x \in C /\ x # m)
        /\ E = (C \ {m}) \cup {new}
    BY <1>0, ReplaceOne
  <1>5. Narrow(D)
    BY <1>0, <1>2, <1>3 DEF Narrow
  <1>6. ASSUME NEW x \in E PROVE Row(x) \in D
    <2>1. CASE x = new
      BY <1>3, <2>1
    <2>2. CASE x \in C /\ x # m
      <3>1. Row(x) \in B /\ Row(x).id = x.id /\ x.id # m.id
        BY <1>0, <2>2, RowOf DEF Stored, Rows
      <3> QED
        BY <1>1, <1>3, <3>1
    <2> QED
      BY <1>4, <2>1, <2>2
  <1>7. Rows(E) \subseteq D
    BY <1>6 DEF Rows
  <1>8. OthersStay(B, D, p)
    BY <1>0, <1>1, <1>3 DEF OthersStay
  <1>9. \A x \in E : x.to = p
    BY <1>0, <1>4
  <1> QED
    BY <1>3, <1>4, <1>5, <1>7, <1>8, <1>9 DEF Mirrored

\* DeleteMail takes one mail and its row out and leaves the others.
LEMMA DeleteBoth ==
  ASSUME NEW B, NEW C, NEW n, NEW p, Mirrored(B, C, n, p), NEW m, m \in C,
         NEW D, D = DeleteMail(B, m), NEW E, E = DeleteMail(C, m)
  PROVE  /\ Mirrored(D, E, n, p) /\ OthersStay(B, D, p)
         /\ D = B \ {Row(m)}
  <1>0. /\ Stored(B, n) /\ Narrow(B) /\ Stored(C, n) /\ Rows(C) \subseteq B
        /\ \A x \in C : x.to = p
    BY DEF Mirrored
  <1>1. IsLetter(m) /\ Row(m) \in B /\ Row(m).id = m.id /\ Row(m).to = m.to
    BY <1>0, RowOf DEF Stored, Rows
  <1>2. \A x \in B : x.id = m.id <=> x = Row(m)
    BY <1>0, <1>1 DEF Stored
  <1>3. D = B \ {Row(m)}
    BY <1>2 DEF DeleteMail
  <1>4. Stored(D, n) /\ Narrow(D) /\ OthersStay(B, D, p)
    BY <1>0, <1>1, <1>3 DEF Stored, Narrow, OthersStay
  <1>5. E \subseteq C /\ Stored(E, n)
    BY <1>0 DEF DeleteMail, Stored
  <1>6. ASSUME NEW x \in E PROVE Row(x) \in D
    <2>1. x \in C /\ x.id # m.id
      BY DEF DeleteMail
    <2>2. Row(x) \in B /\ Row(x).id = x.id
      BY <1>0, <2>1, RowOf DEF Stored, Rows
    <2> QED
      BY <1>1, <1>3, <2>1, <2>2
  <1> QED
    BY <1>0, <1>3, <1>4, <1>5, <1>6 DEF Rows, Mirrored

-----------------------------------------------------------------------------
(* The queue of the transactions.                                          *)

(***************************************************************************)
(* A sequence of anything is a sequence of its own elements.               *)
(***************************************************************************)
LEMMA SequenceOf ==
  ASSUME NEW T, NEW r, r \in Seq(T)
  PROVE  IsSeq(r)
  <1> DEFINE R == {r[i] : i \in DOMAIN r}
  <1>1. /\ Len(r) \in Nat /\ DOMAIN r = 1 .. Len(r)
        /\ \A i \in 1 .. Len(r) : r[i] \in R
    OBVIOUS
  <1> HIDE DEF R
  <1>2. r \in Seq(R)
    BY <1>1
  <1> QED
    BY <1>2 DEF R, IsSeq

(***************************************************************************)
(* A committed transaction is the last state of the database; the earlier  *)
(* ones stay.                                                              *)
(***************************************************************************)
LEMMA CommitOne ==
  ASSUME NEW q, IsSeq(q), q # <<>>, NEW d, NEW r, r = With(q, d)
  PROVE  /\ IsSeq(r) /\ r # <<>>
         /\ Len(q) \in Nat /\ Len(r) = Len(q) + 1
         /\ DOMAIN q = 1 .. Len(q) /\ DOMAIN r = 1 .. Len(r)
         /\ \A i \in DOMAIN q : i \in DOMAIN r /\ r[i] = q[i]
         /\ \A i \in DOMAIN r : i \in DOMAIN q \/ r[i] = d
         /\ Last(q) = q[Len(q)] /\ Len(q) \in DOMAIN q
         /\ Last(r) = d
  <1> DEFINE S == {q[i] : i \in DOMAIN q}
             T == S \cup {d}
  <1>1. q \in Seq(T) /\ <<d>> \in Seq(T) /\ q \in Seq(S)
    <2>1. q \in Seq(S)
      BY DEF IsSeq
    <2>2. S \subseteq T
      OBVIOUS
    <2> HIDE DEF S
    <2>3. q \in Seq(T)
      BY <2>1, <2>2
    <2> QED
      BY <2>1, <2>3
  <1> HIDE DEF S, T
  <1>2. Len(q) \in Nat /\ DOMAIN q = 1 .. Len(q) /\ Len(q) # 0
    BY <1>1
  <1>3. r \in Seq(T) /\ Len(r) = Len(q) + 1
    BY <1>1 DEF With
  <1>4. DOMAIN r = 1 .. Len(r)
    BY <1>3
  <1>5. \A i \in 1 .. Len(q) : r[i] = q[i]
    BY <1>1 DEF With
  <1>6. r[Len(q) + 1] = d
    BY <1>1 DEF With
  <1>7. IsSeq(r)
    <2> DEFINE R == {r[i] : i \in DOMAIN r}
    <2>1. \A i \in 1 .. Len(r) : r[i] \in R
      BY <1>4
    <2> HIDE DEF R
    <2>2. r \in Seq(R)
      BY <1>3, <2>1
    <2> QED
      BY <2>2 DEF R, IsSeq
  <1>8. Last(r) = d /\ Last(q) = q[Len(q)]
    BY <1>3, <1>6 DEF Last
  <1>9. \A i \in DOMAIN r : i \in DOMAIN q \/ i = Len(q) + 1
    BY <1>2, <1>3, <1>4
  <1> QED
    BY <1>2, <1>3, <1>4, <1>5, <1>6, <1>7, <1>8, <1>9

(***************************************************************************)
(* The states of the database after a commit, one of several transactions  *)
(* with the same mails included: the last is d.                            *)
(***************************************************************************)
Extends(q, r, d) ==
    /\ IsSeq(r) /\ r # <<>>
    /\ Len(r) \in Nat /\ Len(r) >= Len(q)
    /\ \A i \in DOMAIN r : \/ i \in DOMAIN q /\ r[i] = q[i]
                           \/ Tabled(r[i]) /\ r[i].mails = d.mails
    /\ Last(r) = d

(***************************************************************************)
(* Commit of one transaction.                                              *)
(***************************************************************************)
LEMMA ExtendsOne ==
  ASSUME NEW q, IsSeq(q), q # <<>>, NEW d, Tabled(d)
  PROVE  Extends(q, q \o <<d>>, d)
  <1> DEFINE r == With(q, d)
  <1>1. r = With(q, d)
    OBVIOUS
  <1> HIDE DEF r
  <1>2. /\ IsSeq(r) /\ r # <<>>
        /\ Len(q) \in Nat /\ Len(r) = Len(q) + 1
        /\ \A i \in DOMAIN q : i \in DOMAIN r /\ r[i] = q[i]
        /\ \A i \in DOMAIN r : i \in DOMAIN q \/ r[i] = d
        /\ Last(r) = d
    BY <1>1, CommitOne
  <1>3. Len(r) \in Nat /\ Len(r) >= Len(q)
    BY <1>2
  <1>4. ASSUME NEW i \in DOMAIN r
        PROVE  \/ i \in DOMAIN q /\ r[i] = q[i]
               \/ Tabled(r[i]) /\ r[i].mails = d.mails
    BY <1>2, Zenon
  <1>5. Extends(q, r, d)
    BY <1>2, <1>3, <1>4, Zenon DEF Extends
  <1> QED
    BY <1>5 DEF r, With

(***************************************************************************)
(* Several transactions: the splits of stacks go before the auction.       *)
(***************************************************************************)
LEMMA CommitMany ==
  ASSUME NEW q, IsSeq(q), q # <<>>, NEW f, NEW n \in Nat, IsFcn(f), DOMAIN f = 1 .. n,
         NEW d, NEW r, r = q \o Append(f, d)
  PROVE  /\ IsSeq(r) /\ r # <<>>
         /\ Len(q) \in Nat /\ Len(r) = Len(q) + n + 1
         /\ \A i \in DOMAIN r : \/ i \in DOMAIN q /\ r[i] = q[i]
                                \/ r[i] = d
                                \/ \E j \in 1 .. n : r[i] = f[j]
         /\ Last(r) = d
  <1> DEFINE S == {q[i] : i \in DOMAIN q}
             F == {f[i] : i \in 1 .. n}
             T == S \cup F \cup {d}
             s == Append(f, d)
  <1>1. S \subseteq T /\ F \subseteq T /\ d \in T
    OBVIOUS
  <1>2. q \in Seq(S)
    BY DEF IsSeq
  <1>3. f = [i \in 1 .. n |-> f[i]] /\ \A i \in 1 .. n : f[i] \in F
    BY DEF IsFcn
  <1> HIDE DEF S, F, T
  <1>4. q \in Seq(T) /\ Len(q) \in Nat /\ DOMAIN q = 1 .. Len(q)
    BY <1>1, <1>2
  <1>5. f \in [1 .. n -> T]
    BY <1>1, <1>3
  <1>6. f \in Seq(T) /\ Len(f) = n
    BY <1>5
  <1>7. /\ s \in Seq(T) /\ Len(s) = n + 1 /\ s[n + 1] = d
        /\ \A j \in 1 .. n : s[j] = f[j]
    BY <1>1, <1>6
  <1> HIDE DEF s
  <1>8. r = q \o s
    BY DEF s
  <1>9. /\ r \in Seq(T) /\ Len(r) = Len(q) + (n + 1)
        /\ \A i \in 1 .. Len(q) : r[i] = q[i]
        /\ \A j \in 1 .. n + 1 : r[Len(q) + j] = s[j]
    <2> DEFINE k == n + 1
    <2>1. s \in Seq(T) /\ Len(s) = k
      BY <1>7
    <2> HIDE DEF k
    <2>2. r \in Seq(T) /\ Len(r) = Len(q) + k
      <3>1. q \o s \in Seq(T)
        BY <1>4, <2>1
      <3>2. Len(q \o s) = Len(q) + Len(s)
        BY <1>4, <2>1, ConcatProperties
      <3> QED
        BY <1>8, <2>1, <3>1, <3>2
    <2>3. \A i \in 1 .. Len(q) : r[i] = q[i]
      BY <1>4, <1>8, <2>1
    <2>4. \A j \in 1 .. k : r[Len(q) + j] = s[j]
      BY <1>4, <1>8, <2>1
    <2> QED
      BY <2>2, <2>3, <2>4 DEF k
  <1>10. DOMAIN r = 1 .. Len(q) + (n + 1) /\ IsSeq(r)
    <2>1. DOMAIN r = 1 .. Len(r)
      BY <1>9
    <2> QED
      BY <1>9, <2>1, SequenceOf
  <1>11. r[Len(q) + (n + 1)] = d
    BY <1>7, <1>9
  <1>12. Last(r) = d /\ r # <<>>
    BY <1>4, <1>9, <1>11 DEF Last
  <1>13. ASSUME NEW i \in DOMAIN r
         PROVE  \/ i \in DOMAIN q /\ r[i] = q[i]
                \/ r[i] = d
                \/ \E j \in 1 .. n : r[i] = f[j]
    <2>1. CASE i \in 1 .. Len(q)
      BY <1>4, <1>9, <2>1
    <2>2. CASE i \notin 1 .. Len(q)
      <3>1. /\ i \in Int /\ i - Len(q) \in 1 .. n + 1
            /\ i = Len(q) + (i - Len(q))
        BY <1>4, <1>10, <2>2
      <3>2. r[i] = s[i - Len(q)]
        BY <1>9, <3>1
      <3>3. CASE i - Len(q) = n + 1
        BY <1>7, <3>2, <3>3
      <3>4. CASE i - Len(q) \in 1 .. n
        BY <1>7, <3>2, <3>4
      <3> QED
        BY <3>1, <3>3, <3>4
    <2> QED
      BY <2>1, <2>2
  <1>14. Len(r) = Len(q) + n + 1
    BY <1>4, <1>9
  <1> QED
    BY <1>4, <1>10, <1>12, <1>13, <1>14

\* The states of the database after such a commit.
LEMMA ExtendsMany ==
  ASSUME NEW q, IsSeq(q), q # <<>>, NEW f, NEW n \in Nat, IsFcn(f), DOMAIN f = 1 .. n,
         NEW d, Tabled(d), \A j \in 1 .. n : Tabled(f[j]) /\ f[j].mails = d.mails
  PROVE  Extends(q, q \o Append(f, d), d)
  <1> DEFINE r == q \o Append(f, d)
  <1>1. /\ IsSeq(r) /\ r # <<>>
        /\ Len(q) \in Nat /\ Len(r) = Len(q) + n + 1
        /\ \A i \in DOMAIN r : \/ i \in DOMAIN q /\ r[i] = q[i]
                               \/ r[i] = d
                               \/ \E j \in 1 .. n : r[i] = f[j]
        /\ Last(r) = d
    BY CommitMany
  <1> HIDE DEF r
  <1>2. Len(r) \in Nat /\ Len(r) >= Len(q)
    BY <1>1
  <1>3. ASSUME NEW i \in DOMAIN r
        PROVE  \/ i \in DOMAIN q /\ r[i] = q[i]
               \/ Tabled(r[i]) /\ r[i].mails = d.mails
    BY <1>1
  <1>4. Extends(q, r, d)
    BY <1>1, <1>2, <1>3, Zenon DEF Extends
  <1> QED
    BY <1>4 DEF r

(***************************************************************************)
(* A character that leaves its own mails alone, while others commit: what  *)
(* is stored for it only grows, and its query may still read any of it.    *)
(***************************************************************************)
LEMMA QueryStaysCurrent ==
  ASSUME Shape, NEW q \in Players, QueryCurrent(q),
         Len(dbs') \in Nat, Len(dbs') >= Len(dbs),
         \A i \in DOMAIN dbs' : \/ i \in DOMAIN dbs /\ dbs'[i] = dbs[i]
                                \/ MailsOf(dbs'[i], q) \subseteq Database'.mails,
         MailsOf(Database, q) \subseteq Database'.mails,
         state'[q] = state[q], behind'[q] = behind[q], box'[q].loaded = box[q].loaded
  PROVE  QueryCurrent(q)'
  <1>1. ASSUME NEW n, KeptFrom(q, n) PROVE KeptFrom(q, n)'
    <2> SUFFICES ASSUME NEW i \in DOMAIN dbs', i >= n
                 PROVE  MailsOf(dbs'[i], q) \subseteq Database'.mails
      BY DEF KeptFrom
    <2>1. CASE i \in DOMAIN dbs /\ dbs'[i] = dbs[i]
      <3>1. MailsOf(dbs[i], q) \subseteq MailsOf(Database, q)
        BY <1>1, <2>1 DEF KeptFrom, MailsOf
      <3> QED
        BY <2>1, <3>1
    <2> QED
      BY <2>1
  <1>2. Len(dbs) \in Nat /\ behind[q] \in Nat
    BY DEF Shape
  <1>3. state[q] = "online" /\ ~box[q].loaded => KeptFrom(q, 1)'
    BY <1>1 DEF QueryCurrent
  <1>4. state[q] = "loading" => behind[q] < Len(dbs') /\ KeptFrom(q, behind[q] + 1)'
    <2> SUFFICES ASSUME state[q] = "loading"
                 PROVE  behind[q] < Len(dbs') /\ KeptFrom(q, behind[q] + 1)'
      OBVIOUS
    <2> DEFINE k == behind[q]
    <2>1. k < Len(dbs) /\ KeptFrom(q, k + 1)
      BY DEF QueryCurrent
    <2>2. k < Len(dbs')
      BY <1>2, <2>1
    <2>3. behind'[q] = k
      OBVIOUS
    <2> HIDE DEF k
    <2>4. KeptFrom(q, k + 1)'
      <3> SUFFICES ASSUME NEW i \in DOMAIN dbs', i >= behind'[q] + 1
                   PROVE  MailsOf(dbs'[i], q) \subseteq Database'.mails
        BY DEF KeptFrom, k
      <3>1. CASE i \in DOMAIN dbs /\ dbs'[i] = dbs[i]
        <4>1. MailsOf(dbs[i], q) \subseteq MailsOf(Database, q)
          BY <2>1, <2>3, <3>1 DEF KeptFrom, MailsOf
        <4> QED
          BY <3>1, <4>1
      <3> QED
        BY <3>1
    <2> QED
      BY <2>2, <2>4 DEF k
  <1> QED
    BY <1>3, <1>4 DEF QueryCurrent, KeptFrom

(***************************************************************************)
(* The invariant after one transaction, character by character: the rows   *)
(* of the mails stay well kept, and what a character has loaded is in them.*)
(***************************************************************************)
LEMMA AfterCommit ==
  ASSUME IInv, NEW d, Extends(dbs, dbs', d),
         nextMail' \in Nat, nextMail' >= nextMail, WellKept(d, nextMail'),
         Priced(auctions'),
         state' \in [Players -> {"online", "offline", "loading"}],
         behind' = behind,
         DOMAIN box' = Players,
         \A q \in Players : /\ DOMAIN box'[q] = {"loaded", "mails"}
                            /\ Stored(box'[q].mails, nextMail'),
         \A q \in Players :
             /\ box'[q].loaded => /\ state'[q] = "online"
                                  /\ Rows(box'[q].mails) \subseteq MailsOf(d, q)
             /\ ~box'[q].loaded => box'[q].mails = {},
         \A q \in Players :
             \/ /\ state'[q] = state[q] /\ box'[q].loaded = box[q].loaded
                /\ MailsOf(Database, q) \subseteq d.mails
             \/ box'[q].loaded
             \/ state'[q] = "offline"
  PROVE  IInv'
  <1>1. Shape
    BY DEF IInv
  <1>2. Database' = d
    BY DEF Database, Extends
  <1>3. \A i \in DOMAIN dbs' : WellKept(dbs'[i], nextMail')
    <2> SUFFICES ASSUME NEW i \in DOMAIN dbs' PROVE WellKept(dbs'[i], nextMail')
      OBVIOUS
    <2>1. CASE i \in DOMAIN dbs /\ dbs'[i] = dbs[i]
      <3>1. WellKept(dbs[i], nextMail)
        BY <1>1, <2>1 DEF Shape
      <3>2. WellKept(dbs[i], nextMail')
        BY <1>1, <3>1, StoredLater DEF WellKept, Shape
      <3> QED
        BY <2>1, <3>2
    <2>2. CASE Tabled(dbs'[i]) /\ dbs'[i].mails = d.mails
      BY <2>2 DEF WellKept
    <2> QED
      BY <2>1, <2>2 DEF Extends
  <1>4. Shape'
    BY <1>1, <1>3 DEF Shape, Extends
  <1>5. ASSUME NEW q \in Players PROVE BoxCurrent(q)' /\ QueryCurrent(q)'
    <2>1. BoxCurrent(q)'
      BY <1>2 DEF BoxCurrent, MailsOf
    <2>2. CASE /\ state'[q] = state[q] /\ box'[q].loaded = box[q].loaded
               /\ MailsOf(Database, q) \subseteq d.mails
      <3>1. QueryCurrent(q)
        BY DEF IInv
      <3>2. \A i \in DOMAIN dbs' : \/ i \in DOMAIN dbs /\ dbs'[i] = dbs[i]
                                   \/ MailsOf(dbs'[i], q) \subseteq Database'.mails
        BY <1>2 DEF MailsOf, Extends
      <3>3. Len(dbs') \in Nat /\ Len(dbs') >= Len(dbs)
        BY DEF Extends
      <3> QED
        BY <1>1, <1>2, <2>1, <2>2, <3>1, <3>2, <3>3, QueryStaysCurrent
    <2>3. CASE box'[q].loaded
      BY <2>1, <2>3 DEF QueryCurrent, BoxCurrent
    <2>4. CASE state'[q] = "offline"
      BY <2>1, <2>4 DEF QueryCurrent
    <2> QED
      BY <2>2, <2>3, <2>4
  <1> QED
    BY <1>4, <1>5 DEF IInv

(***************************************************************************)
(* The database that the handlers build their transactions on.             *)
(***************************************************************************)
LEMMA DatabaseKept ==
  ASSUME Shape
  PROVE  /\ IsSeq(dbs) /\ dbs # <<>>
         /\ WellKept(Database, nextMail) /\ Tabled(Database)
         /\ Stored(Database.mails, nextMail) /\ Narrow(Database.mails)
         /\ Priced(Database.auctions) /\ Priced(auctions)
         /\ Len(dbs) \in Nat /\ DOMAIN dbs = 1 .. Len(dbs) /\ Len(dbs) \in DOMAIN dbs
         /\ Database = dbs[Len(dbs)]
         /\ nextMail \in Nat
  <1>1. IsSeq(dbs) /\ dbs # <<>> /\ nextMail \in Nat /\ Priced(auctions)
    BY DEF Shape
  <1>2. /\ Last(dbs) = dbs[Len(dbs)] /\ Len(dbs) \in DOMAIN dbs
        /\ Len(dbs) \in Nat /\ DOMAIN dbs = 1 .. Len(dbs)
    BY <1>1, CommitOne
  <1>3. WellKept(Database, nextMail) /\ Database = dbs[Len(dbs)]
    BY <1>2 DEF Shape, Database
  <1> QED
    BY <1>1, <1>2, <1>3 DEF WellKept, Tabled

(***************************************************************************)
(* A transaction that only adds the rows of drafts, and the boxes of       *)
(* Deliver: every loaded character sees its new mails at once.             *)
(***************************************************************************)
LEMMA Delivered ==
  ASSUME IInv, NEW d, Tabled(d), Extends(dbs, dbs', d),
         NEW drafts, Drafted(drafts),
         d.mails = Database.mails \cup Rows(Post(drafts)),
         Deliver(box, drafts), UNCHANGED <<state, behind>>, Priced(auctions')
  PROVE  IInv'
  <1>1. Shape /\ nextMail \in Nat
    BY DEF IInv, Shape
  <1>2. Stored(Database.mails, nextMail) /\ Narrow(Database.mails)
    BY <1>1, DatabaseKept
  <1>3. /\ box' = Boxes(box, drafts)
        /\ nextMail' = nextMail + Len(drafts)
    BY DEF Deliver
  <1>4. nextMail' \in Nat /\ nextMail' >= nextMail
    BY <1>1, <1>2, <1>3, PostStored
  <1>5. WellKept(d, nextMail')
    BY <1>1, <1>2, <1>3, PostStored DEF WellKept, Narrow
  <1>6. DOMAIN box' = Players
    BY <1>3 DEF Boxes
  <1>7. ASSUME NEW q \in Players
        PROVE  /\ DOMAIN box'[q] = {"loaded", "mails"}
               /\ Stored(box'[q].mails, nextMail')
               /\ box'[q].loaded = box[q].loaded
               /\ box'[q].loaded => /\ state'[q] = "online"
                                    /\ Rows(box'[q].mails) \subseteq MailsOf(d, q)
               /\ ~box'[q].loaded => box'[q].mails = {}
    <2>1. DOMAIN box[q] = {"loaded", "mails"} /\ Stored(box[q].mails, nextMail)
      BY <1>1 DEF Shape
    <2>2. /\ box[q].loaded => /\ state[q] = "online"
                              /\ Rows(box[q].mails) \subseteq MailsOf(Database, q)
          /\ ~box[q].loaded => box[q].mails = {}
      BY DEF IInv, BoxCurrent
    <2>3. CASE state[q] = "online" /\ box[q].loaded
      <3> DEFINE N == {m \in Post(drafts) : m.to = q}
      <3>1. box'[q] = [box[q] EXCEPT !.mails = box[q].mails \cup N]
        BY <1>3, <2>3 DEF Boxes
      <3>2. Rows(N) \subseteq MailsOf(d, q)
        <4>1. ASSUME NEW m \in N PROVE Row(m) \in MailsOf(d, q)
          <5>1. IsLetter(m)
            BY <1>1, <2>1, PostStored DEF Stored
          <5>2. Row(m).to = q
            BY <5>1, RowOf
          <5> QED
            BY <5>2 DEF MailsOf, Rows
        <4> QED
          BY <4>1 DEF Rows
      <3>3. MailsOf(Database, q) \subseteq MailsOf(d, q)
        BY DEF MailsOf
      <3>4. Stored(box[q].mails \cup N, nextMail')
        <4>1. Stored(box[q].mails \cup Post(drafts), nextMail')
          BY <1>1, <1>3, <2>1, PostStored
        <4> QED
          BY <1>4, <4>1, StoredLater
      <3> HIDE DEF N
      <3>5. /\ DOMAIN box'[q] = {"loaded", "mails"}
            /\ box'[q].loaded = box[q].loaded
            /\ box'[q].mails = box[q].mails \cup N
        BY <2>1, <3>1
      <3>6. Rows(box'[q].mails) \subseteq MailsOf(d, q)
        BY <2>2, <2>3, <3>2, <3>3, <3>5 DEF Rows
      <3> QED
        BY <2>3, <3>4, <3>5, <3>6
    <2>4. CASE ~(state[q] = "online" /\ box[q].loaded)
      <3>1. box'[q] = box[q]
        BY <1>3, <2>4 DEF Boxes
      <3>2. Stored(box[q].mails, nextMail')
        BY <1>1, <1>4, <2>1, StoredLater
      <3> QED
        BY <2>1, <2>2, <2>4, <3>1, <3>2
    <2> QED
      BY <2>3, <2>4
  <1>8. \A q \in Players : MailsOf(Database, q) \subseteq d.mails
    BY DEF MailsOf
  <1>9. state' \in [Players -> {"online", "offline", "loading"}]
    BY <1>1 DEF Shape
  <1> QED
    BY <1>4, <1>5, <1>6, <1>7, <1>8, <1>9, AfterCommit

(***************************************************************************)
(* A transaction that leaves the mails alone.                              *)
(***************************************************************************)
LEMMA MailsUntouched ==
  ASSUME IInv, NEW d, Tabled(d), Extends(dbs, dbs', d),
         d.mails = Database.mails, Priced(auctions'),
         UNCHANGED <<nextMail, behind, box>>,
         state' = state
  PROVE  IInv'
  <1>1. Shape
    BY DEF IInv
  <1>2. WellKept(d, nextMail)
    BY <1>1, DatabaseKept DEF WellKept
  <1>3. nextMail \in Nat
    BY <1>1 DEF Shape
  <1>4. \A q \in Players :
          /\ box[q].loaded => /\ state[q] = "online"
                              /\ Rows(box[q].mails) \subseteq MailsOf(d, q)
          /\ ~box[q].loaded => box[q].mails = {}
    BY DEF IInv, BoxCurrent, MailsOf
  <1>5. \A q \in Players : MailsOf(Database, q) \subseteq d.mails
    BY DEF MailsOf
  <1> QED
    BY <1>1, <1>2, <1>3, <1>4, <1>5, AfterCommit DEF Shape

-----------------------------------------------------------------------------
(* The handlers.                                                           *)

(***************************************************************************)
(* The drafts of a handler.                                                *)
(***************************************************************************)
LEMMA MailDrafted ==
  ASSUME NEW to, NEW from, NEW g \in Nat, NEW n, NEW cod \in 0 .. UInt - 1
  PROVE  IsDraft(Mail(to, from, g, n, cod))
  BY DEF Mail, IsDraft

\* A mail of the auction house: no COD.
LEMMA AuctionDrafted ==
  ASSUME NEW to, NEW g \in 0 .. UInt - 1, NEW n
  PROVE  IsDraft(Mail(to, Nobody, g, n, 0))
  <1>1. g \in Nat /\ 0 \in 0 .. UInt - 1
    BY AuctionAssumption
  <1> QED
    BY <1>1, MailDrafted

\* No draft, or one.
LEMMA FewDrafts ==
  ASSUME NEW x, IsDraft(x)
  PROVE  Drafted(<< >>) /\ Drafted(<<x>>)
  BY DEF Drafted

(***************************************************************************)
(* A set of drafts, of which a handler sends one after the other.          *)
(***************************************************************************)
LEMMA DraftsJoined ==
  ASSUME NEW S, \A x \in S : IsDraft(x), NEW q \in Seq(S)
  PROVE  Drafted(q)
  BY DEF Drafted

\* The mails of the auction house, one or two at a time.
LEMMA OutbiddedDrafts ==
  ASSUME NEW a, HasPrices(a), NEW p
  PROVE  Drafted(Outbidded(a, p))
  <1> DEFINE x == Mail(a.bidder, Nobody, a.bid, 0, 0)
  <1>1. IsDraft(x)
    BY AuctionDrafted DEF HasPrices
  <1>2. Outbidded(a, p) = << >> \/ Outbidded(a, p) = <<x>>
    BY DEF Outbidded
  <1> HIDE DEF x
  <1>3. Drafted(<< >>) /\ Drafted(<<x>>)
    BY <1>1, FewDrafts
  <1> QED
    BY <1>2, <1>3, Zenon

(***************************************************************************)
(* The mails that settle an auction, as a sequence over its drafts.        *)
(***************************************************************************)
SettlementMails(a) ==
    {Mail(a.owner, Nobody, 0, a.units, 0), Mail(a.owner, Nobody, Profit(a), 0, 0),
     Mail(a.bidder, Nobody, 0, a.units, 0)}

\* They are drafts of the auction house.
LEMMA SettlementSequence ==
  ASSUME NEW a, HasPrices(a), NEW hasItem
  PROVE  /\ Settlement(a, hasItem) \in Seq(SettlementMails(a))
         /\ \A x \in SettlementMails(a) : IsDraft(x)
  <1> DEFINE x == Mail(a.owner, Nobody, 0, a.units, 0)
             y == Mail(a.owner, Nobody, Profit(a), 0, 0)
             z == Mail(a.bidder, Nobody, 0, a.units, 0)
             S == {x, y, z}
  <1>1. IsDraft(x) /\ IsDraft(y) /\ IsDraft(z)
    <2>1. Profit(a) \in 0 .. UInt - 1 /\ 0 \in 0 .. UInt - 1
      BY NarrowProfit, AuctionAssumption
    <2> QED
      BY <2>1, AuctionDrafted
  <1>2. S = SettlementMails(a)
    BY DEF SettlementMails
  <1>3. /\ ItemMail(a.owner, a, hasItem) = << >> \/ ItemMail(a.owner, a, hasItem) = <<x>>
        /\ ItemMail(a.bidder, a, hasItem) = << >> \/ ItemMail(a.bidder, a, hasItem) = <<z>>
        /\ \/ Settlement(a, hasItem) = ItemMail(a.owner, a, hasItem)
           \/ Settlement(a, hasItem) = <<y>> \o ItemMail(a.bidder, a, hasItem)
    BY DEF ItemMail, Settlement
  <1>4. x \in S /\ y \in S /\ z \in S
    OBVIOUS
  <1>5. \A w \in S : IsDraft(w)
    BY <1>1
  <1> HIDE DEF x, y, z, S
  <1>6. << >> \in Seq(S) /\ <<x>> \in Seq(S) /\ <<y>> \in Seq(S) /\ <<z>> \in Seq(S)
    BY <1>4
  <1>7. /\ ItemMail(a.owner, a, hasItem) \in Seq(S)
        /\ ItemMail(a.bidder, a, hasItem) \in Seq(S)
    BY <1>3, <1>6, Zenon
  <1>8. <<y>> \o ItemMail(a.bidder, a, hasItem) \in Seq(S)
    BY <1>6, <1>7
  <1>9. Settlement(a, hasItem) \in Seq(S)
    BY <1>3, <1>7, <1>8, Zenon
  <1> QED
    BY <1>2, <1>5, <1>9

\* The mails of a settled auction.
LEMMA SettlementDrafts ==
  ASSUME NEW a, HasPrices(a), NEW hasItem
  PROVE  Drafted(Settlement(a, hasItem))
  BY SettlementSequence, DraftsJoined

\* So are those of a buyout, the mail to the outbid bidder before them.
LEMMA BuyoutDrafts ==
  ASSUME NEW a, HasPrices(a), NEW b, HasPrices(b), NEW p, NEW hasItem
  PROVE  Drafted(Outbidded(a, p) \o SalePending(b) \o Settlement(b, hasItem))
  <1> DEFINE x == Mail(a.bidder, Nobody, a.bid, 0, 0)
             y == Mail(b.owner, Nobody, 0, 0, 0)
             M == SettlementMails(b)
             S == {x, y} \cup M
  <1>1. IsDraft(x) /\ IsDraft(y)
    <2>1. a.bid \in 0 .. UInt - 1 /\ 0 \in 0 .. UInt - 1
      BY AuctionAssumption DEF HasPrices
    <2> QED
      BY <2>1, AuctionDrafted
  <1>2. Outbidded(a, p) = << >> \/ Outbidded(a, p) = <<x>>
    BY DEF Outbidded
  <1>3. SalePending(b) = <<y>>
    BY DEF SalePending
  <1>4. Settlement(b, hasItem) \in Seq(M) /\ \A w \in M : IsDraft(w)
    BY SettlementSequence
  <1>5. x \in S /\ y \in S /\ M \subseteq S /\ \A w \in S : IsDraft(w)
    BY <1>1, <1>4
  <1> HIDE DEF x, y, S, M
  <1>6. << >> \in Seq(S) /\ <<x>> \in Seq(S) /\ <<y>> \in Seq(S)
    BY <1>5
  <1>7. Outbidded(a, p) \in Seq(S) /\ SalePending(b) \in Seq(S)
    BY <1>2, <1>3, <1>6, Zenon
  <1>8. Settlement(b, hasItem) \in Seq(S)
    BY <1>4, <1>5
  <1>9. Outbidded(a, p) \o SalePending(b) \in Seq(S)
    BY <1>7
  <1>10. (Outbidded(a, p) \o SalePending(b)) \o Settlement(b, hasItem) \in Seq(S)
    BY <1>8, <1>9
  <1> QED
    BY <1>5, <1>10, DraftsJoined

\* And those of a cancelled auction.
LEMMA CancellationDrafts ==
  ASSUME NEW a, HasPrices(a)
  PROVE  Drafted(Cancellation(a))
  <1> DEFINE x == Mail(a.bidder, Nobody, a.bid, 0, 0)
             y == Mail(a.owner, Nobody, 0, a.units, 0)
             S == {x, y}
  <1>1. x \in S /\ y \in S
    OBVIOUS
  <1>2. \A w \in S : IsDraft(w)
    <2>1. a.bid \in 0 .. UInt - 1 /\ 0 \in 0 .. UInt - 1
      BY AuctionAssumption DEF HasPrices
    <2> QED
      BY <2>1, AuctionDrafted
  <1>3. Outbidded(a, Nobody) = << >> \/ Outbidded(a, Nobody) = <<x>>
    BY DEF Outbidded
  <1>4. Cancellation(a) = Outbidded(a, Nobody) \o <<y>>
    BY DEF Cancellation
  <1> HIDE DEF x, y, S
  <1>5. Outbidded(a, Nobody) \in Seq(S)
    <2>1. << >> \in Seq(S) /\ <<x>> \in Seq(S)
      BY <1>1
    <2> QED
      BY <1>3, <2>1, Zenon
  <1>6. <<y>> \in Seq(S)
    BY <1>1
  <1>7. Cancellation(a) \in Seq(S)
    BY <1>4, <1>5, <1>6
  <1> QED
    BY <1>2, <1>7, DraftsJoined

(***************************************************************************)
(* The prices of the auctions in memory stay uint32.                       *)
(***************************************************************************)
LEMMA PricesKept ==
  ASSUME NEW rows, Priced(rows), NEW id, NEW a, HasPrices(a)
  PROVE  /\ Priced(WithRow(rows, id, a))
         /\ Priced([rows EXCEPT ![id] = a])
         /\ Priced([i \in DOMAIN rows \ {id} |-> rows[i]])
  BY DEF Priced, WithRow

\* An auction that ends is removed from them.
LEMMA RemovedPriced ==
  ASSUME NEW id, Priced(auctions), RemoveAuction(id)
  PROVE  Priced(auctions')
  BY DEF RemoveAuction, Priced

\* A bid below the buyout, and the buyout.
LEMMA BidPriced ==
  ASSUME NEW a, HasPrices(a), NEW p, NEW price \in Nat
  PROVE  /\ HasPrices([a EXCEPT !.bidder = p, !.bid = price % UInt])
         /\ HasPrices([a EXCEPT !.bidder = p, !.bid = a.buyout])
  <1> DEFINE n == price % UInt
  <1>1. n \in 0 .. UInt - 1 /\ a.buyout \in 0 .. UInt - 1
    BY Narrowed DEF HasPrices
  <1> HIDE DEF n
  <1>2. HasPrices([a EXCEPT !.bidder = p, !.bid = n])
    BY <1>1 DEF HasPrices
  <1>3. HasPrices([a EXCEPT !.bidder = p, !.bid = a.buyout])
    BY <1>1 DEF HasPrices
  <1> QED
    BY <1>2, <1>3 DEF n

(***************************************************************************)
(* HandleAuctionSellItem: the splits of the stacks, and the auction, leave *)
(* the mails alone.                                                        *)
(***************************************************************************)
LEMMA SellKeeps ==
  ASSUME IInv, NEW p, NEW counts \in Counts, NEW bid \in StartBids, NEW buyout \in Buyouts,
         HandleAuctionSellItem(p, counts, bid, buyout)
  PROVE  IInv'
  <1> DEFINE id == nextAuction
             a == NewAuction(p, Sum(counts), bid, buyout)
             f == Splits(p, counts)
             k == Len(counts)
             row == InsertAuction(Database, id, a)
             saved == SaveInventoryAndGold(row, a.owner, gold[a.owner], inv[a.owner] - a.units)
             last == Listed(id, a)
  <1>1. /\ Tabled(Database) /\ IsSeq(dbs) /\ dbs # <<>> /\ Priced(auctions)
    BY DatabaseKept DEF IInv
  <1>2. HasPrices(a)
    <2>1. buyout % UInt \in 0 .. UInt - 1
      <3>1. buyout \in Nat
        BY AuctionAssumption
      <3> QED
        BY <3>1, Narrowed
    <2>2. 0 \in 0 .. UInt - 1 /\ Deposit \in Nat
      BY AuctionAssumption
    <2> QED
      BY <2>1, <2>2 DEF HasPrices, NewAuction
  <1>3. /\ \/ dbs' = dbs \o <<last>>
           \/ dbs' = dbs \o Append(f, last)
        /\ auctions' = WithRow(auctions, id, a)
        /\ UNCHANGED <<nextMail, behind, box, state>>
    BY DEF HandleAuctionSellItem, Commit
  <1>4. k \in Nat
    BY AuctionAssumption
  <1>5. IsFcn(f) /\ DOMAIN f = 1 .. k
    BY DEF Splits, IsFcn
  <1>6. \A j \in 1 .. k : Tabled(f[j]) /\ f[j].mails = Database.mails
    BY <1>1, SplitKeepsMails DEF Splits
  <1> HIDE DEF a, f, k
  <1>7. Tabled(row) /\ row.mails = Database.mails
    BY <1>1, <1>2, AuctionsKeepMails
  <1> HIDE DEF row
  <1>8. Tabled(saved) /\ saved.mails = row.mails
    BY <1>7, SaveKeepsMails
  <1>9. last = [saved EXCEPT !.owed[a.owner] = Deposit]
    BY DEF Listed, row
  <1> HIDE DEF saved, last
  <1>10. Tabled(last) /\ last.mails = Database.mails
    BY <1>7, <1>8, <1>9, HistoriesKeepMails
  <1>11. Priced(auctions')
    BY <1>1, <1>2, <1>3, PricesKept
  <1>12. Extends(dbs, dbs', last)
    <2>1. CASE dbs' = dbs \o <<last>>
      BY <1>1, <1>10, <2>1, ExtendsOne
    <2>2. CASE dbs' = dbs \o Append(f, last)
      <3>1. \A j \in 1 .. k : Tabled(f[j]) /\ f[j].mails = last.mails
        BY <1>6, <1>10
      <3>2. Extends(dbs, dbs \o Append(f, last), last)
        BY <1>1, <1>4, <1>5, <1>10, <3>1, ExtendsMany
      <3> QED
        BY <2>2, <3>2
    <2> QED
      BY <1>3, <2>1, <2>2
  <1> QED
    BY <1>3, <1>10, <1>11, <1>12, MailsUntouched

\* HandleAuctionPlaceBid, a bid: the outbid bidder gets his gold by mail.
LEMMA BidKeeps ==
  ASSUME IInv, NEW p, NEW id \in DOMAIN auctions, NEW price \in Prices, Bid(p, id, price)
  PROVE  IInv'
  <1> DEFINE a == auctions[id]
             b == [a EXCEPT !.bidder = p, !.bid = price % UInt]
             drafts == Outbidded(a, p)
             sent == InsertMails(Database, drafts)
             d == UpdateBid(sent, id, b)
             saved == SaveInventoryAndGold(d, p, gold'[p], inv[p])
             last == [saved EXCEPT !.burnt = @ + price - (price % UInt)]
  <1>1. Tabled(Database) /\ IsSeq(dbs) /\ dbs # <<>> /\ Priced(auctions)
    BY DatabaseKept DEF IInv
  <1>2. HasPrices(a) /\ price \in Nat
    BY <1>1, AuctionAssumption DEF Priced
  <1>3. HasPrices(b)
    BY <1>2, BidPriced
  <1>4. /\ dbs' = dbs \o <<last>>
        /\ auctions' = [auctions EXCEPT ![id] = b]
        /\ Deliver(box, drafts)
        /\ UNCHANGED <<state, behind>>
    BY DEF Bid, Commit
  <1>5. Drafted(drafts)
    BY <1>2, OutbiddedDrafts
  <1> HIDE DEF drafts, b
  <1>6. Tabled(sent) /\ sent.mails = Database.mails \cup Rows(Post(drafts))
    BY <1>1, InsertsMails
  <1> HIDE DEF sent
  <1>7. Tabled(d) /\ d.mails = sent.mails
    BY <1>3, <1>6, AuctionsKeepMails
  <1> HIDE DEF d
  <1>8. Tabled(saved) /\ saved.mails = d.mails
    BY <1>7, SaveKeepsMails
  <1> HIDE DEF saved
  <1>9. Tabled(last) /\ last.mails = saved.mails
    BY <1>8, HistoriesKeepMails
  <1> HIDE DEF last
  <1>10. Extends(dbs, dbs', last)
    BY <1>1, <1>4, <1>9, ExtendsOne
  <1>11. Priced(auctions')
    BY <1>1, <1>3, <1>4, PricesKept
  <1> QED
    BY <1>4, <1>5, <1>6, <1>7, <1>8, <1>9, <1>10, <1>11, Delivered

\* HandleAuctionPlaceBid, a buyout: the auction is settled at once.
LEMMA BuyoutKeeps ==
  ASSUME IInv, NEW p, NEW id \in DOMAIN auctions, NEW price \in Prices, Buyout(p, id, price)
  PROVE  IInv'
  <1> DEFINE a == auctions[id]
             b == [a EXCEPT !.bidder = p, !.bid = a.buyout]
             drafts == Outbidded(a, p) \o SalePending(b) \o Settlement(b, id \in aitems)
             d == Settled(Database, id, b, id \in aitems, drafts)
             last == SaveInventoryAndGold(d, p, gold'[p], inv[p])
  <1>1. Tabled(Database) /\ IsSeq(dbs) /\ dbs # <<>> /\ Priced(auctions)
    BY DatabaseKept DEF IInv
  <1>2. HasPrices(a) /\ price \in Nat
    BY <1>1, AuctionAssumption DEF Priced
  <1>3. HasPrices(b)
    BY <1>2, BidPriced
  <1>4. /\ dbs' = dbs \o <<last>>
        /\ Deliver(box, drafts)
        /\ UNCHANGED <<state, behind>>
        /\ RemoveAuction(id)
    BY DEF Buyout, Commit
  <1> HIDE DEF b
  <1>5. Drafted(drafts)
    BY <1>2, <1>3, BuyoutDrafts
  <1> HIDE DEF drafts
  <1>6. Tabled(d) /\ d.mails = Database.mails \cup Rows(Post(drafts))
    BY <1>1, InsertsMails
  <1> HIDE DEF d
  <1>7. Tabled(last) /\ last.mails = d.mails
    BY <1>6, SaveKeepsMails
  <1> HIDE DEF last
  <1>8. Extends(dbs, dbs', last)
    BY <1>1, <1>4, <1>7, ExtendsOne
  <1>9. Priced(auctions')
    BY <1>1, <1>4, RemovedPriced
  <1> QED
    BY <1>4, <1>5, <1>6, <1>7, <1>8, <1>9, Delivered

\* HandleAuctionRemoveItem: the item and the last bid go back by mail.
LEMMA RemoveItemKeeps ==
  ASSUME IInv, NEW p, NEW id \in DOMAIN auctions, HandleAuctionRemoveItem(p, id)
  PROVE  IInv'
  <1> DEFINE a == auctions[id]
             cut == IF a.bidder = Nobody THEN 0 ELSE GetAuctionCut(a.bid)
             drafts == Cancellation(a)
             sent == InsertMails(Database, drafts)
             d == DeleteAuction(sent, id)
             saved == SaveInventoryAndGold(d, p, gold'[p], inv[p])
             last == [saved EXCEPT !.burnt = @ + cut + a.deposit]
  <1>1. Tabled(Database) /\ IsSeq(dbs) /\ dbs # <<>> /\ Priced(auctions)
    BY DatabaseKept DEF IInv
  <1>2. HasPrices(a)
    BY <1>1 DEF Priced
  <1>3. /\ dbs' = dbs \o <<last>>
        /\ Deliver(box, drafts)
        /\ UNCHANGED <<state, behind>>
        /\ RemoveAuction(id)
    BY DEF HandleAuctionRemoveItem, Commit
  <1>4. Drafted(drafts)
    BY <1>2, CancellationDrafts
  <1> HIDE DEF drafts
  <1>5. Tabled(sent) /\ sent.mails = Database.mails \cup Rows(Post(drafts))
    BY <1>1, InsertsMails
  <1> HIDE DEF sent
  <1>6. Tabled(d) /\ d.mails = sent.mails
    BY <1>5, DeleteKeepsMails
  <1> HIDE DEF d
  <1>7. Tabled(saved) /\ saved.mails = d.mails
    BY <1>6, SaveKeepsMails
  <1> HIDE DEF saved, cut
  <1>8. Tabled(last) /\ last.mails = saved.mails
    BY <1>7, HistoriesKeepMails
  <1> HIDE DEF last
  <1>9. Extends(dbs, dbs', last)
    BY <1>1, <1>3, <1>8, ExtendsOne
  <1>10. Priced(auctions')
    BY <1>1, <1>3, RemovedPriced
  <1> QED
    BY <1>3, <1>4, <1>5, <1>6, <1>7, <1>8, <1>9, <1>10, Delivered

\* HandleSendMail: one mail of one player to another, whatever its money.
LEMMA SendMailKeeps ==
  ASSUME IInv, NEW p, NEW q, NEW l \in Letters, HandleSendMail(p, q, l)
  PROVE  IInv'
  <1> DEFINE n == IF l.withUnits THEN inv[p] ELSE 0
             cod == l.cod % UInt
             drafts == <<Mail(q, p, l.gold, n, cod)>>
             sent == InsertMails(Database, drafts)
             saved == SaveInventoryAndGold(sent, p, gold'[p], inv[p] - n)
             last == [saved EXCEPT !.burnt = @ + MailCost]
  <1>1. Tabled(Database) /\ IsSeq(dbs) /\ dbs # <<>> /\ Priced(auctions)
    BY DatabaseKept DEF IInv
  <1>2. /\ dbs' = dbs \o <<last>>
        /\ Deliver(box, drafts)
        /\ UNCHANGED <<state, behind, auctions>>
    BY DEF HandleSendMail, Commit
  <1>3. Drafted(drafts)
    <2>1. l.gold \in Nat /\ cod \in 0 .. UInt - 1
      BY AuctionAssumption, Narrowed
    <2> HIDE DEF n, cod
    <2> QED
      BY <2>1, MailDrafted, FewDrafts
  <1> HIDE DEF drafts
  <1>4. Tabled(sent) /\ sent.mails = Database.mails \cup Rows(Post(drafts))
    BY <1>1, InsertsMails
  <1> HIDE DEF sent
  <1>5. Tabled(saved) /\ saved.mails = sent.mails
    BY <1>4, SaveKeepsMails
  <1> HIDE DEF saved
  <1>6. Tabled(last) /\ last.mails = saved.mails
    BY <1>5, HistoriesKeepMails
  <1> HIDE DEF last
  <1>7. Extends(dbs, dbs', last)
    BY <1>1, <1>2, <1>6, ExtendsOne
  <1>8. Priced(auctions')
    BY <1>1, <1>2
  <1> QED
    BY <1>2, <1>3, <1>4, <1>5, <1>6, <1>7, <1>8, Delivered

(***************************************************************************)
(* AuctionHouseObject::Update and the start of the server settle an        *)
(* auction: its mails are added.                                           *)
(***************************************************************************)
LEMMA SettleKeeps ==
  ASSUME IInv, NEW id, NEW a, HasPrices(a), NEW hasItem,
         dbs' = dbs \o <<Settled(Database, id, a, hasItem, Settlement(a, hasItem))>>,
         Deliver(box, Settlement(a, hasItem)), UNCHANGED <<state, behind>>,
         Priced(auctions')
  PROVE  IInv'
  <1> DEFINE drafts == Settlement(a, hasItem)
             d == Settled(Database, id, a, hasItem, drafts)
  <1>1. Tabled(Database) /\ IsSeq(dbs) /\ dbs # <<>>
    BY DatabaseKept DEF IInv
  <1>2. Drafted(drafts)
    BY SettlementDrafts
  <1>3. dbs' = dbs \o <<d>> /\ Deliver(box, drafts)
    OBVIOUS
  <1> HIDE DEF drafts
  <1>4. Tabled(d) /\ d.mails = Database.mails \cup Rows(Post(drafts))
    BY <1>1, InsertsMails
  <1> HIDE DEF d
  <1>5. Extends(dbs, dbs', d)
    BY <1>1, <1>3, <1>4, ExtendsOne
  <1> QED
    BY <1>2, <1>3, <1>4, <1>5, Delivered

\* Auctions that run out, in AuctionHouseObject::Update and at the start.
LEMMA UpdateKeeps ==
  ASSUME IInv, NEW id,
         (id \in DOMAIN auctions /\ Update(id)) \/ DeleteExpiredAuctionsAtStartup(id)
  PROVE  IInv'
  <1>0. Priced(auctions) /\ Priced(Database.auctions)
    BY DatabaseKept DEF IInv
  <1>1. CASE id \in DOMAIN auctions /\ Update(id)
    <2> DEFINE a == auctions[id]
               hasItem == id \in aitems
    <2>1. /\ dbs' = dbs \o <<Settled(Database, id, a, hasItem, Settlement(a, hasItem))>>
          /\ Deliver(box, Settlement(a, hasItem)) /\ UNCHANGED <<state, behind>>
          /\ RemoveAuction(id)
      BY <1>1 DEF Update, Commit
    <2>2. HasPrices(a) /\ Priced(auctions')
      BY <1>0, <1>1, <2>1, RemovedPriced DEF Priced
    <2> HIDE DEF a, hasItem
    <2> QED
      BY <2>1, <2>2, SettleKeeps
  <1>2. CASE DeleteExpiredAuctionsAtStartup(id)
    <2> DEFINE a == Database.auctions[id]
               hasItem == id \in aitems
    <2>1. /\ dbs' = dbs \o <<Settled(Database, id, a, hasItem, Settlement(a, hasItem))>>
          /\ Deliver(box, Settlement(a, hasItem)) /\ UNCHANGED <<state, behind, auctions>>
          /\ id \in DOMAIN Database.auctions
      BY <1>2 DEF DeleteExpiredAuctionsAtStartup, Commit, Overdue
    <2>2. HasPrices(a) /\ Priced(auctions')
      BY <1>0, <2>1 DEF Priced
    <2> HIDE DEF a, hasItem
    <2> QED
      BY <2>1, <2>2, SettleKeeps
  <1> QED
    BY <1>1, <1>2

(***************************************************************************)
(* The boxes after a mail operation of p that leaves it the mails C, and   *)
(* after the delivery of drafts.                                           *)
(***************************************************************************)
BoxAfter(p, C, drafts, q) ==
    /\ DOMAIN box'[q] = {"loaded", "mails"}
    /\ box'[q].loaded = box[q].loaded
    /\ box'[q].mails \subseteq (IF q = p THEN C ELSE box[q].mails)
                               \cup {x \in Post(drafts) : x.to = q}
    /\ ~(state[q] = "online" /\ box[q].loaded) =>
          box'[q].mails = (IF q = p THEN C ELSE box[q].mails)

(***************************************************************************)
(* Changing the mails of one box keeps the shape of all.                   *)
(***************************************************************************)
LEMMA BoxChanged ==
  ASSUME Shape, NEW p \in Players, NEW C, NEW q \in Players
  PROVE  LET current == [box EXCEPT ![p].mails = C]
         IN  /\ DOMAIN current = Players
             /\ DOMAIN current[q] = {"loaded", "mails"}
             /\ current[q].loaded = box[q].loaded
             /\ current[q].mails = IF q = p THEN C ELSE box[q].mails
  <1>1. DOMAIN box = Players /\ DOMAIN box[q] = {"loaded", "mails"}
    BY DEF Shape
  <1>2. CASE q = p
    <2> DEFINE b == [box[p] EXCEPT !.mails = C]
    <2>1. [box EXCEPT ![p].mails = C][q] = b
      BY <1>1, <1>2
    <2>2. DOMAIN b = {"loaded", "mails"} /\ b.loaded = box[p].loaded /\ b.mails = C
      BY <1>1, <1>2
    <2> HIDE DEF b
    <2>3. DOMAIN [box EXCEPT ![p].mails = C] = Players
      BY <1>1
    <2> QED
      BY <1>2, <2>1, <2>2, <2>3
  <1>3. CASE q # p
    <2>1. [box EXCEPT ![p].mails = C][q] = box[q]
      BY <1>1, <1>3
    <2>2. DOMAIN [box EXCEPT ![p].mails = C] = Players
      BY <1>1
    <2> QED
      BY <1>1, <1>3, <2>1, <2>2
  <1> QED
    BY <1>2, <1>3

(***************************************************************************)
(* A delivery after such a change.                                         *)
(***************************************************************************)
LEMMA BoxDelivered ==
  ASSUME Shape, NEW p \in Players, NEW C, NEW drafts,
         box' = Boxes([box EXCEPT ![p].mails = C], drafts)
  PROVE  DOMAIN box' = Players /\ \A q \in Players : BoxAfter(p, C, drafts, q)
  <1> DEFINE current == [box EXCEPT ![p].mails = C]
  <1>1. DOMAIN box' = Players
    BY DEF Boxes
  <1>2. ASSUME NEW q \in Players PROVE BoxAfter(p, C, drafts, q)
    <2> DEFINE N == {x \in Post(drafts) : x.to = q}
               now == current[q]
               new == [now EXCEPT !.mails = @ \cup N]
    <2>1. /\ DOMAIN now = {"loaded", "mails"}
          /\ now.loaded = box[q].loaded
          /\ now.mails = IF q = p THEN C ELSE box[q].mails
      BY BoxChanged
    <2>2. \/ box'[q] = new /\ state[q] = "online" /\ now.loaded
          \/ box'[q] = now
      BY DEF Boxes
    <2> HIDE DEF now, N
    <2>3. /\ DOMAIN new = {"loaded", "mails"}
          /\ new.loaded = now.loaded
          /\ new.mails = now.mails \cup N
      BY <2>1
    <2> HIDE DEF new
    <2>4. /\ DOMAIN box'[q] = {"loaded", "mails"}
          /\ box'[q].loaded = box[q].loaded
          /\ box'[q].mails \subseteq now.mails \cup N
          /\ ~(state[q] = "online" /\ box[q].loaded) => box'[q].mails = now.mails
      BY <2>1, <2>2, <2>3
    <2> QED
      BY <2>1, <2>4 DEF BoxAfter, N
  <1> QED
    BY <1>1, <1>2

(***************************************************************************)
(* A mail operation of p: its transaction changes the rows of mails of p,  *)
(* and p's mails in memory alike, and may post drafts.  Everybody else's   *)
(* mails stay.                                                             *)
(***************************************************************************)
LEMMA MailStep ==
  ASSUME IInv, NEW p \in Players, box[p].loaded,
         NEW B, NEW C, Mirrored(B, C, nextMail, p), OthersStay(Database.mails, B, p),
         NEW drafts, Drafted(drafts),
         NEW d, Tabled(d), Extends(dbs, dbs', d),
         d.mails = B \cup Rows(Post(drafts)),
         nextMail' = nextMail + Len(drafts),
         UNCHANGED <<state, behind, auctions>>,
         DOMAIN box' = Players, \A q \in Players : BoxAfter(p, C, drafts, q)
  PROVE  IInv'
  <1>0. /\ Stored(B, nextMail) /\ Narrow(B) /\ Stored(C, nextMail) /\ Rows(C) \subseteq B
        /\ \A x \in C : x.to = p
        /\ \A x \in Database.mails : x.to # p => x \in B
    BY DEF Mirrored, OthersStay
  <1> USE <1>0
  <1>1. Shape /\ nextMail \in Nat
    BY DEF IInv, Shape
  <1>2. nextMail' \in Nat /\ nextMail' >= nextMail
    BY <1>1, PostStored
  <1>3. WellKept(d, nextMail')
    BY <1>1, PostStored DEF WellKept, Narrow
  <1>4. ASSUME NEW S, NEW q, Stored(S, nextMail), Rows(S) \subseteq MailsOf(d, q)
        PROVE  LET T == S \cup {x \in Post(drafts) : x.to = q}
               IN  Stored(T, nextMail') /\ Rows(T) \subseteq MailsOf(d, q)
    <2> DEFINE N == {x \in Post(drafts) : x.to = q}
    <2>1. Stored(S \cup N, nextMail')
      <3>1. Stored(S \cup Post(drafts), nextMail')
        BY <1>1, <1>4, PostStored
      <3> QED
        BY <1>2, <3>1, StoredLater
    <2>2. ASSUME NEW m \in N PROVE Row(m) \in MailsOf(d, q)
      <3>1. IsLetter(m)
        BY <2>1 DEF Stored
      <3>2. Row(m).to = q
        BY <3>1, RowOf
      <3> QED
        BY <3>2 DEF MailsOf, Rows
    <2>3. Rows(S \cup N) \subseteq MailsOf(d, q)
      BY <1>4, <2>2 DEF Rows
    <2> QED
      BY <2>1, <2>3
  <1>5. ASSUME NEW q \in Players
        PROVE  /\ DOMAIN box'[q] = {"loaded", "mails"}
               /\ Stored(box'[q].mails, nextMail')
               /\ box'[q].loaded = box[q].loaded
               /\ box'[q].loaded => /\ state'[q] = "online"
                                    /\ Rows(box'[q].mails) \subseteq MailsOf(d, q)
               /\ ~box'[q].loaded => box'[q].mails = {}
    <2> DEFINE S == IF q = p THEN C ELSE box[q].mails
               T == S \cup {x \in Post(drafts) : x.to = q}
    <2>1. /\ DOMAIN box'[q] = {"loaded", "mails"}
          /\ box'[q].loaded = box[q].loaded
          /\ box'[q].mails \subseteq T
          /\ ~(state[q] = "online" /\ box[q].loaded) => box'[q].mails = S
      BY DEF BoxAfter
    <2>2. /\ box[q].loaded => /\ state[q] = "online"
                              /\ Rows(box[q].mails) \subseteq MailsOf(Database, q)
          /\ ~box[q].loaded => box[q].mails = {}
      BY DEF IInv, BoxCurrent
    <2>3. Stored(S, nextMail)
      BY <1>1 DEF Shape
    <2>4. CASE box[q].loaded
      <3>1. Rows(S) \subseteq MailsOf(d, q)
        <4>1. CASE q = p
          <5>1. \A x \in C : Row(x) \in d.mails /\ Row(x).to = q
            BY <4>1, RowOf DEF Rows, Stored
          <5> QED
            BY <4>1, <5>1 DEF MailsOf, Rows
        <4>2. CASE q # p
          <5>1. MailsOf(Database, q) \subseteq MailsOf(d, q)
            BY <4>2 DEF MailsOf
          <5> QED
            BY <2>2, <2>4, <4>2, <5>1
        <4> QED
          BY <4>1, <4>2
      <3> HIDE DEF S
      <3>2. Stored(T, nextMail') /\ Rows(T) \subseteq MailsOf(d, q)
        BY <1>4, <2>3, <3>1
      <3> HIDE DEF T
      <3>3. Stored(box'[q].mails, nextMail') /\ Rows(box'[q].mails) \subseteq MailsOf(d, q)
        BY <1>2, <2>1, <3>2, StoredLater DEF Rows
      <3> QED
        BY <2>1, <2>2, <2>4, <3>3
    <2>5. CASE ~box[q].loaded
      <3>1. q # p /\ box'[q].mails = {}
        BY <2>1, <2>2, <2>5
      <3>2. Stored({}, nextMail')
        BY DEF Stored
      <3> QED
        BY <2>1, <2>5, <3>1, <3>2
    <2> QED
      BY <2>4, <2>5
  <1>6. ASSUME NEW q \in Players
        PROVE  box'[q].loaded \/ MailsOf(Database, q) \subseteq d.mails
    <2>1. CASE q = p
      BY <1>5, <2>1
    <2>2. CASE q # p
      BY <2>2 DEF MailsOf
    <2> QED
      BY <2>1, <2>2
  <1>7. /\ state' \in [Players -> {"online", "offline", "loading"}] /\ behind' = behind
        /\ Priced(auctions')
    BY <1>1 DEF Shape
  <1> QED
    BY <1>2, <1>3, <1>5, <1>6, <1>7, AfterCommit

(***************************************************************************)
(* A mail that a character works on, and its row in the database as the    *)
(* queue leaves it.                                                        *)
(***************************************************************************)
LEMMA LoadedMail ==
  ASSUME IInv, NEW p \in Players, box[p].loaded, NEW m \in box[p].mails
  PROVE  /\ IsLetter(m) /\ m.to = p /\ Row(m) \in Database.mails
         /\ Mirrored(Database.mails, box[p].mails, nextMail, p)
  <1>1. Stored(box[p].mails, nextMail) /\ Shape
    BY DEF IInv, Shape
  <1>2. Stored(Database.mails, nextMail) /\ Narrow(Database.mails)
    BY <1>1, DatabaseKept
  <1>3. Rows(box[p].mails) \subseteq MailsOf(Database, p)
    BY DEF IInv, BoxCurrent
  <1>4. \A x \in box[p].mails : Row(x) \in Database.mails /\ Row(x).to = p
    BY <1>3 DEF Rows, MailsOf
  <1>5. \A x \in box[p].mails : IsLetter(x) /\ x.to = p
    BY <1>1, <1>4, RowOf DEF Stored
  <1> QED
    BY <1>1, <1>2, <1>4, <1>5 DEF Rows, Mirrored

(***************************************************************************)
(* The UPDATE of a row by a mail in memory whose money or COD is gone, and *)
(* the removal of an item.                                                 *)
(***************************************************************************)
LEMMA RowUpdated ==
  ASSUME NEW B, NEW n, Stored(B, n), NEW m, IsLetter(m), Row(m) \in B,
         NEW new, IsLetter(new), new.id = m.id, new.to = m.to, new.from = m.from,
         new.units = m.units
  PROVE  UpdateMail(B, new) = Replaced(B, m.id, Row(new))
  <1> DEFINE g == new.gold % UInt
             c == new.cod % UInt
             F(y) == [y EXCEPT !.gold = g, !.cod = c]
  <1>1. \A y \in B : y.id = m.id <=> y = Row(m)
    BY RowOf DEF Stored
  <1>2. F(Row(m)) = F(new)
    <2>1. /\ Row(m) = [x \in {"id", "to", "from", "gold", "units", "cod"} |-> Row(m)[x]]
          /\ new = [x \in {"id", "to", "from", "gold", "units", "cod"} |-> new[x]]
      BY RowOf DEF IsLetter, IsFcn
    <2>2. /\ Row(m).id = new.id /\ Row(m).to = new.to /\ Row(m).from = new.from
          /\ Row(m).units = new.units
      BY RowOf
    <2> HIDE DEF g, c
    <2> QED
      BY <2>1, <2>2
  <1>3. F(new) = Row(new)
    BY DEF Row
  <1>4. UpdateMail(B, new) = {IF y.id = m.id THEN F(y) ELSE y : y \in B}
    BY DEF UpdateMail
  <1> HIDE DEF F
  <1> QED
    BY <1>1, <1>2, <1>3, <1>4 DEF Replaced

\* A mail with one field less.
Without(m, field) == [m EXCEPT ![field] = 0]

\* UPDATE of one field of one mail.
LEMMA FieldEmptied ==
  ASSUME NEW B, NEW n, Stored(B, n), NEW m \in B, NEW x, x.id = m.id, NEW field
  PROVE  Emptied(B, x, field) = Replaced(B, m.id, Without(m, field))
  <1>1. \A y \in B : y.id = m.id <=> y = m
    BY DEF Stored
  <1> QED
    BY <1>1 DEF Emptied, Replaced, Without

\* A row, field by field.
LEMMA RowFields ==
  ASSUME NEW m, IsLetter(m)
  PROVE  /\ Row(m) = [x \in {"id", "to", "from", "gold", "units", "cod"} |-> Row(m)[x]]
         /\ Row(m).id = m.id /\ Row(m).to = m.to /\ Row(m).from = m.from
         /\ Row(m).units = m.units /\ Row(m).cod = m.cod
         /\ Row(m).gold = m.gold % UInt
  BY RowOf DEF IsLetter, IsFcn

\* A mail with one field less is a mail, and so is its row.
LEMMA EmptyField ==
  ASSUME NEW m, IsLetter(m), NEW field, field \in {"gold", "units", "cod"}
  PROVE  /\ IsLetter(Without(m, field)) /\ Without(m, field).id = m.id
         /\ Without(m, field).to = m.to /\ Without(m, field).from = m.from
         /\ Row(Without(m, field)) = Without(Row(m), field)
         /\ Without(m, field).gold = IF field = "gold" THEN 0 ELSE m.gold
         /\ Without(m, field).units = IF field = "units" THEN 0 ELSE m.units
         /\ Without(m, field).cod = IF field = "cod" THEN 0 ELSE m.cod
  <1> DEFINE F == {"id", "to", "from", "gold", "units", "cod"}
             new == Without(m, field)
             r == Row(m)
             s == Row(new)
  <1>1. m = [x \in F |-> m[x]] /\ m.id \in Nat /\ m.gold \in Nat /\ m.cod \in 0 .. UInt - 1
    BY DEF IsLetter, IsFcn
  <1>2. /\ DOMAIN new = F /\ IsFcn(new) /\ new.id = m.id /\ new.to = m.to /\ new.from = m.from
        /\ new.gold = IF field = "gold" THEN 0 ELSE m.gold
        /\ new.units = IF field = "units" THEN 0 ELSE m.units
        /\ new.cod = IF field = "cod" THEN 0 ELSE m.cod
    BY <1>1 DEF IsFcn, Without
  <1> HIDE DEF new
  <1>3. IsLetter(new)
    BY <1>1, <1>2, AuctionAssumption DEF IsLetter
  <1>4. /\ r = [x \in F |-> r[x]]
        /\ r.id = m.id /\ r.to = m.to /\ r.from = m.from
        /\ r.units = m.units /\ r.cod = m.cod /\ r.gold = m.gold % UInt
    BY RowFields
  <1>5. /\ s = [x \in F |-> s[x]]
        /\ s.id = new.id /\ s.to = new.to /\ s.from = new.from
        /\ s.units = new.units /\ s.cod = new.cod /\ s.gold = new.gold % UInt
    BY <1>3, RowFields
  <1>6. 0 % UInt = 0
    BY AuctionAssumption, Narrowed
  <1> HIDE DEF r, s
  <1>7. \A x \in F : s[x] = IF x = field THEN 0 ELSE r[x]
    BY <1>2, <1>4, <1>5, <1>6
  <1>8. s = Without(r, field)
    BY <1>4, <1>5, <1>7 DEF Without
  <1> QED
    BY <1>2, <1>3, <1>8 DEF new, r, s

(***************************************************************************)
(* The gold of a mail is taken out of the mail and of its row.             *)
(***************************************************************************)
LEMMA MoneyTaken ==
  ASSUME IInv, NEW p \in Players, box[p].loaded, NEW m \in box[p].mails
  PROVE  /\ Mirrored(UpdateMail(Database.mails, Without(m, "gold")),
                     Emptied(box[p].mails, m, "gold"), nextMail, p)
         /\ OthersStay(Database.mails, UpdateMail(Database.mails, Without(m, "gold")), p)
         /\ Row(m) \in Database.mails
         /\ UpdateMail(Database.mails, Without(m, "gold"))
               = (Database.mails \ {Row(m)}) \cup {Row(Without(m, "gold"))}
         /\ Emptied(box[p].mails, m, "gold")
               = (box[p].mails \ {m}) \cup {Without(m, "gold")}
         /\ IsLetter(m) /\ IsLetter(Without(m, "gold")) /\ Without(m, "gold").id = m.id
         /\ Without(m, "gold").gold = 0 /\ Without(m, "gold").units = m.units
  <1> DEFINE rows == Database.mails
             mails == box[p].mails
             new == Without(m, "gold")
             B == UpdateMail(rows, new)
             C == Emptied(mails, m, "gold")
  <1>1. IsLetter(m) /\ Row(m) \in rows /\ Mirrored(rows, mails, nextMail, p)
    BY LoadedMail
  <1>2. /\ IsLetter(new) /\ new.id = m.id /\ new.to = m.to /\ new.from = m.from
        /\ new.gold = 0 /\ new.units = m.units
    BY <1>1, EmptyField
  <1>3. Stored(rows, nextMail) /\ Stored(mails, nextMail) /\ m \in mails
    BY <1>1 DEF Mirrored
  <1>4. C = Replaced(mails, m.id, new)
    BY <1>3, FieldEmptied
  <1> HIDE DEF rows, mails, new
  <1>5. B = Replaced(rows, m.id, Row(new))
    BY <1>1, <1>2, <1>3, RowUpdated
  <1> HIDE DEF B, C
  <1>6. /\ Mirrored(B, C, nextMail, p) /\ OthersStay(rows, B, p)
        /\ B = (rows \ {Row(m)}) \cup {Row(new)}
        /\ C = (mails \ {m}) \cup {new}
    BY <1>1, <1>2, <1>3, <1>4, <1>5, ReplaceBoth
  <1> QED
    BY <1>1, <1>2, <1>6 DEF rows, mails, new, B, C

(***************************************************************************)
(* The COD of a mail, and the item of this or of another one, are taken    *)
(* out of the mails and of their rows.                                     *)
(***************************************************************************)
Settles(m) == Without(m, "cod")
Remaining(m, x) == IF x = m THEN Settles(m) ELSE x
Opened(m, x) == Without(Remaining(m, x), "units")

\* The COD first.
LEMMA CodTaken ==
  ASSUME IInv, NEW p \in Players, box[p].loaded, NEW m \in box[p].mails
  PROVE  /\ Mirrored(UpdateMail(Database.mails, Without(m, "cod")),
                     Emptied(box[p].mails, m, "cod"), nextMail, p)
         /\ OthersStay(Database.mails, UpdateMail(Database.mails, Without(m, "cod")), p)
         /\ Row(m) \in Database.mails
         /\ UpdateMail(Database.mails, Without(m, "cod"))
               = (Database.mails \ {Row(m)}) \cup {Row(Without(m, "cod"))}
         /\ Emptied(box[p].mails, m, "cod")
               = (box[p].mails \ {m}) \cup {Without(m, "cod")}
         /\ IsLetter(m) /\ IsLetter(Without(m, "cod")) /\ Without(m, "cod").id = m.id
         /\ Without(m, "cod").gold = m.gold /\ Without(m, "cod").units = m.units
  <1> DEFINE rows == Database.mails
             mails == box[p].mails
             new == Without(m, "cod")
             B == UpdateMail(rows, new)
             C == Emptied(mails, m, "cod")
  <1>1. IsLetter(m) /\ Row(m) \in rows /\ Mirrored(rows, mails, nextMail, p)
    BY LoadedMail
  <1>2. /\ IsLetter(new) /\ new.id = m.id /\ new.to = m.to /\ new.from = m.from
        /\ new.gold = m.gold /\ new.units = m.units
    BY <1>1, EmptyField
  <1>3. Stored(rows, nextMail) /\ Stored(mails, nextMail) /\ m \in mails
    BY <1>1 DEF Mirrored
  <1>4. C = Replaced(mails, m.id, new)
    BY <1>3, FieldEmptied
  <1> HIDE DEF rows, mails, new
  <1>5. B = Replaced(rows, m.id, Row(new))
    BY <1>1, <1>2, <1>3, RowUpdated
  <1> HIDE DEF B, C
  <1>6. /\ Mirrored(B, C, nextMail, p) /\ OthersStay(rows, B, p)
        /\ B = (rows \ {Row(m)}) \cup {Row(new)}
        /\ C = (mails \ {m}) \cup {new}
    BY <1>1, <1>2, <1>3, <1>4, <1>5, ReplaceBoth
  <1> QED
    BY <1>1, <1>2, <1>6 DEF rows, mails, new, B, C

\* Then the item.
LEMMA UnitsTaken ==
  ASSUME NEW rows, NEW mails, NEW n, NEW p, Mirrored(rows, mails, n, p),
         NEW y, y \in mails, NEW x, x.id = y.id
  PROVE  /\ Mirrored(Emptied(rows, x, "units"), Emptied(mails, x, "units"), n, p)
         /\ OthersStay(rows, Emptied(rows, x, "units"), p)
         /\ Row(y) \in rows
         /\ Emptied(rows, x, "units") = (rows \ {Row(y)}) \cup {Row(Without(y, "units"))}
         /\ Emptied(mails, x, "units") = (mails \ {y}) \cup {Without(y, "units")}
         /\ IsLetter(y) /\ IsLetter(Without(y, "units")) /\ Without(y, "units").id = y.id
         /\ Without(y, "units").gold = y.gold /\ Without(y, "units").units = 0
  <1> DEFINE new == Without(y, "units")
             B == Emptied(rows, x, "units")
             C == Emptied(mails, x, "units")
  <1>1. Stored(rows, n) /\ Stored(mails, n) /\ IsLetter(y) /\ Row(y) \in rows
    BY DEF Mirrored, Stored, Rows
  <1>2. /\ IsLetter(new) /\ new.id = y.id /\ new.to = y.to
        /\ Row(new) = Without(Row(y), "units")
        /\ new.gold = y.gold /\ new.units = 0
    BY <1>1, EmptyField
  <1>3. Row(y).id = y.id
    BY <1>1, RowOf
  <1>4. C = Replaced(mails, y.id, new)
    BY <1>1, FieldEmptied
  <1>5. B = Replaced(rows, y.id, Row(new))
    BY <1>1, <1>2, <1>3, FieldEmptied
  <1> HIDE DEF new, B, C
  <1>6. /\ Mirrored(B, C, n, p) /\ OthersStay(rows, B, p)
        /\ B = (rows \ {Row(y)}) \cup {Row(new)}
        /\ C = (mails \ {y}) \cup {new}
    BY <1>2, <1>4, <1>5, ReplaceBoth
  <1> QED
    BY <1>1, <1>2, <1>6 DEF new, B, C

\* Both.
SettledRows(m) == UpdateMail(Database.mails, Settles(m))
SettledMails(p, m) == Emptied(box[p].mails, m, "cod")

LEMMA ItemTaken ==
  ASSUME IInv, NEW p \in Players, box[p].loaded,
         NEW m \in box[p].mails, NEW x \in box[p].mails
  PROVE  /\ Mirrored(SettledRows(m), SettledMails(p, m), nextMail, p)
         /\ Mirrored(Emptied(SettledRows(m), x, "units"),
                     Emptied(SettledMails(p, m), x, "units"), nextMail, p)
         /\ OthersStay(Database.mails, Emptied(SettledRows(m), x, "units"), p)
         /\ Row(m) \in Database.mails
         /\ SettledRows(m) = (Database.mails \ {Row(m)}) \cup {Row(Settles(m))}
         /\ Row(Remaining(m, x)) \in SettledRows(m)
         /\ Emptied(SettledRows(m), x, "units")
               = (SettledRows(m) \ {Row(Remaining(m, x))}) \cup {Row(Opened(m, x))}
         /\ SettledMails(p, m) = (box[p].mails \ {m}) \cup {Settles(m)}
         /\ Remaining(m, x) \in SettledMails(p, m)
         /\ Emptied(SettledMails(p, m), x, "units")
               = (SettledMails(p, m) \ {Remaining(m, x)}) \cup {Opened(m, x)}
         /\ IsLetter(m) /\ IsLetter(x) /\ IsLetter(Settles(m))
         /\ IsLetter(Remaining(m, x)) /\ IsLetter(Opened(m, x))
         /\ Settles(m).id = m.id /\ Settles(m).gold = m.gold
         /\ Settles(m).units = m.units
         /\ Opened(m, x).id = Remaining(m, x).id
         /\ Remaining(m, x).units = x.units /\ Opened(m, x).units = 0
         /\ Remaining(m, x).gold = x.gold /\ Opened(m, x).gold = x.gold
  <1> DEFINE new == Settles(m)
             y == Remaining(m, x)
             open == Without(y, "units")
             rows == SettledRows(m)
             cleared == SettledMails(p, m)
             B == Emptied(rows, x, "units")
             C == Emptied(cleared, x, "units")
  <1>1. IsLetter(x)
    BY LoadedMail
  <1>2. /\ Mirrored(rows, cleared, nextMail, p) /\ OthersStay(Database.mails, rows, p)
        /\ Row(m) \in Database.mails
        /\ rows = (Database.mails \ {Row(m)}) \cup {Row(new)}
        /\ cleared = (box[p].mails \ {m}) \cup {new}
        /\ IsLetter(m) /\ IsLetter(new) /\ new.id = m.id
        /\ new.gold = m.gold /\ new.units = m.units
    BY CodTaken DEF Settles, SettledRows, SettledMails
  <1> HIDE DEF rows, cleared, new
  <1>3. y \in cleared /\ x.id = y.id /\ y.units = x.units /\ y.gold = x.gold
    BY <1>2 DEF Remaining, new
  <1> HIDE DEF y
  <1>4. /\ Mirrored(B, C, nextMail, p) /\ OthersStay(rows, B, p)
        /\ Row(y) \in rows
        /\ B = (rows \ {Row(y)}) \cup {Row(open)}
        /\ C = (cleared \ {y}) \cup {open}
        /\ IsLetter(y) /\ IsLetter(open) /\ open.id = y.id
        /\ open.gold = y.gold /\ open.units = 0
    <2>1. Mirrored(rows, cleared, nextMail, p) /\ y \in cleared /\ x.id = y.id
      BY <1>2, <1>3
    <2>2. Mirrored(B, C, nextMail, p) /\ OthersStay(rows, B, p) /\ Row(y) \in rows
      BY ONLY <2>1, UnitsTaken
    <2>3. /\ B = (rows \ {Row(y)}) \cup {Row(open)}
          /\ C = (cleared \ {y}) \cup {open}
      BY ONLY <2>1, UnitsTaken
    <2>4. /\ IsLetter(y) /\ IsLetter(open) /\ open.id = y.id
          /\ open.gold = y.gold /\ open.units = 0
      BY ONLY <2>1, UnitsTaken
    <2> QED
      BY <2>2, <2>3, <2>4
  <1> HIDE DEF B, C, open
  <1>5. OthersStay(Database.mails, B, p)
    BY <1>2, <1>4 DEF OthersStay
  <1>6. open = Opened(m, x)
    BY DEF Opened, open, y
  <1> QED
    BY <1>1, <1>2, <1>3, <1>4, <1>5, <1>6 DEF new, y, rows, cleared, B, C

(***************************************************************************)
(* Taking the gold.                                                        *)
(***************************************************************************)
LEMMA TakeMoneyKeeps ==
  ASSUME IInv, NEW p \in Players, box[p].loaded, NEW m \in box[p].mails,
         HandleMailTakeMoney(p, m)
  PROVE  IInv'
  <1> DEFINE new == [m EXCEPT !.gold = 0]
             B == UpdateMail(Database.mails, new)
             C == Emptied(box[p].mails, m, "gold")
             d == [Database EXCEPT !.mails = B]
             last == SaveGold(d, p, gold'[p])
             current == [box EXCEPT ![p].mails = C]
  <1>1. /\ Tabled(Database) /\ IsSeq(dbs) /\ dbs # <<>> /\ Shape /\ nextMail \in Nat
    BY DatabaseKept DEF IInv
  <1>2. Mirrored(B, C, nextMail, p) /\ OthersStay(Database.mails, B, p)
    <2>1. new = Without(m, "gold")
      BY DEF Without
    <2> HIDE DEF new
    <2> QED
      BY <2>1, MoneyTaken
  <1>3. /\ dbs' = dbs \o <<last>>
        /\ box' = current
        /\ nextMail' = nextMail
        /\ UNCHANGED <<state, behind, auctions>>
    BY DEF HandleMailTakeMoney, Commit
  <1> HIDE DEF B, C
  <1>4. Tabled(d) /\ d.mails = B
    BY <1>1 DEF Tabled
  <1> HIDE DEF d
  <1>5. Tabled(last) /\ last.mails = d.mails
    BY <1>4, SaveKeepsMails
  <1> HIDE DEF last
  <1>6. Extends(dbs, dbs', last)
    BY <1>1, <1>3, <1>5, ExtendsOne
  <1> DEFINE drafts == << >>
  <1>7. Drafted(drafts) /\ Len(drafts) = 0 /\ Post(drafts) = {}
    BY DEF Post, Drafted
  <1>8. DOMAIN box' = Players /\ \A q \in Players : BoxAfter(p, C, drafts, q)
    <2> SUFFICES ASSUME NEW q \in Players
                 PROVE  DOMAIN box' = Players /\ BoxAfter(p, C, drafts, q)
      BY <1>3, <1>1 DEF Shape
    <2>1. /\ DOMAIN current = Players
          /\ DOMAIN current[q] = {"loaded", "mails"}
          /\ current[q].loaded = box[q].loaded
          /\ current[q].mails = IF q = p THEN C ELSE box[q].mails
      BY <1>1, BoxChanged
    <2> HIDE DEF current
    <2> QED
      BY <1>3, <2>1 DEF BoxAfter
  <1> HIDE DEF drafts, current
  <1>9. nextMail' = nextMail + Len(drafts)
    BY <1>1, <1>3, <1>7
  <1>10. last.mails = B \cup Rows(Post(drafts))
    BY <1>4, <1>5, <1>7 DEF Rows
  <1> QED
    BY <1>2, <1>3, <1>5, <1>6, <1>7, <1>8, <1>9, <1>10, MailStep

(***************************************************************************)
(* Taking an item, and paying a COD with a new mail.                       *)
(***************************************************************************)
LEMMA TakeItemKeeps ==
  ASSUME IInv, NEW p \in Players, box[p].loaded,
         NEW m \in box[p].mails, NEW x \in box[p].mails,
         HandleMailTakeItem(p, m, x)
  PROVE  IInv'
  <1> DEFINE drafts == IF m.cod > 0 THEN <<Mail(m.from, p, m.cod, 0, 0)>> ELSE << >>
             rows == UpdateMail(Database.mails, Settles(m))
             B == Emptied(rows, x, "units")
             cleared == Emptied(box[p].mails, m, "cod")
             C == Emptied(cleared, x, "units")
             e == [Database EXCEPT !.mails = B]
             d == InsertMails(e, drafts)
             last == SaveInventoryAndGold(d, p, gold'[p], inv[p] + x.units)
             current == [box EXCEPT ![p].mails = C]
  <1>1. Tabled(Database) /\ IsSeq(dbs) /\ dbs # <<>> /\ Shape /\ Priced(auctions)
    BY DatabaseKept DEF IInv
  <1>2. /\ Mirrored(B, C, nextMail, p) /\ OthersStay(Database.mails, B, p)
        /\ IsLetter(m)
    BY ItemTaken DEF SettledRows, SettledMails
  <1>3. /\ dbs' = dbs \o <<last>>
        /\ Deliver(current, drafts)
        /\ UNCHANGED <<state, behind, auctions>>
    BY DEF HandleMailTakeItem, Commit, Settles, Without
  <1>4. Drafted(drafts)
    <2> DEFINE y == Mail(m.from, p, m.cod, 0, 0)
    <2>1. m.cod \in Nat /\ 0 \in 0 .. UInt - 1
      BY <1>2, AuctionAssumption DEF IsLetter
    <2>2. IsDraft(y)
      BY <2>1, MailDrafted
    <2> HIDE DEF y
    <2>3. Drafted(<< >>) /\ Drafted(<<y>>)
      BY <2>2, FewDrafts
    <2>4. drafts = << >> \/ drafts = <<y>>
      BY DEF y
    <2> QED
      BY <2>3, <2>4, Zenon
  <1> HIDE DEF drafts, rows, cleared
  <1>5. DOMAIN box' = Players /\ \A q \in Players : BoxAfter(p, C, drafts, q)
    <2>1. box' = Boxes(current, drafts)
      BY <1>3 DEF Deliver
    <2> HIDE DEF C
    <2> QED
      BY <1>1, <2>1, BoxDelivered
  <1> HIDE DEF B, C, current
  <1>6. Tabled(e) /\ e.mails = B
    BY <1>1 DEF Tabled
  <1> HIDE DEF e
  <1>7. Tabled(d) /\ d.mails = B \cup Rows(Post(drafts))
    BY <1>6, InsertsMails
  <1> HIDE DEF d
  <1>8. Tabled(last) /\ last.mails = d.mails
    BY <1>7, SaveKeepsMails
  <1> HIDE DEF last
  <1>9. Extends(dbs, dbs', last)
    BY <1>1, <1>3, <1>8, ExtendsOne
  <1>10. nextMail' = nextMail + Len(drafts)
    BY <1>3 DEF Deliver
  <1> QED
    BY <1>2, <1>3, <1>4, <1>5, <1>7, <1>8, <1>9, <1>10, MailStep

(***************************************************************************)
(* Sending a mail back: its row goes, and the content comes to the sender  *)
(* under a new id.                                                         *)
(***************************************************************************)
LEMMA ReturnKeeps ==
  ASSUME IInv, NEW p \in Players, box[p].loaded, NEW m \in box[p].mails,
         HandleMailReturnToSender(p, m)
  PROVE  IInv'
  <1> DEFINE drafts == <<Mail(m.from, p, m.gold, m.units, 0)>>
             B == DeleteMail(Database.mails, m)
             C == DeleteMail(box[p].mails, m)
             e == [Database EXCEPT !.mails = B]
             last == InsertMails(e, drafts)
             current == [box EXCEPT ![p].mails = C]
  <1>1. Tabled(Database) /\ IsSeq(dbs) /\ dbs # <<>> /\ Shape
    BY DatabaseKept DEF IInv
  <1>2. IsLetter(m) /\ Mirrored(Database.mails, box[p].mails, nextMail, p)
    BY LoadedMail
  <1>3. /\ dbs' = dbs \o <<last>>
        /\ Deliver(current, drafts)
        /\ UNCHANGED <<state, behind, auctions>>
    BY DEF HandleMailReturnToSender, Commit
  <1>4. Drafted(drafts)
    <2>1. m.gold \in Nat /\ 0 \in 0 .. UInt - 1
      BY <1>2, AuctionAssumption DEF IsLetter
    <2>2. IsDraft(Mail(m.from, p, m.gold, m.units, 0))
      BY <2>1, MailDrafted
    <2> QED
      BY <2>2, FewDrafts
  <1> HIDE DEF drafts
  <1>5. Mirrored(B, C, nextMail, p) /\ OthersStay(Database.mails, B, p)
    BY <1>2, DeleteBoth
  <1>6. DOMAIN box' = Players /\ \A q \in Players : BoxAfter(p, C, drafts, q)
    <2>1. box' = Boxes(current, drafts)
      BY <1>3 DEF Deliver
    <2> HIDE DEF C
    <2> QED
      BY <1>1, <2>1, BoxDelivered
  <1> HIDE DEF B, C, current
  <1>7. Tabled(e) /\ e.mails = B
    BY <1>1 DEF Tabled
  <1> HIDE DEF e
  <1>8. Tabled(last) /\ last.mails = B \cup Rows(Post(drafts))
    BY <1>7, InsertsMails
  <1> HIDE DEF last
  <1>9. Extends(dbs, dbs', last)
    BY <1>1, <1>3, <1>8, ExtendsOne
  <1>10. nextMail' = nextMail + Len(drafts)
    BY <1>3 DEF Deliver
  <1> QED
    BY <1>3, <1>4, <1>5, <1>6, <1>8, <1>9, <1>10, MailStep

-----------------------------------------------------------------------------
(* Saving, logging out and in, the worker and a crash.                     *)

(***************************************************************************)
(* A step that leaves characters, mails and the queue alone.               *)
(***************************************************************************)
LEMMA NothingMoves ==
  ASSUME IInv, UNCHANGED <<state, behind, box, dbs, nextMail>>, Priced(auctions')
  PROVE  IInv'
  <1>1. Shape'
    BY DEF IInv, Shape
  <1>2. ASSUME NEW q \in Players PROVE BoxCurrent(q)' /\ QueryCurrent(q)'
    BY DEF IInv, BoxCurrent, QueryCurrent, KeptFrom, Database
  <1> QED
    BY <1>1, <1>2 DEF IInv

(***************************************************************************)
(* The periodic save does not touch mails.                                 *)
(***************************************************************************)
LEMMA SaveKeeps ==
  ASSUME IInv, NEW p, SaveToDB(p)
  PROVE  IInv'
  <1> DEFINE d == SaveInventoryAndGold(Database, p, gold[p], inv[p])
  <1>1. Tabled(Database) /\ IsSeq(dbs) /\ dbs # <<>> /\ Priced(auctions)
    BY DatabaseKept DEF IInv
  <1>2. Tabled(d) /\ d.mails = Database.mails
    BY <1>1, SaveKeepsMails
  <1>3. dbs' = dbs \o <<d>> /\ UNCHANGED <<nextMail, behind, box, state, auctions>>
    BY DEF SaveToDB, Commit
  <1> HIDE DEF d
  <1>4. Extends(dbs, dbs', d)
    BY <1>1, <1>2, <1>3, ExtendsOne
  <1> QED
    BY <1>1, <1>2, <1>3, <1>4, MailsUntouched

(***************************************************************************)
(* A logout: the mails in memory go with the character, the transactions   *)
(* that took them out stay in the queue.                                   *)
(***************************************************************************)
LEMMA LogoutKeeps ==
  ASSUME IInv, NEW p \in Players, LogoutPlayer(p)
  PROVE  IInv'
  <1> DEFINE d == SaveInventoryAndGold(Database, p, gold[p], inv[p])
  <1>1. /\ Tabled(Database) /\ IsSeq(dbs) /\ dbs # <<>> /\ Shape
        /\ nextMail \in Nat /\ WellKept(Database, nextMail) /\ Priced(auctions)
    BY DatabaseKept DEF IInv
  <1>2. Tabled(d) /\ d.mails = Database.mails
    BY <1>1, SaveKeepsMails
  <1>3. /\ dbs' = dbs \o <<d>> /\ UNCHANGED <<nextMail, behind, auctions>>
        /\ state' = [state EXCEPT ![p] = "offline"]
        /\ box' = [box EXCEPT ![p] = NotLoaded]
    BY DEF LogoutPlayer, Commit
  <1> HIDE DEF d
  <1>4. Extends(dbs, dbs', d)
    BY <1>1, <1>2, <1>3, ExtendsOne
  <1>5. WellKept(d, nextMail)
    BY <1>1, <1>2 DEF WellKept
  <1>6. /\ state' \in [Players -> {"online", "offline", "loading"}]
        /\ state'[p] = "offline" /\ \A q \in Players \ {p} : state'[q] = state[q]
    BY <1>1, <1>3 DEF Shape
  <1>7. /\ DOMAIN box' = Players
        /\ box'[p] = NotLoaded /\ \A q \in Players \ {p} : box'[q] = box[q]
    BY <1>1, <1>3 DEF Shape
  <1>8. /\ DOMAIN NotLoaded = {"loaded", "mails"} /\ ~NotLoaded.loaded
        /\ NotLoaded.mails = {} /\ Stored(NotLoaded.mails, nextMail)
    BY DEF NotLoaded, Stored
  <1>9. \A q \in Players : /\ DOMAIN box'[q] = {"loaded", "mails"}
                           /\ Stored(box'[q].mails, nextMail)
    BY <1>1, <1>7, <1>8 DEF Shape
  <1>10. ASSUME NEW q \in Players
         PROVE  /\ box'[q].loaded => /\ state'[q] = "online"
                                     /\ Rows(box'[q].mails) \subseteq MailsOf(d, q)
                /\ ~box'[q].loaded => box'[q].mails = {}
    <2>1. CASE q = p
      BY <1>7, <1>8, <2>1
    <2>2. CASE q # p
      <3>1. box'[q] = box[q] /\ state'[q] = state[q]
        BY <1>6, <1>7, <2>2
      <3>2. MailsOf(d, q) = MailsOf(Database, q)
        BY <1>2 DEF MailsOf
      <3> QED
        BY <3>1, <3>2 DEF IInv, BoxCurrent
    <2> QED
      BY <2>1, <2>2
  <1>11. ASSUME NEW q \in Players
         PROVE  \/ /\ state'[q] = state[q] /\ box'[q].loaded = box[q].loaded
                   /\ MailsOf(Database, q) \subseteq d.mails
                \/ state'[q] = "offline"
    BY <1>2, <1>6, <1>7 DEF MailsOf
  <1> QED
    BY <1>1, <1>3, <1>4, <1>5, <1>6, <1>7, <1>9, <1>10, <1>11, AfterCommit

(***************************************************************************)
(* The list of mails is read from what is executed: nothing that is queued *)
(* takes anything of it out.                                               *)
(***************************************************************************)
LEMMA GetMailListKeeps ==
  ASSUME IInv, NEW p \in Players, HandleGetMailList(p)
  PROVE  IInv'
  <1> DEFINE loaded == [loaded |-> TRUE, mails |-> {m \in dbs[1].mails : m.to = p}]
  <1>1. Shape /\ Len(dbs) \in Nat /\ DOMAIN dbs = 1 .. Len(dbs) /\ Len(dbs) \in DOMAIN dbs
    BY DatabaseKept DEF IInv
  <1>2. /\ state[p] = "online" /\ ~box[p].loaded
        /\ box' = [box EXCEPT ![p] = loaded]
        /\ UNCHANGED <<state, behind, dbs, nextMail, auctions>>
    BY DEF HandleGetMailList, Online
  <1>3. DOMAIN loaded = {"loaded", "mails"} /\ loaded.mails = MailsOf(dbs[1], p)
    BY DEF MailsOf
  <1>4. /\ Rows(loaded.mails) \subseteq MailsOf(Database, p)
        /\ Stored(loaded.mails, nextMail)
    <2> DEFINE B == MailsOf(dbs[1], p)
    <2>1. KeptFrom(p, 1)
      BY <1>2 DEF IInv, QueryCurrent
    <2>2. B \subseteq MailsOf(Database, p)
      BY <1>1, <2>1 DEF KeptFrom, MailsOf
    <2>3. nextMail \in Nat /\ Stored(dbs[1].mails, nextMail) /\ Narrow(dbs[1].mails)
      BY <1>1 DEF Shape, WellKept
    <2>4. Stored(B, nextMail) /\ Narrow(B)
      BY <2>3 DEF MailsOf, Stored, Narrow
    <2>5. Rows(B) = B
      BY <2>4, RowsStored
    <2> QED
      BY <1>3, <2>2, <2>4, <2>5
  <1>5. loaded.loaded
    OBVIOUS
  <1> HIDE DEF loaded
  <1>6. /\ DOMAIN box' = Players
        /\ box'[p] = loaded /\ \A q \in Players \ {p} : box'[q] = box[q]
    BY <1>1, <1>2 DEF Shape
  <1>7. Shape'
    <2>1. \A q \in Players : /\ DOMAIN box'[q] = {"loaded", "mails"}
                             /\ Stored(box'[q].mails, nextMail)
      BY <1>1, <1>3, <1>4, <1>6 DEF Shape
    <2> QED
      BY <1>1, <1>2, <1>6, <2>1 DEF Shape
  <1>8. Database' = Database
    BY <1>2 DEF Database
  <1>9. ASSUME NEW q \in Players PROVE BoxCurrent(q)' /\ QueryCurrent(q)'
    <2>1. BoxCurrent(q) /\ QueryCurrent(q)
      BY DEF IInv
    <2>2. CASE q = p
      BY <1>2, <1>4, <1>5, <1>6, <1>8, <2>2 DEF BoxCurrent, QueryCurrent, MailsOf
    <2>3. CASE q # p
      BY <1>2, <1>6, <1>8, <2>1, <2>3 DEF BoxCurrent, QueryCurrent, KeptFrom, MailsOf
    <2> QED
      BY <2>2, <2>3
  <1> QED
    BY <1>7, <1>9 DEF IInv

(***************************************************************************)
(* A login: the query goes behind all that is queued, and when it is       *)
(* answered everything the character committed before is executed.         *)
(***************************************************************************)
LEMMA LoginKeeps ==
  ASSUME IInv, NEW p \in Players, HandlePlayerLoginOpcode(p) \/ HandlePlayerLogin(p)
  PROVE  IInv'
  <1>1. Shape /\ Len(dbs) \in Nat /\ DOMAIN dbs = 1 .. Len(dbs) /\ Len(dbs) \in DOMAIN dbs
        /\ Database = dbs[Len(dbs)]
    BY DatabaseKept DEF IInv
  <1>2. UNCHANGED <<dbs, box, nextMail, auctions>> /\ Database' = Database
    BY DEF HandlePlayerLoginOpcode, HandlePlayerLogin, Database
  <1>3. /\ Len(dbs) - 1 \in Nat
        /\ \A q \in Players : behind[q] \in Nat
    BY <1>1 DEF Shape
  <1>4. ASSUME NEW q \in Players \ {p} PROVE state'[q] = state[q] /\ behind'[q] = behind[q]
    BY <1>1 DEF Shape, HandlePlayerLoginOpcode, HandlePlayerLogin
  <1>5. ~box[p].loaded
    BY DEF IInv, BoxCurrent, HandlePlayerLoginOpcode, HandlePlayerLogin
  <1>6. ASSUME NEW q \in Players PROVE BoxCurrent(q)'
    <2>1. BoxCurrent(q)
      BY DEF IInv
    <2>2. CASE q = p
      BY <1>2, <1>5, <2>1, <2>2 DEF BoxCurrent
    <2>3. CASE q # p
      BY <1>2, <1>4, <2>1, <2>3 DEF BoxCurrent, MailsOf
    <2> QED
      BY <2>2, <2>3
  <1>7. ASSUME NEW q \in Players, q # p PROVE QueryCurrent(q)'
    <2>1. QueryCurrent(q)
      BY DEF IInv
    <2> QED
      BY <1>2, <1>4, <1>7, <2>1 DEF QueryCurrent, KeptFrom
  <1>8. CASE HandlePlayerLoginOpcode(p)
    <2>1. state'[p] = "loading" /\ behind'[p] = Len(dbs) - 1
      BY <1>1, <1>8 DEF HandlePlayerLoginOpcode, QueriesAhead, Shape
    <2>2. Shape'
      BY <1>1, <1>2, <1>3, <1>8 DEF Shape, HandlePlayerLoginOpcode, QueriesAhead
    <2>3. QueryCurrent(p)'
      <3>1. \A i \in DOMAIN dbs : i >= Len(dbs) => i = Len(dbs)
        BY <1>1
      <3>2. KeptFrom(p, behind[p] + 1)'
        BY <1>1, <1>2, <2>1, <3>1 DEF KeptFrom, MailsOf
      <3>3. behind'[p] < Len(dbs')
        BY <1>1, <1>2, <2>1
      <3> QED
        BY <2>1, <3>2, <3>3 DEF QueryCurrent
    <2> QED
      BY <1>6, <1>7, <2>2, <2>3 DEF IInv
  <1>9. CASE HandlePlayerLogin(p)
    <2>1. /\ state[p] = "loading" /\ state'[p] = "online" /\ behind[p] = 0
          /\ behind' = behind
      BY <1>1, <1>9 DEF HandlePlayerLogin, Shape
    <2>2. Shape'
      BY <1>1, <1>2, <1>9 DEF Shape, HandlePlayerLogin
    <2>3. QueryCurrent(p)'
      <3>1. KeptFrom(p, behind[p] + 1)
        BY <2>1 DEF IInv, QueryCurrent
      <3>2. KeptFrom(p, 1)
        BY <2>1, <3>1
      <3>3. KeptFrom(p, 1)'
        BY <1>2, <3>2 DEF KeptFrom
      <3> QED
        BY <1>2, <2>1, <3>3 DEF QueryCurrent
    <2> QED
      BY <1>6, <1>7, <2>2, <2>3 DEF IInv
  <1> QED
    BY <1>8, <1>9

(***************************************************************************)
(* The worker executes the oldest transaction: every state of the database *)
(* moves up by one place.                                                  *)
(***************************************************************************)
LEMMA TailOfStates ==
  ASSUME NEW q, IsSeq(q), q # <<>>, Len(q) > 1, NEW r, r = Tail(q)
  PROVE  /\ IsSeq(r) /\ r # <<>>
         /\ Len(r) = Len(q) - 1
         /\ \A i \in DOMAIN r : i + 1 \in DOMAIN q /\ r[i] = q[i + 1] /\ i \in Nat
         /\ Last(r) = Last(q)
  <1> DEFINE S == {q[i] : i \in DOMAIN q}
  <1>1. q \in Seq(S)
    BY DEF IsSeq
  <1> HIDE DEF S
  <1>2. Len(q) \in Nat /\ DOMAIN q = 1 .. Len(q)
    BY <1>1
  <1>3. /\ r \in Seq(S) /\ Len(r) = Len(q) - 1
        /\ \A i \in 1 .. (Len(q) - 1) : r[i] = q[i + 1]
    BY <1>1
  <1>4. DOMAIN r = 1 .. Len(r)
    BY <1>3
  <1>5. IsSeq(r)
    BY <1>3, SequenceOf
  <1>6. Last(r) = Last(q) /\ r # <<>>
    BY <1>2, <1>3 DEF Last
  <1>7. \A i \in DOMAIN r : i + 1 \in DOMAIN q /\ r[i] = q[i + 1] /\ i \in Nat
    BY <1>2, <1>3, <1>4
  <1> QED
    BY <1>3, <1>5, <1>6, <1>7

\* DatabaseWorker::svc takes the oldest transaction off the queue.
LEMMA ExecuteKeeps ==
  ASSUME IInv, Execute
  PROVE  IInv'
  <1>1. Shape /\ IsSeq(dbs) /\ dbs # <<>> /\ Len(dbs) \in Nat
    BY DatabaseKept DEF IInv
  <1>2. /\ Len(dbs) > 1 /\ dbs' = Tail(dbs)
        /\ UNCHANGED <<state, box, nextMail, auctions>>
        /\ behind' = [p \in Players |-> Max({behind[p] - 1, 0})]
    BY DEF Execute
  <1>3. /\ IsSeq(dbs') /\ dbs' # <<>>
        /\ Len(dbs') = Len(dbs) - 1
        /\ \A i \in DOMAIN dbs' : i + 1 \in DOMAIN dbs /\ dbs'[i] = dbs[i + 1] /\ i \in Nat
        /\ Last(dbs') = Last(dbs)
    BY <1>1, <1>2, TailOfStates
  <1>4. Database' = Database
    BY <1>3 DEF Database
  <1>5. ASSUME NEW q \in Players
        PROVE  /\ behind[q] \in Nat /\ behind'[q] \in Nat
               /\ behind'[q] = behind[q] - 1 \/ (behind[q] = 0 /\ behind'[q] = 0)
    <2>1. behind[q] \in Nat
      BY <1>1 DEF Shape
    <2>2. Max({behind[q] - 1, 0}) = IF behind[q] > 0 THEN behind[q] - 1 ELSE 0
      BY <2>1 DEF Max
    <2>3. behind'[q] = Max({behind[q] - 1, 0})
      BY <1>2
    <2> QED
      BY <2>1, <2>2, <2>3
  <1>6. Shape'
    <2>1. \A i \in DOMAIN dbs' : WellKept(dbs'[i], nextMail')
      BY <1>1, <1>2, <1>3 DEF Shape
    <2>2. behind' \in [Players -> Nat]
      BY <1>2, <1>5
    <2> QED
      BY <1>1, <1>2, <1>3, <2>1, <2>2 DEF Shape
  <1>7. ASSUME NEW q \in Players PROVE BoxCurrent(q)' /\ QueryCurrent(q)'
    <2>1. BoxCurrent(q) /\ QueryCurrent(q)
      BY DEF IInv
    <2>2. BoxCurrent(q)'
      BY <1>2, <1>4, <2>1 DEF BoxCurrent, MailsOf
    <2>3. state[q] = "online" /\ ~box[q].loaded => KeptFrom(q, 1)'
      BY <1>3, <1>4, <2>1 DEF QueryCurrent, KeptFrom
    <2>4. ASSUME state[q] = "loading"
          PROVE  behind'[q] < Len(dbs') /\ KeptFrom(q, behind[q] + 1)'
      <3>1. behind[q] < Len(dbs) /\ KeptFrom(q, behind[q] + 1)
        BY <2>1, <2>4 DEF QueryCurrent
      <3>2. behind'[q] < Len(dbs')
        BY <1>1, <1>2, <1>3, <1>5, <3>1
      <3>3. ASSUME NEW i \in DOMAIN dbs', i >= behind'[q] + 1
            PROVE  MailsOf(dbs'[i], q) \subseteq Database'.mails
        <4>1. i + 1 \in DOMAIN dbs /\ dbs'[i] = dbs[i + 1] /\ i + 1 >= behind[q] + 1
          BY <1>3, <1>5, <3>3
        <4> QED
          BY <1>4, <3>1, <4>1 DEF KeptFrom
      <3> QED
        BY <3>2, <3>3 DEF KeptFrom
    <2> QED
      BY <1>2, <2>2, <2>3, <2>4 DEF QueryCurrent
  <1> QED
    BY <1>6, <1>7 DEF IInv

(***************************************************************************)
(* A crash: only what was executed is left, and nobody has loaded mails.   *)
(***************************************************************************)
LEMMA CrashKeeps ==
  ASSUME IInv, Crash
  PROVE  IInv'
  <1> DEFINE d == [dbs[1] EXCEPT !.regained = @ + Sum(dbs[1].owed),
                                 !.owed = [p \in Players |-> 0],
                                 !.lost = @ + dbs[1].transit,
                                 !.transit = 0]
  <1>1. Shape /\ Len(dbs) \in Nat /\ DOMAIN dbs = 1 .. Len(dbs) /\ Len(dbs) \in DOMAIN dbs
    BY DatabaseKept DEF IInv
  <1>2. WellKept(dbs[1], nextMail)
    BY <1>1 DEF Shape
  <1>3. Tabled(d) /\ d.mails = dbs[1].mails
    BY <1>2 DEF WellKept, Tabled
  <1>4. /\ dbs' = <<d>> /\ auctions' = NoAuctions
        /\ state' = [p \in Players |-> "offline"]
        /\ behind' = [p \in Players |-> 0]
        /\ box' = [p \in Players |-> NotLoaded]
        /\ nextMail' = nextMail
    BY DEF Crash
  <1> HIDE DEF d
  <1>5. WellKept(d, nextMail)
    BY <1>2, <1>3 DEF WellKept
  <1>6. IsSeq(dbs') /\ dbs' # <<>> /\ \A i \in DOMAIN dbs' : dbs'[i] = d
    <2>1. <<d>> \in Seq({d}) /\ {<<d>>[i] : i \in DOMAIN <<d>>} = {d} /\ <<d>> # << >>
      OBVIOUS
    <2>2. \A i \in DOMAIN <<d>> : <<d>>[i] = d
      OBVIOUS
    <2> QED
      BY <1>4, <2>1, <2>2 DEF IsSeq
  <1>7. /\ DOMAIN NotLoaded = {"loaded", "mails"} /\ ~NotLoaded.loaded
        /\ NotLoaded.mails = {} /\ Stored(NotLoaded.mails, nextMail)
        /\ Priced(NoAuctions)
    BY DEF NotLoaded, Stored, Priced, NoAuctions
  <1>8. Shape'
    BY <1>1, <1>4, <1>5, <1>6, <1>7 DEF Shape
  <1>9. ASSUME NEW q \in Players PROVE BoxCurrent(q)' /\ QueryCurrent(q)'
    BY <1>4, <1>7 DEF BoxCurrent, QueryCurrent
  <1> QED
    BY <1>8, <1>9 DEF IInv

-----------------------------------------------------------------------------
(***************************************************************************)
(* The invariant holds at the start and is kept by every step.             *)
(***************************************************************************)
LEMMA InitIInv == Init => IInv
  <1> SUFFICES ASSUME Init PROVE IInv
    OBVIOUS
  <1> DEFINE d == [gold |-> StartGold, inv |-> StartUnits, auctions |-> NoAuctions,
                   mails |-> {}, owed |-> [p \in Players |-> 0], transit |-> 0,
                   lost |-> 0, unsent |-> 0, burnt |-> 0, regained |-> 0]
  <1>1. /\ dbs = <<d>>
        /\ state = [p \in Players |-> "online"]
        /\ behind = [p \in Players |-> 0]
        /\ box = [p \in Players |-> NotLoaded]
        /\ nextMail = 1 /\ auctions = NoAuctions
    BY DEF Init
  <1>2. {"mails", "auctions"} \subseteq DOMAIN d /\ d.mails = {} /\ d.auctions = NoAuctions
    OBVIOUS
  <1> HIDE DEF d
  <1>3. WellKept(d, nextMail) /\ Priced(NoAuctions)
    BY <1>2 DEF WellKept, Tabled, Stored, Narrow, Priced, NoAuctions
  <1>4. IsSeq(dbs) /\ dbs # <<>> /\ \A i \in DOMAIN dbs : dbs[i] = d
    <2>1. <<d>> \in Seq({d}) /\ {<<d>>[i] : i \in DOMAIN <<d>>} = {d} /\ <<d>> # << >>
      OBVIOUS
    <2>2. \A i \in DOMAIN <<d>> : <<d>>[i] = d
      OBVIOUS
    <2> QED
      BY <1>1, <2>1, <2>2 DEF IsSeq
  <1>5. /\ DOMAIN NotLoaded = {"loaded", "mails"} /\ ~NotLoaded.loaded
        /\ NotLoaded.mails = {} /\ Stored(NotLoaded.mails, nextMail)
    BY DEF NotLoaded, Stored
  <1>6. Shape
    BY <1>1, <1>3, <1>4, <1>5 DEF Shape
  <1>7. ASSUME NEW q \in Players PROVE BoxCurrent(q) /\ QueryCurrent(q)
    BY <1>1, <1>2, <1>4, <1>5 DEF BoxCurrent, QueryCurrent, KeptFrom, MailsOf
  <1> QED
    BY <1>6, <1>7 DEF IInv

\* Every step keeps the invariant of the mailboxes.
LEMMA StepIInv == IInv /\ [Next]_vars => IInv'
  <1> SUFFICES ASSUME IInv, [Next]_vars PROVE IInv'
    OBVIOUS
  <1>0. Priced(auctions)
    BY DEF IInv, Shape
  <1>1. ASSUME NEW p \in Players, NEW counts \in Counts, NEW bid \in StartBids,
               NEW buyout \in Buyouts, HandleAuctionSellItem(p, counts, bid, buyout)
        PROVE  IInv'
    BY <1>1, SellKeeps
  <1>2. ASSUME NEW p \in Players, NEW id \in DOMAIN auctions, NEW price \in Prices,
               Bid(p, id, price) \/ Buyout(p, id, price)
        PROVE  IInv'
    BY <1>2, BidKeeps, BuyoutKeeps
  <1>3. ASSUME NEW p \in Players, NEW id \in DOMAIN auctions, HandleAuctionRemoveItem(p, id)
        PROVE  IInv'
    BY <1>3, RemoveItemKeeps
  <1>4. ASSUME NEW p \in Players, NEW q, NEW l \in Letters, HandleSendMail(p, q, l)
        PROVE  IInv'
    BY <1>4, SendMailKeeps
  <1>5. ASSUME NEW p \in Players, MailOperation(p) PROVE IInv'
    <2>1. box[p].loaded
      BY <1>5 DEF MailOperation
    <2>2. PICK m \in box[p].mails :
             \/ HandleMailTakeMoney(p, m)
             \/ \E x \in box[p].mails : HandleMailTakeItem(p, m, x)
             \/ HandleMailReturnToSender(p, m)
      BY <1>5 DEF MailOperation
    <2> QED
      BY <2>1, <2>2, TakeMoneyKeeps, TakeItemKeeps, ReturnKeeps
  <1>6. ASSUME NEW p \in Players,
               \/ HandleGetMailList(p) \/ SaveToDB(p) \/ LogoutPlayer(p)
               \/ HandlePlayerLoginOpcode(p) \/ HandlePlayerLogin(p)
        PROVE  IInv'
    BY <1>6, GetMailListKeeps, SaveKeeps, LogoutKeeps, LoginKeeps
  <1>7. ASSUME NEW id, Expire(id) PROVE IInv'
    BY <1>0, <1>7, NothingMoves DEF Expire
  <1>8. ASSUME NEW id,
               (id \in DOMAIN auctions /\ Update(id)) \/ DeleteExpiredAuctionsAtStartup(id)
        PROVE  IInv'
    BY <1>8, UpdateKeeps
  <1>9. CASE Execute \/ Crash
    BY <1>9, ExecuteKeeps, CrashKeeps
  <1>10. CASE LoadAuctionItems \/ LoadAuctions
    <2>1. CASE LoadAuctionItems
      BY <1>0, <2>1, NothingMoves DEF LoadAuctionItems
    <2>2. CASE LoadAuctions
      <3>1. Shape /\ DOMAIN dbs = 1 .. Len(dbs) /\ Len(dbs) \in DOMAIN dbs
        BY DatabaseKept DEF IInv
      <3>2. Priced(dbs[1].auctions)
        BY <3>1 DEF Shape, WellKept, Tabled
      <3> QED
        BY <2>2, <3>2, NothingMoves DEF LoadAuctions
    <2> QED
      BY <1>10, <2>1, <2>2
  <1>11. CASE UNCHANGED vars
    BY <1>0, <1>11, NothingMoves DEF vars
  <1> QED
    BY <1>1, <1>2, <1>3, <1>4, <1>5, <1>6, <1>7, <1>8, <1>9, <1>10, <1>11 DEF Next

(***************************************************************************)
(* The inductive invariant of the mails.                                   *)
(***************************************************************************)
THEOREM MailInvariant == Spec => []IInv
  BY InitIInv, StepIInv, PTL DEF Spec

(***************************************************************************)
(* A mail that a character sees in HandleGetMailList and takes something   *)
(* from is never one that was emptied before, whatever waits in the queue  *)
(* of the transactions, over logouts, logins and crashes: nothing can be   *)
(* taken twice.                                                            *)
(***************************************************************************)
THEOREM LoadedMailsStayCurrent == Spec => []LoadedMailsCurrent
  <1>1. IInv => LoadedMailsCurrent
    BY DEF IInv, BoxCurrent, LoadedMailsCurrent, MailsOf, Rows
  <1> QED
    BY <1>1, MailInvariant, PTL

-----------------------------------------------------------------------------
(* Gold and units: what the states of the database hold.                   *)

\* A row of the auctions; the gold of a leading bid has a bidder.
IsAuction(a) ==
    /\ HasPrices(a) /\ a.units \in Nat
    /\ a.bidder = Nobody => a.bid = 0

\* What a mail contains.
HasAmounts(m) == m.gold \in Nat /\ m.units \in Nat

\* The rows of the auctions, with ids below next.
AuctionRows(rows, next) ==
    /\ IsFcn(rows)
    /\ DOMAIN rows \subseteq 1 .. next - 1
    /\ \A id \in DOMAIN rows : IsAuction(rows[id])

MailRows(mails) == IsFiniteSet(mails) /\ \A m \in mails : HasAmounts(m)

DatabaseState(d, next) ==
    /\ DOMAIN d = {"gold", "inv", "auctions", "mails", "owed", "transit", "lost",
                   "unsent", "burnt", "regained"}
    /\ d.gold \in [Players -> Nat] /\ d.inv \in [Players -> Nat]
    /\ d.owed \in [Players -> Nat]
    /\ AuctionRows(d.auctions, next)
    /\ MailRows(d.mails)
    /\ d.transit \in Int /\ d.lost \in Int /\ d.unsent \in Int
    /\ d.burnt \in Int /\ d.regained \in Int

\* What auctions and mails hold.
AuctionGold(rows) == Sum([id \in DOMAIN rows |-> rows[id].bid + rows[id].deposit])
AuctionUnits(rows) == Sum([id \in DOMAIN rows |-> rows[id].units])
MailTotal(mails, f) == Sum([m \in mails |-> m[f]])

\* What the row of a draft gets.
Amount(x, f) == IF f = "gold" THEN x.gold % UInt ELSE x.units
DraftTotal(drafts, f) == Sum([i \in DOMAIN drafts |-> Amount(drafts[i], f)])

\* The two sides of GoldAccounted, and of the law of the units, in one number.
Worth(d) == Held(d) + d.burnt - d.regained - Sum(d.owed)
Stock(d) == Units(d) + d.transit + d.lost + d.unsent

\* What is stored of a character is what it has in memory; the deposits it
\* owes are missing there already, unless an amount has been altered.  Its login
\* query finds what was saved last.
CharacterStored(p) ==
    /\ state[p] = "online" =>
          /\ altered \/ Database.gold[p] = gold[p] + Database.owed[p]
          /\ Database.inv[p] = inv[p]
    /\ state[p] # "online" => Database.owed[p] = 0
    /\ state[p] = "loading" =>
          /\ behind[p] < Len(dbs)
          /\ \A i \in DOMAIN dbs : i > behind[p] =>
                /\ dbs[i].gold[p] = Database.gold[p]
                /\ dbs[i].inv[p] = Database.inv[p]

\* The auctions in memory are the stored ones; until they are loaded, only
\* rows are deleted.
AuctionsStored ==
    IF server = "up" THEN auctions = Database.auctions
    ELSE \A i \in DOMAIN dbs :
            /\ DOMAIN Database.auctions \subseteq DOMAIN dbs[i].auctions
            /\ \A id \in DOMAIN Database.auctions :
                  dbs[i].auctions[id] = Database.auctions[id]

\* A state of the database that accounts for the units and, unless an amount
\* has been altered, for the gold.
Balanced(d, next, off) ==
    /\ DatabaseState(d, next)
    /\ Stock(d) = Sum(StartUnits)
    /\ off \/ Worth(d) = Sum(StartGold)

Books ==
    /\ gold \in [Players -> Nat] /\ inv \in [Players -> Nat]
    /\ nextAuction \in Nat \ {0} /\ altered \in BOOLEAN
    /\ \A i \in DOMAIN dbs : Balanced(dbs[i], nextAuction, altered)
    /\ \A p \in Players : CharacterStored(p)
    /\ AuctionsStored

LedgerInv == IInv /\ (ghosts = {} => Books)

-----------------------------------------------------------------------------
(* Sums over finite sets.                                                  *)

\* A function whose values can be added up.
Summable(f) == IsFiniteSet(DOMAIN f) /\ \A x \in DOMAIN f : f[x] \in Nat

(***************************************************************************)
(* The coins of one holder.                                                *)
(***************************************************************************)
LEMMA CoinsOfOne ==
  ASSUME NEW x, NEW n \in Nat
  PROVE  IsFiniteSet({x} \X (1 .. n)) /\ Cardinality({x} \X (1 .. n)) = n
  <1>1. IsFiniteSet({x}) /\ Cardinality({x}) = 1
    BY FS_Singleton
  <1>2. IsFiniteSet(1 .. n) /\ Cardinality(1 .. n) = n
    BY FS_Interval
  <1>3. /\ IsFiniteSet({x} \X (1 .. n))
        /\ Cardinality({x} \X (1 .. n)) = Cardinality({x}) * Cardinality(1 .. n)
    BY <1>1, <1>2, FS_Product
  <1> QED
    BY <1>1, <1>2, <1>3

(***************************************************************************)
(* The coins of f are pairs of a holder and a number.                      *)
(***************************************************************************)
LEMMA CoinsElements ==
  ASSUME NEW f
  PROVE  \A c : c \in Coins(f) <=> \E x \in DOMAIN f : c \in {x} \X (1 .. f[x])
  BY DEF Coins

(***************************************************************************)
(* A sum is a natural number.                                              *)
(***************************************************************************)
LEMMA SumType ==
  ASSUME NEW f, Summable(f)
  PROVE  IsFiniteSet(Coins(f)) /\ Sum(f) \in Nat
  <1> DEFINE S == DOMAIN f
             Purse(x) == {x} \X (1 .. f[x])
             g == [x \in S |-> Purse(x)]
             T == {Purse(x) : x \in S}
  <1>1. g \in Surjection(S, T)
    BY DEF Surjection
  <1>2. IsFiniteSet(S)
    BY DEF Summable
  <1>3. \A t \in T : IsFiniteSet(t)
    <2>1. \A x \in S : f[x] \in Nat
      BY DEF Summable
    <2>2. \A x \in S : IsFiniteSet(Purse(x))
      BY <2>1, CoinsOfOne
    <2> HIDE DEF Purse
    <2> QED
      BY <2>2
  <1> HIDE DEF g, T
  <1>4. IsFiniteSet(T)
    BY <1>1, <1>2, FS_Surjection
  <1>5. IsFiniteSet(UNION T)
    BY <1>3, <1>4, FS_UNION
  <1>6. Coins(f) = UNION T
    BY DEF Coins, T
  <1>7. IsFiniteSet(Coins(f))
    BY <1>5, <1>6
  <1> QED
    BY <1>7, FS_CardinalityType DEF Sum

(***************************************************************************)
(* A sum only depends on the values.                                       *)
(***************************************************************************)
LEMMA SumSame ==
  ASSUME NEW f, NEW g, DOMAIN f = DOMAIN g, \A x \in DOMAIN f : f[x] = g[x]
  PROVE  Sum(f) = Sum(g)
  <1>1. Coins(f) = Coins(g)
    <2>1. \A c : c \in Coins(f) <=> c \in Coins(g)
      BY CoinsElements
    <2> QED
      BY <2>1, Zenon
  <1> QED
    BY <1>1 DEF Sum

\* Nothing adds up to nothing.
LEMMA SumOfZeros ==
  ASSUME NEW f, \A x \in DOMAIN f : f[x] = 0
  PROVE  Sum(f) = 0
  <1>1. \A c : c \notin Coins(f)
    BY CoinsElements
  <1>2. Coins(f) = {}
    BY <1>1, Zenon
  <1> QED
    BY <1>2, FS_EmptySet DEF Sum

(***************************************************************************)
(* The sum over two disjoint sets.                                         *)
(***************************************************************************)
LEMMA SumOfUnion ==
  ASSUME NEW f, NEW g, NEW h, Summable(g), Summable(h),
         DOMAIN f = DOMAIN g \cup DOMAIN h, DOMAIN g \cap DOMAIN h = {},
         \A x \in DOMAIN g : f[x] = g[x], \A x \in DOMAIN h : f[x] = h[x]
  PROVE  Summable(f) /\ Sum(f) = Sum(g) + Sum(h)
  <1>1. \A c : c \in Coins(f) <=> c \in Coins(g) \/ c \in Coins(h)
    BY CoinsElements
  <1>2. Coins(f) = Coins(g) \cup Coins(h)
    BY <1>1
  <1>3. \A c : ~(c \in Coins(g) /\ c \in Coins(h))
    <2> SUFFICES ASSUME NEW c, c \in Coins(g), c \in Coins(h) PROVE FALSE
      OBVIOUS
    <2>1. PICK x \in DOMAIN g : c \in {x} \X (1 .. g[x])
      BY CoinsElements
    <2>2. PICK y \in DOMAIN h : c \in {y} \X (1 .. h[y])
      BY CoinsElements
    <2>3. c[1] = x /\ c[1] = y
      BY <2>1, <2>2
    <2> QED
      BY <2>3
  <1>4. Coins(g) \cap Coins(h) = {}
    BY <1>3
  <1>5. IsFiniteSet(Coins(g)) /\ IsFiniteSet(Coins(h)) /\ Sum(g) \in Nat /\ Sum(h) \in Nat
    BY SumType
  <1>6. Cardinality(Coins(g) \cup Coins(h))
          = Cardinality(Coins(g)) + Cardinality(Coins(h)) - Cardinality(Coins(g) \cap Coins(h))
    BY <1>5, FS_Union
  <1>7. Cardinality(Coins(g) \cap Coins(h)) = 0
    BY <1>4, FS_EmptySet
  <1>8. IsFiniteSet(DOMAIN f)
    <2>1. IsFiniteSet(DOMAIN g) /\ IsFiniteSet(DOMAIN h)
      BY DEF Summable
    <2> QED
      BY <2>1, FS_Union
  <1>9. \A x \in DOMAIN f : f[x] \in Nat
    BY DEF Summable
  <1> QED
    BY <1>2, <1>5, <1>6, <1>7, <1>8, <1>9 DEF Sum, Summable

(***************************************************************************)
(* One value can be set aside.                                             *)
(***************************************************************************)
LEMMA SumSplit ==
  ASSUME NEW f, Summable(f), NEW x \in DOMAIN f
  PROVE  LET rest == [y \in DOMAIN f \ {x} |-> f[y]]
         IN  Summable(rest) /\ Sum(f) = Sum(rest) + f[x]
  <1> DEFINE rest == [y \in DOMAIN f \ {x} |-> f[y]]
             one == [y \in {x} |-> f[x]]
  <1>1. IsFiniteSet({x})
    BY FS_Singleton
  <1>2. IsFiniteSet(DOMAIN f \ {x})
    BY FS_RemoveElement DEF Summable
  <1>3. Summable(rest) /\ Summable(one)
    BY <1>1, <1>2 DEF Summable
  <1>4. Sum(one) = f[x]
    <2>1. \A c : c \in Coins(one) <=> c \in {x} \X (1 .. f[x])
      BY CoinsElements
    <2>2. Coins(one) = {x} \X (1 .. f[x])
      BY <2>1, Zenon
    <2>3. f[x] \in Nat
      BY DEF Summable
    <2> QED
      BY <2>2, <2>3, CoinsOfOne DEF Sum
  <1>5. /\ DOMAIN f = DOMAIN rest \cup DOMAIN one
        /\ DOMAIN rest \cap DOMAIN one = {}
        /\ \A y \in DOMAIN rest : f[y] = rest[y]
        /\ \A y \in DOMAIN one : f[y] = one[y]
    OBVIOUS
  <1> HIDE DEF rest, one
  <1>6. Sum(f) = Sum(rest) + Sum(one)
    BY <1>3, <1>5, SumOfUnion
  <1> QED
    BY <1>3, <1>4, <1>6 DEF rest

(***************************************************************************)
(* Another value in one place.                                             *)
(***************************************************************************)
LEMMA SumChanged ==
  ASSUME NEW f, Summable(f), NEW g, DOMAIN g = DOMAIN f, NEW x \in DOMAIN f,
         g[x] \in Nat, \A y \in DOMAIN f : y # x => g[y] = f[y]
  PROVE  Summable(g) /\ Sum(g) = Sum(f) - f[x] + g[x]
  <1> DEFINE R(h) == [y \in DOMAIN h \ {x} |-> h[y]]
  <1>1. Summable(g)
    BY DEF Summable
  <1>2. Summable(R(f)) /\ Sum(f) = Sum(R(f)) + f[x]
    BY SumSplit
  <1>3. Summable(R(g)) /\ Sum(g) = Sum(R(g)) + g[x]
    BY <1>1, SumSplit
  <1>4. R(f) = R(g)
    OBVIOUS
  <1>5. Sum(R(f)) \in Nat /\ f[x] \in Nat
    BY <1>2, SumType DEF Summable
  <1> HIDE DEF R
  <1> QED
    BY <1>1, <1>2, <1>3, <1>4, <1>5

(***************************************************************************)
(* One more value.                                                         *)
(***************************************************************************)
LEMMA SumAdded ==
  ASSUME NEW f, Summable(f), NEW x, x \notin DOMAIN f, NEW g,
         DOMAIN g = DOMAIN f \cup {x}, g[x] \in Nat, \A y \in DOMAIN f : g[y] = f[y]
  PROVE  Summable(g) /\ Sum(g) = Sum(f) + g[x]
  <1>1. IsFiniteSet(DOMAIN g)
    BY FS_AddElement DEF Summable
  <1>2. Summable(g)
    BY <1>1 DEF Summable
  <1> DEFINE rest == [y \in DOMAIN g \ {x} |-> g[y]]
  <1>3. Summable(rest) /\ Sum(g) = Sum(rest) + g[x]
    BY <1>2, SumSplit
  <1>4. DOMAIN rest = DOMAIN f /\ \A y \in DOMAIN rest : rest[y] = f[y]
    OBVIOUS
  <1> HIDE DEF rest
  <1>5. Sum(rest) = Sum(f)
    BY <1>4, SumSame
  <1> QED
    BY <1>2, <1>3, <1>5

-----------------------------------------------------------------------------
(* What the statements of the transactions move.                           *)

(***************************************************************************)
(* The parts of a state of the database add up.                            *)
(***************************************************************************)
LEMMA Parts ==
  ASSUME NEW d, NEW k, DatabaseState(d, k), k \in Nat
  PROVE  /\ Summable(d.gold) /\ Summable(d.inv) /\ Summable(d.owed)
         /\ Sum(d.gold) \in Nat /\ Sum(d.inv) \in Nat /\ Sum(d.owed) \in Nat
         /\ AuctionGold(d.auctions) \in Nat /\ AuctionUnits(d.auctions) \in Nat
         /\ MailTotal(d.mails, "gold") \in Nat /\ MailTotal(d.mails, "units") \in Nat
         /\ Worth(d) = Sum(d.gold) + AuctionGold(d.auctions) + MailTotal(d.mails, "gold")
                         + d.burnt - d.regained - Sum(d.owed)
         /\ Stock(d) = Sum(d.inv) + AuctionUnits(d.auctions) + MailTotal(d.mails, "units")
                         + d.transit + d.lost + d.unsent
         /\ Worth(d) \in Int /\ Stock(d) \in Int
  <1>1. Summable(d.gold) /\ Summable(d.inv) /\ Summable(d.owed)
    BY AuctionAssumption DEF DatabaseState, Summable
  <1>2. IsFiniteSet(DOMAIN d.auctions)
    <2>1. IsFiniteSet(1 .. k - 1)
      BY FS_Interval
    <2> QED
      BY <2>1, FS_Subset DEF DatabaseState, AuctionRows
  <1>3. AuctionGold(d.auctions) \in Nat /\ AuctionUnits(d.auctions) \in Nat
    <2> DEFINE f == [id \in DOMAIN d.auctions |-> d.auctions[id].bid + d.auctions[id].deposit]
               g == [id \in DOMAIN d.auctions |-> d.auctions[id].units]
    <2>1. Summable(f) /\ Summable(g)
      BY <1>2 DEF DatabaseState, AuctionRows, IsAuction, HasPrices, Summable
    <2> HIDE DEF f, g
    <2>2. Sum(f) \in Nat /\ Sum(g) \in Nat
      BY <2>1, SumType
    <2> QED
      BY <2>2 DEF AuctionGold, AuctionUnits, f, g
  <1>4. MailTotal(d.mails, "gold") \in Nat /\ MailTotal(d.mails, "units") \in Nat
    <2> DEFINE f == [m \in d.mails |-> m["gold"]]
               g == [m \in d.mails |-> m["units"]]
    <2>1. Summable(f) /\ Summable(g)
      BY DEF DatabaseState, MailRows, HasAmounts, Summable
    <2> HIDE DEF f, g
    <2>2. Sum(f) \in Nat /\ Sum(g) \in Nat
      BY <2>1, SumType
    <2> QED
      BY <2>2 DEF MailTotal, f, g
  <1>5. Sum(d.gold) \in Nat /\ Sum(d.inv) \in Nat /\ Sum(d.owed) \in Nat
    BY <1>1, SumType
  <1>6. Held(d) = Sum(d.gold) + AuctionGold(d.auctions) + MailTotal(d.mails, "gold")
    BY DEF Held, AuctionGold, MailTotal
  <1>7. Units(d) = Sum(d.inv) + AuctionUnits(d.auctions) + MailTotal(d.mails, "units")
    BY DEF Units, AuctionUnits, MailTotal
  <1>8. d.transit \in Int /\ d.lost \in Int /\ d.unsent \in Int /\ d.burnt \in Int /\ d.regained \in Int
    BY DEF DatabaseState
  <1>9. /\ Worth(d) = Sum(d.gold) + AuctionGold(d.auctions) + MailTotal(d.mails, "gold")
                         + d.burnt - d.regained - Sum(d.owed)
        /\ Worth(d) \in Int
    BY <1>3, <1>4, <1>5, <1>6, <1>8 DEF Worth
  <1>10. /\ Stock(d) = Sum(d.inv) + AuctionUnits(d.auctions) + MailTotal(d.mails, "units")
                          + d.transit + d.lost + d.unsent
         /\ Stock(d) \in Int
    BY <1>3, <1>4, <1>5, <1>7, <1>8 DEF Stock
  <1> QED
    BY <1>1, <1>3, <1>4, <1>5, <1>9, <1>10

(***************************************************************************)
(* SaveGold: money in the row of the character, which owes nothing.        *)
(***************************************************************************)
LEMMA SaveGoldMoves ==
  ASSUME NEW d, NEW k \in Nat, DatabaseState(d, k), NEW p \in Players, NEW g \in Nat,
         NEW e, e = SaveGold(d, p, g)
  PROVE  /\ DatabaseState(e, k)
         /\ Worth(e) = Worth(d) + g - d.gold[p] + d.owed[p]
         /\ Stock(e) = Stock(d)
         /\ e.gold = [d.gold EXCEPT ![p] = g] /\ e.inv = d.inv
         /\ e.owed = [d.owed EXCEPT ![p] = 0]
         /\ e.auctions = d.auctions /\ e.mails = d.mails
         /\ e.transit = d.transit /\ e.lost = d.lost /\ e.unsent = d.unsent /\ e.burnt = d.burnt
  <1>1. /\ e.gold = [d.gold EXCEPT ![p] = g] /\ e.inv = d.inv
        /\ e.owed = [d.owed EXCEPT ![p] = 0]
        /\ e.auctions = d.auctions /\ e.mails = d.mails
        /\ e.transit = d.transit /\ e.lost = d.lost /\ e.unsent = d.unsent /\ e.burnt = d.burnt
        /\ e.regained = d.regained
        /\ DOMAIN e = DOMAIN d
    BY DEF SaveGold, DatabaseState
  <1>2. DatabaseState(e, k)
    BY <1>1 DEF DatabaseState
  <1>3. Sum(e.gold) = Sum(d.gold) - d.gold[p] + g
    <2>1. /\ DOMAIN e.gold = DOMAIN d.gold /\ p \in DOMAIN d.gold /\ e.gold[p] = g
          /\ \A y \in DOMAIN d.gold : y # p => e.gold[y] = d.gold[y]
      BY <1>1 DEF DatabaseState
    <2>2. Summable(d.gold)
      BY Parts
    <2> QED
      BY <2>1, <2>2, SumChanged
  <1>4. Sum(e.owed) = Sum(d.owed) - d.owed[p]
    <2>1. /\ DOMAIN e.owed = DOMAIN d.owed /\ p \in DOMAIN d.owed /\ e.owed[p] = 0
          /\ \A y \in DOMAIN d.owed : y # p => e.owed[y] = d.owed[y]
      BY <1>1 DEF DatabaseState
    <2>2. Summable(d.owed) /\ Sum(d.owed) \in Nat /\ d.owed[p] \in Nat
      BY Parts DEF DatabaseState
    <2>3. Sum(e.owed) = Sum(d.owed) - d.owed[p] + e.owed[p]
      BY <2>1, <2>2, SumChanged
    <2> QED
      BY <2>1, <2>2, <2>3
  <1>5. d.gold[p] \in Nat /\ d.owed[p] \in Nat
    BY DEF DatabaseState
  <1>6. /\ Sum(d.gold) \in Nat /\ Sum(d.owed) \in Nat
        /\ AuctionGold(d.auctions) \in Nat /\ MailTotal(d.mails, "gold") \in Nat
        /\ Worth(d) = Sum(d.gold) + AuctionGold(d.auctions) + MailTotal(d.mails, "gold")
                         + d.burnt - d.regained - Sum(d.owed)
        /\ d.burnt \in Int /\ d.regained \in Int
    BY Parts DEF DatabaseState
  <1>7. Worth(e) = Sum(e.gold) + AuctionGold(e.auctions) + MailTotal(e.mails, "gold")
                         + e.burnt - e.regained - Sum(e.owed)
    BY <1>2, Parts
  <1>8. Worth(e) = Worth(d) + g - d.gold[p] + d.owed[p]
    BY <1>1, <1>3, <1>4, <1>5, <1>6, <1>7
  <1>9. Stock(e) = Stock(d)
    BY <1>1, <1>2, Parts
  <1> QED
    BY <1>1, <1>2, <1>8, <1>9

(***************************************************************************)
(* SaveInventoryAndGold: the stack as well.                                *)
(***************************************************************************)
LEMMA SaveMoves ==
  ASSUME NEW d, NEW k \in Nat, DatabaseState(d, k), NEW p \in Players, NEW g \in Nat,
         NEW n \in Nat, NEW e, e = SaveInventoryAndGold(d, p, g, n)
  PROVE  /\ DatabaseState(e, k)
         /\ Worth(e) = Worth(d) + g - d.gold[p] + d.owed[p]
         /\ Stock(e) = Stock(d) + n - d.inv[p]
         /\ e.gold = [d.gold EXCEPT ![p] = g] /\ e.inv = [d.inv EXCEPT ![p] = n]
         /\ e.owed = [d.owed EXCEPT ![p] = 0]
         /\ e.auctions = d.auctions /\ e.mails = d.mails
         /\ e.transit = d.transit /\ e.lost = d.lost /\ e.unsent = d.unsent /\ e.burnt = d.burnt
  <1> DEFINE c == SaveGold(d, p, g)
  <1>1. c = SaveGold(d, p, g)
    OBVIOUS
  <1>2. e = [c EXCEPT !.inv[p] = n]
    BY DEF SaveInventoryAndGold
  <1> HIDE DEF c
  <1>3. /\ DatabaseState(c, k)
        /\ Worth(c) = Worth(d) + g - d.gold[p] + d.owed[p]
        /\ Stock(c) = Stock(d)
        /\ c.gold = [d.gold EXCEPT ![p] = g] /\ c.inv = d.inv
        /\ c.owed = [d.owed EXCEPT ![p] = 0]
        /\ c.auctions = d.auctions /\ c.mails = d.mails
        /\ c.transit = d.transit /\ c.lost = d.lost /\ c.unsent = d.unsent /\ c.burnt = d.burnt
    BY <1>1, SaveGoldMoves
  <1>4. /\ e.inv = [c.inv EXCEPT ![p] = n]
        /\ e.gold = c.gold /\ e.owed = c.owed /\ e.auctions = c.auctions
        /\ e.mails = c.mails /\ e.transit = c.transit /\ e.lost = c.lost /\ e.unsent = c.unsent
        /\ e.burnt = c.burnt /\ e.regained = c.regained /\ DOMAIN e = DOMAIN c
    BY <1>2, <1>3 DEF DatabaseState
  <1>5. DatabaseState(e, k)
    BY <1>3, <1>4 DEF DatabaseState
  <1>6. Sum(e.inv) = Sum(c.inv) - c.inv[p] + n
    <2>1. /\ DOMAIN e.inv = DOMAIN c.inv /\ p \in DOMAIN c.inv /\ e.inv[p] = n
          /\ \A y \in DOMAIN c.inv : y # p => e.inv[y] = c.inv[y]
      BY <1>3, <1>4 DEF DatabaseState
    <2>2. Summable(c.inv)
      BY <1>3, Parts
    <2> QED
      BY <2>1, <2>2, SumChanged
  <1>7. c.inv[p] \in Nat /\ c.transit \in Int /\ c.lost \in Int /\ c.unsent \in Int
    BY <1>3 DEF DatabaseState
  <1>8. /\ Sum(c.inv) \in Nat /\ AuctionUnits(c.auctions) \in Nat
        /\ MailTotal(c.mails, "units") \in Nat
        /\ Stock(c) = Sum(c.inv) + AuctionUnits(c.auctions) + MailTotal(c.mails, "units")
                         + c.transit + c.lost + c.unsent
    BY <1>3, Parts
  <1>9. Stock(e) = Sum(e.inv) + AuctionUnits(e.auctions) + MailTotal(e.mails, "units")
                     + e.transit + e.lost + e.unsent
    BY <1>5, Parts
  <1>10. Stock(e) = Stock(c) + n - c.inv[p]
    BY <1>4, <1>6, <1>7, <1>8, <1>9
  <1>11. Worth(e) = Worth(c)
    BY <1>3, <1>4, <1>5, Parts
  <1>12. e.inv = [d.inv EXCEPT ![p] = n]
    BY <1>3, <1>4
  <1> QED
    BY <1>3, <1>4, <1>5, <1>10, <1>11, <1>12

(***************************************************************************)
(* The histories, one at a time.                                           *)
(***************************************************************************)
LEMMA HistoryMoves ==
  ASSUME NEW d, NEW k \in Nat, DatabaseState(d, k), NEW burnt \in Int, NEW unsent \in Int,
         NEW e, DOMAIN e = DOMAIN d,
         e.gold = d.gold, e.inv = d.inv, e.owed = d.owed, e.auctions = d.auctions,
         e.mails = d.mails, e.regained = d.regained,
         e.burnt = d.burnt + burnt, e.unsent = d.unsent + unsent,
         e.lost = d.lost, e.transit = d.transit
  PROVE  /\ DatabaseState(e, k)
         /\ Worth(e) = Worth(d) + burnt
         /\ Stock(e) = Stock(d) + unsent
  <1>1. d.burnt \in Int /\ d.lost \in Int /\ d.unsent \in Int /\ d.transit \in Int /\ d.regained \in Int
    BY DEF DatabaseState
  <1>2. DatabaseState(e, k)
    BY <1>1 DEF DatabaseState
  <1>3. /\ Sum(d.gold) \in Nat /\ Sum(d.inv) \in Nat /\ Sum(d.owed) \in Nat
        /\ AuctionGold(d.auctions) \in Nat /\ AuctionUnits(d.auctions) \in Nat
        /\ MailTotal(d.mails, "gold") \in Nat /\ MailTotal(d.mails, "units") \in Nat
        /\ Worth(d) = Sum(d.gold) + AuctionGold(d.auctions) + MailTotal(d.mails, "gold")
                        + d.burnt - d.regained - Sum(d.owed)
        /\ Stock(d) = Sum(d.inv) + AuctionUnits(d.auctions) + MailTotal(d.mails, "units")
                        + d.transit + d.lost + d.unsent
    BY Parts
  <1>4. /\ Worth(e) = Sum(e.gold) + AuctionGold(e.auctions) + MailTotal(e.mails, "gold")
                        + e.burnt - e.regained - Sum(e.owed)
        /\ Stock(e) = Sum(e.inv) + AuctionUnits(e.auctions) + MailTotal(e.mails, "units")
                        + e.transit + e.lost + e.unsent
    BY <1>2, Parts
  <1>5. Worth(e) = Worth(d) + burnt
    BY <1>1, <1>3, <1>4
  <1>6. Stock(e) = Stock(d) + unsent
    BY <1>1, <1>3, <1>4
  <1> QED
    BY <1>2, <1>5, <1>6

\* Gold that is taken: cuts, postage, the part of a bid above a uint32.
LEMMA BurntMoves ==
  ASSUME NEW d, NEW k \in Nat, DatabaseState(d, k), NEW burnt \in Int,
         NEW e, DOMAIN e = DOMAIN d,
         e.gold = d.gold, e.inv = d.inv, e.owed = d.owed, e.auctions = d.auctions,
         e.mails = d.mails, e.regained = d.regained,
         e.burnt = d.burnt + burnt, e.unsent = d.unsent,
         e.lost = d.lost, e.transit = d.transit
  PROVE  DatabaseState(e, k) /\ Worth(e) = Worth(d) + burnt /\ Stock(e) = Stock(d)
  <1> DEFINE none == 0
  <1>1. d.lost \in Int /\ d.unsent \in Int /\ d.transit \in Int /\ Stock(d) \in Int
    BY Parts DEF DatabaseState
  <1>2. e.unsent = d.unsent + none /\ none \in Int
    BY <1>1
  <1> HIDE DEF none
  <1>3. /\ DatabaseState(e, k)
        /\ Worth(e) = Worth(d) + burnt
        /\ Stock(e) = Stock(d) + none
    BY <1>2, HistoryMoves
  <1> QED
    BY <1>1, <1>3 DEF none

(***************************************************************************)
(* Other rows of the auctions and other mails.                             *)
(***************************************************************************)
LEMMA RowsMove ==
  ASSUME NEW d, NEW k \in Nat, DatabaseState(d, k), NEW n \in Nat, NEW e,
         DOMAIN e = DOMAIN d, AuctionRows(e.auctions, n), MailRows(e.mails),
         e.gold = d.gold, e.inv = d.inv, e.owed = d.owed, e.regained = d.regained,
         e.burnt = d.burnt, e.lost = d.lost, e.unsent = d.unsent, e.transit = d.transit
  PROVE  /\ DatabaseState(e, n)
         /\ Worth(e) = Worth(d) + AuctionGold(e.auctions) - AuctionGold(d.auctions)
                         + MailTotal(e.mails, "gold") - MailTotal(d.mails, "gold")
         /\ Stock(e) = Stock(d) + AuctionUnits(e.auctions) - AuctionUnits(d.auctions)
                         + MailTotal(e.mails, "units") - MailTotal(d.mails, "units")
  <1>1. d.burnt \in Int /\ d.lost \in Int /\ d.unsent \in Int /\ d.transit \in Int /\ d.regained \in Int
    BY DEF DatabaseState
  <1>2. DatabaseState(e, n)
    BY <1>1 DEF DatabaseState
  <1>3. /\ Sum(d.gold) \in Nat /\ Sum(d.inv) \in Nat /\ Sum(d.owed) \in Nat
        /\ AuctionGold(d.auctions) \in Nat /\ AuctionUnits(d.auctions) \in Nat
        /\ MailTotal(d.mails, "gold") \in Nat /\ MailTotal(d.mails, "units") \in Nat
        /\ Worth(d) = Sum(d.gold) + AuctionGold(d.auctions) + MailTotal(d.mails, "gold")
                        + d.burnt - d.regained - Sum(d.owed)
        /\ Stock(d) = Sum(d.inv) + AuctionUnits(d.auctions) + MailTotal(d.mails, "units")
                        + d.transit + d.lost + d.unsent
    BY Parts
  <1>4. /\ AuctionGold(e.auctions) \in Nat /\ AuctionUnits(e.auctions) \in Nat
        /\ MailTotal(e.mails, "gold") \in Nat /\ MailTotal(e.mails, "units") \in Nat
        /\ Worth(e) = Sum(e.gold) + AuctionGold(e.auctions) + MailTotal(e.mails, "gold")
                        + e.burnt - e.regained - Sum(e.owed)
        /\ Stock(e) = Sum(e.inv) + AuctionUnits(e.auctions) + MailTotal(e.mails, "units")
                        + e.transit + e.lost + e.unsent
    BY <1>2, Parts
  <1>5. Worth(e) = Worth(d) + AuctionGold(e.auctions) - AuctionGold(d.auctions)
                     + MailTotal(e.mails, "gold") - MailTotal(d.mails, "gold")
    BY <1>1, <1>3, <1>4
  <1>6. Stock(e) = Stock(d) + AuctionUnits(e.auctions) - AuctionUnits(d.auctions)
                     + MailTotal(e.mails, "units") - MailTotal(d.mails, "units")
    BY <1>1, <1>3, <1>4
  <1> QED
    BY <1>2, <1>5, <1>6

\* The values that are added up for the auctions.
GoldOfRows(rows) == [id \in DOMAIN rows |-> rows[id].bid + rows[id].deposit]
UnitsOfRows(rows) == [id \in DOMAIN rows |-> rows[id].units]

\* They are natural numbers.
LEMMA RowsSummable ==
  ASSUME NEW rows, NEW k \in Nat, AuctionRows(rows, k)
  PROVE  /\ Summable(GoldOfRows(rows)) /\ Summable(UnitsOfRows(rows))
         /\ AuctionGold(rows) = Sum(GoldOfRows(rows)) /\ AuctionGold(rows) \in Nat
         /\ AuctionUnits(rows) = Sum(UnitsOfRows(rows)) /\ AuctionUnits(rows) \in Nat
  <1>1. IsFiniteSet(DOMAIN rows)
    <2>1. IsFiniteSet(1 .. k - 1)
      BY FS_Interval
    <2> QED
      BY <2>1, FS_Subset DEF AuctionRows
  <1>2. Summable(GoldOfRows(rows)) /\ Summable(UnitsOfRows(rows))
    BY <1>1 DEF AuctionRows, IsAuction, HasPrices, Summable, GoldOfRows, UnitsOfRows
  <1>3. AuctionGold(rows) = Sum(GoldOfRows(rows)) /\ AuctionUnits(rows) = Sum(UnitsOfRows(rows))
    BY DEF AuctionGold, AuctionUnits, GoldOfRows, UnitsOfRows
  <1> QED
    BY <1>2, <1>3, SumType

(***************************************************************************)
(* A new auction has an id that no row has.                                *)
(***************************************************************************)
LEMMA RowInserted ==
  ASSUME NEW rows, NEW k \in Nat \ {0}, AuctionRows(rows, k), NEW a, IsAuction(a)
  PROVE  LET new == WithRow(rows, k, a)
         IN  /\ AuctionRows(new, k + 1)
             /\ AuctionGold(new) = AuctionGold(rows) + a.bid + a.deposit
             /\ AuctionUnits(new) = AuctionUnits(rows) + a.units
  <1> DEFINE new == WithRow(rows, k, a)
  <1>1. k \notin DOMAIN rows
    BY DEF AuctionRows
  <1>2. /\ DOMAIN new = DOMAIN rows \cup {k} /\ new[k] = a
        /\ \A id \in DOMAIN rows : new[id] = rows[id]
        /\ IsFcn(new)
    BY <1>1 DEF WithRow, IsFcn
  <1> HIDE DEF new
  <1>3. AuctionRows(new, k + 1)
    <2>1. DOMAIN new \subseteq 1 .. (k + 1) - 1
      BY <1>2 DEF AuctionRows
    <2>2. \A id \in DOMAIN new : IsAuction(new[id])
      BY <1>2 DEF AuctionRows
    <2> QED
      BY <1>2, <2>1, <2>2 DEF AuctionRows
  <1>4. a.bid \in Nat /\ a.deposit \in Nat /\ a.units \in Nat
    BY AuctionAssumption DEF IsAuction, HasPrices
  <1>5. /\ Summable(GoldOfRows(rows)) /\ Summable(UnitsOfRows(rows))
        /\ AuctionGold(rows) = Sum(GoldOfRows(rows)) /\ AuctionGold(rows) \in Nat
        /\ AuctionUnits(rows) = Sum(UnitsOfRows(rows)) /\ AuctionUnits(rows) \in Nat
    BY RowsSummable
  <1>6. AuctionGold(new) = Sum(GoldOfRows(new)) /\ AuctionUnits(new) = Sum(UnitsOfRows(new))
    BY <1>3, RowsSummable
  <1>7. Sum(GoldOfRows(new)) = Sum(GoldOfRows(rows)) + (a.bid + a.deposit)
    <2>1. /\ DOMAIN GoldOfRows(new) = DOMAIN GoldOfRows(rows) \cup {k}
          /\ k \notin DOMAIN GoldOfRows(rows)
          /\ GoldOfRows(new)[k] = a.bid + a.deposit
          /\ \A y \in DOMAIN GoldOfRows(rows) : GoldOfRows(new)[y] = GoldOfRows(rows)[y]
      BY <1>1, <1>2 DEF GoldOfRows
    <2>2. a.bid + a.deposit \in Nat
      BY <1>4
    <2> QED
      BY <1>5, <2>1, <2>2, SumAdded
  <1>8. Sum(UnitsOfRows(new)) = Sum(UnitsOfRows(rows)) + a.units
    <2>1. /\ DOMAIN UnitsOfRows(new) = DOMAIN UnitsOfRows(rows) \cup {k}
          /\ k \notin DOMAIN UnitsOfRows(rows)
          /\ UnitsOfRows(new)[k] = a.units
          /\ \A y \in DOMAIN UnitsOfRows(rows) : UnitsOfRows(new)[y] = UnitsOfRows(rows)[y]
      BY <1>1, <1>2 DEF UnitsOfRows
    <2> QED
      BY <1>4, <1>5, <2>1, SumAdded
  <1>9. /\ AuctionRows(new, k + 1)
        /\ AuctionGold(new) = AuctionGold(rows) + a.bid + a.deposit
        /\ AuctionUnits(new) = AuctionUnits(rows) + a.units
    BY <1>3, <1>4, <1>5, <1>6, <1>7, <1>8
  <1> QED
    BY <1>9 DEF new

(***************************************************************************)
(* A row that is deleted takes its gold and its units out.                 *)
(***************************************************************************)
LEMMA RowDeleted ==
  ASSUME NEW rows, NEW k \in Nat, AuctionRows(rows, k), NEW id \in DOMAIN rows
  PROVE  LET new == [i \in DOMAIN rows \ {id} |-> rows[i]]
         IN  /\ AuctionRows(new, k)
             /\ AuctionGold(new) = AuctionGold(rows) - rows[id].bid - rows[id].deposit
             /\ AuctionUnits(new) = AuctionUnits(rows) - rows[id].units
  <1> DEFINE new == [i \in DOMAIN rows \ {id} |-> rows[i]]
             a == rows[id]
  <1>1. /\ DOMAIN new = DOMAIN rows \ {id} /\ \A i \in DOMAIN new : new[i] = rows[i]
        /\ IsFcn(new)
    BY DEF IsFcn
  <1> HIDE DEF new
  <1>2. AuctionRows(new, k)
    BY <1>1 DEF AuctionRows
  <1>3. a.bid \in Nat /\ a.deposit \in Nat /\ a.units \in Nat
    BY AuctionAssumption DEF AuctionRows, IsAuction, HasPrices
  <1>4. /\ Summable(GoldOfRows(rows)) /\ Summable(UnitsOfRows(rows))
        /\ AuctionGold(rows) = Sum(GoldOfRows(rows))
        /\ AuctionUnits(rows) = Sum(UnitsOfRows(rows))
    BY RowsSummable
  <1>5. /\ Summable(GoldOfRows(new)) /\ Summable(UnitsOfRows(new))
        /\ AuctionGold(new) = Sum(GoldOfRows(new)) /\ AuctionGold(new) \in Nat
        /\ AuctionUnits(new) = Sum(UnitsOfRows(new)) /\ AuctionUnits(new) \in Nat
    BY <1>2, RowsSummable
  <1>6. Sum(GoldOfRows(rows)) = Sum(GoldOfRows(new)) + (a.bid + a.deposit)
    <2>1. /\ DOMAIN GoldOfRows(rows) = DOMAIN GoldOfRows(new) \cup {id}
          /\ id \notin DOMAIN GoldOfRows(new)
          /\ \A y \in DOMAIN GoldOfRows(new) : GoldOfRows(rows)[y] = GoldOfRows(new)[y]
      BY <1>1 DEF GoldOfRows
    <2>2. GoldOfRows(rows)[id] = a.bid + a.deposit
      BY DEF GoldOfRows
    <2>3. GoldOfRows(rows)[id] \in Nat
      BY <1>3, <2>2
    <2>4. Sum(GoldOfRows(rows)) = Sum(GoldOfRows(new)) + GoldOfRows(rows)[id]
      BY <1>5, <2>1, <2>3, SumAdded
    <2> QED
      BY <2>2, <2>4
  <1>7. Sum(UnitsOfRows(rows)) = Sum(UnitsOfRows(new)) + a.units
    <2>1. /\ DOMAIN UnitsOfRows(rows) = DOMAIN UnitsOfRows(new) \cup {id}
          /\ id \notin DOMAIN UnitsOfRows(new)
          /\ UnitsOfRows(rows)[id] = a.units
          /\ \A y \in DOMAIN UnitsOfRows(new) : UnitsOfRows(rows)[y] = UnitsOfRows(new)[y]
      BY <1>1 DEF UnitsOfRows
    <2> QED
      BY <1>3, <1>5, <2>1, SumAdded
  <1>8. /\ AuctionRows(new, k)
        /\ AuctionGold(new) = AuctionGold(rows) - a.bid - a.deposit
        /\ AuctionUnits(new) = AuctionUnits(rows) - a.units
    BY <1>2, <1>3, <1>4, <1>5, <1>6, <1>7
  <1> QED
    BY <1>8 DEF new

(***************************************************************************)
(* A higher bid changes the gold of its row.                               *)
(***************************************************************************)
LEMMA RowChanged ==
  ASSUME NEW rows, NEW k \in Nat, AuctionRows(rows, k), NEW id \in DOMAIN rows,
         NEW a, IsAuction(a), a.units = rows[id].units, a.deposit = rows[id].deposit,
         NEW new, IsFcn(new), DOMAIN new = DOMAIN rows, new[id] = a,
         \A i \in DOMAIN rows : i # id => new[i] = rows[i]
  PROVE  /\ AuctionRows(new, k)
         /\ AuctionGold(new) = AuctionGold(rows) - rows[id].bid + a.bid
         /\ AuctionUnits(new) = AuctionUnits(rows)
  <1>1. /\ DOMAIN new = DOMAIN rows /\ new[id] = a
        /\ \A i \in DOMAIN rows : i # id => new[i] = rows[i]
        /\ IsFcn(new)
    OBVIOUS
  <1>2. AuctionRows(new, k)
    BY <1>1 DEF AuctionRows
  <1>3. a.bid \in Nat /\ a.deposit \in Nat /\ rows[id].bid \in Nat
    BY AuctionAssumption DEF AuctionRows, IsAuction, HasPrices
  <1>4. /\ Summable(GoldOfRows(rows))
        /\ AuctionGold(rows) = Sum(GoldOfRows(rows)) /\ AuctionGold(rows) \in Nat
        /\ AuctionUnits(rows) = Sum(UnitsOfRows(rows))
    BY RowsSummable
  <1>5. AuctionGold(new) = Sum(GoldOfRows(new)) /\ AuctionUnits(new) = Sum(UnitsOfRows(new))
    BY <1>2, RowsSummable
  <1>6. /\ GoldOfRows(rows)[id] = rows[id].bid + a.deposit
        /\ GoldOfRows(new)[id] = a.bid + a.deposit
    BY <1>1 DEF GoldOfRows
  <1>7. Sum(GoldOfRows(new)) = Sum(GoldOfRows(rows)) - GoldOfRows(rows)[id] + GoldOfRows(new)[id]
    <2>1. /\ DOMAIN GoldOfRows(new) = DOMAIN GoldOfRows(rows)
          /\ id \in DOMAIN GoldOfRows(rows)
          /\ \A y \in DOMAIN GoldOfRows(rows) :
                y # id => GoldOfRows(new)[y] = GoldOfRows(rows)[y]
      BY <1>1 DEF GoldOfRows
    <2>2. GoldOfRows(new)[id] \in Nat
      BY <1>3, <1>6
    <2> QED
      BY <1>4, <2>1, <2>2, SumChanged
  <1>8. Sum(UnitsOfRows(new)) = Sum(UnitsOfRows(rows))
    <2>1. /\ DOMAIN UnitsOfRows(new) = DOMAIN UnitsOfRows(rows)
          /\ \A y \in DOMAIN UnitsOfRows(new) : UnitsOfRows(new)[y] = UnitsOfRows(rows)[y]
      BY <1>1 DEF UnitsOfRows
    <2> QED
      BY <2>1, SumSame
  <1>9. /\ AuctionRows(new, k)
        /\ AuctionGold(new) = AuctionGold(rows) - rows[id].bid + a.bid
        /\ AuctionUnits(new) = AuctionUnits(rows)
    BY <1>2, <1>3, <1>4, <1>5, <1>6, <1>7, <1>8
  <1> QED
    BY <1>9

-----------------------------------------------------------------------------
(* Mails that are sent, emptied and returned.                              *)

Amounts == {"gold", "units"}

\* What is added up for the mails.
LEMMA MailsSummable ==
  ASSUME NEW B, MailRows(B), NEW f \in Amounts
  PROVE  Summable([m \in B |-> m[f]]) /\ MailTotal(B, f) \in Nat
  <1>1. Summable([m \in B |-> m[f]])
    BY DEF MailRows, HasAmounts, Summable, Amounts
  <1> QED
    BY <1>1, SumType DEF MailTotal

(***************************************************************************)
(* A sum does not depend on the names of its places.                       *)
(***************************************************************************)
LEMMA SumRenamed ==
  ASSUME NEW f, Summable(f), NEW g, NEW phi \in Bijection(DOMAIN f, DOMAIN g),
         \A x \in DOMAIN f : g[phi[x]] = f[x]
  PROVE  Summable(g) /\ Sum(g) = Sum(f)
  <1> DEFINE F == Coins(f)
             G == Coins(g)
             psi == [c \in F |-> <<phi[c[1]], c[2]>>]
  <1>1. /\ phi \in [DOMAIN f -> DOMAIN g]
        /\ \A x, y \in DOMAIN f : phi[x] = phi[y] => x = y
        /\ \A z \in DOMAIN g : \E x \in DOMAIN f : phi[x] = z
    BY DEF Bijection, Injection, Surjection, IsInjective
  <1>2. \A c : c \in F <=> \E x \in DOMAIN f, j \in Nat : j \in 1 .. f[x] /\ c = <<x, j>>
    <2>1. \A c : c \in F <=> \E x \in DOMAIN f : c \in {x} \X (1 .. f[x])
      BY CoinsElements
    <2> QED
      BY <2>1
  <1>3. \A c : c \in G <=> \E x \in DOMAIN g, j \in Nat : j \in 1 .. g[x] /\ c = <<x, j>>
    <2>1. \A c : c \in G <=> \E x \in DOMAIN g : c \in {x} \X (1 .. g[x])
      BY CoinsElements
    <2> QED
      BY <2>1
  <1>4. IsFiniteSet(F) /\ Sum(f) \in Nat
    BY SumType
  <1> HIDE DEF F, G
  <1>5. ASSUME NEW c \in F PROVE psi[c] \in G
    <2>1. PICK x \in DOMAIN f, j \in Nat : j \in 1 .. f[x] /\ c = <<x, j>>
      BY <1>2
    <2>2. psi[c] = <<phi[x], j>> /\ phi[x] \in DOMAIN g /\ j \in 1 .. g[phi[x]]
      BY <1>1, <2>1
    <2> QED
      BY <1>3, <2>2
  <1>6. ASSUME NEW c \in F, NEW d \in F, psi[c] = psi[d] PROVE c = d
    <2>1. PICK x \in DOMAIN f, j \in Nat : j \in 1 .. f[x] /\ c = <<x, j>>
      BY <1>2
    <2>2. PICK y \in DOMAIN f, k \in Nat : k \in 1 .. f[y] /\ d = <<y, k>>
      BY <1>2
    <2>3. psi[c] = <<phi[x], j>> /\ psi[d] = <<phi[y], k>>
      BY <2>1, <2>2
    <2>4. phi[x] = phi[y] /\ j = k
      BY <1>6, <2>3
    <2> QED
      BY <1>1, <2>1, <2>2, <2>4
  <1>7. ASSUME NEW c \in G PROVE \E d \in F : psi[d] = c
    <2>1. PICK z \in DOMAIN g, j \in Nat : j \in 1 .. g[z] /\ c = <<z, j>>
      BY <1>3
    <2>2. PICK x \in DOMAIN f : phi[x] = z
      BY <1>1
    <2>3. <<x, j>> \in F
      BY <1>2, <2>1, <2>2
    <2>4. psi[<<x, j>>] = c
      BY <2>1, <2>2, <2>3
    <2> QED
      BY <2>3, <2>4
  <1>8. psi \in [F -> G]
    BY <1>5
  <1> HIDE DEF psi
  <1>9. psi \in Bijection(F, G)
    <2>1. psi \in Injection(F, G)
      BY <1>6, <1>8 DEF Injection, IsInjective
    <2>2. psi \in Surjection(F, G)
      BY <1>7, <1>8 DEF Surjection
    <2> QED
      BY <2>1, <2>2 DEF Bijection
  <1>10. Cardinality(G) = Cardinality(F)
    BY <1>4, <1>9, FS_Bijection DEF ExistsBijection
  <1>11. IsFiniteSet(DOMAIN g)
    <2>1. phi \in Surjection(DOMAIN f, DOMAIN g)
      BY DEF Bijection
    <2>2. IsFiniteSet(DOMAIN f)
      BY DEF Summable
    <2> QED
      BY <2>1, <2>2, FS_Surjection
  <1>12. \A z \in DOMAIN g : g[z] \in Nat
    BY <1>1 DEF Summable
  <1> QED
    BY <1>10, <1>11, <1>12 DEF Summable, Sum, F, G

\* Drafts whose units are numbers.
Content(drafts) ==
    /\ IsSeq(drafts) /\ Drafted(drafts)
    /\ \A i \in DOMAIN drafts : drafts[i].units \in Nat

\* What is added up for drafts.
LEMMA DraftsSummable ==
  ASSUME NEW drafts, Content(drafts), NEW f \in Amounts
  PROVE  /\ Summable([i \in DOMAIN drafts |-> Amount(drafts[i], f)])
         /\ DraftTotal(drafts, f) \in Nat
  <1>1. IsFiniteSet(DOMAIN drafts)
    <2>1. Len(drafts) \in Nat /\ DOMAIN drafts = 1 .. Len(drafts)
      BY DEF Content, Drafted
    <2> QED
      BY <2>1, FS_Interval
  <1>2. \A i \in DOMAIN drafts : Amount(drafts[i], f) \in Nat
    <2> SUFFICES ASSUME NEW i \in DOMAIN drafts PROVE Amount(drafts[i], f) \in Nat
      OBVIOUS
    <2>1. drafts[i].gold \in Nat /\ drafts[i].units \in Nat
      BY DEF Content, Drafted, IsDraft
    <2>2. drafts[i].gold % UInt \in Nat
      <3>1. UInt \in Nat
        BY AuctionAssumption
      <3>2. drafts[i].gold % UInt \in 0 .. UInt - 1
        BY <2>1, Narrowed
      <3> QED
        BY <3>1, <3>2
    <2> QED
      BY <2>1, <2>2 DEF Amount
  <1>3. Summable([i \in DOMAIN drafts |-> Amount(drafts[i], f)])
    BY <1>1, <1>2 DEF Summable
  <1> QED
    BY <1>3, SumType DEF DraftTotal

(***************************************************************************)
(* The rows of the mails contain what the drafts contain, as uint32.       *)
(***************************************************************************)
LEMMA PostedTotal ==
  ASSUME nextMail \in Nat, NEW drafts, Content(drafts)
  PROVE  /\ MailRows(Rows(Post(drafts)))
         /\ \A f \in Amounts :
               /\ MailTotal(Rows(Post(drafts)), f) = DraftTotal(drafts, f)
               /\ DraftTotal(drafts, f) \in Nat
  <1> DEFINE S == DOMAIN drafts
             M(i) == Row(Stamped(drafts[i], nextMail + i - 1))
             P == Rows(Post(drafts))
  <1>1. S = 1 .. Len(drafts) /\ Len(drafts) \in Nat
    BY DEF Content, Drafted
  <1>2. ASSUME NEW i \in S
        PROVE  /\ M(i).id = nextMail + i - 1
               /\ M(i).gold = drafts[i].gold % UInt /\ M(i).gold \in Nat
               /\ M(i).units = drafts[i].units /\ M(i).units \in Nat
    <2> DEFINE m == Stamped(drafts[i], nextMail + i - 1)
    <2>1. IsDraft(drafts[i]) /\ drafts[i].units \in Nat
      BY DEF Content, Drafted
    <2>2. nextMail + i - 1 \in Nat
      BY <1>1
    <2>3. /\ IsLetter(m) /\ m.id = nextMail + i - 1
          /\ m.gold = drafts[i].gold /\ m.units = drafts[i].units
      BY <2>1, <2>2 DEF Stamped, IsLetter, IsDraft, IsFcn
    <2> HIDE DEF m
    <2>4. /\ Row(m).id = m.id /\ Row(m).units = m.units
          /\ Row(m).gold = m.gold % UInt /\ IsLetter(Row(m))
      BY <2>3, RowOf
    <2>5. M(i) = Row(m)
      BY DEF m
    <2> QED
      BY <2>1, <2>3, <2>4, <2>5 DEF IsLetter
  <1>3. P = {M(i) : i \in S}
    BY DEF Post, Rows
  <1> HIDE DEF P, M
  <1> DEFINE phi == [i \in S |-> M(i)]
  <1>4. phi \in Bijection(S, P)
    <2>1. \A i, j \in S : M(i) = M(j) => i = j
      <3> SUFFICES ASSUME NEW i \in S, NEW j \in S, M(i) = M(j) PROVE i = j
        OBVIOUS
      <3>1. nextMail + i - 1 = nextMail + j - 1
        BY <1>2
      <3> QED
        BY <1>1, <3>1
    <2>2. phi \in Injection(S, P)
      BY <1>3, <2>1 DEF Injection, IsInjective
    <2>3. phi \in Surjection(S, P)
      BY <1>3 DEF Surjection
    <2> QED
      BY <2>2, <2>3 DEF Bijection
  <1>5. MailRows(P)
    <2>1. IsFiniteSet(S)
      BY <1>1, FS_Interval
    <2>2. phi \in Surjection(S, P)
      BY <1>4 DEF Bijection
    <2> HIDE DEF phi, S
    <2>3. IsFiniteSet(P)
      BY <2>1, <2>2, FS_Surjection
    <2>4. \A m \in P : HasAmounts(m)
      BY <1>2, <1>3 DEF HasAmounts
    <2> QED
      BY <2>3, <2>4 DEF MailRows
  <1>6. ASSUME NEW f \in Amounts
        PROVE  MailTotal(P, f) = DraftTotal(drafts, f) /\ DraftTotal(drafts, f) \in Nat
    <2> DEFINE g == [i \in S |-> Amount(drafts[i], f)]
               h == [m \in P |-> m[f]]
    <2>1. Summable(g) /\ DraftTotal(drafts, f) \in Nat
      BY DraftsSummable
    <2>2. \A i \in S : phi[i] \in P /\ phi[i][f] = Amount(drafts[i], f)
      BY <1>2, <1>3 DEF Amount, Amounts
    <2>3. \A i \in DOMAIN g : h[phi[i]] = g[i]
      BY <2>2
    <2>4. DOMAIN g = S /\ DOMAIN h = P
      OBVIOUS
    <2>5. MailTotal(P, f) = Sum(h) /\ DraftTotal(drafts, f) = Sum(g)
      BY DEF MailTotal, DraftTotal
    <2> HIDE DEF g, h, phi, S
    <2>6. Sum(h) = Sum(g)
      BY <1>4, <2>1, <2>3, <2>4, SumRenamed
    <2> QED
      BY <2>1, <2>5, <2>6
  <1> QED
    BY <1>5, <1>6 DEF P

(***************************************************************************)
(* MailDraft::SendMailTo adds that to the stored mails.                    *)
(***************************************************************************)
LEMMA MailsPosted ==
  ASSUME nextMail \in Nat, NEW B, MailRows(B), Stored(B, nextMail),
         NEW drafts, Content(drafts)
  PROVE  LET new == B \cup Rows(Post(drafts))
         IN  /\ MailRows(new)
             /\ \A f \in Amounts :
                   /\ MailTotal(new, f) = MailTotal(B, f) + DraftTotal(drafts, f)
                   /\ MailTotal(B, f) \in Nat /\ DraftTotal(drafts, f) \in Nat
  <1> DEFINE P == Rows(Post(drafts))
  <1>1. /\ MailRows(P)
        /\ \A f \in Amounts : MailTotal(P, f) = DraftTotal(drafts, f)
                                /\ DraftTotal(drafts, f) \in Nat
    BY PostedTotal
  <1>2. \A m \in B : m.id \in Nat /\ m.id < nextMail
    BY DEF Stored, IsLetter
  <1>3. \A r \in P : r.id \in Nat /\ r.id >= nextMail
    <2> SUFFICES ASSUME NEW r \in P PROVE r.id \in Nat /\ r.id >= nextMail
      OBVIOUS
    <2>1. PICK m \in Post(drafts) : r = Row(m)
      BY DEF Rows
    <2>2. PICK i \in DOMAIN drafts : m = Stamped(drafts[i], nextMail + i - 1)
      BY <2>1 DEF Post
    <2>3. i \in 1 .. Len(drafts) /\ Len(drafts) \in Nat /\ IsDraft(drafts[i])
      BY <2>2 DEF Content, Drafted
    <2>4. IsLetter(m) /\ m.id = nextMail + i - 1
      BY <2>2, <2>3 DEF Stamped, IsLetter, IsDraft, IsFcn
    <2>5. r.id = m.id
      BY <2>1, <2>4, RowOf
    <2> QED
      BY <2>3, <2>4, <2>5
  <1> HIDE DEF P
  <1>4. B \cap P = {}
    BY <1>2, <1>3
  <1>5. MailRows(B \cup P)
    BY <1>1, FS_Union DEF MailRows
  <1>6. ASSUME NEW f \in Amounts
        PROVE  MailTotal(B \cup P, f) = MailTotal(B, f) + MailTotal(P, f)
    <2> DEFINE u == [m \in B \cup P |-> m[f]]
               b == [m \in B |-> m[f]]
               q == [m \in P |-> m[f]]
    <2>1. Summable(b) /\ Summable(q)
      BY <1>1, MailsSummable
    <2>2. /\ DOMAIN u = DOMAIN b \cup DOMAIN q /\ DOMAIN b \cap DOMAIN q = {}
          /\ \A m \in DOMAIN b : u[m] = b[m]
          /\ \A m \in DOMAIN q : u[m] = q[m]
      BY <1>4
    <2> HIDE DEF u, b, q
    <2>3. Sum(u) = Sum(b) + Sum(q)
      BY <2>1, <2>2, SumOfUnion
    <2> QED
      BY <2>3 DEF MailTotal, u, b, q
  <1>7. \A f \in Amounts : MailTotal(B, f) \in Nat
    BY MailsSummable
  <1> QED
    BY <1>1, <1>5, <1>6, <1>7 DEF P

(***************************************************************************)
(* One mail less.                                                          *)
(***************************************************************************)
LEMMA MailDeleted ==
  ASSUME NEW B, MailRows(B), NEW m \in B
  PROVE  /\ MailRows(B \ {m})
         /\ \A f \in Amounts :
               /\ MailTotal(B \ {m}, f) = MailTotal(B, f) - m[f]
               /\ MailTotal(B, f) \in Nat /\ m[f] \in Nat
  <1>1. MailRows(B \ {m})
    BY FS_RemoveElement DEF MailRows
  <1>2. ASSUME NEW f \in Amounts
        PROVE  /\ MailTotal(B \ {m}, f) = MailTotal(B, f) - m[f]
               /\ MailTotal(B, f) \in Nat /\ m[f] \in Nat
    <2> DEFINE b == [x \in B |-> x[f]]
               r == [x \in B \ {m} |-> x[f]]
    <2>1. Summable(b) /\ Summable(r) /\ Sum(b) \in Nat /\ Sum(r) \in Nat
      BY <1>1, MailsSummable, SumType
    <2>2. DOMAIN b = DOMAIN r \cup {m} /\ m \notin DOMAIN r /\ b[m] = m[f]
      OBVIOUS
    <2>3. m[f] \in Nat
      BY DEF MailRows, HasAmounts, Amounts
    <2>4. \A x \in DOMAIN r : b[x] = r[x]
      OBVIOUS
    <2>5. b[m] \in Nat
      BY <2>2, <2>3
    <2> HIDE DEF b, r
    <2>6. Sum(b) = Sum(r) + b[m]
      BY <2>1, <2>2, <2>4, <2>5, SumAdded
    <2>7. MailTotal(B, f) = Sum(b) /\ MailTotal(B \ {m}, f) = Sum(r)
      BY DEF MailTotal, b, r
    <2> QED
      BY <2>1, <2>2, <2>3, <2>6, <2>7
  <1> QED
    BY <1>1, <1>2

(***************************************************************************)
(* Another mail instead of one with the same id.                           *)
(***************************************************************************)
LEMMA MailReplaced ==
  ASSUME NEW B, NEW n, MailRows(B), Stored(B, n), NEW m \in B,
         NEW new, HasAmounts(new), new.id = m.id
  PROVE  LET U == (B \ {m}) \cup {new}
         IN  /\ MailRows(U)
             /\ \A f \in Amounts :
                   /\ MailTotal(U, f) = MailTotal(B, f) - m[f] + new[f]
                   /\ MailTotal(B, f) \in Nat /\ m[f] \in Nat /\ new[f] \in Nat
  <1> DEFINE R == B \ {m}
             U == R \cup {new}
  <1>1. /\ MailRows(R)
        /\ \A f \in Amounts :
              /\ MailTotal(R, f) = MailTotal(B, f) - m[f]
              /\ MailTotal(B, f) \in Nat /\ m[f] \in Nat
    BY MailDeleted
  <1>2. new \notin R
    BY DEF Stored
  <1>3. \A f \in Amounts : new[f] \in Nat
    BY DEF HasAmounts, Amounts
  <1> HIDE DEF R
  <1>4. MailRows(U)
    BY <1>1, FS_AddElement DEF MailRows
  <1>5. ASSUME NEW f \in Amounts PROVE MailTotal(U, f) = MailTotal(R, f) + new[f]
    <2> DEFINE r == [x \in R |-> x[f]]
               u == [x \in U |-> x[f]]
    <2>1. Summable(r)
      BY <1>1, MailsSummable
    <2>2. DOMAIN u = DOMAIN r \cup {new} /\ new \notin DOMAIN r /\ u[new] = new[f]
      BY <1>2
    <2>3. \A x \in DOMAIN r : u[x] = r[x]
      OBVIOUS
    <2>4. u[new] \in Nat
      BY <1>3, <2>2
    <2> HIDE DEF r, u
    <2>5. Sum(u) = Sum(r) + u[new]
      BY <2>1, <2>2, <2>3, <2>4, SumAdded
    <2> QED
      BY <2>2, <2>5 DEF MailTotal, r, u
  <1> HIDE DEF U
  <1>6. \A f \in Amounts : MailTotal(U, f) = MailTotal(B, f) - m[f] + new[f]
    BY <1>1, <1>5
  <1> QED
    BY <1>1, <1>3, <1>4, <1>6 DEF R, U

-----------------------------------------------------------------------------
(* The drafts of the handlers.                                             *)

\* Drafts, and the gold and the units that their rows get.
Drafts(drafts, g, u) ==
    /\ Content(drafts)
    /\ DraftTotal(drafts, "gold") = g /\ DraftTotal(drafts, "units") = u
    /\ g \in Nat /\ u \in Nat

\* A handler without a mail.
LEMMA NoMails == Drafts(<< >>, 0, 0)
  <1> DEFINE q == << >>
             g == [i \in DOMAIN q |-> Amount(q[i], "gold")]
             h == [i \in DOMAIN q |-> Amount(q[i], "units")]
  <1>1. Len(q) = 0 /\ DOMAIN q = {} /\ DOMAIN q = 1 .. Len(q)
    OBVIOUS
  <1>2. IsSeq(q)
    BY DEF IsSeq
  <1>3. (\A x \in DOMAIN g : g[x] = 0) /\ (\A x \in DOMAIN h : h[x] = 0)
    BY <1>1
  <1>4. DraftTotal(q, "gold") = Sum(g) /\ DraftTotal(q, "units") = Sum(h)
    BY DEF DraftTotal
  <1> HIDE DEF q, g, h
  <1>5. Sum(g) = 0 /\ Sum(h) = 0
    BY <1>3, SumOfZeros
  <1>6. Content(q)
    BY <1>1, <1>2 DEF Content, Drafted
  <1>7. Drafts(q, 0, 0)
    BY <1>4, <1>5, <1>6 DEF Drafts
  <1> QED
    BY <1>7 DEF q

\* One mail.
LEMMA OneMail ==
  ASSUME NEW x, IsDraft(x), x.units \in Nat
  PROVE  Drafts(<<x>>, x.gold % UInt, x.units)
  <1> DEFINE q == <<x>>
  <1>1. q \in Seq({x}) /\ Len(q) = 1 /\ DOMAIN q = 1 .. 1 /\ q[1] = x
    OBVIOUS
  <1> HIDE DEF q
  <1>2. IsSeq(q)
    BY <1>1, SequenceOf
  <1>3. Content(q)
    BY <1>1, <1>2 DEF Content, Drafted
  <1>4. ASSUME NEW f \in Amounts PROVE DraftTotal(q, f) = Amount(x, f)
    <2> DEFINE h == [i \in DOMAIN q |-> Amount(q[i], f)]
               e == [i \in {} |-> 0]
    <2>1. Summable(h) /\ DraftTotal(q, f) = Sum(h)
      BY <1>3, DraftsSummable DEF DraftTotal
    <2>2. Summable(e)
      BY FS_EmptySet DEF Summable
    <2>3. Sum(e) = 0
      <3>1. \A y \in DOMAIN e : e[y] = 0
        OBVIOUS
      <3> HIDE DEF e
      <3> QED
        BY <3>1, SumOfZeros
    <2>4. /\ 1 \notin DOMAIN e /\ DOMAIN h = DOMAIN e \cup {1}
          /\ h[1] = Amount(x, f) /\ \A y \in DOMAIN e : h[y] = e[y]
      BY <1>1
    <2>5. h[1] \in Nat
      BY <1>1, <2>1 DEF Summable
    <2> HIDE DEF h, e
    <2>6. Sum(h) = Sum(e) + h[1]
      BY <2>2, <2>4, <2>5, SumAdded
    <2> QED
      BY <2>1, <2>3, <2>4, <2>5, <2>6
  <1>5. DraftTotal(q, "gold") = x.gold % UInt /\ DraftTotal(q, "units") = x.units
    BY <1>4 DEF Amounts, Amount
  <1>6. x.gold % UInt \in Nat
    <2>1. x.gold \in Nat /\ UInt \in Nat
      BY AuctionAssumption DEF IsDraft
    <2>2. x.gold % UInt \in 0 .. UInt - 1
      BY <2>1, Narrowed
    <2> QED
      BY <2>1, <2>2
  <1> QED
    BY <1>3, <1>5, <1>6 DEF Drafts, q

\* A mail of the auction house.
LEMMA AuctionMail ==
  ASSUME NEW to, NEW g \in 0 .. UInt - 1, NEW n \in Nat
  PROVE  Drafts(<<Mail(to, Nobody, g, n, 0)>>, g, n)
  <1> DEFINE x == Mail(to, Nobody, g, n, 0)
  <1>1. IsDraft(x)
    BY AuctionDrafted
  <1>2. x.gold = g /\ x.units = n
    BY DEF Mail
  <1>3. g % UInt = g
    <2>1. UInt \in Nat
      BY AuctionAssumption
    <2>2. g \in Nat /\ g < UInt
      BY <2>1
    <2> QED
      BY <2>2, Narrowed
  <1> HIDE DEF x
  <1>4. Drafts(<<x>>, x.gold % UInt, x.units)
    BY <1>1, <1>2, OneMail
  <1> QED
    BY <1>2, <1>3, <1>4 DEF x

(***************************************************************************)
(* Drafts after drafts.                                                    *)
(***************************************************************************)
LEMMA MoreMails ==
  ASSUME NEW q, NEW g, NEW u, Drafts(q, g, u), NEW r, NEW h, NEW v, Drafts(r, h, v)
  PROVE  Drafts(q \o r, g + h, u + v)
  <1> DEFINE n == Len(q)
             k == Len(r)
             s == q \o r
             T == {q[i] : i \in DOMAIN q} \cup {r[i] : i \in DOMAIN r}
  <1>1. /\ n \in Nat /\ DOMAIN q = 1 .. n /\ Drafted(q) /\ IsSeq(q)
        /\ k \in Nat /\ DOMAIN r = 1 .. k /\ Drafted(r) /\ IsSeq(r)
        /\ Content(q) /\ Content(r)
    BY DEF Drafts, Content, Drafted
  <1>2. q \in Seq(T) /\ r \in Seq(T)
    <2>1. q \in Seq({q[i] : i \in DOMAIN q}) /\ r \in Seq({r[i] : i \in DOMAIN r})
      BY <1>1 DEF IsSeq
    <2> QED
      BY <2>1
  <1> HIDE DEF T
  <1>3. /\ s \in Seq(T) /\ Len(s) = n + k /\ DOMAIN s = 1 .. n + k
        /\ \A i \in 1 .. n : s[i] = q[i]
        /\ \A i \in 1 .. k : s[n + i] = r[i]
    <2>1. s \in Seq(T) /\ Len(s) = n + k
      BY <1>2
    <2>2. \A i \in 1 .. n : s[i] = q[i]
      BY <1>1, <1>2
    <2>3. \A i \in 1 .. k : s[n + i] = r[i]
      BY <1>1, <1>2
    <2>4. DOMAIN s = 1 .. n + k
      BY <2>1
    <2> QED
      BY <2>1, <2>2, <2>3, <2>4
  <1>4. IsSeq(s)
    <2> HIDE DEF s
    <2> QED
      BY <1>3, SequenceOf
  <1> HIDE DEF s, n, k
  <1>5. ASSUME NEW i \in DOMAIN s
        PROVE  \/ i \in 1 .. n /\ s[i] = q[i]
               \/ i - n \in 1 .. k /\ s[i] = r[i - n] /\ i = n + (i - n)
    <2>1. CASE i <= n
      BY <1>1, <1>3, <2>1
    <2>2. CASE i > n
      <3>1. i - n \in 1 .. k /\ i = n + (i - n)
        BY <1>1, <1>3, <2>2
      <3> QED
        BY <1>3, <3>1
    <2> QED
      BY <1>1, <1>3, <2>1, <2>2
  <1>6. Content(s)
    <2>1. \A i \in DOMAIN s : IsDraft(s[i]) /\ s[i].units \in Nat
      BY <1>1, <1>5 DEF Content, Drafted
    <2>2. Len(s) \in Nat /\ DOMAIN s = 1 .. Len(s)
      BY <1>1, <1>3
    <2> QED
      BY <1>4, <2>1, <2>2 DEF Content, Drafted
  <1>7. ASSUME NEW f \in Amounts
        PROVE  DraftTotal(s, f) = DraftTotal(q, f) + DraftTotal(r, f)
    <2> DEFINE a == [i \in DOMAIN q |-> Amount(q[i], f)]
               b == [i \in DOMAIN r |-> Amount(r[i], f)]
               c == [i \in DOMAIN s |-> Amount(s[i], f)]
               S == {n + i : i \in 1 .. k}
               t == [i \in S |-> Amount(s[i], f)]
               phi == [i \in 1 .. k |-> n + i]
    <2>1. Summable(a) /\ Summable(b)
      BY <1>1, DraftsSummable
    <2>2. phi \in Bijection(1 .. k, S)
      <3>1. phi \in Injection(1 .. k, S)
        BY <1>1 DEF Injection, IsInjective
      <3>2. phi \in Surjection(1 .. k, S)
        BY DEF Surjection
      <3> QED
        BY <3>1, <3>2 DEF Bijection
    <2>3. \A i \in 1 .. k : t[phi[i]] = b[i]
      BY <1>1, <1>3
    <2>4. DOMAIN b = 1 .. k /\ DOMAIN t = S /\ DOMAIN a = 1 .. n /\ DOMAIN c = 1 .. n + k
      BY <1>1, <1>3
    <2>5. /\ DOMAIN c = DOMAIN a \cup DOMAIN t /\ DOMAIN a \cap DOMAIN t = {}
      <3>1. 1 .. n + k = 1 .. n \cup S
        <4>1. \A i \in 1 .. n + k : i > n => i - n \in 1 .. k /\ i = n + (i - n)
          BY <1>1
        <4>2. \A i \in 1 .. n + k : i \in 1 .. n \/ i \in S
          BY <1>1, <4>1
        <4>3. 1 .. n \subseteq 1 .. n + k /\ S \subseteq 1 .. n + k
          BY <1>1
        <4> QED
          BY <4>2, <4>3
      <3>2. (1 .. n) \cap S = {}
        BY <1>1
      <3> QED
        BY <2>4, <3>1, <3>2
    <2>6. /\ \A i \in DOMAIN a : c[i] = a[i]
          /\ \A i \in DOMAIN t : c[i] = t[i]
      BY <1>1, <1>3, <2>5
    <2>7. /\ DraftTotal(q, f) = Sum(a) /\ DraftTotal(r, f) = Sum(b)
          /\ DraftTotal(s, f) = Sum(c)
      BY DEF DraftTotal
    <2> HIDE DEF a, b, c, t, phi, S
    <2>8. Summable(t) /\ Sum(t) = Sum(b)
      BY <2>1, <2>2, <2>3, <2>4, SumRenamed
    <2>9. Sum(c) = Sum(a) + Sum(t)
      BY <2>1, <2>5, <2>6, <2>8, SumOfUnion
    <2> QED
      BY <2>7, <2>8, <2>9
  <1>8. /\ DraftTotal(s, "gold") = g + h /\ DraftTotal(s, "units") = u + v
        /\ g \in Nat /\ h \in Nat /\ u \in Nat /\ v \in Nat
    BY <1>7 DEF Drafts, Amounts
  <1>9. Drafts(s, g + h, u + v)
    BY <1>6, <1>8 DEF Drafts
  <1> QED
    BY <1>9 DEF s

\* Gold that goes back to another leading bidder, gold of the seller, units of
\* the item, and what stays with the auction house or with nobody.
Refund(a, p) == IF a.bidder \in {Nobody, p} THEN 0 ELSE a.bid
Proceeds(a) == IF a.bidder = Nobody THEN 0 ELSE Profit(a)
Item(a, hasItem) == IF hasItem THEN a.units ELSE 0
Kept(a) == IF a.bidder = Nobody THEN a.deposit ELSE a.bid + a.deposit - Profit(a)
Missing(a, hasItem) == IF hasItem THEN 0 ELSE a.units

\* The numbers of an auction.
LEMMA AuctionNumbers ==
  ASSUME NEW a, IsAuction(a)
  PROVE  /\ a.bid \in Nat /\ a.bid \in 0 .. UInt - 1
         /\ a.buyout \in Nat /\ a.buyout \in 0 .. UInt - 1
         /\ a.deposit \in Nat /\ a.units \in Nat
         /\ a.bidder = Nobody => a.bid = 0
         /\ GetAuctionCut(a.bid) \in Int
         /\ Profit(a) \in Nat /\ Profit(a) \in 0 .. UInt - 1
         /\ 0 \in 0 .. UInt - 1
  <1>1. /\ HasPrices(a) /\ a.units \in Nat /\ (a.bidder = Nobody => a.bid = 0)
        /\ a.bid \in 0 .. UInt - 1 /\ a.buyout \in 0 .. UInt - 1 /\ a.deposit \in Nat
    BY DEF IsAuction, HasPrices
  <1>2. GetAuctionCut(a.bid) \in Int /\ Profit(a) \in 0 .. UInt - 1
    BY <1>1, NarrowProfit
  <1>3. UInt \in Nat \ {0}
    BY AuctionAssumption
  <1>4. Profit(a) \in Nat
    BY <1>2, <1>3
  <1> QED
    BY <1>1, <1>2, <1>3, <1>4

\* The item of an auction.
LEMMA ItemContains ==
  ASSUME NEW a, IsAuction(a), NEW to, NEW hasItem
  PROVE  Drafts(ItemMail(to, a, hasItem), 0, Item(a, hasItem))
  <1>1. a.units \in Nat /\ 0 \in 0 .. UInt - 1
    BY AuctionNumbers
  <1>2. Drafts(<<Mail(to, Nobody, 0, a.units, 0)>>, 0, a.units)
    BY <1>1, AuctionMail
  <1> QED
    BY <1>2, NoMails DEF ItemMail, Item

\* The mails of a settlement.
LEMMA SettlementContains ==
  ASSUME NEW a, IsAuction(a), NEW hasItem
  PROVE  Drafts(Settlement(a, hasItem), Proceeds(a), Item(a, hasItem))
  <1>1. a.units \in Nat /\ Profit(a) \in 0 .. UInt - 1 /\ Profit(a) \in Nat
    BY AuctionNumbers
  <1>2. CASE a.bidder = Nobody
    BY <1>2, ItemContains DEF Settlement, Proceeds
  <1>3. CASE a.bidder # Nobody
    <2> DEFINE q == <<Mail(a.owner, Nobody, Profit(a), 0, 0)>>
               r == ItemMail(a.bidder, a, hasItem)
    <2>1. Drafts(q, Profit(a), 0)
      BY <1>1, AuctionMail
    <2>2. Drafts(r, 0, Item(a, hasItem)) /\ Item(a, hasItem) \in Nat
      BY ItemContains DEF Drafts
    <2>3. Settlement(a, hasItem) = q \o r /\ Proceeds(a) = Profit(a)
      BY <1>3 DEF Settlement, Proceeds
    <2> HIDE DEF q, r
    <2>4. Drafts(q \o r, Profit(a) + 0, 0 + Item(a, hasItem))
      BY <2>1, <2>2, MoreMails
    <2>5. Profit(a) + 0 = Profit(a) /\ 0 + Item(a, hasItem) = Item(a, hasItem)
      BY <1>1, <2>2
    <2> QED
      BY <2>3, <2>4, <2>5
  <1> QED
    BY <1>2, <1>3

\* SendAuctionOutbiddedMail.
LEMMA OutbiddedContains ==
  ASSUME NEW a, IsAuction(a), NEW p
  PROVE  Drafts(Outbidded(a, p), Refund(a, p), 0)
  <1>1. a.bid \in 0 .. UInt - 1
    BY AuctionNumbers
  <1>2. Drafts(<<Mail(a.bidder, Nobody, a.bid, 0, 0)>>, a.bid, 0)
    BY <1>1, AuctionMail
  <1> QED
    BY <1>2, NoMails DEF Outbidded, Refund

\* A cancelled auction.
LEMMA CancellationContains ==
  ASSUME NEW a, IsAuction(a)
  PROVE  Drafts(Cancellation(a), Refund(a, Nobody), a.units)
  <1> DEFINE q == Outbidded(a, Nobody)
             r == <<Mail(a.owner, Nobody, 0, a.units, 0)>>
             g == Refund(a, Nobody)
  <1>1. a.units \in Nat /\ 0 \in 0 .. UInt - 1
    BY AuctionNumbers
  <1>2. Drafts(q, g, 0) /\ g \in Nat
    BY OutbiddedContains DEF Drafts
  <1>3. Drafts(r, 0, a.units)
    BY <1>1, AuctionMail
  <1>4. Cancellation(a) = q \o r
    BY DEF Cancellation
  <1> HIDE DEF q, r, g
  <1>5. Drafts(q \o r, g + 0, 0 + a.units)
    BY <1>2, <1>3, MoreMails
  <1>6. g + 0 = g /\ 0 + a.units = a.units
    BY <1>1, <1>2
  <1> QED
    BY <1>4, <1>5, <1>6 DEF g

\* A buyout: the old bid goes back, and the auction is settled.
LEMMA BuyoutContains ==
  ASSUME NEW a, IsAuction(a), NEW b, IsAuction(b), b.bidder # Nobody, NEW p, NEW hasItem
  PROVE  Drafts(Outbidded(a, p) \o SalePending(b) \o Settlement(b, hasItem),
                Refund(a, p) + Profit(b), Item(b, hasItem))
  <1> DEFINE q == Outbidded(a, p)
             r == SalePending(b)
             s == Settlement(b, hasItem)
             g == Refund(a, p)
             h == Profit(b)
             u == Item(b, hasItem)
  <1>1. h \in Nat /\ 0 \in 0 .. UInt - 1
    BY AuctionNumbers
  <1>2. Drafts(q, g, 0) /\ g \in Nat
    BY OutbiddedContains DEF Drafts
  <1>3. Drafts(r, 0, 0)
    <2>1. 0 \in Nat
      OBVIOUS
    <2> QED
      BY <1>1, <2>1, AuctionMail DEF SalePending
  <1>4. Drafts(s, h, u) /\ u \in Nat
    BY SettlementContains DEF Drafts, Proceeds
  <1> HIDE DEF q, r, s, g, h, u
  <1>5. Drafts(q \o r, g + 0, 0 + 0)
    BY <1>2, <1>3, MoreMails
  <1>6. Drafts(q \o r \o s, g + 0 + h, 0 + 0 + u)
    BY <1>4, <1>5, MoreMails
  <1>7. g + 0 + h = g + h /\ 0 + 0 + u = u
    BY <1>1, <1>2, <1>4
  <1>8. Drafts(q \o r \o s, g + h, u)
    BY <1>6, <1>7
  <1> QED
    BY <1>8 DEF q, r, s, g, h, u


(***************************************************************************)
(* MailDraft::SendMailTo.                                                  *)
(***************************************************************************)
LEMMA InsertMailsMoves ==
  ASSUME nextMail \in Nat, NEW d, NEW k \in Nat, DatabaseState(d, k),
         Stored(d.mails, nextMail), NEW drafts, NEW g, NEW u, Drafts(drafts, g, u),
         NEW e, e = InsertMails(d, drafts)
  PROVE  /\ DatabaseState(e, k)
         /\ Worth(e) = Worth(d) + g /\ Stock(e) = Stock(d) + u
         /\ g \in Nat /\ u \in Nat
         /\ e.gold = d.gold /\ e.inv = d.inv /\ e.owed = d.owed
         /\ e.auctions = d.auctions
  <1>1. /\ e.mails = d.mails \cup Rows(Post(drafts))
        /\ DOMAIN e = DOMAIN d /\ e.auctions = d.auctions
        /\ e.gold = d.gold /\ e.inv = d.inv /\ e.owed = d.owed
        /\ e.regained = d.regained /\ e.burnt = d.burnt /\ e.lost = d.lost
        /\ e.unsent = d.unsent /\ e.transit = d.transit
    BY DEF InsertMails, DatabaseState, Rows
  <1>2. "gold" \in Amounts /\ "units" \in Amounts
    BY DEF Amounts
  <1>3. MailRows(d.mails) /\ AuctionRows(d.auctions, k)
    BY DEF DatabaseState
  <1>4. /\ MailRows(e.mails)
        /\ MailTotal(e.mails, "gold") = MailTotal(d.mails, "gold") + g
        /\ MailTotal(e.mails, "units") = MailTotal(d.mails, "units") + u
        /\ MailTotal(d.mails, "gold") \in Nat /\ MailTotal(d.mails, "units") \in Nat
        /\ g \in Nat /\ u \in Nat
    <2>1. /\ MailRows(d.mails \cup Rows(Post(drafts)))
          /\ \A f \in Amounts :
                /\ MailTotal(d.mails \cup Rows(Post(drafts)), f)
                     = MailTotal(d.mails, f) + DraftTotal(drafts, f)
                /\ MailTotal(d.mails, f) \in Nat /\ DraftTotal(drafts, f) \in Nat
      BY <1>3, MailsPosted DEF Drafts
    <2>2. DraftTotal(drafts, "gold") = g /\ DraftTotal(drafts, "units") = u
      BY DEF Drafts
    <2> QED
      BY <1>1, <1>2, <2>1, <2>2
  <1>5. /\ DatabaseState(e, k)
        /\ Worth(e) = Worth(d) + AuctionGold(e.auctions) - AuctionGold(d.auctions)
                        + MailTotal(e.mails, "gold") - MailTotal(d.mails, "gold")
        /\ Stock(e) = Stock(d) + AuctionUnits(e.auctions) - AuctionUnits(d.auctions)
                        + MailTotal(e.mails, "units") - MailTotal(d.mails, "units")
    BY <1>1, <1>3, <1>4, RowsMove
  <1>6. /\ Worth(d) \in Int /\ Stock(d) \in Int
        /\ AuctionGold(d.auctions) \in Nat /\ AuctionUnits(d.auctions) \in Nat
    BY Parts
  <1>7. Worth(e) = Worth(d) + g /\ Stock(e) = Stock(d) + u
    BY <1>1, <1>4, <1>5, <1>6
  <1> QED
    BY <1>1, <1>4, <1>5, <1>7

\* The rows with another one for id.
Updated(rows, id, a) == [rows EXCEPT ![id] = a]

\* The rows after a deletion.
WithoutRow(rows, id) == [i \in DOMAIN rows \ {id} |-> rows[i]]

\* The row after a higher bid.
Outbid(b, a, p, x) == b = [a EXCEPT !.bidder = p, !.bid = x]

(***************************************************************************)
(* INSERT of an auction.                                                   *)
(***************************************************************************)
LEMMA InsertAuctionMoves ==
  ASSUME NEW d, NEW k \in Nat \ {0}, DatabaseState(d, k), NEW a, IsAuction(a),
         NEW e, e = InsertAuction(d, k, a)
  PROVE  /\ DatabaseState(e, k + 1)
         /\ Worth(e) = Worth(d) + a.bid + a.deposit /\ Stock(e) = Stock(d) + a.units
         /\ e.gold = d.gold /\ e.inv = d.inv /\ e.owed = d.owed
         /\ e.auctions = WithRow(d.auctions, k, a)
         /\ e.transit = d.transit
  <1>1. /\ e.auctions = WithRow(d.auctions, k, a)
        /\ DOMAIN e = DOMAIN d /\ e.mails = d.mails
        /\ e.gold = d.gold /\ e.inv = d.inv /\ e.owed = d.owed
        /\ e.regained = d.regained /\ e.burnt = d.burnt /\ e.lost = d.lost
        /\ e.unsent = d.unsent /\ e.transit = d.transit
    BY DEF InsertAuction, DatabaseState
  <1>2. MailRows(e.mails) /\ AuctionRows(d.auctions, k)
    BY <1>1 DEF DatabaseState
  <1>3. /\ AuctionRows(e.auctions, k + 1)
        /\ AuctionGold(e.auctions) = AuctionGold(d.auctions) + a.bid + a.deposit
        /\ AuctionUnits(e.auctions) = AuctionUnits(d.auctions) + a.units
    BY <1>1, <1>2, RowInserted
  <1>4. k + 1 \in Nat
    OBVIOUS
  <1>5. /\ DatabaseState(e, k + 1)
        /\ Worth(e) = Worth(d) + AuctionGold(e.auctions) - AuctionGold(d.auctions)
                        + MailTotal(e.mails, "gold") - MailTotal(d.mails, "gold")
        /\ Stock(e) = Stock(d) + AuctionUnits(e.auctions) - AuctionUnits(d.auctions)
                        + MailTotal(e.mails, "units") - MailTotal(d.mails, "units")
    BY <1>1, <1>2, <1>3, <1>4, RowsMove
  <1>6. /\ Worth(d) \in Int /\ Stock(d) \in Int
        /\ AuctionGold(d.auctions) \in Nat /\ AuctionUnits(d.auctions) \in Nat
        /\ MailTotal(d.mails, "gold") \in Nat /\ MailTotal(d.mails, "units") \in Nat
    BY Parts
  <1>7. a.bid \in Nat /\ a.deposit \in Nat /\ a.units \in Nat
    BY AuctionNumbers
  <1>8. Worth(e) = Worth(d) + a.bid + a.deposit /\ Stock(e) = Stock(d) + a.units
    BY <1>1, <1>3, <1>5, <1>6, <1>7
  <1> QED
    BY <1>1, <1>5, <1>8

(***************************************************************************)
(* UPDATE of bidder and bid.                                               *)
(***************************************************************************)
LEMMA UpdateBidMoves ==
  ASSUME NEW d, NEW k \in Nat, DatabaseState(d, k), NEW id \in DOMAIN d.auctions,
         NEW b, IsAuction(b), NEW p, NEW x,
         Outbid(b, d.auctions[id], p, x),
         NEW e, e = UpdateBid(d, id, b)
  PROVE  /\ DatabaseState(e, k)
         /\ Worth(e) = Worth(d) - d.auctions[id].bid + b.bid /\ Stock(e) = Stock(d)
         /\ e.gold = d.gold /\ e.inv = d.inv /\ e.owed = d.owed
         /\ e.auctions = Updated(d.auctions, id, b)
  <1> DEFINE a == d.auctions[id]
  <1>1. IsAuction(a)
    BY DEF DatabaseState, AuctionRows
  <1>2. b.bidder = p /\ b.bid = x /\ b.units = a.units /\ b.deposit = a.deposit
    BY <1>1 DEF IsAuction, HasPrices, Outbid
  <1>3. e = [d EXCEPT !.auctions[id].bidder = b.bidder, !.auctions[id].bid = b.bid]
    BY DEF UpdateBid
  <1>4. /\ DOMAIN e = DOMAIN d /\ e.mails = d.mails
        /\ e.gold = d.gold /\ e.inv = d.inv /\ e.owed = d.owed
        /\ e.regained = d.regained /\ e.burnt = d.burnt /\ e.lost = d.lost
        /\ e.unsent = d.unsent /\ e.transit = d.transit
    BY <1>3 DEF DatabaseState
  <1>5. e.auctions = [d.auctions EXCEPT ![id] = b]
    <2> DEFINE c == [d EXCEPT !.auctions[id].bidder = b.bidder]
    <2>1. "auctions" \in DOMAIN d
      BY DEF DatabaseState
    <2>2. /\ c.auctions = [d.auctions EXCEPT ![id] = [a EXCEPT !.bidder = p]]
          /\ "auctions" \in DOMAIN c
      BY <1>2, <2>1
    <2>3. e = [c EXCEPT !.auctions[id].bid = b.bid]
      BY <1>3
    <2> HIDE DEF c
    <2>4. e.auctions = [c.auctions EXCEPT ![id] = [c.auctions[id] EXCEPT !.bid = x]]
      BY <1>2, <2>2, <2>3
    <2>5. c.auctions[id] = [a EXCEPT !.bidder = p]
      BY <2>2
    <2>6. b = [[a EXCEPT !.bidder = p] EXCEPT !.bid = x]
      BY DEF Outbid
    <2>7. e.auctions = [c.auctions EXCEPT ![id] = b]
      BY <2>4, <2>5, <2>6
    <2> QED
      BY <2>2, <2>7
  <1>6. MailRows(e.mails) /\ AuctionRows(d.auctions, k)
    BY <1>4 DEF DatabaseState
  <1>7. /\ AuctionRows(e.auctions, k)
        /\ AuctionGold(e.auctions) = AuctionGold(d.auctions) - a.bid + b.bid
        /\ AuctionUnits(e.auctions) = AuctionUnits(d.auctions)
    <2> DEFINE rows == d.auctions
               new == e.auctions
    <2>0. k \in Nat /\ IsAuction(b)
      OBVIOUS
    <2>1. /\ AuctionRows(rows, k) /\ id \in DOMAIN rows
          /\ DOMAIN new = DOMAIN rows /\ new[id] = b
          /\ IsFcn(new)
          /\ \A i \in DOMAIN rows : i # id => new[i] = rows[i]
      BY <1>5, <1>6 DEF IsFcn
    <2>2. b.units = rows[id].units /\ b.deposit = rows[id].deposit
      BY <1>2
    <2> HIDE DEF rows, new
    <2>3. AuctionRows(new, k)
      BY <2>1, <2>2, RowChanged
    <2>4. AuctionGold(new) = AuctionGold(rows) - rows[id].bid + b.bid
      BY <2>1, <2>2, RowChanged
    <2>5. AuctionUnits(new) = AuctionUnits(rows)
      BY <2>1, <2>2, RowChanged
    <2> QED
      BY <2>3, <2>4, <2>5 DEF rows, new
  <1>8. /\ DatabaseState(e, k)
        /\ Worth(e) = Worth(d) + AuctionGold(e.auctions) - AuctionGold(d.auctions)
                        + MailTotal(e.mails, "gold") - MailTotal(d.mails, "gold")
        /\ Stock(e) = Stock(d) + AuctionUnits(e.auctions) - AuctionUnits(d.auctions)
                        + MailTotal(e.mails, "units") - MailTotal(d.mails, "units")
    BY <1>4, <1>6, <1>7, RowsMove
  <1>9. /\ Worth(d) \in Int /\ Stock(d) \in Int
        /\ AuctionGold(d.auctions) \in Nat /\ AuctionUnits(d.auctions) \in Nat
        /\ MailTotal(d.mails, "gold") \in Nat /\ MailTotal(d.mails, "units") \in Nat
    BY Parts
  <1>10. a.bid \in Nat /\ b.bid \in Nat
    BY <1>1, AuctionNumbers
  <1>11. Worth(e) = Worth(d) - a.bid + b.bid /\ Stock(e) = Stock(d)
    BY <1>4, <1>7, <1>8, <1>9, <1>10
  <1> QED
    BY <1>4, <1>5, <1>8, <1>11 DEF Updated

(***************************************************************************)
(* DELETE of an auction.                                                   *)
(***************************************************************************)
LEMMA DeleteAuctionMoves ==
  ASSUME NEW d, NEW k \in Nat, DatabaseState(d, k), NEW id \in DOMAIN d.auctions,
         NEW e, e = DeleteAuction(d, id)
  PROVE  /\ DatabaseState(e, k)
         /\ Worth(e) = Worth(d) - d.auctions[id].bid - d.auctions[id].deposit
         /\ Stock(e) = Stock(d) - d.auctions[id].units
         /\ IsAuction(d.auctions[id])
         /\ e.gold = d.gold /\ e.inv = d.inv /\ e.owed = d.owed
         /\ e.auctions = WithoutRow(d.auctions, id)
         /\ DOMAIN e = DOMAIN d
         /\ e.mails = d.mails
  <1> DEFINE a == d.auctions[id]
  <1>1. /\ e.auctions = [i \in DOMAIN d.auctions \ {id} |-> d.auctions[i]]
        /\ DOMAIN e = DOMAIN d /\ e.mails = d.mails
        /\ e.gold = d.gold /\ e.inv = d.inv /\ e.owed = d.owed
        /\ e.regained = d.regained /\ e.burnt = d.burnt /\ e.lost = d.lost
        /\ e.unsent = d.unsent /\ e.transit = d.transit
    BY DEF DeleteAuction, DatabaseState
  <1>2. MailRows(e.mails) /\ AuctionRows(d.auctions, k)
    BY <1>1 DEF DatabaseState
  <1>3. /\ AuctionRows(e.auctions, k)
        /\ AuctionGold(e.auctions) = AuctionGold(d.auctions) - a.bid - a.deposit
        /\ AuctionUnits(e.auctions) = AuctionUnits(d.auctions) - a.units
    BY <1>1, <1>2, RowDeleted
  <1>4. /\ DatabaseState(e, k)
        /\ Worth(e) = Worth(d) + AuctionGold(e.auctions) - AuctionGold(d.auctions)
                        + MailTotal(e.mails, "gold") - MailTotal(d.mails, "gold")
        /\ Stock(e) = Stock(d) + AuctionUnits(e.auctions) - AuctionUnits(d.auctions)
                        + MailTotal(e.mails, "units") - MailTotal(d.mails, "units")
    BY <1>1, <1>2, <1>3, RowsMove
  <1>5. /\ Worth(d) \in Int /\ Stock(d) \in Int
        /\ AuctionGold(d.auctions) \in Nat /\ AuctionUnits(d.auctions) \in Nat
        /\ MailTotal(d.mails, "gold") \in Nat /\ MailTotal(d.mails, "units") \in Nat
    BY Parts
  <1>6. a.bid \in Nat /\ a.deposit \in Nat /\ a.units \in Nat /\ IsAuction(a)
    <2>1. IsAuction(a)
      BY <1>2 DEF AuctionRows
    <2> QED
      BY <2>1, AuctionNumbers
  <1>7. Worth(e) = Worth(d) - a.bid - a.deposit /\ Stock(e) = Stock(d) - a.units
    BY <1>1, <1>3, <1>4, <1>5, <1>6
  <1>8. e.auctions = WithoutRow(d.auctions, id)
    BY <1>1 DEF WithoutRow
  <1> QED
    BY <1>1, <1>4, <1>6, <1>7, <1>8

-----------------------------------------------------------------------------

(***************************************************************************)
(* A settled auction: its mails are sent, its row is deleted, the rest is  *)
(* gone.                                                                   *)
(***************************************************************************)
LEMMA SettledMoves ==
  ASSUME nextMail \in Nat, NEW d, NEW k \in Nat, DatabaseState(d, k),
         Stored(d.mails, nextMail), NEW id \in DOMAIN d.auctions, NEW a, IsAuction(a),
         NEW hasItem, NEW drafts, NEW g, NEW u, Drafts(drafts, g, u),
         NEW e, e = Settled(d, id, a, hasItem, drafts)
  PROVE  /\ DatabaseState(e, k)
         /\ Worth(e) = Worth(d) + g - d.auctions[id].bid - d.auctions[id].deposit + Kept(a)
         /\ Stock(e) = Stock(d) + u - d.auctions[id].units + Missing(a, hasItem)
         /\ e.gold = d.gold /\ e.inv = d.inv /\ e.owed = d.owed
         /\ e.auctions = WithoutRow(d.auctions, id)
  <1> DEFINE m == InsertMails(d, drafts)
             r == DeleteAuction(m, id)
  <1>1. m = InsertMails(d, drafts) /\ r = DeleteAuction(m, id)
    OBVIOUS
  <1>2. e = [r EXCEPT !.burnt = r.burnt + Kept(a), !.unsent = r.unsent + Missing(a, hasItem)]
    BY DEF Settled, Kept, Missing
  <1> HIDE DEF m, r
  <1>3. /\ DatabaseState(m, k)
        /\ Worth(m) = Worth(d) + g /\ Stock(m) = Stock(d) + u
        /\ g \in Nat /\ u \in Nat
        /\ m.gold = d.gold /\ m.inv = d.inv /\ m.owed = d.owed
        /\ m.auctions = d.auctions
    BY <1>1, InsertMailsMoves
  <1>4. id \in DOMAIN m.auctions
    BY <1>3
  <1>5. /\ DatabaseState(r, k)
        /\ Worth(r) = Worth(m) - m.auctions[id].bid - m.auctions[id].deposit
        /\ Stock(r) = Stock(m) - m.auctions[id].units
        /\ IsAuction(m.auctions[id])
        /\ r.gold = m.gold /\ r.inv = m.inv /\ r.owed = m.owed
        /\ r.auctions = WithoutRow(m.auctions, id)
    BY <1>1, <1>3, <1>4, DeleteAuctionMoves
  <1>6. /\ DOMAIN e = DOMAIN r
        /\ e.gold = r.gold /\ e.inv = r.inv /\ e.owed = r.owed
        /\ e.auctions = r.auctions /\ e.mails = r.mails /\ e.regained = r.regained
        /\ e.transit = r.transit /\ e.lost = r.lost
        /\ e.burnt = r.burnt + Kept(a) /\ e.unsent = r.unsent + Missing(a, hasItem)
    BY <1>2, <1>5 DEF DatabaseState
  <1>7. Kept(a) \in Int /\ Missing(a, hasItem) \in Int
    BY AuctionNumbers DEF Kept, Missing
  <1>8. Worth(d) \in Int /\ Stock(d) \in Int
    BY Parts
  <1>9. /\ DatabaseState(e, k)
        /\ Worth(e) = Worth(r) + Kept(a)
        /\ Stock(e) = Stock(r) + Missing(a, hasItem)
    BY <1>5, <1>6, <1>7, HistoryMoves
  <1>10. /\ m.auctions[id].bid \in Nat /\ m.auctions[id].deposit \in Nat
         /\ m.auctions[id].units \in Nat
    BY <1>5, AuctionNumbers
  <1>11. /\ Worth(e) = Worth(d) + g - d.auctions[id].bid - d.auctions[id].deposit + Kept(a)
         /\ Stock(e) = Stock(d) + u - d.auctions[id].units + Missing(a, hasItem)
    BY <1>3, <1>5, <1>7, <1>8, <1>9, <1>10
  <1> QED
    BY <1>3, <1>5, <1>6, <1>9, <1>11

-----------------------------------------------------------------------------
(* The invariant, from one state to the next.                              *)
-----------------------------------------------------------------------------
(* The invariant, from one state to the next.                              *)

\* Nothing is written of characters that are not online.
AwayKept(d) ==
    \A q \in Players : state[q] # "online" =>
        d.gold[q] = Database.gold[q] /\ d.inv[q] = Database.inv[q]

\* A step with transactions, the last of which leads to d.
Committed(d) ==
    /\ Len(dbs') \in Nat /\ Len(dbs') >= Len(dbs)
    /\ Database' = d /\ Balanced(d, nextAuction', altered')
    /\ \A i \in DOMAIN dbs' :
          \/ i \in DOMAIN dbs /\ dbs'[i] = dbs[i]
          \/ Balanced(dbs'[i], nextAuction', altered') /\ AwayKept(dbs'[i])

\* A character that the step is not about.
Uninvolved(q, d) ==
    /\ state'[q] = state[q] /\ gold'[q] = gold[q] /\ inv'[q] = inv[q]
    /\ d.gold[q] = Database.gold[q] /\ d.inv[q] = Database.inv[q]
    /\ d.owed[q] = Database.owed[q]

\* An online character that the step has saved.
Saved(q, d) ==
    /\ state[q] = "online"
    /\ \/ /\ state'[q] = "online"
          /\ altered' \/ d.gold[q] = gold'[q] + d.owed[q]
          /\ d.inv[q] = inv'[q]
       \/ state'[q] = "offline" /\ d.owed[q] = 0

\* What has been altered stays so.
StaysAltered == altered' \in BOOLEAN /\ (altered => altered')

\* What Exact says of the history, when meant is the meaning of the step.
LEMMA ExactAlters ==
  ASSUME altered \in BOOLEAN, NEW meant \in BOOLEAN, Exact(meant)
  PROVE  StaysAltered /\ (altered' \/ (~altered /\ meant))
  BY Zenon DEF Exact, StaysAltered

\* What Books says of the states of the database.
LEMMA BooksFacts ==
  ASSUME IInv, Books
  PROVE  /\ Balanced(Database, nextAuction, altered)
         /\ DatabaseState(Database, nextAuction)
         /\ Stored(Database.mails, nextMail) /\ nextMail \in Nat
         /\ nextAuction \in Nat \ {0} /\ altered \in BOOLEAN
         /\ \A i \in DOMAIN dbs : Balanced(dbs[i], nextAuction, altered)
         /\ Len(dbs) \in Nat /\ DOMAIN dbs = 1 .. Len(dbs) /\ Len(dbs) \in DOMAIN dbs
         /\ Database = dbs[Len(dbs)]
         /\ gold \in [Players -> Nat] /\ inv \in [Players -> Nat]
  <1>1. /\ Len(dbs) \in Nat /\ DOMAIN dbs = 1 .. Len(dbs) /\ Len(dbs) \in DOMAIN dbs
        /\ Database = dbs[Len(dbs)] /\ nextMail \in Nat
        /\ Stored(Database.mails, nextMail)
    BY DatabaseKept DEF IInv
  <1>2. \A i \in DOMAIN dbs : Balanced(dbs[i], nextAuction, altered)
    BY DEF Books
  <1>3. Balanced(Database, nextAuction, altered)
    BY <1>1, <1>2
  <1>4. DatabaseState(Database, nextAuction)
    BY <1>3 DEF Balanced
  <1> QED
    BY <1>1, <1>2, <1>3, <1>4 DEF Books

\* A later id is still above all rows.
LEMMA BalancedLater ==
  ASSUME NEW d, NEW k \in Nat, NEW n \in Nat, k <= n, NEW off, NEW still, off => still,
         Balanced(d, k, off)
  PROVE  Balanced(d, n, still)
  <1>1. 1 .. k - 1 \subseteq 1 .. n - 1
    OBVIOUS
  <1>2. DatabaseState(d, k) /\ Stock(d) = Sum(StartUnits) /\ (off \/ Worth(d) = Sum(StartGold))
    BY DEF Balanced
  <1>3. DatabaseState(d, n)
    BY <1>1, <1>2 DEF DatabaseState, AuctionRows
  <1> QED
    BY <1>2, <1>3 DEF Balanced

(***************************************************************************)
(* The books after a step with transactions.                               *)
(***************************************************************************)
LEMMA BooksCommitted ==
  ASSUME IInv, Books, NEW d, Committed(d), StaysAltered,
         gold' \in [Players -> Nat], inv' \in [Players -> Nat],
         nextAuction' \in Nat, nextAuction' >= nextAuction,
         UNCHANGED behind,
         \A q \in Players : Uninvolved(q, d) \/ Saved(q, d),
         AuctionsStored'
  PROVE  Books'
  <1>1. /\ Len(dbs) \in Nat /\ nextAuction \in Nat \ {0}
        /\ \A i \in DOMAIN dbs : Balanced(dbs[i], nextAuction, altered)
    BY BooksFacts
  <1>2. ASSUME NEW i \in DOMAIN dbs' PROVE Balanced(dbs'[i], nextAuction', altered')
    <2>1. CASE i \in DOMAIN dbs /\ dbs'[i] = dbs[i]
      <3>1. Balanced(dbs'[i], nextAuction, altered) /\ (altered => altered')
        BY <1>1, <2>1 DEF StaysAltered
      <3>2. nextAuction \in Nat /\ nextAuction <= nextAuction'
        BY <1>1
      <3> QED
        BY <3>1, <3>2, BalancedLater
    <2> QED
      BY <2>1 DEF Committed
  <1>3. ASSUME NEW q \in Players PROVE CharacterStored(q)'
    <2>1. CharacterStored(q)
      BY DEF Books
    <2>2. Database' = d
      BY DEF Committed
    <2>3. CASE Saved(q, d)
      BY <2>2, <2>3 DEF Saved, CharacterStored
    <2>4. CASE Uninvolved(q, d) /\ state[q] = "online"
      BY <2>1, <2>2, <2>4 DEF Uninvolved, CharacterStored, StaysAltered
    <2>5. CASE Uninvolved(q, d) /\ state[q] # "online"
      <3>1. state'[q] = state[q] /\ Database'.owed[q] = 0
        BY <2>1, <2>2, <2>5 DEF Uninvolved, CharacterStored
      <3>2. ASSUME state[q] = "loading", NEW i \in DOMAIN dbs', i > behind[q]
            PROVE  dbs'[i].gold[q] = d.gold[q] /\ dbs'[i].inv[q] = d.inv[q]
        <4>1. d.gold[q] = Database.gold[q] /\ d.inv[q] = Database.inv[q]
          BY <2>5 DEF Uninvolved
        <4>2. CASE i \in DOMAIN dbs /\ dbs'[i] = dbs[i]
          BY <2>1, <3>2, <4>1, <4>2 DEF CharacterStored
        <4>3. CASE AwayKept(dbs'[i])
          BY <2>5, <4>1, <4>3 DEF AwayKept
        <4> QED
          BY <4>2, <4>3 DEF Committed
      <3>3. state[q] = "loading" => behind[q] < Len(dbs')
        <4>1. behind[q] \in Nat
          BY DEF IInv, Shape
        <4> QED
          BY <1>1, <2>1, <4>1 DEF Committed, CharacterStored
      <3> QED
        BY <2>2, <2>5, <3>1, <3>2, <3>3 DEF CharacterStored
    <2> QED
      BY <2>3, <2>4, <2>5
  <1>4. nextAuction' \in Nat \ {0}
    BY <1>1
  <1>5. altered' \in BOOLEAN
    BY DEF StaysAltered
  <1> QED
    BY <1>2, <1>3, <1>4, <1>5 DEF Books

(***************************************************************************)
(* One transaction.                                                        *)
(***************************************************************************)
LEMMA CommittedOne ==
  ASSUME IInv, Books, NEW d, dbs' = dbs \o <<d>>, Balanced(d, nextAuction', altered'),
         AwayKept(d)
  PROVE  Committed(d)
  <1>1. IsSeq(dbs) /\ dbs # <<>>
    BY DatabaseKept DEF IInv
  <1>2. dbs' = With(dbs, d)
    BY DEF With
  <1>3. /\ Len(dbs) \in Nat /\ Len(dbs') = Len(dbs) + 1
        /\ \A i \in DOMAIN dbs : i \in DOMAIN dbs' /\ dbs'[i] = dbs[i]
        /\ \A i \in DOMAIN dbs' : i \in DOMAIN dbs \/ dbs'[i] = d
        /\ Last(dbs') = d
    <2> DEFINE r == dbs'
    <2>1. r = With(dbs, d)
      BY <1>2
    <2> HIDE DEF r
    <2>2. /\ Len(dbs) \in Nat /\ Len(r) = Len(dbs) + 1
          /\ \A i \in DOMAIN dbs : i \in DOMAIN r /\ r[i] = dbs[i]
          /\ \A i \in DOMAIN r : i \in DOMAIN dbs \/ r[i] = d
          /\ Last(r) = d
      BY <1>1, <2>1, CommitOne
    <2> QED
      BY <2>2 DEF r
  <1>4. Database' = d
    BY <1>3 DEF Database
  <1>5. \A i \in DOMAIN dbs' :
           \/ i \in DOMAIN dbs /\ dbs'[i] = dbs[i]
           \/ Balanced(dbs'[i], nextAuction', altered') /\ AwayKept(dbs'[i])
    BY <1>3
  <1>6. Len(dbs') \in Nat /\ Len(dbs') >= Len(dbs)
    BY <1>3
  <1> QED
    BY <1>4, <1>5, <1>6 DEF Committed

(***************************************************************************)
(* An online character is saved on top of d, which knows of it what the    *)
(* database knows.                                                         *)
(***************************************************************************)
SavedAs(e, p, g, n) ==
    /\ e.gold = [Database.gold EXCEPT ![p] = g]
    /\ e.inv = [Database.inv EXCEPT ![p] = n]
    /\ e.owed = [Database.owed EXCEPT ![p] = 0]

\* What it has in memory afterwards.
Owns(p, g, n) ==
    /\ gold' \in [Players -> Nat] /\ inv' \in [Players -> Nat]
    /\ gold'[p] = g /\ inv'[p] = n
    /\ \A q \in Players : q # p => gold'[q] = gold[q] /\ inv'[q] = inv[q]

\* The save moves the gold and the units that memory and database differ by.
LEMMA CharacterSaved ==
  ASSUME IInv, Books, NEW p \in Players, state[p] = "online",
         NEW d, NEW k \in Nat, DatabaseState(d, k),
         d.gold = Database.gold, d.inv = Database.inv, d.owed = Database.owed,
         NEW g \in Nat, NEW n \in Nat, NEW e, e = SaveInventoryAndGold(d, p, g, n)
  PROVE  /\ DatabaseState(e, k) /\ SavedAs(e, p, g, n)
         /\ altered \/ Worth(e) = Worth(d) + g - gold[p]
         /\ Stock(e) = Stock(d) + n - inv[p]
         /\ gold[p] \in Nat /\ inv[p] \in Nat
         /\ e.auctions = d.auctions /\ e.mails = d.mails
         /\ e.burnt = d.burnt /\ e.lost = d.lost /\ e.unsent = d.unsent
         /\ e.transit = d.transit
  <1>1. /\ DatabaseState(e, k)
        /\ Worth(e) = Worth(d) + g - d.gold[p] + d.owed[p]
        /\ Stock(e) = Stock(d) + n - d.inv[p]
        /\ e.gold = [d.gold EXCEPT ![p] = g] /\ e.inv = [d.inv EXCEPT ![p] = n]
        /\ e.owed = [d.owed EXCEPT ![p] = 0]
        /\ e.auctions = d.auctions /\ e.mails = d.mails
        /\ e.transit = d.transit /\ e.lost = d.lost /\ e.unsent = d.unsent
        /\ e.burnt = d.burnt
    BY SaveMoves
  <1>2. (altered \/ d.gold[p] = gold[p] + d.owed[p]) /\ d.inv[p] = inv[p]
    BY DEF Books, CharacterStored
  <1>3. gold[p] \in Nat /\ inv[p] \in Nat /\ d.owed[p] \in Nat /\ Worth(d) \in Int
    BY Parts DEF Books, DatabaseState
  <1>4. altered \/ Worth(e) = Worth(d) + g - gold[p]
    BY <1>1, <1>2, <1>3
  <1> QED
    BY <1>1, <1>2, <1>3, <1>4 DEF SavedAs

(***************************************************************************)
(* A handler of an online character with one transaction, which saves it   *)
(* as it is in memory afterwards.                                          *)
(***************************************************************************)
LEMMA BooksSaved ==
  ASSUME IInv, Books, NEW p \in Players, Online(p), NEW g \in Nat, NEW n \in Nat,
         NEW e, Balanced(e, nextAuction, altered'), SavedAs(e, p, g, n), StaysAltered,
         dbs' = dbs \o <<e>>,
         Owns(p, g, n), auctions' = e.auctions,
         UNCHANGED <<server, state, behind, nextAuction>>
  PROVE  Books'
  <1>1. nextAuction \in Nat \ {0} /\ DatabaseState(Database, nextAuction)
    BY BooksFacts
  <1>2. /\ Database.gold \in [Players -> Nat] /\ Database.inv \in [Players -> Nat]
        /\ Database.owed \in [Players -> Nat]
    BY <1>1 DEF DatabaseState
  <1>3. \A q \in Players : q # p => /\ e.gold[q] = Database.gold[q]
                                    /\ e.inv[q] = Database.inv[q]
                                    /\ e.owed[q] = Database.owed[q]
    BY <1>2 DEF SavedAs
  <1>4. e.gold[p] = g /\ e.inv[p] = n /\ e.owed[p] = 0
    BY <1>2 DEF SavedAs
  <1>5. AwayKept(e)
    BY <1>3 DEF AwayKept, Online
  <1>6. Committed(e)
    BY <1>5, CommittedOne
  <1>7. gold' \in [Players -> Nat] /\ inv' \in [Players -> Nat]
    BY DEF Owns
  <1>8. ASSUME NEW q \in Players PROVE Uninvolved(q, e) \/ Saved(q, e)
    <2>1. CASE q = p
      <3>1. gold'[p] = g /\ inv'[p] = n
        BY DEF Owns
      <3> QED
        BY <1>4, <2>1, <3>1 DEF Saved, Online
    <2>2. CASE q # p
      <3>1. gold'[q] = gold[q] /\ inv'[q] = inv[q]
        BY <2>2 DEF Owns
      <3> QED
        BY <1>3, <2>2, <3>1 DEF Uninvolved
    <2> QED
      BY <2>1, <2>2
  <1>9. AuctionsStored'
    BY <1>6 DEF Committed, AuctionsStored, Online
  <1>10. nextAuction' \in Nat /\ nextAuction' >= nextAuction
    BY <1>1
  <1> QED
    BY <1>6, <1>7, <1>8, <1>9, <1>10, BooksCommitted

\* The auctions in memory are the stored ones, for an online character.
LEMMA StoredAuctions ==
  ASSUME IInv, Books, server = "up"
  PROVE  /\ auctions = Database.auctions
         /\ \A id \in DOMAIN auctions : IsAuction(auctions[id])
  <1>1. auctions = Database.auctions
    BY DEF Books, AuctionsStored
  <1>2. DatabaseState(Database, nextAuction)
    BY BooksFacts
  <1> QED
    BY <1>1, <1>2 DEF DatabaseState, AuctionRows

(***************************************************************************)
(* ModifyMoney leaves a uint64, whatever the amount.                       *)
(***************************************************************************)
LEMMA AmountsAreIntegers ==
  ASSUME NEW n \in Int
  PROVE  /\ Minus(n, ULong) \in Int /\ Signed(n, ULong) \in Int
         /\ \A amount \in MinusInt32(n) : amount \in Int
  <1>1. UInt \in Nat /\ ULong \in Nat
    BY AuctionAssumption
  <1>2. Signed(n, UInt) \in Int /\ Signed(n, ULong) \in Int
    BY <1>1 DEF Signed
  <1>3. -n \in Int /\ -Signed(n, UInt) \in Int /\ -Signed(n, ULong) \in Int
    BY <1>2
  <1>4. Minus(n, UInt) \in Int /\ Minus(n, ULong) \in Int
    BY <1>3 DEF Minus
  <1> QED
    BY <1>2, <1>3, <1>4 DEF MinusInt32

LEMMA ModifiedMoney ==
  ASSUME IInv, Books, NEW p \in Players, NEW amount \in Int, ModifyMoney(p, amount)
  PROVE  /\ gold'[p] \in Nat /\ gold' = [gold EXCEPT ![p] = gold'[p]]
         /\ gold' \in [Players -> Nat]
  <1>1. gold \in [Players -> Nat] /\ gold[p] \in Nat
    BY BooksFacts
  <1>2. gold' = [gold EXCEPT ![p] = Modified(gold[p], amount)]
    BY DEF ModifyMoney
  <1>3. Modified(gold[p], amount) \in Nat
    <2>1. ULong \in Nat /\ ULong > 0
      BY AuctionAssumption
    <2>2. gold[p] + amount \in Int
      BY <1>1
    <2>3. (gold[p] + amount) % ULong \in 0 .. ULong - 1
      BY <2>1, <2>2
    <2>4. (gold[p] + amount) % ULong \in Nat
      BY <2>1, <2>3
    <2> QED
      BY <1>1, <2>4 DEF Modified
  <1> QED
    BY <1>1, <1>2, <1>3

\* What a handler does to the memory of its own character only.
LEMMA OwnsOne ==
  ASSUME IInv, Books, NEW p \in Players, NEW g \in Nat, NEW n \in Nat,
         gold' = [gold EXCEPT ![p] = g], inv' = [inv EXCEPT ![p] = n]
  PROVE  Owns(p, g, n)
  BY BooksFacts DEF Owns

-----------------------------------------------------------------------------
(* The handlers.                                                           *)

\* The last statement of e: gold that is taken.
Burns(e, s, rest) ==
    /\ DOMAIN e = DOMAIN s
    /\ e.gold = s.gold /\ e.inv = s.inv /\ e.owed = s.owed /\ e.auctions = s.auctions
    /\ e.mails = s.mails /\ e.regained = s.regained /\ e.burnt = s.burnt + rest
    /\ e.unsent = s.unsent /\ e.lost = s.lost /\ e.transit = s.transit

\* A saved character, before the last statement.
LEMMA SavedFields ==
  ASSUME NEW d, NEW k \in Nat, DatabaseState(d, k), NEW p \in Players, NEW g \in Nat,
         NEW n \in Nat, NEW s, s = SaveInventoryAndGold(d, p, g, n)
  PROVE  DatabaseState(s, k) /\ s.burnt \in Int /\ Burns(s, s, 0)
  <1>1. DatabaseState(s, k)
    BY SaveMoves
  <1>2. s.burnt \in Int
    BY <1>1 DEF DatabaseState
  <1> QED
    BY <1>1, <1>2 DEF Burns

LEMMA SomeBurns ==
  ASSUME NEW s, NEW k \in Nat, DatabaseState(s, k), NEW rest,
         NEW e, e = [s EXCEPT !.burnt = s.burnt + rest]
  PROVE  Burns(e, s, rest)
  BY DEF Burns, DatabaseState

(***************************************************************************)
(* A handler moves gold and units between the character that it saves and  *)
(* the auctions and mails: what d gains and what is taken is what the      *)
(* character has given.                                                    *)
(***************************************************************************)
Handled(p, d, w, u, g, n, s, rest, e) ==
    /\ Online(p)
    /\ DatabaseState(d, nextAuction)
    /\ d.gold = Database.gold /\ d.inv = Database.inv /\ d.owed = Database.owed
    /\ w \in Int /\ Worth(d) = Worth(Database) + w
    /\ u \in Int /\ Stock(d) = Stock(Database) + u
    /\ g \in Nat /\ n \in Nat /\ s = SaveInventoryAndGold(d, p, g, n)
    /\ rest \in Int /\ Burns(e, s, rest)
    /\ StaysAltered /\ (altered' \/ (~altered /\ g = gold[p] - w - rest))
    /\ n = inv[p] - u
    /\ dbs' = dbs \o <<e>>
    /\ gold' = [gold EXCEPT ![p] = g] /\ inv' = [inv EXCEPT ![p] = n]
    /\ auctions' = d.auctions
    /\ server' = server /\ state' = state /\ behind' = behind
    /\ nextAuction' = nextAuction

LEMMA HandlerBooks ==
  ASSUME IInv, Books, NEW p \in Players, NEW d, NEW w, NEW u, NEW g, NEW n, NEW s,
         NEW rest, NEW e, Handled(p, d, w, u, g, n, s, rest, e)
  PROVE  Books'
  <1> USE DEF Handled
  <1>1. /\ Balanced(Database, nextAuction, altered) /\ nextAuction \in Nat
        /\ DatabaseState(Database, nextAuction)
    BY BooksFacts
  <1>2. Worth(Database) \in Int /\ Stock(Database) \in Int
    BY <1>1, Parts
  <1>3. /\ DatabaseState(s, nextAuction) /\ SavedAs(s, p, g, n)
        /\ altered \/ Worth(s) = Worth(d) + g - gold[p]
        /\ Stock(s) = Stock(d) + n - inv[p]
        /\ gold[p] \in Nat /\ inv[p] \in Nat
        /\ s.auctions = d.auctions
    <2>1. /\ IInv /\ Books /\ p \in Players /\ state[p] = "online"
          /\ nextAuction \in Nat /\ DatabaseState(d, nextAuction)
          /\ d.gold = Database.gold /\ d.inv = Database.inv /\ d.owed = Database.owed
          /\ g \in Nat /\ n \in Nat /\ s = SaveInventoryAndGold(d, p, g, n)
      BY <1>1 DEF Online
    <2> QED
      BY ONLY <2>1, CharacterSaved
  <1>4. DatabaseState(e, nextAuction) /\ Worth(e) = Worth(s) + rest /\ Stock(e) = Stock(s)
    <2>1. /\ nextAuction \in Nat /\ DatabaseState(s, nextAuction) /\ rest \in Int
          /\ DOMAIN e = DOMAIN s
          /\ e.gold = s.gold /\ e.inv = s.inv /\ e.owed = s.owed
          /\ e.auctions = s.auctions /\ e.mails = s.mails /\ e.regained = s.regained
          /\ e.burnt = s.burnt + rest /\ e.unsent = s.unsent
          /\ e.lost = s.lost /\ e.transit = s.transit
      BY <1>1, <1>3 DEF Burns
    <2> QED
      BY ONLY <2>1, BurntMoves
  <1>5. Stock(e) = Stock(Database)
    BY <1>2, <1>3, <1>4
  <1>6. altered' \/ Worth(e) = Worth(Database)
    <2> SUFFICES ASSUME ~altered' PROVE Worth(e) = Worth(Database)
      OBVIOUS
    <2>1. Worth(s) = Worth(d) + g - gold[p] /\ g = gold[p] - w - rest
      BY <1>3
    <2>2. Worth(d) = Worth(Database) + w /\ w \in Int /\ rest \in Int /\ g \in Nat
      OBVIOUS
    <2> QED
      BY ONLY <1>2, <1>3, <1>4, <2>1, <2>2
  <1>7. altered' \/ ~altered
    OBVIOUS
  <1>8. Balanced(e, nextAuction, altered')
    BY <1>1, <1>4, <1>5, <1>6, <1>7 DEF Balanced
  <1>9. SavedAs(e, p, g, n)
    BY <1>3 DEF SavedAs, Burns
  <1>10. auctions' = e.auctions
    BY <1>3 DEF Burns
  <1>11. Owns(p, g, n)
    BY OwnsOne
  <1> QED
    BY <1>8, <1>9, <1>10, <1>11, BooksSaved

\* The periodic save stores what memory has.
LEMMA SaveToDBBooks ==
  ASSUME IInv, Books, NEW p \in Players, SaveToDB(p)
  PROVE  Books'
  <1> DEFINE none == 0
             d == Database
             g == gold[p]
             n == inv[p]
             e == SaveInventoryAndGold(d, p, g, n)
  <1>1. /\ Online(p) /\ server = "up"
        /\ dbs' = dbs \o <<e>>
        /\ UNCHANGED <<server, state, behind, gold, inv, auctions, nextAuction, altered>>
    BY DEF SaveToDB, Commit, Online
  <1>2. /\ DatabaseState(d, nextAuction) /\ nextAuction \in Nat /\ altered \in BOOLEAN
        /\ gold \in [Players -> Nat] /\ inv \in [Players -> Nat]
        /\ g \in Nat /\ n \in Nat
    BY BooksFacts
  <1>3. StaysAltered
    BY <1>1, <1>2 DEF StaysAltered
  <1>4. auctions' = d.auctions
    BY <1>1, StoredAuctions
  <1>5. e = SaveInventoryAndGold(d, p, g, n)
    OBVIOUS
  <1>6. gold' = [gold EXCEPT ![p] = g] /\ inv' = [inv EXCEPT ![p] = n]
    BY <1>1, <1>2
  <1>7. Worth(d) \in Int /\ Stock(d) \in Int
    BY <1>2, Parts
  <1> HIDE DEF e, none
  <1>8. /\ none \in Int /\ Worth(d) = Worth(Database) + none /\ Stock(d) = Stock(Database) + none
        /\ g = gold[p] - none - none /\ n = inv[p] - none
    BY <1>2, <1>7 DEF none
  <1>9. Burns(e, e, none)
    BY <1>2, <1>5, SavedFields DEF none
  <1>10. altered' \/ (~altered /\ g = gold[p] - none - none)
    BY <1>1, <1>8
  <1>11. d.gold = Database.gold /\ d.inv = Database.inv /\ d.owed = Database.owed
    OBVIOUS
  <1>12. /\ server' = server /\ state' = state /\ behind' = behind
         /\ nextAuction' = nextAuction
    BY <1>1
  <1> HIDE DEF d, g, n
  <1>13. Handled(p, d, none, none, g, n, e, none, e)
    BY <1>1, <1>2, <1>3, <1>4, <1>5, <1>6, <1>8, <1>9, <1>10, <1>11, <1>12 DEF Handled
  <1> QED
    BY <1>13, HandlerBooks

\* The gold of a player that pays.
LEMMA Paid ==
  ASSUME IInv, Books, NEW p \in Players, NEW n \in Int, Pay(p, n)
  PROVE  /\ gold'[p] \in Nat /\ gold' = [gold EXCEPT ![p] = gold'[p]]
         /\ StaysAltered /\ (altered' \/ (~altered /\ gold'[p] = gold[p] - n))
  <1>1. ModifyMoney(p, Minus(n, ULong)) /\ Exact(gold'[p] = gold[p] - n)
    BY DEF Pay
  <1>2. Minus(n, ULong) \in Int
    BY AmountsAreIntegers
  <1>3. altered \in BOOLEAN
    BY BooksFacts
  <1>4. gold'[p] \in Nat /\ gold' = [gold EXCEPT ![p] = gold'[p]]
    BY <1>1, <1>2, ModifiedMoney
  <1>5. StaysAltered /\ (altered' \/ (~altered /\ gold'[p] = gold[p] - n))
    BY <1>1, <1>3, ExactAlters
  <1> QED
    BY <1>4, <1>5

\* HandleAuctionPlaceBid, a bid: what the bidder pays and the old bid that goes
\* back make the new bid, but for the part above a uint32.
LEMMA BidBooks ==
  ASSUME IInv, Books, NEW p \in Players, NEW id \in DOMAIN auctions,
         NEW price \in Prices, Bid(p, id, price)
  PROVE  Books'
  <1> DEFINE a == auctions[id]
             x == price % UInt
             b == [a EXCEPT !.bidder = p, !.bid = x]
             drafts == Outbidded(a, p)
             g == gold'[p]
             n == inv[p]
             m == InsertMails(Database, drafts)
             d == UpdateBid(m, id, b)
             s == SaveInventoryAndGold(d, p, g, n)
             e == [s EXCEPT !.burnt = @ + price - x]
             pay == Payment(a, p, price)
             refund == Refund(a, p)
             rest == price - x
             w == refund - a.bid + x
             none == 0
  <1>1. /\ Online(p) /\ server = "up"
        /\ MayBid(p, a, price) /\ Pay(p, pay)
        /\ dbs' = dbs \o <<e>>
        /\ auctions' = [auctions EXCEPT ![id] = b]
        /\ UNCHANGED <<server, state, behind, inv, nextAuction>>
    BY DEF Bid, Commit, Online
  <1>2. /\ DatabaseState(Database, nextAuction) /\ nextAuction \in Nat
        /\ Stored(Database.mails, nextMail) /\ nextMail \in Nat
        /\ inv \in [Players -> Nat] /\ n \in Nat /\ gold[p] \in Nat
    BY BooksFacts
  <1>3. IsAuction(a) /\ auctions = Database.auctions
    BY <1>1, StoredAuctions
  <1>4. price \in Nat /\ x \in Nat /\ x \in 0 .. UInt - 1 /\ p # Nobody
    <2>1. price \in Nat /\ UInt \in Nat /\ p # Nobody
      BY AuctionAssumption
    <2>2. x \in 0 .. UInt - 1
      BY <2>1, Narrowed
    <2> QED
      BY <2>1, <2>2
  <1>5. a.bid \in Nat /\ (a.bidder = Nobody => a.bid = 0) /\ price > a.bid
    BY <1>1, <1>3, AuctionNumbers DEF MayBid
  <1>6. pay \in Nat /\ refund \in Nat /\ pay = price - a.bid + refund
    BY <1>4, <1>5 DEF Payment, Refund
  <1>7. Outbid(b, a, p, x) /\ IsAuction(b) /\ b.bid = x
    BY <1>3, <1>4 DEF IsAuction, HasPrices, Outbid
  <1>8. Drafts(drafts, refund, none) /\ none = 0
    BY <1>3, OutbiddedContains
  <1>9. /\ m = InsertMails(Database, drafts) /\ d = UpdateBid(m, id, b)
        /\ s = SaveInventoryAndGold(d, p, g, n)
        /\ e = [s EXCEPT !.burnt = @ + price - x]
    OBVIOUS
  <1>10. /\ g \in Nat /\ gold' = [gold EXCEPT ![p] = g]
         /\ StaysAltered /\ (altered' \/ (~altered /\ g = gold[p] - pay))
    BY <1>1, <1>6, Paid
  <1> HIDE DEF m, d, s, e, g, n, x, b, drafts, pay, refund, none
  <1>11. /\ DatabaseState(m, nextAuction)
         /\ Worth(m) = Worth(Database) + refund
         /\ Stock(m) = Stock(Database) + none
         /\ m.gold = Database.gold /\ m.inv = Database.inv /\ m.owed = Database.owed
         /\ m.auctions = Database.auctions
    BY <1>2, <1>8, <1>9, InsertMailsMoves
  <1>12. /\ DatabaseState(d, nextAuction)
         /\ Worth(d) = Worth(m) - a.bid + x /\ Stock(d) = Stock(m)
         /\ d.gold = m.gold /\ d.inv = m.inv /\ d.owed = m.owed
         /\ d.auctions = Updated(auctions, id, b)
    <2>1. /\ nextAuction \in Nat /\ DatabaseState(m, nextAuction)
          /\ id \in DOMAIN m.auctions /\ IsAuction(b) /\ Outbid(b, m.auctions[id], p, x)
          /\ d = UpdateBid(m, id, b)
      BY <1>2, <1>3, <1>7, <1>9, <1>11
    <2>2. /\ DatabaseState(d, nextAuction)
          /\ Worth(d) = Worth(m) - m.auctions[id].bid + b.bid /\ Stock(d) = Stock(m)
          /\ d.gold = m.gold /\ d.inv = m.inv /\ d.owed = m.owed
          /\ d.auctions = Updated(m.auctions, id, b)
      BY ONLY <2>1, UpdateBidMoves
    <2> QED
      BY <1>3, <1>7, <1>11, <2>2
  <1>13. Worth(Database) \in Int /\ Stock(Database) \in Int
    BY <1>2, Parts
  <1>14. /\ w \in Int /\ Worth(d) = Worth(Database) + w
         /\ none \in Int /\ Stock(d) = Stock(Database) + none
         /\ rest \in Int /\ pay = w + rest
    BY <1>4, <1>5, <1>6, <1>8, <1>11, <1>12, <1>13
  <1>15. Burns(e, s, rest)
    <2>1. DatabaseState(s, nextAuction) /\ s.burnt \in Int
      BY <1>2, <1>9, <1>10, <1>12, SavedFields
    <2>2. s.burnt + price - x = s.burnt + rest
      BY <1>4, <2>1
    <2>3. e = [s EXCEPT !.burnt = s.burnt + rest]
      BY <1>9, <2>2
    <2> HIDE DEF rest
    <2> QED
      BY <1>2, <2>1, <2>3, SomeBurns
  <1>16. altered' \/ (~altered /\ g = gold[p] - w - rest)
    BY <1>2, <1>10, <1>14
  <1>17. n = inv[p] - none /\ inv' = [inv EXCEPT ![p] = n]
    BY <1>1, <1>2, <1>8 DEF n
  <1>18. auctions' = d.auctions
    BY <1>1, <1>12 DEF Updated
  <1> HIDE DEF w, rest
  <1>19. Handled(p, d, w, none, g, n, s, rest, e)
    BY <1>1, <1>2, <1>9, <1>10, <1>11, <1>12, <1>14, <1>15, <1>16, <1>17, <1>18 DEF Handled
  <1> QED
    BY <1>19, HandlerBooks

\* HandleAuctionPlaceBid, a buyout: the seller gets what the buyer pays, less
\* the cut and with the deposit.
LEMMA BuyoutBooks ==
  ASSUME IInv, Books, NEW p \in Players, NEW id \in DOMAIN auctions,
         NEW price \in Prices, Buyout(p, id, price)
  PROVE  Books'
  <1> DEFINE a == auctions[id]
             b == [a EXCEPT !.bidder = p, !.bid = a.buyout]
             hasItem == id \in aitems
             drafts == Outbidded(a, p) \o SalePending(b) \o Settlement(b, hasItem)
             g == gold'[p]
             n == inv[p]
             d == Settled(Database, id, b, hasItem, drafts)
             e == SaveInventoryAndGold(d, p, g, n)
             pay == Payment(a, p, a.buyout)
             refund == Refund(a, p)
             sent == refund + Profit(b)
             item == Item(b, hasItem)
             missing == Missing(b, hasItem)
             kept == Kept(b)
             w == sent - a.bid - a.deposit + kept
             none == 0
  <1>1. /\ Online(p) /\ server = "up"
        /\ MayBid(p, a, price) /\ IsBuyout(a, price) /\ Pay(p, pay)
        /\ dbs' = dbs \o <<e>>
        /\ auctions' = WithoutRow(auctions, id)
        /\ UNCHANGED <<server, state, behind, inv, nextAuction>>
    BY DEF Buyout, Commit, Online, RemoveAuction, WithoutRow
  <1>2. /\ DatabaseState(Database, nextAuction) /\ nextAuction \in Nat
        /\ Stored(Database.mails, nextMail) /\ nextMail \in Nat
        /\ inv \in [Players -> Nat] /\ n \in Nat /\ gold[p] \in Nat
    BY BooksFacts
  <1>3. IsAuction(a) /\ auctions = Database.auctions
    BY <1>1, StoredAuctions
  <1>4. p # Nobody
    BY AuctionAssumption
  <1>5. /\ a.bid \in Nat /\ a.deposit \in Nat /\ a.units \in Nat
        /\ a.buyout \in Nat /\ a.buyout \in 0 .. UInt - 1
        /\ (a.bidder = Nobody => a.bid = 0)
    BY <1>3, AuctionNumbers
  <1>6. /\ IsAuction(b) /\ b.bid = a.buyout /\ b.bidder = p
        /\ b.deposit = a.deposit /\ b.units = a.units
    BY <1>3, <1>4, <1>5 DEF IsAuction, HasPrices
  <1> HIDE DEF b
  <1>7. Profit(b) \in Nat
    BY <1>6, AuctionNumbers
  <1>8. /\ refund \in Nat /\ pay = a.buyout - a.bid + refund
        /\ item \in Nat /\ missing \in Nat /\ item + missing = a.units
        /\ kept \in Int /\ kept = a.buyout + a.deposit - Profit(b)
        /\ sent \in Nat
    BY <1>4, <1>5, <1>6, <1>7 DEF Payment, Refund, Item, Missing, Kept
  <1>9. Drafts(drafts, sent, item)
    BY <1>3, <1>4, <1>6, BuyoutContains
  <1>10. /\ g \in Nat /\ gold' = [gold EXCEPT ![p] = g]
         /\ StaysAltered /\ (altered' \/ (~altered /\ g = gold[p] - pay))
    <2>1. pay \in Int
      BY <1>5, <1>8
    <2> QED
      BY <1>1, <2>1, Paid
  <1>11. d = Settled(Database, id, b, hasItem, drafts) /\ e = SaveInventoryAndGold(d, p, g, n)
    OBVIOUS
  <1> HIDE DEF d, e, g, n, drafts, hasItem, pay, refund, sent, item, missing, kept, none
  <1>12. /\ DatabaseState(d, nextAuction)
         /\ Worth(d) = Worth(Database) + sent - a.bid - a.deposit + kept
         /\ Stock(d) = Stock(Database) + item - a.units + missing
         /\ d.gold = Database.gold /\ d.inv = Database.inv /\ d.owed = Database.owed
         /\ d.auctions = WithoutRow(auctions, id)
    <2>1. /\ nextMail \in Nat /\ nextAuction \in Nat /\ DatabaseState(Database, nextAuction)
          /\ Stored(Database.mails, nextMail) /\ id \in DOMAIN Database.auctions
          /\ IsAuction(b) /\ Drafts(drafts, sent, item)
          /\ d = Settled(Database, id, b, hasItem, drafts)
      BY <1>2, <1>3, <1>6, <1>9, <1>11
    <2>2. /\ DatabaseState(d, nextAuction)
          /\ Worth(d) = Worth(Database) + sent - Database.auctions[id].bid
                          - Database.auctions[id].deposit + Kept(b)
          /\ Stock(d) = Stock(Database) + item - Database.auctions[id].units
                          + Missing(b, hasItem)
          /\ d.gold = Database.gold /\ d.inv = Database.inv /\ d.owed = Database.owed
          /\ d.auctions = WithoutRow(Database.auctions, id)
      BY ONLY <2>1, SettledMoves
    <2> QED
      BY <1>3, <2>2 DEF kept, missing
  <1>13. Worth(Database) \in Int /\ Stock(Database) \in Int
    BY <1>2, Parts
  <1>14. /\ w \in Int /\ Worth(d) = Worth(Database) + w
         /\ none \in Int /\ Stock(d) = Stock(Database) + none
         /\ w = pay - none
    <2>1. sent = refund + Profit(b) /\ none = 0
      BY DEF sent, none
    <2> QED
      BY <1>5, <1>7, <1>8, <1>12, <1>13, <2>1
  <1>15. Burns(e, e, none)
    BY <1>2, <1>10, <1>11, <1>12, SavedFields DEF none
  <1>16. altered' \/ (~altered /\ g = gold[p] - w - none)
    BY <1>2, <1>5, <1>8, <1>10, <1>14 DEF none
  <1>17. n = inv[p] - none /\ inv' = [inv EXCEPT ![p] = n]
    BY <1>1, <1>2 DEF n, none
  <1>18. auctions' = d.auctions
    BY <1>1, <1>12
  <1> HIDE DEF w
  <1>19. Handled(p, d, w, none, g, n, e, none, e)
    BY <1>1, <1>2, <1>10, <1>11, <1>12, <1>14, <1>15, <1>16, <1>17, <1>18 DEF Handled
  <1> QED
    BY <1>19, HandlerBooks

\* HandleAuctionRemoveItem: the cut is taken, the deposit is not given back.
LEMMA RemoveItemBooks ==
  ASSUME IInv, Books, NEW p \in Players, NEW id \in DOMAIN auctions,
         HandleAuctionRemoveItem(p, id)
  PROVE  Books'
  <1> DEFINE a == auctions[id]
             cut == IF a.bidder = Nobody THEN 0 ELSE GetAuctionCut(a.bid)
             drafts == Cancellation(a)
             g == gold'[p]
             n == inv[p]
             m == InsertMails(Database, drafts)
             d == DeleteAuction(m, id)
             s == SaveInventoryAndGold(d, p, g, n)
             e == [s EXCEPT !.burnt = @ + cut + a.deposit]
             refund == Refund(a, Nobody)
             units == a.units
             rest == cut + a.deposit
             w == -a.deposit
             none == 0
  <1>1. /\ Online(p) /\ server = "up" /\ Pay(p, cut)
        /\ dbs' = dbs \o <<e>>
        /\ auctions' = WithoutRow(auctions, id)
        /\ UNCHANGED <<server, state, behind, inv, nextAuction>>
    BY DEF HandleAuctionRemoveItem, Commit, Online, RemoveAuction, WithoutRow
  <1>2. /\ DatabaseState(Database, nextAuction) /\ nextAuction \in Nat
        /\ Stored(Database.mails, nextMail) /\ nextMail \in Nat
        /\ inv \in [Players -> Nat] /\ n \in Nat /\ gold[p] \in Nat
    BY BooksFacts
  <1>3. IsAuction(a) /\ auctions = Database.auctions
    BY <1>1, StoredAuctions
  <1>4. /\ a.bid \in Nat /\ a.deposit \in Nat /\ units \in Nat /\ units = a.units
        /\ (a.bidder = Nobody => a.bid = 0) /\ cut \in Int
    BY <1>3, AuctionNumbers
  <1>5. refund = a.bid
    BY <1>4 DEF Refund
  <1>6. Drafts(drafts, refund, units)
    BY <1>3, CancellationContains
  <1>7. /\ g \in Nat /\ gold' = [gold EXCEPT ![p] = g]
        /\ StaysAltered /\ (altered' \/ (~altered /\ g = gold[p] - cut))
    BY <1>1, <1>4, Paid
  <1>8. /\ m = InsertMails(Database, drafts) /\ d = DeleteAuction(m, id)
        /\ s = SaveInventoryAndGold(d, p, g, n)
        /\ e = [s EXCEPT !.burnt = @ + cut + a.deposit]
    OBVIOUS
  <1> HIDE DEF m, d, s, e, g, n, drafts, refund, units, cut, none
  <1>9. /\ DatabaseState(m, nextAuction)
        /\ Worth(m) = Worth(Database) + refund /\ Stock(m) = Stock(Database) + units
        /\ m.gold = Database.gold /\ m.inv = Database.inv /\ m.owed = Database.owed
        /\ m.auctions = Database.auctions
    BY <1>2, <1>6, <1>8, InsertMailsMoves
  <1>10. /\ DatabaseState(d, nextAuction)
         /\ Worth(d) = Worth(m) - a.bid - a.deposit /\ Stock(d) = Stock(m) - a.units
         /\ d.gold = m.gold /\ d.inv = m.inv /\ d.owed = m.owed
         /\ d.auctions = WithoutRow(auctions, id)
    <2>1. /\ nextAuction \in Nat /\ DatabaseState(m, nextAuction)
          /\ id \in DOMAIN m.auctions /\ d = DeleteAuction(m, id)
      BY <1>2, <1>3, <1>8, <1>9
    <2>2. /\ DatabaseState(d, nextAuction)
          /\ Worth(d) = Worth(m) - m.auctions[id].bid - m.auctions[id].deposit
          /\ Stock(d) = Stock(m) - m.auctions[id].units
          /\ d.gold = m.gold /\ d.inv = m.inv /\ d.owed = m.owed
          /\ d.auctions = WithoutRow(m.auctions, id)
      BY ONLY <2>1, DeleteAuctionMoves
    <2> QED
      BY <1>3, <1>9, <2>2
  <1>11. Worth(Database) \in Int /\ Stock(Database) \in Int
    BY <1>2, Parts
  <1>12. /\ w \in Int /\ Worth(d) = Worth(Database) + w
         /\ none \in Int /\ Stock(d) = Stock(Database) + none
         /\ rest \in Int /\ cut = w + rest
    <2>1. none = 0
      BY DEF none
    <2> QED
      BY <1>4, <1>5, <1>9, <1>10, <1>11, <2>1
  <1>13. Burns(e, s, rest)
    <2>1. DatabaseState(s, nextAuction) /\ s.burnt \in Int
      BY <1>2, <1>7, <1>8, <1>10, SavedFields
    <2>2. s.burnt + cut + a.deposit = s.burnt + rest
      BY <1>4, <2>1
    <2>3. e = [s EXCEPT !.burnt = s.burnt + rest]
      BY <1>8, <2>2
    <2> HIDE DEF rest
    <2> QED
      BY <1>2, <2>1, <2>3, SomeBurns
  <1>14. altered' \/ (~altered /\ g = gold[p] - w - rest)
    BY <1>2, <1>4, <1>7, <1>12
  <1>15. n = inv[p] - none /\ inv' = [inv EXCEPT ![p] = n]
    BY <1>1, <1>2 DEF n, none
  <1>16. auctions' = d.auctions
    BY <1>1, <1>10
  <1> HIDE DEF w, rest
  <1>17. Handled(p, d, w, none, g, n, s, rest, e)
    BY <1>1, <1>2, <1>7, <1>8, <1>9, <1>10, <1>12, <1>13, <1>14, <1>15, <1>16 DEF Handled
  <1> QED
    BY <1>17, HandlerBooks

\* HandleSendMail: the gold and the units go into the mail, the postage away.
LEMMA SendMailBooks ==
  ASSUME IInv, Books, NEW p \in Players, NEW q, NEW l \in Letters, HandleSendMail(p, q, l)
  PROVE  Books'
  <1> DEFINE units == IF l.withUnits THEN inv[p] ELSE 0
             x == Mail(q, p, l.gold, units, l.cod % UInt)
             drafts == <<x>>
             reqmoney == (l.gold + MailCost) % ULong
             meant == gold'[p] = gold[p] - (l.gold + MailCost) /\ l.gold < UInt
             g == gold'[p]
             n == inv[p] - units
             d == InsertMails(Database, drafts)
             s == SaveInventoryAndGold(d, p, g, n)
             e == [s EXCEPT !.burnt = @ + MailCost]
             w == l.gold % UInt
  <1>1. /\ Online(p) /\ server = "up"
        /\ ModifyMoney(p, Minus(reqmoney, ULong)) /\ Exact(meant)
        /\ dbs' = dbs \o <<e>>
        /\ inv' = [inv EXCEPT ![p] = @ - units]
        /\ UNCHANGED <<server, state, behind, auctions, nextAuction>>
    BY DEF HandleSendMail, Commit, Online
  <1>2. /\ DatabaseState(Database, nextAuction) /\ nextAuction \in Nat
        /\ Stored(Database.mails, nextMail) /\ nextMail \in Nat /\ altered \in BOOLEAN
        /\ inv \in [Players -> Nat] /\ inv[p] \in Nat /\ gold[p] \in Nat
    BY BooksFacts
  <1>3. auctions = Database.auctions
    BY <1>1, StoredAuctions
  <1>4. /\ l.gold \in Nat /\ l.cod \in Nat /\ MailCost \in Nat
        /\ UInt \in Nat /\ ULong \in Nat /\ ULong > 0
    BY AuctionAssumption
  <1>5. w \in Nat /\ w \in 0 .. UInt - 1 /\ (l.gold < UInt => w = l.gold)
    <2>1. w \in 0 .. UInt - 1 /\ (l.gold < UInt => w = l.gold)
      BY <1>4, Narrowed
    <2> QED
      BY <1>4, <2>1
  <1>6. units \in Nat /\ n \in Nat /\ n = inv[p] - units
    BY <1>2
  <1>7. /\ g \in Nat /\ gold' = [gold EXCEPT ![p] = g]
        /\ StaysAltered
        /\ altered' \/ (~altered /\ g = gold[p] - w - MailCost)
    <2>1. reqmoney \in Int
      <3>1. l.gold + MailCost \in Nat
        BY <1>4
      <3>2. reqmoney \in 0 .. ULong - 1
        BY <1>4, <3>1
      <3> QED
        BY <1>4, <3>2
    <2>2. Minus(reqmoney, ULong) \in Int
      BY <2>1, AmountsAreIntegers
    <2>3. g \in Nat /\ gold' = [gold EXCEPT ![p] = g]
      BY <1>1, <2>2, ModifiedMoney
    <2>4. meant \in BOOLEAN
      OBVIOUS
    <2>5. StaysAltered /\ (altered' \/ (~altered /\ meant))
      <3> HIDE DEF meant
      <3> QED
        BY <1>1, <1>2, <2>4, ExactAlters
    <2>6. meant => g = gold[p] - w - MailCost
      BY <1>2, <1>4, <1>5
    <2> QED
      BY <2>3, <2>5, <2>6
  <1>8. IsDraft(x) /\ x.gold = l.gold /\ x.units = units
    <2>1. l.cod % UInt \in 0 .. UInt - 1
      BY <1>4, Narrowed
    <2>2. IsDraft(x)
      BY <1>4, <2>1, MailDrafted
    <2> QED
      BY <2>2 DEF Mail
  <1>9. /\ d = InsertMails(Database, drafts) /\ s = SaveInventoryAndGold(d, p, g, n)
        /\ e = [s EXCEPT !.burnt = s.burnt + MailCost]
        /\ inv' = [inv EXCEPT ![p] = n]
    BY <1>1
  <1> HIDE DEF d, s, e, g, n, units, x, w
  <1>10. Drafts(drafts, w, units)
    <2>1. Drafts(<<x>>, x.gold % UInt, x.units)
      BY <1>6, <1>8, OneMail
    <2> QED
      BY <1>8, <2>1 DEF w
  <1> HIDE DEF drafts
  <1>11. /\ DatabaseState(d, nextAuction)
         /\ Worth(d) = Worth(Database) + w /\ Stock(d) = Stock(Database) + units
         /\ d.gold = Database.gold /\ d.inv = Database.inv /\ d.owed = Database.owed
         /\ d.auctions = Database.auctions
    BY <1>2, <1>9, <1>10, InsertMailsMoves
  <1>12. Burns(e, s, MailCost)
    <2>1. DatabaseState(s, nextAuction) /\ s.burnt \in Int
      BY <1>2, <1>6, <1>7, <1>9, <1>11, SavedFields
    <2> QED
      BY <1>2, <1>9, <2>1, SomeBurns
  <1>13. auctions' = d.auctions
    BY <1>1, <1>3, <1>11
  <1>14. w \in Int /\ units \in Int /\ MailCost \in Int
    BY <1>4, <1>5, <1>6
  <1>15. Handled(p, d, w, units, g, n, s, MailCost, e)
    BY <1>1, <1>6, <1>7, <1>9, <1>11, <1>12, <1>13, <1>14 DEF Handled
  <1> QED
    BY <1>15, HandlerBooks

(***************************************************************************)
(* The mails of a state of the database are replaced.                      *)
(***************************************************************************)
LEMMA MailsReplaced ==
  ASSUME NEW d, NEW k \in Nat, DatabaseState(d, k), NEW B, MailRows(B),
         NEW e, e = [d EXCEPT !.mails = B]
  PROVE  /\ DatabaseState(e, k)
         /\ Worth(e) = Worth(d) + MailTotal(B, "gold") - MailTotal(d.mails, "gold")
         /\ Stock(e) = Stock(d) + MailTotal(B, "units") - MailTotal(d.mails, "units")
         /\ e.gold = d.gold /\ e.inv = d.inv /\ e.owed = d.owed
         /\ e.auctions = d.auctions /\ e.mails = B
  <1>1. /\ e.mails = B
        /\ DOMAIN e = DOMAIN d /\ e.auctions = d.auctions
        /\ e.gold = d.gold /\ e.inv = d.inv /\ e.owed = d.owed
        /\ e.regained = d.regained /\ e.burnt = d.burnt /\ e.lost = d.lost
        /\ e.unsent = d.unsent /\ e.transit = d.transit
    BY DEF DatabaseState
  <1>2. AuctionRows(e.auctions, k) /\ MailRows(e.mails)
    BY <1>1 DEF DatabaseState
  <1>3. /\ DatabaseState(e, k)
        /\ Worth(e) = Worth(d) + AuctionGold(e.auctions) - AuctionGold(d.auctions)
                        + MailTotal(e.mails, "gold") - MailTotal(d.mails, "gold")
        /\ Stock(e) = Stock(d) + AuctionUnits(e.auctions) - AuctionUnits(d.auctions)
                        + MailTotal(e.mails, "units") - MailTotal(d.mails, "units")
    BY <1>1, <1>2, RowsMove
  <1>4. /\ Worth(d) \in Int /\ Stock(d) \in Int
        /\ AuctionGold(d.auctions) \in Nat /\ AuctionUnits(d.auctions) \in Nat
        /\ MailTotal(d.mails, "gold") \in Nat /\ MailTotal(d.mails, "units") \in Nat
    BY Parts
  <1>5. MailTotal(B, "gold") \in Nat /\ MailTotal(B, "units") \in Nat
    BY <1>1, <1>3, Parts
  <1>6. /\ Worth(e) = Worth(d) + MailTotal(B, "gold") - MailTotal(d.mails, "gold")
        /\ Stock(e) = Stock(d) + MailTotal(B, "units") - MailTotal(d.mails, "units")
    BY <1>1, <1>3, <1>4, <1>5
  <1> QED
    BY <1>1, <1>3, <1>6

\* One of them is another one afterwards.
LEMMA MailSwapped ==
  ASSUME NEW d, NEW k \in Nat, DatabaseState(d, k), NEW n, Stored(d.mails, n),
         NEW m, m \in d.mails, NEW new, HasAmounts(new), new.id = m.id,
         NEW e, e = [d EXCEPT !.mails = (d.mails \ {m}) \cup {new}]
  PROVE  /\ DatabaseState(e, k)
         /\ Worth(e) = Worth(d) - m.gold + new.gold
         /\ Stock(e) = Stock(d) - m.units + new.units
         /\ e.gold = d.gold /\ e.inv = d.inv /\ e.owed = d.owed
         /\ e.auctions = d.auctions /\ e.mails = (d.mails \ {m}) \cup {new}
         /\ Worth(d) \in Int /\ Stock(d) \in Int
  <1> DEFINE B == (d.mails \ {m}) \cup {new}
  <1>1. MailRows(d.mails)
    BY DEF DatabaseState
  <1>2. /\ MailRows(B)
        /\ \A f \in Amounts :
              /\ MailTotal(B, f) = MailTotal(d.mails, f) - m[f] + new[f]
              /\ MailTotal(d.mails, f) \in Nat /\ m[f] \in Nat /\ new[f] \in Nat
    BY <1>1, MailReplaced
  <1>3. e = [d EXCEPT !.mails = B]
    OBVIOUS
  <1> HIDE DEF B
  <1>4. /\ DatabaseState(e, k)
        /\ Worth(e) = Worth(d) + MailTotal(B, "gold") - MailTotal(d.mails, "gold")
        /\ Stock(e) = Stock(d) + MailTotal(B, "units") - MailTotal(d.mails, "units")
        /\ e.gold = d.gold /\ e.inv = d.inv /\ e.owed = d.owed
        /\ e.auctions = d.auctions /\ e.mails = B
    <2>1. k \in Nat /\ DatabaseState(d, k) /\ MailRows(B) /\ e = [d EXCEPT !.mails = B]
      BY <1>2, <1>3
    <2> QED
      BY ONLY <2>1, MailsReplaced
  <1>5. Worth(d) \in Int /\ Stock(d) \in Int
    BY Parts
  <1>6. /\ MailTotal(B, "gold") = MailTotal(d.mails, "gold") - m.gold + new.gold
        /\ MailTotal(B, "units") = MailTotal(d.mails, "units") - m.units + new.units
        /\ MailTotal(d.mails, "gold") \in Nat /\ MailTotal(d.mails, "units") \in Nat
        /\ m.gold \in Nat /\ m.units \in Nat /\ new.gold \in Nat /\ new.units \in Nat
    BY <1>2 DEF Amounts
  <1>7. /\ Worth(e) = Worth(d) - m.gold + new.gold
        /\ Stock(e) = Stock(d) - m.units + new.units
    BY <1>4, <1>5, <1>6
  <1> QED
    BY <1>4, <1>5, <1>7 DEF B

\* A mail that a character has loaded, and its row.
LEMMA LoadedRow ==
  ASSUME IInv, Books, NEW p \in Players, box[p].loaded, NEW m \in box[p].mails
  PROVE  /\ IsLetter(m) /\ Row(m) \in Database.mails
         /\ MailRows(Database.mails) /\ Stored(Database.mails, nextMail)
         /\ m.gold \in Nat /\ m.units \in Nat /\ m.cod \in Nat /\ m.cod \in 0 .. UInt - 1
         /\ Row(m).gold = m.gold % UInt /\ Row(m).units = m.units
         /\ Row(m).gold \in Nat
  <1>1. IsLetter(m) /\ Row(m) \in Database.mails
    BY LoadedMail
  <1>2. MailRows(Database.mails) /\ Stored(Database.mails, nextMail)
    BY BooksFacts DEF DatabaseState
  <1>3. Row(m).gold = m.gold % UInt /\ Row(m).units = m.units
    BY <1>1, RowOf
  <1>4. Row(m).gold \in Nat /\ Row(m).units \in Nat
    BY <1>1, <1>2 DEF MailRows, HasAmounts
  <1>5. m.gold \in Nat /\ m.cod \in 0 .. UInt - 1
    BY <1>1 DEF IsLetter
  <1>6. m.cod \in Nat
    <2>1. UInt \in Nat
      BY AuctionAssumption
    <2> QED
      BY <1>5, <2>1
  <1> QED
    BY <1>1, <1>2, <1>3, <1>4, <1>5, <1>6

\* SaveGold alone: the inventory is stored as it is.
LEMMA InventoryIsStored ==
  ASSUME IInv, Books, NEW p \in Players, Online(p), NEW d, DatabaseState(d, nextAuction),
         d.inv = Database.inv, NEW g
  PROVE  SaveGold(d, p, g) = SaveInventoryAndGold(d, p, g, inv[p])
  <1> DEFINE r == SaveGold(d, p, g)
  <1>1. d.inv[p] = inv[p] /\ d.inv \in [Players -> Nat]
    BY DEF Books, CharacterStored, Online, DatabaseState
  <1>2. r.inv = d.inv /\ r = [x \in DOMAIN r |-> r[x]] /\ "inv" \in DOMAIN r
    BY DEF SaveGold, DatabaseState
  <1> HIDE DEF r
  <1>3. [r.inv EXCEPT ![p] = inv[p]] = r.inv
    BY <1>1, <1>2
  <1>4. [r EXCEPT !.inv[p] = inv[p]] = r
    BY <1>2, <1>3
  <1> QED
    BY <1>4 DEF r, SaveInventoryAndGold

\* HandleMailTakeMoney: the gold of the mail becomes gold of the character.
LEMMA TakeMoneyBooks ==
  ASSUME IInv, Books, NEW p \in Players, Online(p), box[p].loaded, NEW m \in box[p].mails,
         HandleMailTakeMoney(p, m)
  PROVE  Books'
  <1> DEFINE amount == Signed(m.gold, ULong)
             rows == UpdateMail(Database.mails, Without(m, "gold"))
             d == [Database EXCEPT !.mails = rows]
             g == gold'[p]
             n == inv[p]
             v == Row(m).gold
             w == -v
             e == SaveGold(d, p, g)
             meant == gold'[p] = gold[p] + Row(m).gold
             none == 0
  <1>1. /\ server = "up"
        /\ ModifyMoney(p, amount) /\ Exact(meant)
        /\ dbs' = dbs \o <<e>>
        /\ UNCHANGED <<server, state, behind, inv, auctions, nextAuction>>
    BY DEF HandleMailTakeMoney, Commit, Online, Without
  <1>2. /\ DatabaseState(Database, nextAuction) /\ nextAuction \in Nat
        /\ altered \in BOOLEAN
        /\ inv \in [Players -> Nat] /\ n \in Nat /\ gold[p] \in Nat
    BY BooksFacts
  <1>3. auctions = Database.auctions
    BY <1>1, StoredAuctions
  <1>4. /\ Row(m) \in Database.mails /\ Stored(Database.mails, nextMail)
        /\ m.gold \in Nat /\ v \in Nat /\ m.units \in Nat /\ Row(m).units = m.units
    BY LoadedRow
  <1>5. /\ g \in Nat /\ gold' = [gold EXCEPT ![p] = g]
        /\ StaysAltered /\ (altered' \/ (~altered /\ meant))
    <2>1. amount \in Int
      BY <1>4, AmountsAreIntegers
    <2>2. g \in Nat /\ gold' = [gold EXCEPT ![p] = g]
      BY <1>1, <2>1, ModifiedMoney
    <2>3. StaysAltered /\ (altered' \/ (~altered /\ meant))
      <3>1. meant \in BOOLEAN
        OBVIOUS
      <3> HIDE DEF meant
      <3> QED
        BY <1>1, <1>2, <3>1, ExactAlters
    <2> QED
      BY <2>2, <2>3
  <1> DEFINE old == Row(m)
             new == Row(Without(m, "gold"))
  <1>6. /\ rows = (Database.mails \ {old}) \cup {new}
        /\ HasAmounts(new) /\ new.id = old.id /\ new.gold = 0 /\ new.units = m.units
    <2>1. /\ rows = (Database.mails \ {old}) \cup {new}
          /\ IsLetter(m) /\ IsLetter(Without(m, "gold")) /\ Without(m, "gold").id = m.id
          /\ Without(m, "gold").gold = 0 /\ Without(m, "gold").units = m.units
      BY MoneyTaken
    <2>2. new.id = old.id /\ new.gold = 0 % UInt /\ new.units = m.units
      BY <2>1, RowOf
    <2>3. 0 % UInt = 0
      BY AuctionAssumption
    <2> QED
      BY <1>4, <2>1, <2>2, <2>3 DEF HasAmounts
  <1>7. /\ e = SaveGold(d, p, g) /\ v = old.gold
        /\ d = [Database EXCEPT !.mails = (Database.mails \ {old}) \cup {new}]
    BY <1>6
  <1> HIDE DEF rows, d, e, g, old, new
  <1>8. /\ DatabaseState(d, nextAuction)
        /\ Worth(d) = Worth(Database) - old.gold + new.gold
        /\ Stock(d) = Stock(Database) - old.units + new.units
        /\ d.gold = Database.gold /\ d.inv = Database.inv /\ d.owed = Database.owed
        /\ d.auctions = Database.auctions
        /\ Worth(Database) \in Int /\ Stock(Database) \in Int
    <2>1. /\ DatabaseState(Database, nextAuction) /\ nextAuction \in Nat
          /\ Stored(Database.mails, nextMail) /\ old \in Database.mails
          /\ HasAmounts(new) /\ new.id = old.id
          /\ d = [Database EXCEPT !.mails = (Database.mails \ {old}) \cup {new}]
      BY <1>2, <1>4, <1>6, <1>7 DEF old
    <2> QED
      BY ONLY <2>1, MailSwapped
  <1>9. /\ w \in Int /\ Worth(d) = Worth(Database) + w
        /\ none \in Int /\ Stock(d) = Stock(Database) + none
    BY <1>4, <1>6, <1>7, <1>8 DEF old
  <1>10. e = SaveInventoryAndGold(d, p, g, n)
    BY <1>7, <1>8, InventoryIsStored
  <1>11. Burns(e, e, none)
    BY <1>2, <1>5, <1>8, <1>10, SavedFields
  <1>12. altered' \/ (~altered /\ g = gold[p] - w - none)
    <2>1. meant => g = gold[p] - w - none
      BY <1>2, <1>4 DEF g
    <2> QED
      BY <1>5, <2>1
  <1> HIDE DEF n, w, v, none, meant
  <1>13. n = inv[p] - none /\ inv' = [inv EXCEPT ![p] = n]
    BY <1>1, <1>2 DEF n, none
  <1>14. auctions' = d.auctions
    BY <1>1, <1>3, <1>8
  <1>15. Handled(p, d, w, none, g, n, e, none, e)
    BY <1>1, <1>2, <1>5, <1>8, <1>9, <1>10, <1>11, <1>12, <1>13, <1>14 DEF Handled
  <1> QED
    BY <1>15, HandlerBooks

\* The new mail that pays a COD.
LEMMA CodContains ==
  ASSUME NEW to, NEW from, NEW cod, cod \in Nat, cod \in 0 .. UInt - 1
  PROVE  Drafts(IF cod > 0 THEN <<Mail(to, from, cod, 0, 0)>> ELSE << >>, cod, 0)
  <1> DEFINE x == Mail(to, from, cod, 0, 0)
  <1>1. UInt \in Nat /\ 0 \in Nat /\ 0 \in 0 .. UInt - 1 /\ cod % UInt = cod
    <2>1. UInt \in Nat /\ UInt > 0
      BY AuctionAssumption
    <2>2. cod < UInt
      BY <2>1
    <2> QED
      BY <2>1, <2>2, Narrowed
  <1>2. IsDraft(x)
    BY <1>1, MailDrafted
  <1>3. x.gold = cod /\ x.units = 0
    BY DEF Mail
  <1> HIDE DEF x
  <1>4. Drafts(<<x>>, cod, 0)
    <2>1. x.units \in Nat
      BY <1>3
    <2>2. Drafts(<<x>>, x.gold % UInt, x.units)
      BY <1>2, <2>1, OneMail
    <2> QED
      BY <1>1, <1>3, <2>2
  <1>5. CASE cod > 0
    BY <1>4, <1>5 DEF x
  <1>6. CASE ~(cod > 0)
    <2>1. cod = 0
      BY <1>6
    <2> QED
      BY <1>6, <2>1, NoMails
  <1> QED
    BY <1>5, <1>6

\* The rows of the two mails of HandleMailTakeItem.
LEMMA ItemMoves ==
  ASSUME IInv, Books, NEW p \in Players, box[p].loaded,
         NEW m \in box[p].mails, NEW x \in box[p].mails,
         NEW c, c = [Database EXCEPT !.mails = Emptied(SettledRows(m), x, "units")]
  PROVE  /\ DatabaseState(c, nextAuction) /\ Stored(c.mails, nextMail)
         /\ Worth(c) = Worth(Database) /\ Stock(c) = Stock(Database) - x.units
         /\ c.gold = Database.gold /\ c.inv = Database.inv /\ c.owed = Database.owed
         /\ c.auctions = Database.auctions
         /\ Worth(Database) \in Int /\ Stock(Database) \in Int
  <1> DEFINE old == Row(m)
             new == Row(Settles(m))
             b == [Database EXCEPT !.mails = (Database.mails \ {old}) \cup {new}]
             full == Row(Remaining(m, x))
             empty == Row(Opened(m, x))
  <1>1. /\ DatabaseState(Database, nextAuction) /\ nextAuction \in Nat
        /\ Stored(Database.mails, nextMail) /\ nextMail \in Nat
    BY BooksFacts
  <1>2. /\ Mirrored(SettledRows(m), SettledMails(p, m), nextMail, p)
        /\ Mirrored(Emptied(SettledRows(m), x, "units"),
                    Emptied(SettledMails(p, m), x, "units"), nextMail, p)
        /\ SettledRows(m) = (Database.mails \ {old}) \cup {new}
        /\ full \in SettledRows(m)
        /\ Emptied(SettledRows(m), x, "units") = (SettledRows(m) \ {full}) \cup {empty}
        /\ IsLetter(m) /\ IsLetter(x) /\ IsLetter(Settles(m))
        /\ IsLetter(Remaining(m, x)) /\ IsLetter(Opened(m, x))
        /\ Settles(m).id = m.id /\ Settles(m).gold = m.gold /\ Settles(m).units = m.units
        /\ Opened(m, x).id = Remaining(m, x).id
        /\ Remaining(m, x).units = x.units /\ Opened(m, x).units = 0
        /\ Remaining(m, x).gold = x.gold /\ Opened(m, x).gold = x.gold
    BY ItemTaken
  <1>3. /\ Row(m).gold \in Nat /\ Row(m).units = m.units /\ m.units \in Nat
        /\ Row(x).gold \in Nat /\ x.units \in Nat
        /\ Row(m) \in Database.mails
    BY LoadedRow
  <1>4. /\ new.id = old.id /\ new.gold = old.gold /\ new.units = old.units
        /\ HasAmounts(new)
    BY <1>2, <1>3, RowOf DEF HasAmounts
  <1>5. /\ empty.id = full.id /\ empty.gold = full.gold
        /\ full.units = x.units /\ empty.units = 0 /\ HasAmounts(empty)
        /\ full.gold \in Nat
    <2>1. full.gold = x.gold % UInt /\ empty.gold = x.gold % UInt /\ Row(x).gold = x.gold % UInt
      BY <1>2, RowOf
    <2>2. empty.id = full.id /\ full.units = x.units /\ empty.units = 0
      BY <1>2, RowOf
    <2> QED
      BY <1>3, <2>1, <2>2 DEF HasAmounts
  <1>6. b = [Database EXCEPT !.mails = (Database.mails \ {old}) \cup {new}] /\ old = Row(m)
    OBVIOUS
  <1> HIDE DEF old, new, full, empty, b
  <1>7. /\ DatabaseState(b, nextAuction)
        /\ Worth(b) = Worth(Database) - old.gold + new.gold
        /\ Stock(b) = Stock(Database) - old.units + new.units
        /\ b.gold = Database.gold /\ b.inv = Database.inv /\ b.owed = Database.owed
        /\ b.auctions = Database.auctions
        /\ b.mails = (Database.mails \ {old}) \cup {new}
        /\ Worth(Database) \in Int /\ Stock(Database) \in Int
    <2>1. /\ DatabaseState(Database, nextAuction) /\ nextAuction \in Nat
          /\ Stored(Database.mails, nextMail) /\ old \in Database.mails
          /\ HasAmounts(new) /\ new.id = old.id
          /\ b = [Database EXCEPT !.mails = (Database.mails \ {old}) \cup {new}]
      BY <1>1, <1>3, <1>4, <1>6
    <2> QED
      BY ONLY <2>1, MailSwapped
  <1>8. c = [b EXCEPT !.mails = (b.mails \ {full}) \cup {empty}]
    <2>1. c = [Database EXCEPT !.mails = (b.mails \ {full}) \cup {empty}]
      BY <1>2, <1>7
    <2> QED
      BY <1>6, <2>1
  <1>9. /\ DatabaseState(c, nextAuction)
        /\ Worth(c) = Worth(b) - full.gold + empty.gold
        /\ Stock(c) = Stock(b) - full.units + empty.units
        /\ c.gold = b.gold /\ c.inv = b.inv /\ c.owed = b.owed
        /\ c.auctions = b.auctions /\ c.mails = (b.mails \ {full}) \cup {empty}
        /\ Worth(b) \in Int /\ Stock(b) \in Int
    <2>1. /\ DatabaseState(b, nextAuction) /\ nextAuction \in Nat
          /\ Stored(b.mails, nextMail) /\ full \in b.mails
          /\ HasAmounts(empty) /\ empty.id = full.id
          /\ c = [b EXCEPT !.mails = (b.mails \ {full}) \cup {empty}]
      BY <1>1, <1>2, <1>5, <1>7, <1>8 DEF Mirrored
    <2> QED
      BY ONLY <2>1, MailSwapped
  <1>10. Stored(c.mails, nextMail)
    BY <1>2, <1>7, <1>9 DEF Mirrored
  <1>11. Worth(c) = Worth(Database)
    <2>1. old.gold \in Nat /\ new.gold = old.gold /\ full.gold \in Nat /\ empty.gold = full.gold
      BY <1>3, <1>4, <1>5, <1>6
    <2> QED
      BY <1>7, <1>9, <2>1
  <1>12. Stock(c) = Stock(Database) - x.units
    <2>1. /\ old.units \in Nat /\ new.units = old.units
          /\ full.units = x.units /\ empty.units = 0 /\ x.units \in Nat
      BY <1>3, <1>4, <1>5, <1>6
    <2> QED
      BY <1>7, <1>9, <2>1
  <1> QED
    BY <1>7, <1>9, <1>10, <1>11, <1>12

\* HandleMailTakeItem: the units become units of the character, and a COD goes
\* to the sender by mail.
LEMMA TakeItemBooks ==
  ASSUME IInv, Books, NEW p \in Players, Online(p), box[p].loaded,
         NEW m \in box[p].mails, NEW x \in box[p].mails,
         HandleMailTakeItem(p, m, x)
  PROVE  Books'
  <1> DEFINE drafts == IF m.cod > 0 THEN <<Mail(m.from, p, m.cod, 0, 0)>> ELSE << >>
             c == [Database EXCEPT !.mails = Emptied(SettledRows(m), x, "units")]
             d == InsertMails(c, drafts)
             g == gold'[p]
             n == inv[p] + x.units
             s == SaveInventoryAndGold(d, p, g, n)
             cod == m.cod
             u == -x.units
             meant == gold'[p] = gold[p] - m.cod
             none == 0
  <1>1. /\ server = "up"
        /\ \E amount \in MinusInt32(cod) : ModifyMoney(p, amount)
        /\ Exact(meant)
        /\ dbs' = dbs \o <<s>>
        /\ inv' = [inv EXCEPT ![p] = @ + x.units]
        /\ UNCHANGED <<server, state, behind, auctions, nextAuction>>
    BY DEF HandleMailTakeItem, Commit, Online, SettledRows, Settles, Without
  <1>2. /\ DatabaseState(Database, nextAuction) /\ nextAuction \in Nat
        /\ nextMail \in Nat /\ altered \in BOOLEAN
        /\ inv \in [Players -> Nat] /\ inv[p] \in Nat /\ gold[p] \in Nat
    BY BooksFacts
  <1>3. auctions = Database.auctions
    BY <1>1, StoredAuctions
  <1>4. cod \in Nat /\ cod \in 0 .. UInt - 1 /\ x.units \in Nat
    BY LoadedRow
  <1>5. /\ g \in Nat /\ gold' = [gold EXCEPT ![p] = g]
        /\ StaysAltered /\ (altered' \/ (~altered /\ meant))
    <2>1. PICK amount \in MinusInt32(cod) : ModifyMoney(p, amount)
      BY <1>1
    <2>2. amount \in Int
      BY <1>4, AmountsAreIntegers
    <2>3. g \in Nat /\ gold' = [gold EXCEPT ![p] = g]
      BY <2>1, <2>2, ModifiedMoney
    <2>4. StaysAltered /\ (altered' \/ (~altered /\ meant))
      <3>1. meant \in BOOLEAN
        OBVIOUS
      <3> HIDE DEF meant
      <3> QED
        BY <1>1, <1>2, <3>1, ExactAlters
    <2> QED
      BY <2>3, <2>4
  <1>6. n \in Nat /\ n = inv[p] - u /\ u \in Int /\ inv' = [inv EXCEPT ![p] = n]
    BY <1>1, <1>2, <1>4
  <1>7. Drafts(drafts, cod, none)
    BY <1>4, CodContains
  <1>8. /\ c = [Database EXCEPT !.mails = Emptied(SettledRows(m), x, "units")]
        /\ d = InsertMails(c, drafts) /\ s = SaveInventoryAndGold(d, p, g, n)
    OBVIOUS
  <1> HIDE DEF drafts, c, d, s, n, none
  <1>9. /\ DatabaseState(c, nextAuction) /\ Stored(c.mails, nextMail)
        /\ Worth(c) = Worth(Database) /\ Stock(c) = Stock(Database) - x.units
        /\ c.gold = Database.gold /\ c.inv = Database.inv /\ c.owed = Database.owed
        /\ c.auctions = Database.auctions
        /\ Worth(Database) \in Int /\ Stock(Database) \in Int
    BY <1>8, ItemMoves
  <1>10. /\ DatabaseState(d, nextAuction)
         /\ Worth(d) = Worth(c) + cod /\ Stock(d) = Stock(c) + none
         /\ d.gold = c.gold /\ d.inv = c.inv /\ d.owed = c.owed
         /\ d.auctions = c.auctions
    <2> HIDE DEF cod
    <2>1. /\ nextMail \in Nat /\ nextAuction \in Nat
          /\ DatabaseState(c, nextAuction) /\ Stored(c.mails, nextMail)
          /\ Drafts(drafts, cod, none) /\ d = InsertMails(c, drafts)
      BY <1>2, <1>7, <1>8, <1>9
    <2> QED
      BY ONLY <2>1, InsertMailsMoves
  <1>11. /\ cod \in Int /\ Worth(d) = Worth(Database) + cod
         /\ u \in Int /\ Stock(d) = Stock(Database) + u /\ none \in Int /\ none = 0
    BY <1>4, <1>9, <1>10 DEF none
  <1>12. Burns(s, s, none)
    BY <1>2, <1>5, <1>6, <1>8, <1>10, SavedFields DEF none
  <1>13. altered' \/ (~altered /\ g = gold[p] - cod - none)
    <2>1. meant => g = gold[p] - cod - none
      BY <1>2, <1>4, <1>11
    <2> QED
      BY <1>5, <2>1
  <1>14. auctions' = d.auctions
    BY <1>1, <1>3, <1>9, <1>10
  <1> HIDE DEF u, g, cod
  <1>15. Handled(p, d, cod, u, g, n, s, none, s)
    BY <1>1, <1>2, <1>5, <1>6, <1>8, <1>9, <1>10, <1>11, <1>12, <1>13, <1>14 DEF Handled
  <1> QED
    BY <1>15, HandlerBooks

(***************************************************************************)
(* A step with one transaction that is not about a character.              *)
(***************************************************************************)
LEMMA BooksUnsaved ==
  ASSUME IInv, Books, NEW e, Balanced(e, nextAuction, altered),
         e.gold = Database.gold, e.inv = Database.inv, e.owed = Database.owed,
         dbs' = dbs \o <<e>>,
         Committed(e) => AuctionsStored',
         UNCHANGED <<state, behind, gold, inv, nextAuction, altered>>
  PROVE  Books'
  <1>1. /\ gold \in [Players -> Nat] /\ inv \in [Players -> Nat]
        /\ nextAuction \in Nat \ {0} /\ altered \in BOOLEAN
    BY BooksFacts
  <1>2. AwayKept(e)
    BY DEF AwayKept
  <1>3. Balanced(e, nextAuction', altered')
    BY DEF Balanced
  <1>4. Committed(e)
    BY <1>2, <1>3, CommittedOne
  <1>5. \A q \in Players : Uninvolved(q, e)
    BY DEF Uninvolved
  <1>6. nextAuction' \in Nat /\ nextAuction' >= nextAuction
    BY <1>1
  <1>7. StaysAltered
    BY <1>1 DEF StaysAltered
  <1>8. gold' \in [Players -> Nat] /\ inv' \in [Players -> Nat]
    BY <1>1
  <1> QED
    BY <1>4, <1>5, <1>6, <1>7, <1>8, BooksCommitted

\* HandleMailReturnToSender: another mail has what this one had.
LEMMA ReturnBooks ==
  ASSUME IInv, Books, NEW p \in Players, Online(p), box[p].loaded, NEW m \in box[p].mails,
         HandleMailReturnToSender(p, m)
  PROVE  Books'
  <1> DEFINE x == Mail(m.from, p, m.gold, m.units, 0)
             drafts == <<x>>
             old == Row(m)
             B == DeleteMail(Database.mails, m)
             C == DeleteMail(box[p].mails, m)
             c == [Database EXCEPT !.mails = B]
             e == InsertMails(c, drafts)
             g == m.gold % UInt
             u == m.units
  <1>1. /\ server = "up"
        /\ dbs' = dbs \o <<e>>
        /\ UNCHANGED <<server, state, behind, gold, inv, auctions, nextAuction, altered>>
    BY DEF HandleMailReturnToSender, Commit, Online
  <1>2. /\ Balanced(Database, nextAuction, altered) /\ nextAuction \in Nat /\ nextMail \in Nat
        /\ DatabaseState(Database, nextAuction)
        /\ Worth(Database) \in Int /\ Stock(Database) \in Int
    BY BooksFacts, Parts
  <1>3. auctions = Database.auctions
    BY <1>1, StoredAuctions
  <1>4. /\ m.gold \in Nat /\ u \in Nat /\ old.gold = g /\ old.units = u /\ old.gold \in Nat
        /\ old \in Database.mails /\ MailRows(Database.mails)
    BY LoadedRow
  <1>5. IsDraft(x) /\ x.gold = m.gold /\ x.units = u
    <2>1. 0 \in 0 .. UInt - 1
      BY AuctionAssumption
    <2> QED
      BY <1>4, <2>1, MailDrafted DEF Mail
  <1>6. B = Database.mails \ {old} /\ Stored(B, nextMail)
    <2>1. Mirrored(Database.mails, box[p].mails, nextMail, p)
      BY LoadedMail
    <2>2. Mirrored(B, C, nextMail, p) /\ B = Database.mails \ {old}
      BY <2>1, DeleteBoth
    <2> QED
      BY <2>2 DEF Mirrored
  <1>7. c = [Database EXCEPT !.mails = B] /\ e = InsertMails(c, drafts)
    OBVIOUS
  <1> HIDE DEF x, B, c, e, old
  <1>8. Drafts(drafts, g, u)
    <2>1. Drafts(<<x>>, x.gold % UInt, x.units)
      BY <1>4, <1>5, OneMail
    <2> QED
      BY <1>5, <2>1
  <1> HIDE DEF drafts, g, u
  <1>9. /\ MailRows(B)
        /\ MailTotal(B, "gold") = MailTotal(Database.mails, "gold") - g
        /\ MailTotal(B, "units") = MailTotal(Database.mails, "units") - u
        /\ MailTotal(Database.mails, "gold") \in Nat
        /\ MailTotal(Database.mails, "units") \in Nat
    <2>1. /\ MailRows(Database.mails \ {old})
          /\ \A f \in Amounts :
               /\ MailTotal(Database.mails \ {old}, f) = MailTotal(Database.mails, f) - old[f]
               /\ MailTotal(Database.mails, f) \in Nat /\ old[f] \in Nat
      BY <1>4, MailDeleted
    <2> QED
      BY <1>4, <1>6, <2>1 DEF Amounts
  <1>10. /\ DatabaseState(c, nextAuction)
         /\ Worth(c) = Worth(Database) + MailTotal(B, "gold") - MailTotal(Database.mails, "gold")
         /\ Stock(c) = Stock(Database) + MailTotal(B, "units")
                         - MailTotal(Database.mails, "units")
         /\ c.gold = Database.gold /\ c.inv = Database.inv /\ c.owed = Database.owed
         /\ c.auctions = Database.auctions /\ c.mails = B
    <2>1. /\ nextAuction \in Nat /\ DatabaseState(Database, nextAuction) /\ MailRows(B)
          /\ c = [Database EXCEPT !.mails = B]
      BY <1>2, <1>7, <1>9
    <2> QED
      BY ONLY <2>1, MailsReplaced
  <1>11. /\ DatabaseState(e, nextAuction)
         /\ Worth(e) = Worth(c) + g /\ Stock(e) = Stock(c) + u
         /\ g \in Nat /\ u \in Nat
         /\ e.gold = c.gold /\ e.inv = c.inv /\ e.owed = c.owed
         /\ e.auctions = c.auctions
    <2>1. /\ nextMail \in Nat /\ nextAuction \in Nat /\ DatabaseState(c, nextAuction)
          /\ Stored(c.mails, nextMail) /\ Drafts(drafts, g, u) /\ e = InsertMails(c, drafts)
      BY <1>2, <1>6, <1>7, <1>8, <1>10
    <2> QED
      BY ONLY <2>1, InsertMailsMoves
  <1>12. Balanced(e, nextAuction, altered)
    <2>1. Worth(e) = Worth(Database) /\ Stock(e) = Stock(Database)
      BY <1>2, <1>9, <1>10, <1>11
    <2> QED
      BY <1>2, <1>11, <2>1 DEF Balanced
  <1>13. Committed(e) => AuctionsStored'
    BY <1>1, <1>3, <1>10, <1>11 DEF Committed, AuctionsStored
  <1>14. e.gold = Database.gold /\ e.inv = Database.inv /\ e.owed = Database.owed
    BY <1>10, <1>11
  <1> QED
    BY <1>1, <1>12, <1>13, <1>14, BooksUnsaved

\* The settlement of a stored auction.
LEMMA SettledBalanced ==
  ASSUME IInv, Books, NEW id \in DOMAIN Database.auctions, NEW a, a = Database.auctions[id],
         NEW hasItem, NEW e, e = Settled(Database, id, a, hasItem, Settlement(a, hasItem))
  PROVE  /\ Balanced(e, nextAuction, altered)
         /\ e.gold = Database.gold /\ e.inv = Database.inv /\ e.owed = Database.owed
         /\ e.auctions = WithoutRow(Database.auctions, id)
  <1> DEFINE drafts == Settlement(a, hasItem)
             g == Proceeds(a)
             u == Item(a, hasItem)
  <1>1. /\ Balanced(Database, nextAuction, altered) /\ nextAuction \in Nat /\ nextMail \in Nat
        /\ DatabaseState(Database, nextAuction) /\ Stored(Database.mails, nextMail)
    BY BooksFacts
  <1>2. IsAuction(a)
    BY <1>1 DEF DatabaseState, AuctionRows
  <1>3. /\ a.bid \in Nat /\ a.deposit \in Nat /\ a.units \in Nat
        /\ (a.bidder = Nobody => a.bid = 0)
        /\ Profit(a) \in Nat
    BY <1>2, AuctionNumbers
  <1>4. g - a.bid - a.deposit + Kept(a) = 0 /\ g \in Nat /\ Kept(a) \in Int
    BY <1>3 DEF Proceeds, Kept
  <1>5. u + Missing(a, hasItem) = a.units /\ u \in Nat /\ Missing(a, hasItem) \in Nat
    BY <1>3 DEF Item, Missing
  <1>6. Drafts(drafts, g, u)
    BY <1>2, SettlementContains
  <1>7. e = Settled(Database, id, a, hasItem, drafts)
    OBVIOUS
  <1> HIDE DEF drafts, g, u
  <1>8. /\ DatabaseState(e, nextAuction)
        /\ Worth(e) = Worth(Database) + g - Database.auctions[id].bid
                        - Database.auctions[id].deposit + Kept(a)
        /\ Stock(e) = Stock(Database) + u - Database.auctions[id].units + Missing(a, hasItem)
        /\ e.gold = Database.gold /\ e.inv = Database.inv /\ e.owed = Database.owed
        /\ e.auctions = WithoutRow(Database.auctions, id)
    <2>1. /\ nextMail \in Nat /\ nextAuction \in Nat /\ DatabaseState(Database, nextAuction)
          /\ Stored(Database.mails, nextMail) /\ id \in DOMAIN Database.auctions
          /\ IsAuction(a) /\ Drafts(drafts, g, u)
          /\ e = Settled(Database, id, a, hasItem, drafts)
      BY <1>1, <1>2, <1>6, <1>7
    <2> QED
      BY ONLY <2>1, SettledMoves
  <1>9. Worth(Database) \in Int /\ Stock(Database) \in Int
    BY <1>1, Parts
  <1>10. Worth(e) = Worth(Database) /\ Stock(e) = Stock(Database)
    BY <1>3, <1>4, <1>5, <1>8, <1>9
  <1> QED
    BY <1>1, <1>8, <1>10 DEF Balanced

\* AuctionHouseObject::Update.
LEMMA UpdateBooks ==
  ASSUME IInv, Books, NEW id \in DOMAIN auctions, Update(id)
  PROVE  Books'
  <1> DEFINE a == auctions[id]
             hasItem == id \in aitems
             e == Settled(Database, id, a, hasItem, Settlement(a, hasItem))
  <1>1. /\ server = "up"
        /\ dbs' = dbs \o <<e>>
        /\ auctions' = WithoutRow(auctions, id)
        /\ UNCHANGED <<server, state, behind, gold, inv, nextAuction, altered>>
    BY DEF Update, Commit, RemoveAuction, WithoutRow
  <1>2. auctions = Database.auctions
    BY <1>1, StoredAuctions
  <1>3. /\ id \in DOMAIN Database.auctions /\ a = Database.auctions[id]
        /\ e = Settled(Database, id, a, hasItem, Settlement(a, hasItem))
    BY <1>2
  <1> HIDE DEF a, hasItem, e
  <1>4. /\ Balanced(e, nextAuction, altered)
        /\ e.gold = Database.gold /\ e.inv = Database.inv /\ e.owed = Database.owed
        /\ e.auctions = WithoutRow(Database.auctions, id)
    BY <1>3, SettledBalanced
  <1>5. Committed(e) => AuctionsStored'
    BY <1>1, <1>2, <1>4 DEF Committed, AuctionsStored
  <1> QED
    BY <1>1, <1>4, <1>5, BooksUnsaved

\* DeleteExpiredAuctionsAtStartup: one row less than in any earlier state.
LEMMA StartupBooks ==
  ASSUME IInv, Books, NEW id, DeleteExpiredAuctionsAtStartup(id)
  PROVE  Books'
  <1> DEFINE a == Database.auctions[id]
             hasItem == id \in aitems
             e == Settled(Database, id, a, hasItem, Settlement(a, hasItem))
  <1>1. /\ server = "expiring" /\ id \in DOMAIN Database.auctions
        /\ dbs' = dbs \o <<e>>
        /\ UNCHANGED <<server, state, behind, gold, inv, nextAuction, auctions, altered>>
    BY DEF DeleteExpiredAuctionsAtStartup, Commit, Overdue
  <1>2. /\ a = Database.auctions[id]
        /\ e = Settled(Database, id, a, hasItem, Settlement(a, hasItem))
    OBVIOUS
  <1> HIDE DEF a, hasItem, e
  <1>3. /\ Balanced(e, nextAuction, altered)
        /\ e.gold = Database.gold /\ e.inv = Database.inv /\ e.owed = Database.owed
        /\ e.auctions = WithoutRow(Database.auctions, id)
    <2>1. id \in DOMAIN Database.auctions
      BY <1>1
    <2> QED
      BY <1>2, <2>1, SettledBalanced, Z3
  <1>4. dbs' = With(dbs, e) /\ IsSeq(dbs) /\ dbs # <<>>
    BY <1>1, DatabaseKept DEF With, IInv
  <1>5. /\ \A i \in DOMAIN dbs : i \in DOMAIN dbs' /\ dbs'[i] = dbs[i]
        /\ \A i \in DOMAIN dbs' : i \in DOMAIN dbs \/ dbs'[i] = e
    BY <1>4, CommitOne
  <1>6. Committed(e) => AuctionsStored'
    <2> SUFFICES ASSUME Committed(e), NEW i \in DOMAIN dbs'
                 PROVE  /\ DOMAIN e.auctions \subseteq DOMAIN dbs'[i].auctions
                        /\ \A x \in DOMAIN e.auctions :
                              dbs'[i].auctions[x] = e.auctions[x]
      BY <1>1 DEF AuctionsStored, Committed
    <2>1. /\ DOMAIN e.auctions \subseteq DOMAIN Database.auctions
          /\ \A x \in DOMAIN e.auctions : Database.auctions[x] = e.auctions[x]
      BY <1>3 DEF WithoutRow
    <2>2. CASE i \in DOMAIN dbs
      <3>1. /\ DOMAIN Database.auctions \subseteq DOMAIN dbs[i].auctions
            /\ \A x \in DOMAIN Database.auctions :
                  dbs[i].auctions[x] = Database.auctions[x]
        BY <1>1, <2>2 DEF Books, AuctionsStored
      <3> QED
        BY <1>5, <2>1, <2>2, <3>1
    <2>3. CASE dbs'[i] = e
      BY <2>3
    <2> QED
      BY <1>5, <2>2, <2>3
  <1> QED
    BY <1>1, <1>3, <1>6, BooksUnsaved
-----------------------------------------------------------------------------
(* Saving, logging out and in, the worker and a crash.                     *)

\* The character is saved; what is left in memory counts no more.
LEMMA LogoutBooks ==
  ASSUME IInv, Books, NEW p \in Players, LogoutPlayer(p)
  PROVE  Books'
  <1> DEFINE g == gold[p]
             n == inv[p]
             e == SaveInventoryAndGold(Database, p, g, n)
  <1>1. /\ state[p] = "online" /\ server = "up"
        /\ dbs' = dbs \o <<e>>
        /\ state' = [state EXCEPT ![p] = "offline"]
        /\ gold' = [gold EXCEPT ![p] = 0] /\ inv' = [inv EXCEPT ![p] = 0]
        /\ UNCHANGED <<server, behind, auctions, nextAuction, altered>>
    BY DEF LogoutPlayer, Commit, Online
  <1>2. /\ Balanced(Database, nextAuction, altered) /\ nextAuction \in Nat \ {0}
        /\ DatabaseState(Database, nextAuction) /\ altered \in BOOLEAN
        /\ gold \in [Players -> Nat] /\ inv \in [Players -> Nat]
        /\ g \in Nat /\ n \in Nat
        /\ Worth(Database) \in Int /\ Stock(Database) \in Int
    BY BooksFacts, Parts
  <1>3. e = SaveInventoryAndGold(Database, p, g, n)
    OBVIOUS
  <1> HIDE DEF e
  <1>4. /\ DatabaseState(e, nextAuction) /\ SavedAs(e, p, g, n)
        /\ altered \/ Worth(e) = Worth(Database) + g - gold[p]
        /\ Stock(e) = Stock(Database) + n - inv[p]
        /\ e.auctions = Database.auctions
    <2> HIDE DEF g, n
    <2> DEFINE d == Database
    <2>1. /\ IInv /\ Books /\ p \in Players /\ state[p] = "online"
          /\ nextAuction \in Nat /\ DatabaseState(d, nextAuction)
          /\ d.gold = Database.gold /\ d.inv = Database.inv /\ d.owed = Database.owed
          /\ g \in Nat /\ n \in Nat /\ e = SaveInventoryAndGold(d, p, g, n)
      BY <1>1, <1>2, <1>3
    <2> HIDE DEF d
    <2>2. /\ DatabaseState(e, nextAuction) /\ SavedAs(e, p, g, n)
          /\ altered \/ Worth(e) = Worth(d) + g - gold[p]
          /\ Stock(e) = Stock(d) + n - inv[p]
          /\ e.auctions = d.auctions
      BY ONLY <2>1, CharacterSaved
    <2> QED
      BY <2>2 DEF d
  <1>5. Balanced(e, nextAuction', altered')
    <2>1. (altered \/ Worth(e) = Worth(Database)) /\ Stock(e) = Stock(Database)
      BY <1>2, <1>4
    <2> QED
      BY <1>1, <1>2, <1>4, <2>1 DEF Balanced
  <1>6. /\ Database.gold \in [Players -> Nat] /\ Database.inv \in [Players -> Nat]
        /\ Database.owed \in [Players -> Nat]
    BY <1>2 DEF DatabaseState
  <1>7. /\ e.owed[p] = 0
        /\ \A q \in Players : q # p => /\ e.gold[q] = Database.gold[q]
                                       /\ e.inv[q] = Database.inv[q]
                                       /\ e.owed[q] = Database.owed[q]
    BY <1>4, <1>6 DEF SavedAs
  <1>8. AwayKept(e)
    BY <1>1, <1>7 DEF AwayKept
  <1>9. Committed(e)
    BY <1>1, <1>5, <1>8, CommittedOne
  <1>10. state \in [Players -> {"online", "offline", "loading"}]
    BY DEF IInv, Shape
  <1>11. ASSUME NEW q \in Players PROVE Uninvolved(q, e) \/ Saved(q, e)
    <2>1. CASE q = p
      BY <1>1, <1>7, <1>10, <2>1 DEF Saved
    <2>2. CASE q # p
      <3>1. state'[q] = state[q] /\ gold'[q] = gold[q] /\ inv'[q] = inv[q]
        BY <1>1, <1>2, <1>10, <2>2
      <3> QED
        BY <1>7, <2>2, <3>1 DEF Uninvolved
    <2> QED
      BY <2>1, <2>2
  <1>12. AuctionsStored'
    <2>1. auctions' = Database'.auctions /\ server' = "up"
      BY <1>1, <1>4, <1>9, StoredAuctions DEF Committed
    <2> QED
      BY <2>1 DEF AuctionsStored
  <1>13. gold' \in [Players -> Nat] /\ inv' \in [Players -> Nat]
    BY <1>1, <1>2
  <1>14. nextAuction' \in Nat /\ nextAuction' >= nextAuction
    BY <1>1, <1>2
  <1>15. StaysAltered
    BY <1>1, <1>2 DEF StaysAltered
  <1> QED
    BY <1>1, <1>9, <1>11, <1>12, <1>13, <1>14, <1>15, BooksCommitted

\* A step that leaves the database alone.
LEMMA BooksQuiet ==
  ASSUME IInv, Books, UNCHANGED <<dbs, nextAuction>>, StaysAltered,
         gold' \in [Players -> Nat], inv' \in [Players -> Nat],
         \A q \in Players : CharacterStored(q)', AuctionsStored'
  PROVE  Books'
  <1>1. ASSUME NEW i \in DOMAIN dbs' PROVE Balanced(dbs'[i], nextAuction', altered')
    <2>1. Balanced(dbs[i], nextAuction, altered) /\ nextAuction \in Nat
      BY DEF Books
    <2>2. Balanced(dbs[i], nextAuction, altered')
      BY <2>1, BalancedLater DEF StaysAltered
    <2> QED
      BY <2>2
  <1>2. altered' \in BOOLEAN
    BY DEF StaysAltered
  <1> QED
    BY <1>1, <1>2 DEF Books

\* A history that the step leaves alone.
LEMMA NothingAltered ==
  ASSUME Books, UNCHANGED altered
  PROVE  StaysAltered
  BY DEF Books, StaysAltered

\* A step that leaves memory and database alone.
LEMMA BooksSame ==
  ASSUME IInv, Books,
         UNCHANGED <<server, state, behind, gold, inv, auctions, dbs, nextAuction,
                     altered>>
  PROVE  Books'
  <1>1. Database' = Database
    BY DEF Database
  <1>2. \A q \in Players : CharacterStored(q)'
    BY <1>1 DEF Books, CharacterStored
  <1>3. AuctionsStored'
    BY <1>1 DEF Books, AuctionsStored
  <1> QED
    BY <1>2, <1>3, NothingAltered, BooksQuiet DEF Books

\* The login query waits for everything that is queued.
LEMMA LoginOpcodeBooks ==
  ASSUME IInv, Books, NEW p \in Players, HandlePlayerLoginOpcode(p)
  PROVE  Books'
  <1>1. /\ state[p] = "offline"
        /\ state' = [state EXCEPT ![p] = "loading"]
        /\ behind' = [behind EXCEPT ![p] = Len(dbs) - 1]
        /\ UNCHANGED <<server, gold, inv, auctions, dbs, nextAuction, altered>>
    BY DEF HandlePlayerLoginOpcode, QueriesAhead
  <1>2. Database' = Database
    BY <1>1 DEF Database
  <1>3. /\ state \in [Players -> {"online", "offline", "loading"}]
        /\ behind \in [Players -> Nat]
    BY DEF IInv, Shape
  <1>4. /\ Len(dbs) \in Nat /\ DOMAIN dbs = 1 .. Len(dbs) /\ Database = dbs[Len(dbs)]
    BY BooksFacts
  <1>5. ASSUME NEW q \in Players PROVE CharacterStored(q)'
    <2>1. CharacterStored(q)
      BY DEF Books
    <2>2. CASE q # p
      <3>1. state'[q] = state[q] /\ behind'[q] = behind[q]
        BY <1>1, <1>3, <2>2
      <3> QED
        BY <1>1, <1>2, <2>1, <3>1 DEF CharacterStored
    <2>3. CASE q = p
      <3>1. state'[p] = "loading" /\ behind'[p] = Len(dbs) - 1 /\ Database.owed[p] = 0
        BY <1>1, <1>3, <2>1, <2>3 DEF CharacterStored
      <3>2. \A i \in DOMAIN dbs : i > Len(dbs) - 1 => dbs[i] = Database
        BY <1>4
      <3> QED
        BY <1>1, <1>2, <1>4, <2>3, <3>1, <3>2 DEF CharacterStored
    <2> QED
      BY <2>2, <2>3
  <1>6. AuctionsStored'
    BY <1>1, <1>2 DEF Books, AuctionsStored
  <1> QED
    BY <1>1, <1>5, <1>6, NothingAltered, BooksQuiet DEF Books

\* The query finds what the character had when it was saved.
LEMMA LoginBooks ==
  ASSUME IInv, Books, NEW p \in Players, HandlePlayerLogin(p)
  PROVE  Books'
  <1> DEFINE meant == LoadedMoney(p) = dbs[1].gold[p]
  <1>1. /\ state[p] = "loading" /\ behind[p] = 0
        /\ state' = [state EXCEPT ![p] = "online"]
        /\ gold' = [gold EXCEPT ![p] = LoadedMoney(p)]
        /\ Exact(meant)
        /\ inv' = [inv EXCEPT ![p] = dbs[1].inv[p]]
        /\ UNCHANGED <<server, behind, auctions, dbs, nextAuction>>
    BY DEF HandlePlayerLogin
  <1>2. Database' = Database
    BY <1>1 DEF Database
  <1>3. state \in [Players -> {"online", "offline", "loading"}]
    BY DEF IInv, Shape
  <1>4. /\ 1 \in DOMAIN dbs /\ gold \in [Players -> Nat] /\ inv \in [Players -> Nat]
        /\ DatabaseState(dbs[1], nextAuction) /\ altered \in BOOLEAN
    BY BooksFacts DEF Balanced
  <1>5. dbs[1].gold[p] \in Nat /\ dbs[1].inv[p] \in Nat /\ LoadedMoney(p) \in Nat
    <2>1. dbs[1].gold[p] \in Nat /\ dbs[1].inv[p] \in Nat
      BY <1>4 DEF DatabaseState
    <2>2. MAX_MONEY_AMOUNT \in Nat
      BY AuctionAssumption
    <2>3. LoadedMoney(p) = IF dbs[1].gold[p] < MAX_MONEY_AMOUNT THEN dbs[1].gold[p]
                           ELSE MAX_MONEY_AMOUNT
      BY <2>1, <2>2 DEF LoadedMoney, Min
    <2> QED
      BY <2>1, <2>2, <2>3
  <1>6. /\ dbs[1].gold[p] = Database.gold[p] /\ dbs[1].inv[p] = Database.inv[p]
        /\ Database.owed[p] = 0
    <2>1. CharacterStored(p)
      BY DEF Books
    <2>2. 1 \in DOMAIN dbs /\ 1 > behind[p]
      BY <1>1, <1>4
    <2>3. \A i \in DOMAIN dbs : i > behind[p] =>
             /\ dbs[i].gold[p] = Database.gold[p] /\ dbs[i].inv[p] = Database.inv[p]
      BY <1>1, <2>1 DEF CharacterStored
    <2>4. Database.owed[p] = 0
      BY <1>1, <2>1 DEF CharacterStored
    <2> QED
      BY <2>2, <2>3, <2>4
  <1>7. gold' \in [Players -> Nat] /\ inv' \in [Players -> Nat]
    BY <1>1, <1>4, <1>5
  <1>8. StaysAltered /\ (altered' \/ (~altered /\ meant))
    <2>1. meant \in BOOLEAN
      OBVIOUS
    <2> HIDE DEF meant
    <2> QED
      BY <1>1, <1>4, <2>1, ExactAlters
  <1>9. ASSUME NEW q \in Players PROVE CharacterStored(q)'
    <2>1. CharacterStored(q)
      BY DEF Books
    <2>2. CASE q # p
      <3>1. state'[q] = state[q] /\ gold'[q] = gold[q] /\ inv'[q] = inv[q]
        BY <1>1, <1>3, <1>4, <2>2
      <3> QED
        BY <1>1, <1>2, <1>8, <2>1, <3>1 DEF CharacterStored, StaysAltered
    <2>3. CASE q = p
      <3>1. state'[p] = "online" /\ inv'[p] = Database.inv[p] /\ gold'[p] = LoadedMoney(p)
        BY <1>1, <1>3, <1>4, <1>6
      <3>2. altered' \/ Database'.gold[p] = gold'[p] + Database'.owed[p]
        <4>1. meant => gold'[p] = Database.gold[p]
          BY <1>6, <3>1
        <4> HIDE DEF meant
        <4> QED
          BY <1>2, <1>5, <1>6, <1>8, <4>1
      <3> QED
        BY <1>2, <1>5, <1>6, <2>3, <3>1, <3>2 DEF CharacterStored
    <2> QED
      BY <2>2, <2>3
  <1>10. AuctionsStored'
    BY <1>1, <1>2 DEF Books, AuctionsStored
  <1> QED
    BY <1>1, <1>7, <1>9, <1>10, <1>8, BooksQuiet

\* The states of the database move up by one place.
LEMMA ExecuteBooks ==
  ASSUME IInv, Books, Execute
  PROVE  Books'
  <1>1. IsSeq(dbs) /\ dbs # <<>> /\ Len(dbs) \in Nat
    BY DatabaseKept DEF IInv
  <1>2. /\ Len(dbs) > 1 /\ dbs' = Tail(dbs)
        /\ UNCHANGED <<server, state, gold, inv, auctions, nextAuction, altered>>
        /\ behind' = [p \in Players |-> Max({behind[p] - 1, 0})]
    BY DEF Execute
  <1>3. /\ Len(dbs') = Len(dbs) - 1
        /\ \A i \in DOMAIN dbs' : i + 1 \in DOMAIN dbs /\ dbs'[i] = dbs[i + 1] /\ i \in Nat
        /\ Last(dbs') = Last(dbs)
    BY <1>1, <1>2, TailOfStates
  <1>4. Database' = Database
    BY <1>3 DEF Database
  <1>5. ASSUME NEW q \in Players
        PROVE  /\ behind[q] \in Nat /\ behind'[q] \in Nat
               /\ behind'[q] = behind[q] - 1 \/ (behind[q] = 0 /\ behind'[q] = 0)
    <2>1. behind[q] \in Nat
      BY DEF IInv, Shape
    <2>2. Max({behind[q] - 1, 0}) = IF behind[q] > 0 THEN behind[q] - 1 ELSE 0
      BY <2>1 DEF Max
    <2>3. behind'[q] = Max({behind[q] - 1, 0})
      BY <1>2
    <2> QED
      BY <2>1, <2>2, <2>3
  <1>6. ASSUME NEW q \in Players PROVE CharacterStored(q)'
    <2>1. CharacterStored(q)
      BY DEF Books
    <2>2. ASSUME state[q] = "loading"
          PROVE  /\ behind'[q] < Len(dbs')
                 /\ \A i \in DOMAIN dbs' : i > behind'[q] =>
                       /\ dbs'[i].gold[q] = Database.gold[q]
                       /\ dbs'[i].inv[q] = Database.inv[q]
      <3>1. behind[q] < Len(dbs)
        BY <2>1, <2>2 DEF CharacterStored
      <3>2. behind'[q] < Len(dbs')
        BY <1>1, <1>2, <1>3, <1>5, <3>1
      <3>3. ASSUME NEW i \in DOMAIN dbs', i > behind'[q]
            PROVE  /\ dbs'[i].gold[q] = Database.gold[q]
                   /\ dbs'[i].inv[q] = Database.inv[q]
        <4>1. i + 1 \in DOMAIN dbs /\ dbs'[i] = dbs[i + 1] /\ i + 1 > behind[q]
          BY <1>3, <1>5, <3>3
        <4> QED
          BY <2>1, <2>2, <4>1 DEF CharacterStored
      <3> QED
        BY <3>2, <3>3
    <2> QED
      BY <1>2, <1>4, <2>1, <2>2 DEF CharacterStored
  <1>7. AuctionsStored'
    <2>1. AuctionsStored
      BY DEF Books
    <2> QED
      BY <1>2, <1>3, <1>4, <2>1 DEF AuctionsStored
  <1>8. \A i \in DOMAIN dbs' : Balanced(dbs'[i], nextAuction', altered')
    BY <1>2, <1>3 DEF Books
  <1>9. /\ gold' \in [Players -> Nat] /\ inv' \in [Players -> Nat]
        /\ nextAuction' \in Nat \ {0} /\ altered' \in BOOLEAN
    BY <1>2 DEF Books
  <1> QED
    BY <1>6, <1>7, <1>8, <1>9 DEF Books

\* A crash gives back the deposits that were owed; units on their way are lost.
LEMMA CrashBooks ==
  ASSUME IInv, Books, Crash
  PROVE  Books'
  <1> DEFINE c == dbs[1]
             zero == [p \in Players |-> 0]
             d == [c EXCEPT !.regained = @ + Sum(c.owed), !.owed = zero,
                            !.lost = @ + c.transit, !.transit = 0]
  <1>1. /\ 1 \in DOMAIN dbs /\ Balanced(c, nextAuction, altered)
        /\ DatabaseState(c, nextAuction)
        /\ nextAuction \in Nat \ {0} /\ altered \in BOOLEAN
    BY BooksFacts DEF Balanced
  <1>2. /\ dbs' = <<d>> /\ server' = "expiring"
        /\ state' = [p \in Players |-> "offline"]
        /\ gold' = zero /\ inv' = zero
        /\ nextAuction' = nextAuction /\ altered' = altered
    BY DEF Crash
  <1>3. /\ DOMAIN d = DOMAIN c /\ d.gold = c.gold /\ d.inv = c.inv
        /\ d.auctions = c.auctions /\ d.mails = c.mails /\ d.burnt = c.burnt
        /\ d.regained = c.regained + Sum(c.owed) /\ d.owed = zero
        /\ d.lost = c.lost + c.transit /\ d.transit = 0 /\ d.unsent = c.unsent
    BY <1>1 DEF DatabaseState
  <1>4. zero \in [Players -> Nat] /\ Sum(zero) = 0 /\ \A p \in Players : zero[p] = 0
    <2>1. /\ zero \in [Players -> Nat] /\ \A p \in DOMAIN zero : zero[p] = 0
          /\ DOMAIN zero = Players
      OBVIOUS
    <2> HIDE DEF zero
    <2>2. Sum(zero) = 0
      BY <2>1, SumOfZeros
    <2> QED
      BY <2>1, <2>2
  <1> HIDE DEF d, zero
  <1>5. /\ Sum(c.gold) \in Nat /\ Sum(c.inv) \in Nat /\ Sum(c.owed) \in Nat
        /\ AuctionGold(c.auctions) \in Nat /\ AuctionUnits(c.auctions) \in Nat
        /\ MailTotal(c.mails, "gold") \in Nat /\ MailTotal(c.mails, "units") \in Nat
        /\ Worth(c) = Sum(c.gold) + AuctionGold(c.auctions) + MailTotal(c.mails, "gold")
                        + c.burnt - c.regained - Sum(c.owed)
        /\ Stock(c) = Sum(c.inv) + AuctionUnits(c.auctions) + MailTotal(c.mails, "units")
                        + c.transit + c.lost + c.unsent
    BY <1>1, Parts
  <1>6. c.transit \in Int /\ c.lost \in Int /\ c.burnt \in Int /\ c.regained \in Int
        /\ c.unsent \in Int
    BY <1>1 DEF DatabaseState
  <1>7. DatabaseState(d, nextAuction)
    BY <1>1, <1>3, <1>4, <1>5, <1>6 DEF DatabaseState
  <1>8. /\ Worth(d) = Sum(d.gold) + AuctionGold(d.auctions) + MailTotal(d.mails, "gold")
                        + d.burnt - d.regained - Sum(d.owed)
        /\ Stock(d) = Sum(d.inv) + AuctionUnits(d.auctions) + MailTotal(d.mails, "units")
                        + d.transit + d.lost + d.unsent
    BY <1>1, <1>7, Parts
  <1>9. Worth(d) = Worth(c)
    BY <1>3, <1>4, <1>5, <1>6, <1>8
  <1>10. Stock(d) = Stock(c)
    BY <1>3, <1>5, <1>6, <1>8
  <1>11. Balanced(d, nextAuction, altered)
    BY <1>1, <1>7, <1>9, <1>10 DEF Balanced
  <1>12. \A i \in DOMAIN dbs' : dbs'[i] = d
    <2>1. \A i \in DOMAIN <<d>> : <<d>>[i] = d
      OBVIOUS
    <2> QED
      BY <1>2, <2>1
  <1>13. Database' = d
    <2>1. Last(<<d>>) = d
      BY DEF Last
    <2> QED
      BY <1>2, <2>1 DEF Database
  <1>14. \A q \in Players : CharacterStored(q)'
    BY <1>2, <1>3, <1>4, <1>13 DEF CharacterStored
  <1>15. AuctionsStored'
    BY <1>2, <1>12, <1>13 DEF AuctionsStored
  <1> QED
    <2>1. \A i \in DOMAIN dbs' : Balanced(dbs'[i], nextAuction', altered')
      BY <1>2, <1>11, <1>12
    <2> QED
      BY <1>1, <1>2, <1>4, <1>14, <1>15, <2>1 DEF Books

\* The auctions that are loaded, when no settled one is among them.
LEMMA LoadAuctionsBooks ==
  ASSUME IInv, Books, LoadAuctions, ghosts' = {}
  PROVE  Books'
  <1>1. /\ server = "loading" /\ server' = "up"
        /\ auctions' = dbs[1].auctions
        /\ DOMAIN dbs[1].auctions \subseteq DOMAIN Database.auctions
        /\ UNCHANGED <<state, behind, gold, inv, dbs, nextAuction, altered>>
    BY DEF LoadAuctions
  <1>2. 1 \in DOMAIN dbs /\ Len(dbs) \in DOMAIN dbs /\ Database = dbs[Len(dbs)]
    BY BooksFacts
  <1>3. /\ DOMAIN Database.auctions \subseteq DOMAIN dbs[1].auctions
        /\ \A id \in DOMAIN Database.auctions :
              dbs[1].auctions[id] = Database.auctions[id]
    BY <1>1, <1>2 DEF Books, AuctionsStored
  <1>4. IsFcn(dbs[1].auctions) /\ IsFcn(Database.auctions)
    BY <1>2 DEF Books, Balanced, DatabaseState, AuctionRows
  <1>5. dbs[1].auctions = Database.auctions
    <2> DEFINE f == dbs[1].auctions
               g == Database.auctions
    <2>1. /\ f = [x \in DOMAIN f |-> f[x]] /\ g = [x \in DOMAIN g |-> g[x]]
          /\ DOMAIN f = DOMAIN g /\ \A x \in DOMAIN f : f[x] = g[x]
      BY <1>1, <1>3, <1>4 DEF IsFcn
    <2> HIDE DEF f, g
    <2>2. f = g
      BY <2>1
    <2> QED
      BY <2>2 DEF f, g
  <1>6. Database' = Database
    BY <1>1 DEF Database
  <1>7. AuctionsStored'
    BY <1>1, <1>5, <1>6 DEF AuctionsStored
  <1>8. \A q \in Players : CharacterStored(q)'
    BY <1>1, <1>6 DEF Books, CharacterStored
  <1> QED
    BY <1>1, <1>7, <1>8, NothingAltered, BooksQuiet DEF Books

\* Until then only the items are loaded.
LEMMA LoadAuctionItemsBooks ==
  ASSUME IInv, Books, LoadAuctionItems
  PROVE  Books'
  <1>1. /\ server = "expiring" /\ server' = "loading"
        /\ UNCHANGED <<state, behind, gold, inv, auctions, dbs, nextAuction, altered>>
    BY DEF LoadAuctionItems
  <1>2. Database' = Database
    BY <1>1 DEF Database
  <1>3. \A q \in Players : CharacterStored(q)'
    BY <1>1, <1>2 DEF Books, CharacterStored
  <1>4. AuctionsStored'
    BY <1>1, <1>2 DEF Books, AuctionsStored
  <1> QED
    BY <1>1, <1>3, <1>4, NothingAltered, BooksQuiet DEF Books
-----------------------------------------------------------------------------
(* Selling.                                                                *)

(***************************************************************************)
(* Units that have left a stack are on their way.                          *)
(***************************************************************************)
LEMMA SplitMoves ==
  ASSUME NEW d, NEW k \in Nat, DatabaseState(d, k), NEW p \in Players, NEW n \in Nat,
         d.inv[p] - n \in Nat, NEW e, e = Split(d, p, n)
  PROVE  /\ DatabaseState(e, k) /\ Worth(e) = Worth(d) /\ Stock(e) = Stock(d)
         /\ e.gold = d.gold /\ e.owed = d.owed /\ e.auctions = d.auctions
         /\ e.inv = [d.inv EXCEPT ![p] = @ - n]
  <1>1. /\ DOMAIN e = DOMAIN d /\ e.gold = d.gold /\ e.owed = d.owed
        /\ e.auctions = d.auctions /\ e.mails = d.mails /\ e.regained = d.regained
        /\ e.burnt = d.burnt /\ e.lost = d.lost /\ e.unsent = d.unsent
        /\ e.inv = [d.inv EXCEPT ![p] = @ - n] /\ e.transit = d.transit + n
    BY DEF Split, DatabaseState
  <1>2. /\ d.inv \in [Players -> Nat] /\ d.inv[p] \in Nat
        /\ d.transit \in Int /\ d.lost \in Int /\ d.unsent \in Int
    BY DEF DatabaseState
  <1>3. DatabaseState(e, k)
    BY <1>1, <1>2 DEF DatabaseState
  <1>4. Sum(e.inv) = Sum(d.inv) - n /\ Sum(d.inv) \in Nat
    <2>1. /\ DOMAIN e.inv = DOMAIN d.inv /\ p \in DOMAIN d.inv
          /\ e.inv[p] = d.inv[p] - n /\ e.inv[p] \in Nat
          /\ \A y \in DOMAIN d.inv : y # p => e.inv[y] = d.inv[y]
      BY <1>1, <1>2
    <2>2. Summable(d.inv) /\ Sum(d.inv) \in Nat
      BY Parts
    <2>3. Sum(e.inv) = Sum(d.inv) - d.inv[p] + e.inv[p]
      BY <2>1, <2>2, SumChanged
    <2> QED
      BY <1>2, <2>1, <2>2, <2>3
  <1>5. /\ AuctionUnits(d.auctions) \in Nat /\ MailTotal(d.mails, "units") \in Nat
        /\ Stock(d) = Sum(d.inv) + AuctionUnits(d.auctions) + MailTotal(d.mails, "units")
                        + d.transit + d.lost + d.unsent
    BY Parts
  <1>6. Stock(e) = Sum(e.inv) + AuctionUnits(e.auctions) + MailTotal(e.mails, "units")
                     + e.transit + e.lost + e.unsent
    BY <1>3, Parts
  <1>7. Stock(e) = Stock(d)
    BY <1>1, <1>2, <1>4, <1>5, <1>6
  <1>8. Worth(e) = Worth(d)
    BY <1>1, <1>3, Parts
  <1> QED
    BY <1>1, <1>3, <1>7, <1>8

Owing(e, s, p, x) == e = [s EXCEPT !.owed[p] = x]

(***************************************************************************)
(* A deposit that is owed.                                                 *)
(***************************************************************************)
LEMMA OwedMoves ==
  ASSUME NEW s, NEW k \in Nat, DatabaseState(s, k), NEW p \in Players, s.owed[p] = 0,
         NEW x \in Nat, NEW e, Owing(e, s, p, x)
  PROVE  /\ DatabaseState(e, k) /\ Worth(e) = Worth(s) - x /\ Stock(e) = Stock(s)
         /\ e.gold = s.gold /\ e.inv = s.inv /\ e.auctions = s.auctions
         /\ e.owed = [s.owed EXCEPT ![p] = x]
  <1>1. /\ DOMAIN e = DOMAIN s /\ e.gold = s.gold /\ e.inv = s.inv
        /\ e.auctions = s.auctions /\ e.mails = s.mails /\ e.regained = s.regained
        /\ e.burnt = s.burnt /\ e.lost = s.lost /\ e.unsent = s.unsent
        /\ e.owed = [s.owed EXCEPT ![p] = x] /\ e.transit = s.transit
    BY DEF DatabaseState, Owing
  <1>2. /\ s.owed \in [Players -> Nat] /\ s.transit \in Int /\ s.lost \in Int
        /\ s.unsent \in Int /\ s.burnt \in Int /\ s.regained \in Int
    BY DEF DatabaseState
  <1>3. DatabaseState(e, k)
    BY <1>1, <1>2 DEF DatabaseState
  <1>4. Sum(e.owed) = Sum(s.owed) + x
    <2>1. /\ DOMAIN e.owed = DOMAIN s.owed /\ p \in DOMAIN s.owed /\ e.owed[p] = x
          /\ \A y \in DOMAIN s.owed : y # p => e.owed[y] = s.owed[y]
      BY <1>1, <1>2
    <2>2. Summable(s.owed) /\ Sum(s.owed) \in Nat
      BY Parts
    <2>3. Sum(e.owed) = Sum(s.owed) - s.owed[p] + x
      BY <2>1, <2>2, SumChanged
    <2> QED
      BY <2>2, <2>3
  <1>5. /\ Sum(s.gold) \in Nat /\ Sum(s.inv) \in Nat /\ Sum(s.owed) \in Nat
        /\ AuctionGold(s.auctions) \in Nat /\ AuctionUnits(s.auctions) \in Nat
        /\ MailTotal(s.mails, "gold") \in Nat /\ MailTotal(s.mails, "units") \in Nat
        /\ Worth(s) = Sum(s.gold) + AuctionGold(s.auctions) + MailTotal(s.mails, "gold")
                        + s.burnt - s.regained - Sum(s.owed)
        /\ Stock(s) = Sum(s.inv) + AuctionUnits(s.auctions) + MailTotal(s.mails, "units")
                        + s.transit + s.lost + s.unsent
    BY Parts
  <1>6. /\ Worth(e) = Sum(e.gold) + AuctionGold(e.auctions) + MailTotal(e.mails, "gold")
                        + e.burnt - e.regained - Sum(e.owed)
        /\ Stock(e) = Sum(e.inv) + AuctionUnits(e.auctions) + MailTotal(e.mails, "units")
                        + e.transit + e.lost + e.unsent
    BY <1>3, Parts
  <1>7. Worth(e) = Worth(s) - x
    BY <1>1, <1>2, <1>4, <1>5, <1>6
  <1>8. Stock(e) = Stock(s)
    BY <1>1, <1>2, <1>5, <1>6
  <1> QED
    BY <1>1, <1>3, <1>7, <1>8

(***************************************************************************)
(* The first stacks hold no more than all of them.                         *)
(***************************************************************************)
LEMMA TakenUnits ==
  ASSUME NEW counts \in Counts, NEW i \in 1 .. Len(counts)
  PROVE  /\ Taken(counts, i) \in Nat /\ Sum(counts) \in Nat
         /\ Taken(counts, i) <= Sum(counts)
  <1> DEFINE n == Len(counts)
             g == [j \in 1 .. i |-> counts[j]]
             h == [j \in i + 1 .. n |-> counts[j]]
  <1>1. /\ n \in Nat /\ DOMAIN counts = 1 .. n
        /\ \A j \in 1 .. n : counts[j] \in Nat
    <2>1. counts \in Seq(Nat \ {0})
      BY AuctionAssumption
    <2> QED
      BY <2>1
  <1>2. i \in Nat /\ i <= n
    BY <1>1
  <1>3. Summable(g) /\ Summable(h)
    <2>1. IsFiniteSet(1 .. i) /\ IsFiniteSet(i + 1 .. n)
      BY <1>1, <1>2, FS_Interval
    <2>2. \A j \in 1 .. i : counts[j] \in Nat
      BY <1>1, <1>2
    <2>3. \A j \in i + 1 .. n : counts[j] \in Nat
      BY <1>1, <1>2
    <2> QED
      BY <2>1, <2>2, <2>3 DEF Summable
  <1>4. /\ DOMAIN counts = DOMAIN g \cup DOMAIN h /\ DOMAIN g \cap DOMAIN h = {}
        /\ \A j \in DOMAIN g : counts[j] = g[j]
        /\ \A j \in DOMAIN h : counts[j] = h[j]
    BY <1>1, <1>2
  <1>5. Taken(counts, i) = Sum(g)
    BY DEF Taken
  <1> HIDE DEF g, h
  <1>6. Sum(counts) = Sum(g) + Sum(h)
    BY <1>3, <1>4, SumOfUnion
  <1>7. Sum(g) \in Nat /\ Sum(h) \in Nat
    BY <1>3, SumType
  <1> QED
    BY <1>5, <1>6, <1>7

WithMany(q, f, d) == q \o Append(f, d)

\* The states of the database after the transactions f and d.
LEMMA StatesMany ==
  ASSUME NEW q, IsSeq(q), q # <<>>, NEW f, NEW n \in Nat, IsFcn(f), DOMAIN f = 1 .. n,
         NEW d, NEW r, r = WithMany(q, f, d)
  PROVE  /\ Len(q) \in Nat /\ Len(r) = Len(q) + n + 1
         /\ \A i \in DOMAIN r : \/ i \in DOMAIN q /\ r[i] = q[i]
                                \/ r[i] = d
                                \/ \E j \in 1 .. n : r[i] = f[j]
         /\ Last(r) = d
  <1> DEFINE s == q \o Append(f, d)
  <1>1. /\ IsSeq(s) /\ s # <<>>
        /\ Len(q) \in Nat /\ Len(s) = Len(q) + n + 1
        /\ \A i \in DOMAIN s : \/ i \in DOMAIN q /\ s[i] = q[i]
                               \/ s[i] = d
                               \/ \E j \in 1 .. n : s[i] = f[j]
        /\ Last(s) = d
    BY CommitMany
  <1>2. r = s
    BY DEF WithMany
  <1> HIDE DEF s
  <1> QED
    BY <1>1, <1>2

(***************************************************************************)
(* Several transactions.                                                   *)
(***************************************************************************)
LEMMA CommittedMany ==
  ASSUME IInv, Books, NEW f, NEW n \in Nat, IsFcn(f), DOMAIN f = 1 .. n, NEW d,
         dbs' = dbs \o Append(f, d),
         \A j \in 1 .. n : Balanced(f[j], nextAuction', altered') /\ AwayKept(f[j]),
         Balanced(d, nextAuction', altered'), AwayKept(d)
  PROVE  Committed(d)
  <1> DEFINE r == dbs'
  <1>1. IsSeq(dbs) /\ dbs # <<>> /\ r = WithMany(dbs, f, d) /\ dbs' = r
    BY DatabaseKept DEF IInv, WithMany
  <1> HIDE DEF r
  <1>2. /\ Len(dbs) \in Nat /\ Len(r) = Len(dbs) + n + 1
        /\ \A i \in DOMAIN r : \/ i \in DOMAIN dbs /\ r[i] = dbs[i]
                               \/ r[i] = d
                               \/ \E j \in 1 .. n : r[i] = f[j]
        /\ Last(r) = d
    <2>1. /\ IsSeq(dbs) /\ dbs # <<>> /\ n \in Nat /\ IsFcn(f) /\ DOMAIN f = 1 .. n
          /\ r = WithMany(dbs, f, d)
      BY <1>1
    <2> QED
      BY ONLY <2>1, StatesMany
  <1>3. Database' = d
    BY <1>1, <1>2 DEF Database
  <1>4. \A i \in DOMAIN r : \/ i \in DOMAIN dbs /\ r[i] = dbs[i]
                            \/ Balanced(r[i], nextAuction', altered') /\ AwayKept(r[i])
    BY <1>2
  <1>5. Len(r) \in Nat /\ Len(r) >= Len(dbs)
    BY <1>2
  <1> QED
    BY <1>1, <1>3, <1>4, <1>5 DEF Committed

(***************************************************************************)
(* The transaction that takes units from a stack.                          *)
(***************************************************************************)
LEMMA SplitBalanced ==
  ASSUME IInv, Books, NEW p \in Players, Online(p), NEW n \in Nat, n <= inv[p],
         NEW c, c = Split(Database, p, n)
  PROVE  Balanced(c, nextAuction, altered) /\ AwayKept(c)
  <1>1. /\ Balanced(Database, nextAuction, altered) /\ nextAuction \in Nat
        /\ DatabaseState(Database, nextAuction) /\ inv[p] \in Nat
    BY BooksFacts
  <1>2. Database.inv[p] = inv[p] /\ state[p] = "online"
    BY DEF Books, CharacterStored, Online
  <1>3. /\ DatabaseState(c, nextAuction) /\ Worth(c) = Worth(Database)
        /\ Stock(c) = Stock(Database) /\ c.gold = Database.gold
        /\ c.inv = [Database.inv EXCEPT ![p] = @ - n]
    <2>1. Database.inv[p] - n \in Nat
      BY <1>1, <1>2
    <2> QED
      BY <1>1, <2>1, SplitMoves
  <1>4. Balanced(c, nextAuction, altered)
    BY <1>1, <1>3 DEF Balanced
  <1>5. AwayKept(c)
    <2>1. Database.inv \in [Players -> Nat]
      BY <1>1 DEF DatabaseState
    <2> QED
      BY <1>2, <1>3, <2>1 DEF AwayKept
  <1> QED
    BY <1>4, <1>5

(***************************************************************************)
(* The last transaction of HandleAuctionSellItem: the units go into the    *)
(* auction, and the deposit of the auction is still owed.                  *)
(***************************************************************************)
LEMMA SellBalanced ==
  ASSUME IInv, Books, NEW p \in Players, Online(p), NEW n \in Nat, n <= inv[p],
         NEW a, IsAuction(a), a.units = n, a.bid = 0, a.deposit = Deposit, a.owner = p,
         NEW e, e = Listed(nextAuction, a)
  PROVE  /\ Balanced(e, nextAuction + 1, altered)
         /\ e.auctions = WithRow(auctions, nextAuction, a)
         /\ \A q \in Players : q # p =>
               /\ e.gold[q] = Database.gold[q] /\ e.inv[q] = Database.inv[q]
               /\ e.owed[q] = Database.owed[q]
         /\ e.gold[p] = gold[p] /\ e.inv[p] = inv[p] - n /\ e.owed[p] = Deposit
  <1> DEFINE k == nextAuction + 1
             rest == inv[p] - n
             i == InsertAuction(Database, nextAuction, a)
             s == SaveInventoryAndGold(i, p, gold[p], rest)
  <1>1. /\ Balanced(Database, nextAuction, altered) /\ nextAuction \in Nat \ {0}
        /\ DatabaseState(Database, nextAuction)
        /\ Worth(Database) \in Int /\ Stock(Database) \in Int
        /\ gold[p] \in Nat /\ inv[p] \in Nat
    BY BooksFacts, Parts
  <1>2. rest \in Nat /\ Deposit \in Nat /\ k \in Nat
    <2>1. UInt \in Nat /\ Deposit \in 0 .. UInt - 1
      BY AuctionAssumption
    <2> QED
      BY <1>1, <2>1
  <1>3. Database.auctions = auctions /\ state[p] = "online"
    BY StoredAuctions DEF Online
  <1>4. /\ DatabaseState(i, k)
        /\ Worth(i) = Worth(Database) + a.bid + a.deposit
        /\ Stock(i) = Stock(Database) + a.units
        /\ i.gold = Database.gold /\ i.inv = Database.inv /\ i.owed = Database.owed
        /\ i.auctions = WithRow(Database.auctions, nextAuction, a)
    BY <1>1, InsertAuctionMoves
  <1>5. Worth(i) = Worth(Database) + Deposit /\ Stock(i) = Stock(Database) + n
    BY <1>1, <1>2, <1>4
  <1>6. s = SaveInventoryAndGold(i, p, gold[p], rest) /\ Owing(e, s, p, Deposit)
    BY DEF Listed, Owing
  <1> HIDE DEF i, s, k, rest
  <1>7. /\ DatabaseState(s, k) /\ SavedAs(s, p, gold[p], rest)
        /\ altered \/ Worth(s) = Worth(i) + gold[p] - gold[p]
        /\ Stock(s) = Stock(i) + rest - inv[p]
        /\ s.auctions = i.auctions
    <2> DEFINE g == gold[p]
    <2>1. /\ IInv /\ Books /\ p \in Players /\ state[p] = "online"
          /\ k \in Nat /\ DatabaseState(i, k)
          /\ i.gold = Database.gold /\ i.inv = Database.inv /\ i.owed = Database.owed
          /\ g \in Nat /\ rest \in Nat /\ s = SaveInventoryAndGold(i, p, g, rest)
      BY <1>1, <1>2, <1>3, <1>4, <1>6
    <2>2. g = gold[p]
      OBVIOUS
    <2> HIDE DEF g
    <2>3. /\ DatabaseState(s, k) /\ SavedAs(s, p, g, rest)
          /\ altered \/ Worth(s) = Worth(i) + g - gold[p]
          /\ Stock(s) = Stock(i) + rest - inv[p]
          /\ s.auctions = i.auctions
      BY ONLY <2>1, CharacterSaved
    <2> QED
      BY <2>2, <2>3
  <1>8. /\ Database.gold \in [Players -> Nat] /\ Database.inv \in [Players -> Nat]
        /\ Database.owed \in [Players -> Nat]
    BY <1>1 DEF DatabaseState
  <1>9. /\ s.gold[p] = gold[p] /\ s.inv[p] = rest /\ s.owed[p] = 0
        /\ s.owed \in [Players -> Nat]
        /\ \A q \in Players : q # p =>
              /\ s.gold[q] = Database.gold[q] /\ s.inv[q] = Database.inv[q]
              /\ s.owed[q] = Database.owed[q]
    BY <1>7, <1>8 DEF SavedAs
  <1>10. /\ DatabaseState(e, k) /\ Worth(e) = Worth(s) - Deposit /\ Stock(e) = Stock(s)
         /\ e.gold = s.gold /\ e.inv = s.inv /\ e.auctions = s.auctions
         /\ e.owed = [s.owed EXCEPT ![p] = Deposit]
    <2> DEFINE x == Deposit
    <2>1. /\ k \in Nat /\ DatabaseState(s, k) /\ p \in Players /\ s.owed[p] = 0
          /\ x \in Nat /\ Owing(e, s, p, x)
      BY <1>2, <1>6, <1>7, <1>9
    <2> HIDE DEF x
    <2>2. /\ DatabaseState(e, k) /\ Worth(e) = Worth(s) - x /\ Stock(e) = Stock(s)
          /\ e.gold = s.gold /\ e.inv = s.inv /\ e.auctions = s.auctions
          /\ e.owed = [s.owed EXCEPT ![p] = x]
      BY ONLY <2>1, OwedMoves
    <2> QED
      BY <2>2 DEF x
  <1>11. Worth(s) \in Int
    BY <1>2, <1>7, Parts
  <1>12. (altered \/ Worth(e) = Worth(Database)) /\ Stock(e) = Stock(Database)
    <2>1. rest = inv[p] - n
      BY DEF rest
    <2> QED
      BY <1>1, <1>2, <1>5, <1>7, <1>10, <1>11, <2>1
  <1>13. Balanced(e, k, altered)
    BY <1>1, <1>10, <1>12 DEF Balanced
  <1>14. /\ e.gold[p] = gold[p] /\ e.inv[p] = rest /\ e.owed[p] = Deposit
         /\ \A q \in Players : q # p =>
               /\ e.gold[q] = Database.gold[q] /\ e.inv[q] = Database.inv[q]
               /\ e.owed[q] = Database.owed[q]
    BY <1>9, <1>10
  <1>15. e.auctions = WithRow(auctions, nextAuction, a)
    BY <1>3, <1>4, <1>7, <1>10
  <1> QED
    BY <1>13, <1>14, <1>15 DEF k, rest

(***************************************************************************)
(* HandleAuctionSellItem.                                                  *)
(***************************************************************************)
LEMMA SellBooks ==
  ASSUME IInv, Books, NEW p \in Players, NEW counts \in Counts, NEW bid \in StartBids,
         NEW buyout \in Buyouts, HandleAuctionSellItem(p, counts, bid, buyout)
  PROVE  Books'
  <1> DEFINE n == Sum(counts)
             a == NewAuction(p, n, bid, buyout)
             k == Len(counts)
             f == Splits(p, counts)
             e == Listed(nextAuction, a)
             meant == gold'[p] = gold[p] - Deposit
  <1>1. a.owner = p /\ a.units = n /\ a.bid = 0 /\ a.deposit = Deposit
    BY DEF NewAuction
  <1>2. /\ Online(p) /\ state[p] = "online" /\ server = "up"
        /\ counts # << >> /\ n <= inv[p]
        /\ dbs' = dbs \o <<e>> \/ dbs' = dbs \o Append(f, e)
        /\ auctions' = WithRow(auctions, nextAuction, a)
        /\ inv' = [inv EXCEPT ![p] = @ - n]
        /\ \E amount \in MinusInt32(Deposit) : ModifyMoney(p, amount)
        /\ Exact(meant)
        /\ nextAuction' = nextAuction + 1
        /\ UNCHANGED <<server, state, behind>>
    BY DEF HandleAuctionSellItem, Commit, Online
  <1>3. /\ nextAuction \in Nat /\ gold \in [Players -> Nat] /\ inv \in [Players -> Nat]
        /\ gold[p] \in Nat /\ inv[p] \in Nat /\ altered \in BOOLEAN
    BY BooksFacts
  <1>4. k \in Nat /\ n \in Nat /\ DOMAIN counts = 1 .. k
    <2>1. counts \in Seq(Nat \ {0})
      BY AuctionAssumption
    <2>2. k \in Nat /\ DOMAIN counts = 1 .. k /\ 1 \in 1 .. k
      BY <1>2, <2>1
    <2> QED
      BY <2>2, TakenUnits
  <1>5. UInt \in Nat /\ Deposit \in Nat /\ buyout \in Nat
    <2>1. UInt \in Nat /\ Deposit \in 0 .. UInt - 1 /\ buyout \in Nat
      BY AuctionAssumption
    <2> QED
      BY <2>1
  <1>6. IsAuction(a)
    <2>1. buyout % UInt \in 0 .. UInt - 1 /\ 0 \in 0 .. UInt - 1
      BY <1>5, Narrowed, AuctionAssumption
    <2> QED
      BY <1>4, <1>5, <2>1 DEF NewAuction, IsAuction, HasPrices
  <1>7. /\ gold' = [gold EXCEPT ![p] = gold'[p]] /\ gold' \in [Players -> Nat]
        /\ StaysAltered /\ (altered' \/ (~altered /\ meant))
    <2>1. PICK amount \in MinusInt32(Deposit) : ModifyMoney(p, amount)
      BY <1>2
    <2>2. amount \in Int
      BY <1>5, AmountsAreIntegers
    <2>3. gold' = [gold EXCEPT ![p] = gold'[p]] /\ gold' \in [Players -> Nat]
      BY <2>1, <2>2, ModifiedMoney
    <2>4. StaysAltered /\ (altered' \/ (~altered /\ meant))
      <3>1. meant \in BOOLEAN
        OBVIOUS
      <3> HIDE DEF meant
      <3> QED
        BY <1>2, <1>3, <3>1, ExactAlters
    <2> QED
      BY <2>3, <2>4
  <1>8. IsFcn(f) /\ DOMAIN f = 1 .. k
    BY DEF Splits, IsFcn
  <1>9. ASSUME NEW j \in 1 .. k
        PROVE  Balanced(f[j], nextAuction, altered) /\ AwayKept(f[j])
    <2> DEFINE t == Taken(counts, j)
               c == Split(Database, p, t)
    <2>1. f[j] = c
      BY DEF Splits
    <2>2. t \in Nat /\ t <= n
      BY TakenUnits
    <2>3. c = Split(Database, p, t)
      OBVIOUS
    <2> HIDE DEF t, c, f
    <2>4. t <= inv[p]
      BY <1>2, <1>3, <1>4, <2>2
    <2> QED
      BY <1>2, <2>1, <2>2, <2>3, <2>4, SplitBalanced
  <1>10. e = Listed(nextAuction, a)
    OBVIOUS
  <1> HIDE DEF a, e, n, f, k
  <1>11. /\ Balanced(e, nextAuction + 1, altered)
         /\ e.auctions = WithRow(auctions, nextAuction, a)
         /\ \A q \in Players : q # p =>
               /\ e.gold[q] = Database.gold[q] /\ e.inv[q] = Database.inv[q]
               /\ e.owed[q] = Database.owed[q]
         /\ e.gold[p] = gold[p] /\ e.inv[p] = inv[p] - n /\ e.owed[p] = Deposit
    <2>1. /\ IInv /\ Books /\ p \in Players /\ Online(p) /\ n \in Nat /\ n <= inv[p]
          /\ IsAuction(a) /\ a.units = n /\ a.bid = 0 /\ a.deposit = Deposit /\ a.owner = p
          /\ e = Listed(nextAuction, a)
      BY <1>1, <1>2, <1>4, <1>6, <1>10
    <2> QED
      BY ONLY <2>1, SellBalanced
  <1>12. AwayKept(e)
    BY <1>2, <1>11 DEF AwayKept
  <1>13. /\ nextAuction + 1 \in Nat /\ nextAuction <= nextAuction + 1
         /\ nextAuction' = nextAuction + 1 /\ (altered => altered')
    BY <1>2, <1>3, <1>7 DEF StaysAltered
  <1>14. Balanced(e, nextAuction', altered')
    BY <1>11, <1>13, BalancedLater
  <1>15. \A j \in 1 .. k : Balanced(f[j], nextAuction', altered') /\ AwayKept(f[j])
    BY <1>3, <1>9, <1>13, BalancedLater
  <1>16. Committed(e)
    <2>1. CASE dbs' = dbs \o <<e>>
      BY <1>12, <1>14, <2>1, CommittedOne
    <2>2. CASE dbs' = dbs \o Append(f, e)
      BY <1>4, <1>8, <1>12, <1>14, <1>15, <2>2, CommittedMany
    <2> QED
      BY <1>2, <2>1, <2>2
  <1>17. /\ inv'[p] = inv[p] - n /\ inv' \in [Players -> Nat]
         /\ \A q \in Players : q # p => gold'[q] = gold[q] /\ inv'[q] = inv[q]
    <2>1. inv[p] - n \in Nat
      BY <1>2, <1>3, <1>4
    <2>2. inv' = [inv EXCEPT ![p] = inv[p] - n]
      BY <1>2
    <2> QED
      BY <1>3, <1>7, <2>1, <2>2
  <1>18. ASSUME NEW q \in Players PROVE Uninvolved(q, e) \/ Saved(q, e)
    <2>1. CASE q = p
      <3>1. meant => gold[p] = gold'[p] + Deposit
        BY <1>3, <1>5
      <3>2. altered' \/ e.gold[p] = gold'[p] + e.owed[p]
        BY <1>7, <1>11, <3>1
      <3> QED
        BY <1>2, <1>11, <1>17, <2>1, <3>2 DEF Saved
    <2>2. CASE q # p
      BY <1>2, <1>11, <1>17, <2>2 DEF Uninvolved
    <2> QED
      BY <2>1, <2>2
  <1>19. AuctionsStored'
    BY <1>2, <1>11, <1>16 DEF Committed, AuctionsStored
  <1>20. nextAuction' \in Nat /\ nextAuction' >= nextAuction
    BY <1>3, <1>13
  <1> QED
    BY <1>2, <1>7, <1>16, <1>17, <1>18, <1>19, <1>20, BooksCommitted

-----------------------------------------------------------------------------
(* The books of every reachable state.                                     *)

\* At the beginning the characters have everything.
LEMMA InitBooks == Init => Books
  <1> SUFFICES ASSUME Init PROVE Books
    OBVIOUS
  <1> DEFINE zero == [p \in Players |-> 0]
             d == [gold |-> StartGold, inv |-> StartUnits, auctions |-> NoAuctions,
                   mails |-> {}, owed |-> zero, transit |-> 0,
                   lost |-> 0, unsent |-> 0, burnt |-> 0, regained |-> 0]
  <1>1. /\ dbs = <<d>>
        /\ state = [p \in Players |-> "online"]
        /\ server = "up" /\ gold = StartGold /\ inv = StartUnits
        /\ auctions = NoAuctions /\ nextAuction = 1 /\ altered = FALSE
    BY DEF Init
  <1>2. /\ DOMAIN d = {"gold", "inv", "auctions", "mails", "owed", "transit", "lost",
                       "unsent", "burnt", "regained"}
        /\ d.gold = StartGold /\ d.inv = StartUnits /\ d.auctions = NoAuctions
        /\ d.mails = {} /\ d.owed = zero
        /\ d.transit = 0 /\ d.lost = 0 /\ d.unsent = 0 /\ d.burnt = 0
        /\ d.regained = 0
    OBVIOUS
  <1> HIDE DEF d
  <1>3. Database = d /\ \A i \in DOMAIN dbs : dbs[i] = d
    BY <1>1 DEF Database, Last
  <1>4. zero \in [Players -> Nat] /\ \A p \in Players : zero[p] = 0
    OBVIOUS
  <1>5. StartGold \in [Players -> Nat] /\ StartUnits \in [Players -> Nat]
    BY AuctionAssumption
  <1>6. DOMAIN NoAuctions = {} /\ IsFcn(NoAuctions)
    BY DEF NoAuctions, IsFcn
  <1>7. DatabaseState(d, 1)
    <2>1. AuctionRows(d.auctions, 1)
      BY <1>2, <1>6 DEF AuctionRows
    <2>2. MailRows(d.mails)
      BY <1>2, FS_EmptySet DEF MailRows
    <2> HIDE DEF zero
    <2> QED
      BY <1>2, <1>4, <1>5, <2>1, <2>2 DEF DatabaseState
  <1>8. Sum(d.owed) = 0
    BY <1>2, <1>4, SumOfZeros
  <1>9. AuctionGold(d.auctions) = 0 /\ AuctionUnits(d.auctions) = 0
    <2> DEFINE f == [id \in DOMAIN d.auctions |-> d.auctions[id].bid + d.auctions[id].deposit]
               g == [id \in DOMAIN d.auctions |-> d.auctions[id].units]
    <2>1. /\ \A x \in DOMAIN f : f[x] = 0
          /\ \A x \in DOMAIN g : g[x] = 0
      BY <1>2, <1>6
    <2> HIDE DEF f, g
    <2>2. Sum(f) = 0 /\ Sum(g) = 0
      BY <2>1, SumOfZeros
    <2> QED
      BY <2>2 DEF AuctionGold, AuctionUnits, f, g
  <1>10. MailTotal(d.mails, "gold") = 0 /\ MailTotal(d.mails, "units") = 0
    <2> DEFINE f == [m \in d.mails |-> m["gold"]]
               g == [m \in d.mails |-> m["units"]]
    <2>1. /\ \A x \in DOMAIN f : f[x] = 0
          /\ \A x \in DOMAIN g : g[x] = 0
      BY <1>2
    <2> HIDE DEF f, g
    <2>2. Sum(f) = 0 /\ Sum(g) = 0
      BY <2>1, SumOfZeros
    <2> QED
      BY <2>2 DEF MailTotal, f, g
  <1>11. Worth(d) = Sum(StartGold) /\ Stock(d) = Sum(StartUnits)
    <2>1. /\ Sum(d.gold) \in Nat /\ Sum(d.inv) \in Nat
          /\ Worth(d) = Sum(d.gold) + AuctionGold(d.auctions) + MailTotal(d.mails, "gold")
                          + d.burnt - d.regained - Sum(d.owed)
          /\ Stock(d) = Sum(d.inv) + AuctionUnits(d.auctions) + MailTotal(d.mails, "units")
                          + d.transit + d.lost + d.unsent
      <3>1. 1 \in Nat
        OBVIOUS
      <3> QED
        BY <1>7, <3>1, Parts
    <2> QED
      BY <1>2, <1>8, <1>9, <1>10, <2>1
  <1>12. \A p \in Players : CharacterStored(p)
    <2>1. \A p \in Players : StartGold[p] \in Nat /\ d.owed[p] = 0
      BY <1>2, <1>4, <1>5
    <2> QED
      BY <1>1, <1>2, <1>3, <2>1 DEF CharacterStored
  <1>13. AuctionsStored
    BY <1>1, <1>2, <1>3 DEF AuctionsStored
  <1> QED
    <2>1. \A i \in DOMAIN dbs : Balanced(dbs[i], nextAuction, altered)
      BY <1>1, <1>3, <1>7, <1>11 DEF Balanced
    <2>2. altered \in BOOLEAN
      BY <1>1
    <2> QED
      BY <1>1, <1>3, <1>5, <1>12, <1>13, <2>1, <2>2 DEF Books

\* An auction that was loaded after its settlement stays one.
LEMMA GhostsStay ==
  ASSUME [Next]_vars
  PROVE  ghosts \subseteq ghosts'
  <1>1. ASSUME NEW p, NEW q, NEW n, NEW bid, NEW buyout, NEW l, NEW id,
               \/ HandleAuctionSellItem(p, n, bid, buyout) \/ Bid(p, id, bid)
               \/ Buyout(p, id, bid) \/ HandleAuctionRemoveItem(p, id)
               \/ HandleSendMail(p, q, l) \/ HandleGetMailList(p) \/ MailOperation(p)
        PROVE  ghosts' = ghosts
    <2>1. CASE HandleAuctionSellItem(p, n, bid, buyout)
      BY <2>1 DEF HandleAuctionSellItem
    <2>2. CASE Bid(p, id, bid)
      BY <2>2 DEF Bid
    <2>3. CASE Buyout(p, id, bid)
      BY <2>3 DEF Buyout
    <2>4. CASE HandleAuctionRemoveItem(p, id)
      BY <2>4 DEF HandleAuctionRemoveItem
    <2>5. CASE HandleSendMail(p, q, l)
      BY <2>5 DEF HandleSendMail
    <2>6. CASE HandleGetMailList(p)
      BY <2>6 DEF HandleGetMailList
    <2>7. CASE MailOperation(p)
      <3>1. PICK m : \/ HandleMailTakeMoney(p, m)
                     \/ \E x : HandleMailTakeItem(p, m, x)
                     \/ HandleMailReturnToSender(p, m)
        BY <2>7 DEF MailOperation
      <3>2. CASE HandleMailTakeMoney(p, m)
        BY <3>2 DEF HandleMailTakeMoney
      <3>3. CASE \E x : HandleMailTakeItem(p, m, x)
        BY <3>3 DEF HandleMailTakeItem
      <3>4. CASE HandleMailReturnToSender(p, m)
        BY <3>4 DEF HandleMailReturnToSender
      <3> QED
        BY <3>1, <3>2, <3>3, <3>4
    <2> QED
      BY <1>1, <2>1, <2>2, <2>3, <2>4, <2>5, <2>6, <2>7
  <1>3. ASSUME NEW p, SaveToDB(p) \/ LogoutPlayer(p) \/ HandlePlayerLoginOpcode(p)
                         \/ HandlePlayerLogin(p)
        PROVE  ghosts' = ghosts
    BY <1>3 DEF SaveToDB, LogoutPlayer, HandlePlayerLoginOpcode, HandlePlayerLogin
  <1>4. ASSUME NEW id, Expire(id) \/ Update(id) \/ DeleteExpiredAuctionsAtStartup(id)
        PROVE  ghosts' = ghosts
    BY <1>4 DEF Expire, Update, DeleteExpiredAuctionsAtStartup
  <1>5. ASSUME Execute \/ Crash \/ LoadAuctionItems \/ UNCHANGED vars
        PROVE  ghosts' = ghosts
    BY <1>5 DEF Execute, Crash, LoadAuctionItems, vars
  <1>2. LoadAuctions => ghosts \subseteq ghosts'
    BY DEF LoadAuctions
  <1> QED
    BY <1>1, <1>2, <1>3, <1>4, <1>5 DEF Next

\* Every step keeps the books.
LEMMA StepBooks ==
  ASSUME IInv, Books, [Next]_vars, ghosts' = {}
  PROVE  Books'
  <1>1. ASSUME NEW p \in Players, NEW counts \in Counts, NEW bid \in StartBids,
               NEW buyout \in Buyouts, HandleAuctionSellItem(p, counts, bid, buyout)
        PROVE  Books'
    BY <1>1, SellBooks
  <1>2. ASSUME NEW p \in Players, NEW id \in DOMAIN auctions, NEW price \in Prices,
               Bid(p, id, price) \/ Buyout(p, id, price)
        PROVE  Books'
    BY <1>2, BidBooks, BuyoutBooks
  <1>3. ASSUME NEW p \in Players, NEW id \in DOMAIN auctions,
               HandleAuctionRemoveItem(p, id)
        PROVE  Books'
    BY <1>3, RemoveItemBooks
  <1>4. ASSUME NEW p \in Players, NEW q \in Players, NEW l \in Letters,
               HandleSendMail(p, q, l)
        PROVE  Books'
    BY <1>4, SendMailBooks
  <1>5. ASSUME NEW p \in Players, MailOperation(p) PROVE Books'
    <2>1. Online(p) /\ box[p].loaded
      BY <1>5 DEF MailOperation
    <2>2. PICK m \in box[p].mails :
             \/ HandleMailTakeMoney(p, m)
             \/ \E x \in box[p].mails : HandleMailTakeItem(p, m, x)
             \/ HandleMailReturnToSender(p, m)
      BY <1>5 DEF MailOperation
    <2> QED
      BY <2>1, <2>2, TakeMoneyBooks, TakeItemBooks, ReturnBooks
  <1>6. ASSUME NEW p \in Players, SaveToDB(p) \/ LogoutPlayer(p) PROVE Books'
    BY <1>6, SaveToDBBooks, LogoutBooks
  <1>7. ASSUME NEW p \in Players, HandlePlayerLoginOpcode(p) \/ HandlePlayerLogin(p)
        PROVE  Books'
    BY <1>7, LoginOpcodeBooks, LoginBooks
  <1>8. ASSUME NEW p \in Players, HandleGetMailList(p) PROVE Books'
    BY <1>8, BooksSame DEF HandleGetMailList
  <1>9. ASSUME NEW id, Expire(id) PROVE Books'
    BY <1>9, BooksSame DEF Expire
  <1>10. ASSUME NEW id, DeleteExpiredAuctionsAtStartup(id) PROVE Books'
    BY <1>10, StartupBooks
  <1>11. ASSUME NEW id \in DOMAIN auctions, Update(id) PROVE Books'
    BY <1>11, UpdateBooks
  <1>12. CASE Execute \/ Crash
    BY <1>12, ExecuteBooks, CrashBooks
  <1>13. CASE LoadAuctionItems \/ LoadAuctions
    BY <1>13, LoadAuctionItemsBooks, LoadAuctionsBooks
  <1>14. CASE UNCHANGED vars
    BY <1>14, BooksSame DEF vars
  <1> QED
    BY <1>1, <1>2, <1>3, <1>4, <1>5, <1>6, <1>7, <1>8, <1>9, <1>10, <1>11, <1>12, <1>13,
       <1>14 DEF Next

(***************************************************************************)
(* The inductive invariant of the conservation laws: until a settled       *)
(* auction is loaded once more, every state that the database goes through *)
(* accounts for the units of the beginning and, until an amount is not     *)
(* taken or given as it is, for the gold; and what memory has of online    *)
(* characters and of auctions is what was written last.                    *)
(***************************************************************************)
THEOREM LedgerInvariant == Spec => []LedgerInv
  <1>1. Init => LedgerInv
    BY InitIInv, InitBooks DEF LedgerInv
  <1>2. LedgerInv /\ [Next]_vars => LedgerInv'
    <2> SUFFICES ASSUME LedgerInv, [Next]_vars PROVE LedgerInv'
      OBVIOUS
    <2>1. IInv /\ IInv'
      BY StepIInv DEF LedgerInv
    <2>2. ASSUME ghosts' = {} PROVE Books'
      <3>1. ghosts = {}
        BY <2>2, GhostsStay
      <3>2. Books
        BY <3>1 DEF LedgerInv
      <3> QED
        BY <2>1, <2>2, <3>2, StepBooks
    <2> QED
      BY <2>1, <2>2 DEF LedgerInv
  <1> QED
    BY <1>1, <1>2, PTL DEF Spec

(***************************************************************************)
(* Gold is accounted for: whatever the players bid, sell, cancel, buy out, *)
(* mail, take and return, over logouts, expirations and crashes at any     *)
(* moment, a bid is sent back once and a seller is paid once, as long as   *)
(* the handlers took and gave every amount as it is.                       *)
(***************************************************************************)
THEOREM GoldIsAccounted == Spec => []GoldAccounted
  <1>1. LedgerInv => GoldAccounted
    <2> SUFFICES ASSUME IInv, Books, ~altered, NEW i \in DOMAIN dbs
                 PROVE  Held(dbs[i]) + dbs[i].burnt
                           = Sum(StartGold) + dbs[i].regained + Sum(dbs[i].owed)
      BY DEF LedgerInv, GoldAccounted
    <2> DEFINE d == dbs[i]
    <2>1. /\ DatabaseState(d, nextAuction) /\ Worth(d) = Sum(StartGold)
          /\ nextAuction \in Nat
      BY DEF Books, Balanced
    <2>2. d.burnt \in Int /\ d.regained \in Int
      BY <2>1 DEF DatabaseState
    <2> HIDE DEF d
    <2>3. /\ Sum(d.gold) \in Nat /\ Sum(d.owed) \in Nat
          /\ AuctionGold(d.auctions) \in Nat /\ MailTotal(d.mails, "gold") \in Nat
      BY <2>1, Parts
    <2>4. Held(d) = Sum(d.gold) + AuctionGold(d.auctions) + MailTotal(d.mails, "gold")
      BY DEF Held, AuctionGold, MailTotal
    <2>5. Worth(d) = Held(d) + d.burnt - d.regained - Sum(d.owed)
      BY DEF Worth
    <2>6. Held(d) + d.burnt = Sum(StartGold) + d.regained + Sum(d.owed)
      BY <2>1, <2>2, <2>3, <2>4, <2>5
    <2> QED
      BY <2>6 DEF d
  <1> QED
    BY <1>1, LedgerInvariant, PTL

(***************************************************************************)
(* Units are accounted for: none is in two stacks, auctions or mails, and  *)
(* none is gone but those of an auction settled without its item and those *)
(* that a crash caught between two transactions.                           *)
(***************************************************************************)
THEOREM UnitsAreAccounted == Spec => []UnitsAccounted
  <1>1. LedgerInv => UnitsAccounted
    <2> SUFFICES ASSUME IInv, Books, NEW i \in DOMAIN dbs, dbs[i].unsent = 0
                 PROVE  Units(dbs[i]) + dbs[i].transit + dbs[i].lost = Sum(StartUnits)
      BY DEF LedgerInv, UnitsAccounted
    <2> DEFINE d == dbs[i]
    <2>1. /\ DatabaseState(d, nextAuction) /\ Stock(d) = Sum(StartUnits)
          /\ nextAuction \in Nat /\ d.unsent = 0
      BY DEF Books, Balanced
    <2>2. d.transit \in Int /\ d.lost \in Int
      BY <2>1 DEF DatabaseState
    <2> HIDE DEF d
    <2>3. /\ Sum(d.inv) \in Nat /\ AuctionUnits(d.auctions) \in Nat
          /\ MailTotal(d.mails, "units") \in Nat
      BY <2>1, Parts
    <2>4. Units(d) = Sum(d.inv) + AuctionUnits(d.auctions) + MailTotal(d.mails, "units")
      BY DEF Units, AuctionUnits, MailTotal
    <2>5. Stock(d) = Units(d) + d.transit + d.lost + d.unsent
      BY DEF Stock
    <2>6. Units(d) + d.transit + d.lost = Sum(StartUnits)
      BY <2>1, <2>2, <2>3, <2>4, <2>5
    <2> QED
      BY <2>6 DEF d
  <1> QED
    BY <1>1, LedgerInvariant, PTL
=============================================================================
