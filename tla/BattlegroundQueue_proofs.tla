---------------------- MODULE BattlegroundQueue_proofs ----------------------
(***************************************************************************)
(* The queue of BattlegroundQueue and its battlegrounds, for any players,  *)
(* parties, sides and settings.                                            *)
(*                                                                         *)
(* The invariant says where a player can be: in one group of the queue, on *)
(* the way into a battleground, or inside; that the invited counters       *)
(* account for the players of all three; and that whoever is invited has   *)
(* his removal event.  An update changes lists, battlegrounds and events   *)
(* many times before it ends, so the lemmas about it are about the state   *)
(* that it works on, and the invariant is one of that state.               *)
(*                                                                         *)
(* Besides, an update is fair: it lets no side of a running battleground   *)
(* get more than one ahead of the other.                                   *)
(***************************************************************************)
EXTENDS BattlegroundQueue, FiniteSetTheorems, WellFoundedInduction, TLAPS

\* The lists of a side, the numbers of battlegrounds, and the shapes of the data.
Kinds == {"premade", "normal"}
Ids == 0 .. NumBattlegrounds
Group == [players : SUBSET Player, invited : Ids, time : Nat]
Event == [players : SUBSET Player, bg : Battleground, time : Nat]
Status == {"none", "wait_join", "in_progress", "wait_leave", "deleted"}
BattlegroundState == [status : Status, players : SUBSET Player, invited : [Team -> Nat]]

\* The types of what a queue update works on.
QueueType(queue) == queue \in [Kinds -> [Team -> Seq(Group)]]

\* The types of the variables.
TypeInv ==
    /\ QueueType(m_QueuedGroups)
    /\ m_events \in Seq(Event)
    /\ serial \in Nat
    /\ bgs \in [Battleground -> BattlegroundState]
    /\ freeSlots \in Seq(Battleground)
    /\ place \in [Player -> {"world", "loading", "offline"}]
    /\ bgId \in [Player -> Ids]
    /\ queueId \in [Player -> BOOLEAN]
    /\ inviteId \in [Player -> Ids]
    /\ moves \in Nat
    /\ drift \in [Battleground -> [Team -> Int]]
    /\ unwatched \subseteq Player

\* A player is in one group, and no group is empty.
OneGroup(queue) ==
    /\ \A g \in Groups(queue) : g.players # {}
    /\ \A g, h \in Groups(queue) : g.players \cap h.players # {} => g = h

\* A queued player holds the slot.
SlotHeld == \A p \in QueuedPlayers : queueId[p] /\ place[p] # "offline"

\* A player on the way into a battleground holds the slot with its invitation.
Ported ==
    \A p \in Player : place[p] = "loading" /\ bgId[p] # 0 =>
        queueId[p] /\ p \notin QueuedPlayers /\ inviteId[p] = bgId[p]

\* A player inside, or disconnected from inside.
Inside ==
    \A b \in Battleground : \A p \in bgs[b].players :
        /\ Exists(b) /\ bgId[p] = b /\ p \notin QueuedPlayers
        /\ place[p] # "loading"
        /\ place[p] = "world" => queueId[p]

\* A set of numbers that is not empty has a least one.
LEMMA Least == ASSUME NEW T \in SUBSET Nat, T # {} PROVE \E m \in T : \A n \in T : m <= n
  <1> DEFINE R == OpToRel(<, Nat)
  <1>1. IsWellFoundedOn(R, Nat)
    BY NatLessThanWellFounded
  <1>2. \A x, y \in Nat : x < y => <<x, y>> \in R
    BY DEF OpToRel
  <1> HIDE DEF R
  <1>3. \E x \in T : \A y \in T : ~ (<<y, x>> \in R)
    BY <1>1, WFMin
  <1>4. PICK x \in T : \A y \in T : ~ (<<y, x>> \in R)
    BY <1>3
  <1>5. ASSUME NEW y \in T PROVE x <= y
    <2>1. x \in Nat /\ y \in Nat
      OBVIOUS
    <2>2. ~ (y < x)
      BY <1>2, <1>4, <2>1
    <2> QED
      BY <2>1, <2>2
  <1> QED
    BY <1>4, <1>5

\* Induction up to N over a set, by the least number that is not in it.
LEMMA Induction ==
    ASSUME NEW N \in Nat, NEW T, 0 \in T,
           \A i \in 0 .. N - 1 : i \in T => i + 1 \in T
    PROVE  \A i \in 0 .. N : i \in T
  <1> SUFFICES ASSUME NEW k \in 0 .. N, k \notin T PROVE FALSE
    OBVIOUS
  <1> DEFINE Bad == {i \in 0 .. N : i \notin T}
  <1>1. Bad \in SUBSET Nat /\ Bad # {}
    OBVIOUS
  <1>a. \A n : n \in Bad <=> n \in 0 .. N /\ n \notin T
    OBVIOUS
  <1> HIDE DEF Bad
  <1>2. PICK m \in Bad : \A n \in Bad : m <= n
    BY <1>1, Least
  <1>3. m \in 0 .. N /\ m \notin T /\ m # 0
    BY <1>2, <1>a
  <1>4. m - 1 \in 0 .. N - 1 /\ m - 1 \notin Bad
    BY <1>3, <1>2
  <1> QED
    BY <1>3, <1>4, <1>a

\* One step of the filter.
OnlyStep(seq, S, n, x) == IF seq[n] \in S THEN Append(x, seq[n]) ELSE x

\* f is the filter of Only, up to n.
OnlyUpto(seq, S, n, f) ==
    f = [i \in 0 .. n |-> IF i = 0 THEN <<>>
                          ELSE OnlyStep(seq, S, i, f[i - 1])]

\* The filter of the empty prefix.
LEMMA OnlyStart == ASSUME NEW seq, NEW S PROVE \E f : OnlyUpto(seq, S, 0, f)
  <1> DEFINE h == [i \in 0 .. 0 |-> <<>>]
  <1>1. OnlyUpto(seq, S, 0, h)
    BY DEF OnlyUpto
  <1> QED BY <1>1

\* The filter of one more element.
LEMMA OnlyMore ==
    ASSUME NEW seq, NEW S, NEW n \in Nat, NEW g, OnlyUpto(seq, S, n, g)
    PROVE \E f : OnlyUpto(seq, S, n + 1, f)
  <1> DEFINE h == [i \in 0 .. n + 1 |-> IF i = n + 1 THEN OnlyStep(seq, S, n + 1, g[n]) ELSE g[i]]
  <1>1. OnlyUpto(seq, S, n + 1, h)
    BY DEF OnlyUpto
  <1> QED BY <1>1

\* There is a filter of every prefix.
LEMMA OnlyExists ==
    ASSUME NEW seq, NEW S, NEW N \in Nat
    PROVE  \E f : OnlyUpto(seq, S, N, f)
  <1> DEFINE T == {n \in Nat : \E f : OnlyUpto(seq, S, n, f)}
  <1>0. \A n : n \in T <=> n \in Nat /\ \E f : OnlyUpto(seq, S, n, f)
    OBVIOUS
  <1> HIDE DEF T
  <1>1. 0 \in T
    BY <1>0, OnlyStart
  <1>2. \A n \in 0 .. N - 1 : n \in T => n + 1 \in T
    BY <1>0, OnlyMore
  <1>3. \A i \in 0 .. N : i \in T
    BY <1>1, <1>2, Induction
  <1> QED
    BY <1>0, <1>3

\* Only is the filter of the whole sequence.
LEMMA OnlyDefined ==
    ASSUME NEW seq, NEW S, Len(seq) \in Nat
    PROVE  \E f : OnlyUpto(seq, S, Len(seq), f) /\ Only(seq, S) = f[Len(seq)]
  <1>1. PICK g : OnlyUpto(seq, S, Len(seq), g)
    BY OnlyExists
  <1> DEFINE only[n \in 0 .. Len(seq)] ==
          IF n = 0 THEN <<>>
          ELSE IF seq[n] \in S THEN Append(only[n - 1], seq[n]) ELSE only[n - 1]
  <1>2. Only(seq, S) = only[Len(seq)]
    BY DEF Only
  <1>3. only = [n \in 0 .. Len(seq) |->
          IF n = 0 THEN <<>>
          ELSE IF seq[n] \in S THEN Append(only[n - 1], seq[n]) ELSE only[n - 1]]
    BY <1>1 DEF OnlyUpto, OnlyStep
  <1>4. OnlyUpto(seq, S, Len(seq), only)
    BY <1>3 DEF OnlyUpto, OnlyStep
  <1> QED
    BY <1>2, <1>4

\* What is appended becomes a member, and nothing else.
LEMMA AppendSet ==
    ASSUME NEW U, NEW s \in Seq(U), NEW e \in U
    PROVE  Append(s, e) \in Seq(U) /\ ToSet(Append(s, e)) = ToSet(s) \cup {e}
  <1> DEFINE r == Append(s, e)
  <1>1. /\ r \in Seq(U) /\ Len(r) = Len(s) + 1 /\ DOMAIN r = 1 .. Len(s) + 1
        /\ DOMAIN s = 1 .. Len(s) /\ Len(s) \in Nat
        /\ r[Len(s) + 1] = e /\ \A i \in 1 .. Len(s) : r[i] = s[i]
    OBVIOUS
  <1> HIDE DEF r
  <1>2. ASSUME NEW x PROVE x \in ToSet(r) <=> x \in ToSet(s) \/ x = e
    BY <1>1 DEF ToSet
  <1> QED
    BY <1>1, <1>2 DEF r

\* Only keeps exactly the members in S: std::list::erase in a loop.
LEMMA OnlyIs ==
    ASSUME NEW U, NEW seq \in Seq(U), NEW S
    PROVE  /\ Only(seq, S) \in Seq(U)
           /\ \A x : x \in ToSet(Only(seq, S)) <=> x \in ToSet(seq) /\ x \in S
  <1> DEFINE N == Len(seq)
  <1>1. PICK f : OnlyUpto(seq, S, Len(seq), f) /\ Only(seq, S) = f[Len(seq)]
    BY OnlyDefined
  <1> DEFINE Right(n) == /\ f[n] \in Seq(U)
                         /\ \A x : x \in ToSet(f[n]) <=> x \in S /\ \E i \in 1 .. n : x = seq[i]
             T == {n \in 0 .. N : Right(n)}
  <1>2. N \in Nat /\ DOMAIN seq = 1 .. N
    OBVIOUS
  <1>a. \A k \in 1 .. N : f[k] = OnlyStep(seq, S, k, f[k - 1])
    BY <1>1, <1>2 DEF OnlyUpto
  <1>3. Right(0)
    <2>1. f[0] = <<>>
      BY <1>1, <1>2 DEF OnlyUpto
    <2> QED
      BY <2>1 DEF ToSet
  <1>4. ASSUME NEW n \in 0 .. N - 1, Right(n) PROVE Right(n + 1)
    <2>1. f[n + 1] = IF seq[n + 1] \in S THEN Append(f[n], seq[n + 1]) ELSE f[n]
      <3>1. n + 1 \in 1 .. N /\ (n + 1) - 1 = n
        BY <1>2
      <3> QED
        BY <1>a, <3>1 DEF OnlyStep
    <2>2. seq[n + 1] \in U
      BY <1>2
    <2>3. n \in Nat /\ \A i : i \in 1 .. n + 1 <=> i \in 1 .. n \/ i = n + 1
      BY <1>2
    <2>4. CASE seq[n + 1] \in S
      <3>1. f[n + 1] = Append(f[n], seq[n + 1])
        BY <2>1, <2>4
      <3>2. \A x : x \in ToSet(f[n + 1]) <=> x \in ToSet(f[n]) \/ x = seq[n + 1]
        BY <1>4, <2>2, <3>1, AppendSet
      <3> QED
        BY <1>4, <2>2, <2>3, <2>4, <3>1, <3>2
    <2>5. CASE seq[n + 1] \notin S
      BY <1>4, <2>1, <2>3, <2>5
    <2> QED
      BY <2>4, <2>5
  <1>5. \A n : n \in T <=> n \in 0 .. N /\ Right(n)
    OBVIOUS
  <1>6. Right(N)
    <2> HIDE DEF T, N, Right
    <2>1. 0 \in T /\ \A n \in 0 .. N - 1 : n \in T => n + 1 \in T
      BY <1>2, <1>3, <1>4, <1>5
    <2>2. \A i \in 0 .. N : i \in T
      BY <1>2, <2>1, Induction
    <2> QED
      BY <1>2, <1>5, <2>2
  <1>7. \A x : x \in ToSet(seq) <=> \E i \in 1 .. N : x = seq[i]
    BY <1>2 DEF ToSet
  <1> QED
    BY <1>1, <1>6, <1>7

-----------------------------------------------------------------------------
(* Sequences as the lists of the code: std::list and std::deque.           *)

\* The members of a sequence by index.
LEMMA SetOfSeq ==
    ASSUME NEW U, NEW s \in Seq(U)
    PROVE  /\ DOMAIN s = 1 .. Len(s) /\ Len(s) \in Nat
           /\ \A x : x \in ToSet(s) <=> \E i \in 1 .. Len(s) : x = s[i]
           /\ ToSet(s) \subseteq U
           /\ ToSet(s) = {} <=> s = <<>>
  BY DEF ToSet

\* NonEmpty keeps exactly the groups with players.
LEMMA NonEmptyIs ==
    ASSUME NEW U, NEW groups \in Seq(U)
    PROVE  /\ NonEmpty(groups) \in Seq(U)
           /\ \A x : x \in ToSet(NonEmpty(groups)) <=> x \in ToSet(groups) /\ x.players # {}
  <1> DEFINE S == {g \in ToSet(groups) : g.players # {}}
  <1>1. \A x : x \in S <=> x \in ToSet(groups) /\ x.players # {}
    OBVIOUS
  <1>2. NonEmpty(groups) = Only(groups, S)
    BY DEF NonEmpty
  <1> HIDE DEF S
  <1> QED
    BY <1>1, <1>2, OnlyIs

\* Without takes out exactly one value: the erase of a battleground from
\* BGFreeSlotQueue.
LEMMA WithoutIs ==
    ASSUME NEW U, NEW s \in Seq(U), NEW e
    PROVE  /\ Without(s, e) \in Seq(U)
           /\ \A x : x \in ToSet(Without(s, e)) <=> x \in ToSet(s) /\ x # e
  <1> DEFINE S == ToSet(s) \ {e}
  <1>1. Without(s, e) = Only(s, S)
    BY DEF Without
  <1>2. \A x : x \in S <=> x \in ToSet(s) /\ x # e
    OBVIOUS
  <1> HIDE DEF S
  <1> QED
    BY <1>1, <1>2, OnlyIs

\* Contains is membership.
LEMMA ContainsIs ==
    ASSUME NEW U, NEW s \in Seq(U), NEW e
    PROVE  Contains(s, e) <=> e \in ToSet(s)
  BY DEF Contains, ToSet

\* The members of two sequences together.
LEMMA ConcatSet ==
    ASSUME NEW U, NEW s \in Seq(U), NEW r \in Seq(U)
    PROVE  s \o r \in Seq(U) /\ ToSet(s \o r) = ToSet(s) \cup ToSet(r)
  <1> DEFINE c == s \o r
  <1>1. /\ c \in Seq(U) /\ Len(c) = Len(s) + Len(r) /\ Len(s) \in Nat /\ Len(r) \in Nat
        /\ \A i \in 1 .. Len(s) : c[i] = s[i]
        /\ \A i \in 1 .. Len(r) : c[Len(s) + i] = r[i]
        /\ \A i \in 1 .. Len(c) : i > Len(s) => i - Len(s) \in 1 .. Len(r) /\ c[i] = r[i - Len(s)]
    OBVIOUS
  <1> HIDE DEF c
  <1>2. ASSUME NEW x PROVE x \in ToSet(c) <=> x \in ToSet(s) \/ x \in ToSet(r)
    <2>1. ASSUME x \in ToSet(s) PROVE x \in ToSet(c)
      <3>1. PICK i \in 1 .. Len(s) : x = s[i]
        BY <2>1, SetOfSeq
      <3>2. i \in 1 .. Len(c) /\ c[i] = x
        BY <1>1, <3>1
      <3> QED
        BY <1>1, <3>2, SetOfSeq
    <2>2. ASSUME x \in ToSet(r) PROVE x \in ToSet(c)
      <3>1. PICK i \in 1 .. Len(r) : x = r[i]
        BY <2>2, SetOfSeq
      <3>2. Len(s) + i \in 1 .. Len(c) /\ c[Len(s) + i] = x
        BY <1>1, <3>1
      <3> QED
        BY <1>1, <3>2, SetOfSeq
    <2>3. ASSUME x \in ToSet(c) PROVE x \in ToSet(s) \/ x \in ToSet(r)
      <3>1. PICK i \in 1 .. Len(c) : x = c[i]
        BY <1>1, <2>3, SetOfSeq
      <3>2. CASE i > Len(s)
        BY <1>1, <3>1, <3>2, SetOfSeq
      <3>3. CASE i <= Len(s)
        <4>1. i \in 1 .. Len(s)
          BY <1>1, <3>1, <3>3
        <4> QED
          BY <1>1, <3>1, <4>1, SetOfSeq
      <3> QED
        BY <1>1, <3>1, <3>2, <3>3
    <2> QED
      BY <2>1, <2>2, <2>3
  <1> QED
    BY <1>1, <1>2 DEF c

\* The members of a sequence are its head and those of its tail.
LEMMA HeadTailSet ==
    ASSUME NEW U, NEW s \in Seq(U), s # <<>>
    PROVE  /\ Tail(s) \in Seq(U) /\ s[1] \in U /\ Head(s) = s[1]
           /\ ToSet(s) = {s[1]} \cup ToSet(Tail(s))
  <1> DEFINE r == Tail(s)
  <1>1. /\ r \in Seq(U) /\ Len(r) = Len(s) - 1 /\ Len(s) \in Nat \ {0}
        /\ \A i \in 1 .. Len(r) : r[i] = s[i + 1]
        /\ s[1] \in U /\ Head(s) = s[1]
    OBVIOUS
  <1> HIDE DEF r
  <1>2. ASSUME NEW x PROVE x \in ToSet(s) <=> x = s[1] \/ x \in ToSet(r)
    <2>1. x \in ToSet(s) <=> \E i \in 1 .. Len(s) : x = s[i]
      BY SetOfSeq
    <2>2. x \in ToSet(r) <=> \E i \in 1 .. Len(r) : x = r[i]
      BY <1>1, SetOfSeq
    <2>3. \A i \in 1 .. Len(s) : i = 1 \/ (i - 1 \in 1 .. Len(r) /\ r[i - 1] = s[i])
      BY <1>1
    <2>4. 1 \in 1 .. Len(s) /\ \A i \in 1 .. Len(r) : i + 1 \in 1 .. Len(s)
      BY <1>1
    <2> QED
      BY <1>1, <2>1, <2>2, <2>3, <2>4
  <1> QED
    BY <1>1, <1>2 DEF r

-----------------------------------------------------------------------------
(* What the operations of the queue do to its groups.                      *)
LEMMA GroupsAre ==
    ASSUME NEW queue, QueueType(queue)
    PROVE  /\ DOMAIN queue = Kinds
           /\ \A k \in Kinds, t \in Team : queue[k][t] \in Seq(Group)
           /\ \A x : x \in Groups(queue) <=> \E k \in Kinds, t \in Team : x \in ToSet(queue[k][t])
           /\ Groups(queue) \subseteq Group
  <1>1. DOMAIN queue = Kinds /\ \A k \in Kinds, t \in Team : queue[k][t] \in Seq(Group)
    BY DEF QueueType
  <1>2. \A x : x \in Groups(queue) <=> \E k \in Kinds, t \in Team : x \in ToSet(queue[k][t])
    BY <1>1 DEF Groups
  <1>3. \A k \in Kinds, t \in Team : ToSet(queue[k][t]) \subseteq Group
    BY <1>1, SetOfSeq
  <1> QED
    BY <1>1, <1>2, <1>3

\* The group without the player.
Smaller(g, p) == [g EXCEPT !.players = @ \ {p}]

\* A group that loses a player keeps its invitation.
LEMMA SmallerIs ==
    ASSUME NEW g \in Group, NEW p
    PROVE  /\ Smaller(g, p) \in Group
           /\ Smaller(g, p).players = g.players \ {p}
           /\ Smaller(g, p).invited = g.invited /\ Smaller(g, p).time = g.time
  BY DEF Smaller, Group

\* The same for all groups of a list.
LEMMA SmallerSeq ==
    ASSUME NEW s \in Seq(Group), NEW p
    PROVE  LET r == [i \in DOMAIN s |-> [s[i] EXCEPT !.players = @ \ {p}]]
           IN  /\ r \in Seq(Group)
               /\ \A x : x \in ToSet(r) <=> \E g \in ToSet(s) : x = Smaller(g, p)
  <1> DEFINE r == [i \in DOMAIN s |-> [s[i] EXCEPT !.players = @ \ {p}]]
  <1>1. DOMAIN s = 1 .. Len(s) /\ Len(s) \in Nat /\ \A i \in 1 .. Len(s) : s[i] \in Group
    OBVIOUS
  <1>2. r = [i \in 1 .. Len(s) |-> Smaller(s[i], p)]
    BY <1>1 DEF Smaller
  <1> HIDE DEF r
  <1>3. \A i \in 1 .. Len(s) : r[i] = Smaller(s[i], p) /\ r[i] \in Group
    BY <1>1, <1>2, SmallerIs
  <1>4. r \in Seq(Group) /\ Len(r) = Len(s)
    BY <1>1, <1>2, <1>3
  <1>5. \A x : x \in ToSet(r) <=> \E i \in 1 .. Len(s) : x = r[i]
    BY <1>4, SetOfSeq
  <1>6. \A x : x \in ToSet(s) <=> \E i \in 1 .. Len(s) : x = s[i]
    BY SetOfSeq
  <1>7. \A x : x \in ToSet(r) <=> \E g \in ToSet(s) : x = Smaller(g, p)
    BY <1>3, <1>5, <1>6
  <1> QED
    BY <1>4, <1>7 DEF r

\* RemovePlayer takes the player out of his group, and an empty group out of
\* its list.
LEMMA WithoutPlayerIs ==
    ASSUME NEW queue, QueueType(queue), NEW p
    PROVE  /\ QueueType(WithoutPlayer(queue, p))
           /\ \A x : x \in Groups(WithoutPlayer(queue, p)) <=>
                \E g \in Groups(queue) : g.players \ {p} # {} /\ x = Smaller(g, p)
  <1> DEFINE r(k, t) == [i \in DOMAIN queue[k][t] |->
                            [queue[k][t][i] EXCEPT !.players = @ \ {p}]]
             q == WithoutPlayer(queue, p)
  <1>1. \A k \in Kinds, t \in Team :
          /\ r(k, t) \in Seq(Group)
          /\ \A x : x \in ToSet(r(k, t)) <=> \E g \in ToSet(queue[k][t]) : x = Smaller(g, p)
    BY GroupsAre, SmallerSeq
  <1>2. q = [k \in Kinds |-> [t \in Team |-> NonEmpty(r(k, t))]]
    BY GroupsAre DEF WithoutPlayer
  <1> HIDE DEF r, q
  <1>3. \A k \in Kinds, t \in Team :
          /\ NonEmpty(r(k, t)) \in Seq(Group)
          /\ \A x : x \in ToSet(NonEmpty(r(k, t))) <=> x \in ToSet(r(k, t)) /\ x.players # {}
    BY <1>1, NonEmptyIs
  <1>4. \A k \in Kinds, t \in Team : q[k][t] = NonEmpty(r(k, t))
    BY <1>2
  <1>5. QueueType(q)
    BY <1>2, <1>3 DEF QueueType
  <1>6. \A x : x \in Groups(q) <=> \E k \in Kinds, t \in Team : x \in ToSet(r(k, t)) /\ x.players # {}
    BY <1>3, <1>4, <1>5, GroupsAre
  <1>7. \A k \in Kinds, t \in Team : ToSet(queue[k][t]) \subseteq Group
    BY GroupsAre, SetOfSeq
  <1>8. ASSUME NEW x, x \in Groups(q)
        PROVE  \E g \in Groups(queue) : g.players \ {p} # {} /\ x = Smaller(g, p)
    <2>1. PICK k \in Kinds, t \in Team : x \in ToSet(r(k, t)) /\ x.players # {}
      BY <1>6, <1>8
    <2>2. PICK g \in ToSet(queue[k][t]) : x = Smaller(g, p)
      BY <1>1, <2>1
    <2>3. g \in Groups(queue) /\ g \in Group
      BY <1>7, GroupsAre
    <2> QED
      BY <2>1, <2>2, <2>3, SmallerIs
  <1>9. ASSUME NEW g \in Groups(queue), g.players \ {p} # {} PROVE Smaller(g, p) \in Groups(q)
    <2>1. PICK k \in Kinds, t \in Team : g \in ToSet(queue[k][t])
      BY GroupsAre
    <2>2. Smaller(g, p) \in ToSet(r(k, t)) /\ Smaller(g, p).players # {}
      BY <1>1, <1>7, <1>9, <2>1, SmallerIs
    <2> QED
      BY <1>6, <2>2
  <1> QED
    BY <1>5, <1>8, <1>9 DEF q

\* The group a queued player is found in is a group of the queue that holds
\* him.
LEMMA GroupInfoIs ==
    ASSUME NEW p, p \in QueuedPlayers
    PROVE  GroupInfo(p) \in Groups(m_QueuedGroups) /\ p \in GroupInfo(p).players
  BY DEF GroupInfo, QueuedPlayers

\* A group is put at the end of a list.
WithGroup(queue, kind, t, g) == [queue EXCEPT ![kind][t] = Append(@, g)]

\* AddGroup adds one group to one list.
LEMMA WithGroupIs ==
    ASSUME NEW queue, QueueType(queue), NEW kind \in Kinds, NEW t \in Team, NEW g \in Group
    PROVE  /\ QueueType(WithGroup(queue, kind, t, g))
           /\ Groups(WithGroup(queue, kind, t, g)) = Groups(queue) \cup {g}
  <1> DEFINE q == WithGroup(queue, kind, t, g)
             s == Append(queue[kind][t], g)
  <1>1. s \in Seq(Group) /\ ToSet(s) = ToSet(queue[kind][t]) \cup {g}
    <2>1. queue[kind][t] \in Seq(Group)
      BY GroupsAre
    <2> QED
      BY <2>1, AppendSet
  <1>2. \A k \in Kinds, u \in Team : q[k][u] = IF k = kind /\ u = t THEN s ELSE queue[k][u]
    BY DEF WithGroup, QueueType
  <1>3. QueueType(q)
    BY <1>1 DEF WithGroup, QueueType
  <1> HIDE DEF q, s
  <1>4. \A x : x \in Groups(q) <=> x \in Groups(queue) \/ x = g
    <2>1. \A x : x \in Groups(q) <=> \E k \in Kinds, u \in Team : x \in ToSet(q[k][u])
      BY <1>3, GroupsAre
    <2>2. \A x : x \in Groups(queue) <=> \E k \in Kinds, u \in Team : x \in ToSet(queue[k][u])
      BY GroupsAre
    <2> QED
      BY <1>1, <1>2, <2>1, <2>2
  <1> QED
    BY <1>3, <1>4 DEF q

\* A group after InviteGroupToBG of the selected ones.
Chosen(g, selected, b) ==
    IF g.players \in selected THEN [g EXCEPT !.invited = b, !.time = serial + 1] ELSE g

\* A chosen group takes the invitation, any other group stays.
LEMMA ChosenIs ==
    ASSUME NEW g \in Group, NEW selected, NEW b \in Ids, serial \in Nat
    PROVE  /\ Chosen(g, selected, b) \in Group
           /\ Chosen(g, selected, b).players = g.players
           /\ g.players \in selected =>
                Chosen(g, selected, b).invited = b /\ Chosen(g, selected, b).time = serial + 1
           /\ g.players \notin selected => Chosen(g, selected, b) = g
  <1>1. CASE g.players \in selected
    <2> DEFINE n == serial + 1
    <2>1. n \in Nat
      OBVIOUS
    <2>2. Chosen(g, selected, b) = [g EXCEPT !.invited = b, !.time = n]
      BY <1>1 DEF Chosen
    <2> HIDE DEF n
    <2>3. Chosen(g, selected, b) = [players |-> g.players, invited |-> b, time |-> n]
      BY <2>2 DEF Group
    <2> QED
      BY <1>1, <2>1, <2>3 DEF Group, n
  <1>2. CASE g.players \notin selected
    BY <1>2 DEF Chosen
  <1> QED
    BY <1>1, <1>2

\* InviteGroupToBG changes exactly the chosen groups.
LEMMA InviteIs ==
    ASSUME NEW queue, QueueType(queue), NEW selected, NEW b \in Ids, serial \in Nat
    PROVE  /\ QueueType(Invite(queue, selected, b))
           /\ \A x : x \in Groups(Invite(queue, selected, b)) <=>
                \E g \in Groups(queue) : x = Chosen(g, selected, b)
  <1> DEFINE q == Invite(queue, selected, b)
             r(k, t) == [i \in DOMAIN queue[k][t] |-> Chosen(queue[k][t][i], selected, b)]
  <1>1. q = [k \in Kinds |-> [t \in Team |-> r(k, t)]]
    BY GroupsAre DEF Invite, Chosen
  <1>2. ASSUME NEW k \in Kinds, NEW t \in Team
        PROVE  /\ r(k, t) \in Seq(Group)
               /\ \A x : x \in ToSet(r(k, t)) <=>
                    \E g \in ToSet(queue[k][t]) : x = Chosen(g, selected, b)
    <2> DEFINE s == queue[k][t]
               c == r(k, t)
    <2>1. s \in Seq(Group)
      BY GroupsAre
    <2>2. c = [i \in DOMAIN s |-> Chosen(s[i], selected, b)]
      OBVIOUS
    <2> HIDE DEF s, c, r
    <2>3. DOMAIN s = 1 .. Len(s) /\ Len(s) \in Nat /\ \A i \in 1 .. Len(s) : s[i] \in Group
      BY <2>1
    <2>4. \A i \in 1 .. Len(s) : c[i] = Chosen(s[i], selected, b) /\ c[i] \in Group
      BY <2>2, <2>3, ChosenIs
    <2>5. c \in Seq(Group) /\ Len(c) = Len(s)
      BY <2>2, <2>3, <2>4
    <2>6. \A x : x \in ToSet(c) <=> \E i \in 1 .. Len(s) : x = c[i]
      BY <2>5, SetOfSeq
    <2>7. \A x : x \in ToSet(s) <=> \E i \in 1 .. Len(s) : x = s[i]
      BY <2>1, SetOfSeq
    <2>8. \A x : x \in ToSet(c) <=> \E g \in ToSet(s) : x = Chosen(g, selected, b)
      BY <2>4, <2>6, <2>7
    <2> QED
      BY <2>5, <2>8 DEF s, c
  <1> HIDE DEF q, r
  <1>3. QueueType(q) /\ \A k \in Kinds, t \in Team : q[k][t] = r(k, t)
    BY <1>1, <1>2 DEF QueueType
  <1>4. \A x : x \in Groups(q) <=> \E k \in Kinds, t \in Team : x \in ToSet(r(k, t))
    BY <1>3, GroupsAre
  <1>5. \A x : x \in Groups(queue) <=> \E k \in Kinds, t \in Team : x \in ToSet(queue[k][t])
    BY GroupsAre
  <1>6. \A x : x \in Groups(q) <=> \E g \in Groups(queue) : x = Chosen(g, selected, b)
    BY <1>2, <1>4, <1>5
  <1> QED
    BY <1>3, <1>6 DEF q

\* CheckPremadeMatch moves a group from one list to another, and the groups
\* stay the same.
LEMMA PremadeMovedIs ==
    ASSUME NEW queue, QueueType(queue), NEW late
    PROVE  /\ QueueType(PremadeMoved(queue, late))
           /\ Groups(PremadeMoved(queue, late)) = Groups(queue)
  <1> DEFINE q == PremadeMoved(queue, late)
             Moves(t) == /\ queue["premade"][t] # <<>>
                         /\ queue["premade"][t][1].invited = 0
                         /\ \/ t \in late
                            \/ Cardinality(queue["premade"][t][1].players) < MinPlayersPerTeam
             from(t) == Tail(queue["premade"][t])
             to(t) == <<queue["premade"][t][1]>> \o queue["normal"][t]
  <1>1. q = [premade |-> [t \in Team |-> IF Moves(t) THEN from(t) ELSE queue["premade"][t]],
             normal |-> [t \in Team |-> IF Moves(t) THEN to(t) ELSE queue["normal"][t]]]
    BY DEF PremadeMoved
  <1>2. \A t \in Team : Moves(t) => queue["premade"][t] # <<>>
    OBVIOUS
  <1> HIDE DEF Moves
  <1>3. ASSUME NEW t \in Team, Moves(t)
        PROVE  /\ from(t) \in Seq(Group) /\ to(t) \in Seq(Group)
               /\ ToSet(from(t)) \cup ToSet(to(t))
                    = ToSet(queue["premade"][t]) \cup ToSet(queue["normal"][t])
    <2> DEFINE s == queue["premade"][t]
               n == queue["normal"][t]
    <2>1. s \in Seq(Group) /\ n \in Seq(Group) /\ s # <<>>
      BY <1>2, <1>3, GroupsAre DEF Kinds
    <2> HIDE DEF s, n
    <2>2. /\ Tail(s) \in Seq(Group) /\ s[1] \in Group
          /\ ToSet(s) = {s[1]} \cup ToSet(Tail(s))
      BY <2>1, HeadTailSet
    <2> DEFINE e == s[1]
               h == <<e>>
    <2>3. h \in Seq(Group) /\ ToSet(h) = {e}
      BY <2>2 DEF ToSet
    <2>4. h \o n \in Seq(Group) /\ ToSet(h \o n) = ToSet(h) \cup ToSet(n)
      <3> HIDE DEF h
      <3> QED
        BY <2>1, <2>3, ConcatSet
    <2> QED
      BY <2>2, <2>3, <2>4 DEF s, n
  <1> HIDE DEF q, from, to
  <1>4. \A t \in Team : /\ q["premade"][t] = IF Moves(t) THEN from(t) ELSE queue["premade"][t]
                        /\ q["normal"][t] = IF Moves(t) THEN to(t) ELSE queue["normal"][t]
    BY <1>1
  <1>5. \A t \in Team : queue["premade"][t] \in Seq(Group) /\ queue["normal"][t] \in Seq(Group)
    BY GroupsAre DEF Kinds
  <1>6. q = [k \in Kinds |-> [t \in Team |-> q[k][t]]]
    BY <1>1 DEF Kinds
  <1>7. \A k \in Kinds, t \in Team : q[k][t] \in Seq(Group)
    BY <1>3, <1>4, <1>5 DEF Kinds
  <1>8. QueueType(q)
    BY <1>6, <1>7 DEF QueueType
  <1>9. \A x : x \in Groups(q) <=>
          \E t \in Team : x \in ToSet(q["premade"][t]) \cup ToSet(q["normal"][t])
    BY <1>8, GroupsAre DEF Kinds
  <1>10. \A x : x \in Groups(queue) <=>
          \E t \in Team : x \in ToSet(queue["premade"][t]) \cup ToSet(queue["normal"][t])
    BY GroupsAre DEF Kinds
  <1>11. \A t \in Team : ToSet(q["premade"][t]) \cup ToSet(q["normal"][t])
           = ToSet(queue["premade"][t]) \cup ToSet(queue["normal"][t])
    BY <1>3, <1>4
  <1> QED
    BY <1>8, <1>9, <1>10, <1>11 DEF q

\* f is scanned of Scan, up to n.
ScanUpto(queue, index, pool, desired, n, f) ==
    f = [i \in 0 .. n |-> IF i = 0 THEN [pool |-> pool, index |-> index]
                          ELSE ScanStep(queue[i], i, f[i - 1], desired)]

\* There is a scan up to every index.
LEMMA ScanExists ==
    ASSUME NEW queue, NEW index, NEW pool, NEW desired, NEW N \in Nat
    PROVE  \E f : ScanUpto(queue, index, pool, desired, N, f)
  <1> DEFINE T == {n \in Nat : \E f : ScanUpto(queue, index, pool, desired, n, f)}
  <1>0. \A n : n \in T <=> n \in Nat /\ \E f : ScanUpto(queue, index, pool, desired, n, f)
    OBVIOUS
  <1> HIDE DEF T
  <1>1. 0 \in T
    <2> DEFINE h == [i \in 0 .. 0 |-> [pool |-> pool, index |-> index]]
    <2>1. ScanUpto(queue, index, pool, desired, 0, h)
      BY DEF ScanUpto
    <2> QED
      BY <1>0, <2>1
  <1>2. ASSUME NEW n \in 0 .. N - 1, n \in T PROVE n + 1 \in T
    <2>1. PICK g : ScanUpto(queue, index, pool, desired, n, g)
      BY <1>0, <1>2
    <2> DEFINE h == [i \in 0 .. n + 1 |-> IF i = n + 1 THEN ScanStep(queue[n + 1], n + 1, g[n], desired) ELSE g[i]]
    <2>2. ScanUpto(queue, index, pool, desired, n + 1, h)
      BY <2>1 DEF ScanUpto
    <2> QED
      BY <1>0, <2>2
  <1>3. \A i \in 0 .. N : i \in T
    BY <1>1, <1>2, Induction
  <1> QED
    BY <1>0, <1>3

\* Scan is the scan of the whole list.
LEMMA ScanDefined ==
    ASSUME NEW queue, NEW index, NEW pool, NEW desired, Len(queue) \in Nat
    PROVE  \E f : ScanUpto(queue, index, pool, desired, Len(queue), f)
                  /\ Scan(queue, index, pool, desired) = f[Len(queue)]
  <1>1. PICK g : ScanUpto(queue, index, pool, desired, Len(queue), g)
    BY ScanExists
  <1> DEFINE scanned[n \in 0 .. Len(queue)] ==
          IF n = 0 THEN [pool |-> pool, index |-> index]
          ELSE ScanStep(queue[n], n, scanned[n - 1], desired)
  <1>2. Scan(queue, index, pool, desired) = scanned[Len(queue)]
    BY DEF Scan
  <1>3. scanned = [n \in 0 .. Len(queue) |->
          IF n = 0 THEN [pool |-> pool, index |-> index]
          ELSE ScanStep(queue[n], n, scanned[n - 1], desired)]
    BY <1>1 DEF ScanUpto
  <1>4. ScanUpto(queue, index, pool, desired, Len(queue), scanned)
    BY <1>3 DEF ScanUpto
  <1> QED
    BY <1>2, <1>4

Idle(S) == {g \in S : g.invited = 0}

\* AddGroup of a selection pool adds a waiting group, or nothing.
LEMMA AddedIs ==
    ASSUME NEW S, NEW g \in S, NEW pool \in Seq(Idle(S)), NEW desired
    PROVE  Added(pool, g, desired) \in Seq(Idle(S))
  <1>1. CASE CanAdd(pool, g, desired)
    <2>1. g \in Idle(S)
      BY <1>1 DEF CanAdd, Idle
    <2> QED
      BY <1>1, <2>1 DEF Added
  <1>2. CASE ~ CanAdd(pool, g, desired)
    BY <1>2 DEF Added
  <1> QED
    BY <1>1, <1>2

\* One step of a scan keeps a pool of waiting groups.
LEMMA ScanStepIs ==
    ASSUME NEW S, NEW g \in S, NEW n, NEW s, s.pool \in Seq(Idle(S)), NEW desired
    PROVE  ScanStep(g, n, s, desired).pool \in Seq(Idle(S))
  <1>1. Added(s.pool, g, desired) \in Seq(Idle(S))
    BY AddedIs
  <1> QED
    BY <1>1 DEF ScanStep

\* A scan of a list of groups fills the pool with waiting groups of the list.
LEMMA ScanIs ==
    ASSUME NEW S, NEW queue \in Seq(S), NEW index, NEW pool \in Seq(Idle(S)), NEW desired
    PROVE  Scan(queue, index, pool, desired).pool \in Seq(Idle(S))
  <1> DEFINE N == Len(queue)
  <1>1. PICK f : ScanUpto(queue, index, pool, desired, Len(queue), f)
                 /\ Scan(queue, index, pool, desired) = f[Len(queue)]
    BY ScanDefined
  <1> DEFINE T == {n \in 0 .. N : f[n].pool \in Seq(Idle(S))}
  <1>2. N \in Nat /\ \A n \in 1 .. N : queue[n] \in S
    OBVIOUS
  <1>3. f[0].pool \in Seq(Idle(S))
    BY <1>1, <1>2 DEF ScanUpto
  <1>4. ASSUME NEW n \in 1 .. N
        PROVE  f[n] = ScanStep(queue[n], n, f[n - 1], desired)
    <2>1. n \in 0 .. N /\ n # 0
      BY <1>2
    <2> QED
      BY <1>1, <2>1 DEF ScanUpto
  <1>5. \A n : n \in T <=> n \in 0 .. N /\ f[n].pool \in Seq(Idle(S))
    OBVIOUS
  <1> HIDE DEF N, T
  <1>6. ASSUME NEW n \in 0 .. N - 1, n \in T PROVE n + 1 \in T
    <2> DEFINE k == n + 1
    <2>1. k \in 1 .. N /\ k - 1 = n
      BY <1>2
    <2>2. queue[k] \in S /\ f[n].pool \in Seq(Idle(S))
      BY <1>2, <1>5, <1>6, <2>1
    <2>3. f[k] = ScanStep(queue[k], k, f[n], desired)
      BY <1>4, <2>1
    <2> HIDE DEF k
    <2>4. f[k].pool \in Seq(Idle(S))
      BY <2>2, <2>3, ScanStepIs
    <2>5. k \in T
      BY <1>2, <1>5, <2>1, <2>4
    <2> QED
      BY <2>5 DEF k
  <1>7. \A i \in 0 .. N : i \in T
    <2>1. N \in Nat /\ 0 \in T
      BY <1>2, <1>3, <1>5
    <2>2. \A n \in 0 .. N - 1 : n \in T => n + 1 \in T
      BY <1>6
    <2> QED
      BY <2>1, <2>2, Induction
  <1> QED
    BY <1>1, <1>2, <1>5, <1>7 DEF N

\* f is taken of Enough, up to n.
EnoughUpto(waiting, n, f) ==
    f = [i \in 0 .. n |-> IF i = 0 THEN [pool |-> <<>>, index |-> 1]
                          ELSE EnoughStep(waiting[i], f[i - 1])]

\* There is a selection up to every index.
LEMMA EnoughExists ==
    ASSUME NEW waiting, NEW N \in Nat
    PROVE  \E f : EnoughUpto(waiting, N, f)
  <1> DEFINE T == {n \in Nat : \E f : EnoughUpto(waiting, n, f)}
  <1>0. \A n : n \in T <=> n \in Nat /\ \E f : EnoughUpto(waiting, n, f)
    OBVIOUS
  <1> HIDE DEF T
  <1>1. 0 \in T
    <2> DEFINE h == [i \in 0 .. 0 |-> [pool |-> <<>>, index |-> 1]]
    <2>1. EnoughUpto(waiting, 0, h)
      BY DEF EnoughUpto
    <2> QED
      BY <1>0, <2>1
  <1>2. ASSUME NEW n \in 0 .. N - 1, n \in T PROVE n + 1 \in T
    <2>1. PICK g : EnoughUpto(waiting, n, g)
      BY <1>0, <1>2
    <2> DEFINE h == [i \in 0 .. n + 1 |-> IF i = n + 1 THEN EnoughStep(waiting[n + 1], g[n]) ELSE g[i]]
    <2>2. EnoughUpto(waiting, n + 1, h)
      BY <2>1 DEF EnoughUpto
    <2> QED
      BY <1>0, <2>2
  <1>3. \A i \in 0 .. N : i \in T
    BY <1>1, <1>2, Induction
  <1> QED
    BY <1>0, <1>3

\* Enough is the selection from the whole list.
LEMMA EnoughDefined ==
    ASSUME NEW waiting, Len(waiting) \in Nat
    PROVE  \E f : EnoughUpto(waiting, Len(waiting), f) /\ Enough(waiting) = f[Len(waiting)]
  <1>1. PICK g : EnoughUpto(waiting, Len(waiting), g)
    BY EnoughExists
  <1> DEFINE taken[n \in 0 .. Len(waiting)] ==
          IF n = 0 THEN [pool |-> <<>>, index |-> 1]
          ELSE EnoughStep(waiting[n], taken[n - 1])
  <1>2. Enough(waiting) = taken[Len(waiting)]
    BY DEF Enough
  <1>3. taken = [n \in 0 .. Len(waiting) |->
          IF n = 0 THEN [pool |-> <<>>, index |-> 1]
          ELSE EnoughStep(waiting[n], taken[n - 1])]
    BY <1>1 DEF EnoughUpto
  <1>4. EnoughUpto(waiting, Len(waiting), taken)
    BY <1>3 DEF EnoughUpto
  <1> QED
    BY <1>2, <1>4

\* One step of CheckNormalMatch selects a waiting group, or nothing.
LEMMA EnoughStepIs ==
    ASSUME NEW S, NEW g \in S, NEW s, s.pool \in Seq(Idle(S))
    PROVE  EnoughStep(g, s).pool \in Seq(Idle(S))
  <1> DEFINE desired == MaxPlayersPerTeam
  <1>1. Added(s.pool, g, desired) \in Seq(Idle(S))
    <2> HIDE DEF desired
    <2> QED
      BY AddedIs
  <1> QED
    BY <1>1 DEF EnoughStep

\* CheckNormalMatch selects waiting groups of the list.
LEMMA EnoughIs ==
    ASSUME NEW S, NEW waiting \in Seq(S)
    PROVE  Enough(waiting).pool \in Seq(Idle(S))
  <1> DEFINE N == Len(waiting)
  <1>1. PICK f : EnoughUpto(waiting, Len(waiting), f) /\ Enough(waiting) = f[Len(waiting)]
    BY EnoughDefined
  <1> DEFINE T == {n \in 0 .. N : f[n].pool \in Seq(Idle(S))}
  <1>2. N \in Nat /\ \A n \in 1 .. N : waiting[n] \in S
    OBVIOUS
  <1>3. f[0].pool \in Seq(Idle(S))
    <2>1. f[0] = [pool |-> <<>>, index |-> 1]
      BY <1>1, <1>2 DEF EnoughUpto
    <2> QED
      BY <2>1
  <1>4. \A n \in 1 .. N : f[n] = EnoughStep(waiting[n], f[n - 1])
    <2>1. f = [i \in 0 .. N |-> IF i = 0 THEN [pool |-> <<>>, index |-> 1]
                                ELSE EnoughStep(waiting[i], f[i - 1])]
      BY <1>1 DEF EnoughUpto
    <2>2. \A n \in 1 .. N : n \in 0 .. N /\ n # 0
      BY <1>2
    <2> HIDE DEF N
    <2> QED
      BY <2>1, <2>2
  <1>5. \A n : n \in T <=> n \in 0 .. N /\ f[n].pool \in Seq(Idle(S))
    OBVIOUS
  <1> HIDE DEF N, T
  <1>6. ASSUME NEW n \in 0 .. N - 1, n \in T PROVE n + 1 \in T
    <2> DEFINE k == n + 1
    <2>1. k \in 1 .. N /\ k - 1 = n
      BY <1>2
    <2>2. waiting[k] \in S /\ f[n].pool \in Seq(Idle(S))
      BY <1>2, <1>5, <1>6, <2>1
    <2>3. f[k] = EnoughStep(waiting[k], f[n])
      BY <1>4, <2>1
    <2> HIDE DEF k
    <2>4. f[k].pool \in Seq(Idle(S))
      BY <2>2, <2>3, EnoughStepIs
    <2>5. k \in T
      BY <1>2, <1>5, <2>1, <2>4
    <2> QED
      BY <2>5 DEF k
  <1>7. \A i \in 0 .. N : i \in T
    <2>1. N \in Nat /\ 0 \in T
      BY <1>2, <1>3, <1>5
    <2>2. \A n \in 0 .. N - 1 : n \in T => n + 1 \in T
      BY <1>6
    <2> QED
      BY <2>1, <2>2, Induction
  <1> QED
    BY <1>1, <1>2, <1>5, <1>7 DEF N

\* A set of bounded numbers that is not empty has a greatest one.
LEMMA Greatest ==
    ASSUME NEW N \in Nat, NEW T, T # {}, \A x \in T : x \in Nat /\ x <= N
    PROVE  \E m \in T : \A n \in T : m >= n
  <1> DEFINE R == {N - x : x \in T}
  <1>1. \A x \in T : x \in 0 .. N /\ N - x \in R /\ N - x \in Nat
    OBVIOUS
  <1>2. R \in SUBSET Nat /\ R # {} /\ \A r \in R : \E x \in T : r = N - x
    BY <1>1
  <1> HIDE DEF R
  <1>3. PICK r \in R : \A q \in R : r <= q
    BY <1>2, Least
  <1>4. PICK m \in T : r = N - m
    BY <1>2
  <1>5. ASSUME NEW n \in T PROVE m >= n
    <2>1. r <= N - n
      BY <1>1, <1>3
    <2> QED
      BY <1>1, <1>4, <2>1
  <1> QED
    BY <1>5

\* Every set of players has a number of members.
LEMMA Counted ==
    ASSUME QueueAssumption, NEW X \in SUBSET Player
    PROVE  IsFiniteSet(X) /\ Cardinality(X) \in 0 .. Cardinality(Player)
           /\ Cardinality(Player) \in Nat
  <1>1. IsFiniteSet(Player)
    BY DEF QueueAssumption
  <1>2. IsFiniteSet(X) /\ Cardinality(X) <= Cardinality(Player)
    BY <1>1, FS_Subset
  <1> QED
    BY <1>1, <1>2, FS_CardinalityType

\* There is a group to kick.
LEMMA KickedIs ==
    ASSUME QueueAssumption, NEW pool \in Seq(Group), pool # <<>>, NEW size
    PROVE  KickedIndex(pool, size) \in 1 .. Len(pool)
  <1> DEFINE Size(i) == Cardinality(pool[i].players)
             near == {i \in DOMAIN pool : Near(Size(i), size)}
             largest == {i \in DOMAIN pool : \A j \in DOMAIN pool : Size(i) >= Size(j)}
             from == IF near # {} THEN near ELSE largest
             N == Len(pool)
             M == Cardinality(Player)
             sizes == {Size(i) : i \in 1 .. N}
  <1>1. N \in Nat /\ N # 0 /\ DOMAIN pool = 1 .. N
    OBVIOUS
  <1>2. \A i \in 1 .. N : pool[i].players \in SUBSET Player
    <2>1. \A i \in 1 .. N : pool[i] \in Group
      OBVIOUS
    <2> QED
      BY <2>1 DEF Group
  <1>3. M \in Nat /\ \A i \in 1 .. N : Size(i) \in 0 .. M
    <2>1. \A X \in SUBSET Player : Cardinality(X) \in 0 .. Cardinality(Player)
                                   /\ Cardinality(Player) \in Nat
      BY Counted
    <2> QED
      BY <1>1, <1>2, <2>1
  <1>4. near \in SUBSET (1 .. N) /\ largest \in SUBSET (1 .. N)
    BY <1>1
  <1>5. KickedIndex(pool, size) = CHOOSE i \in from : \A j \in from : i >= j
    BY DEF KickedIndex
  <1>6. \A i \in 1 .. N : (\A j \in 1 .. N : Size(i) >= Size(j)) => i \in largest
    BY <1>1
  <1> HIDE DEF near, Size, N, M
  <1>7. PICK top \in sizes : \A n \in sizes : top >= n
    <2>1. sizes # {} /\ \A x \in sizes : x \in Nat /\ x <= M
      BY <1>1, <1>3
    <2> HIDE DEF sizes
    <2> QED
      BY <1>3, <2>1, Greatest
  <1>8. PICK at \in 1 .. N : top = Size(at)
    BY <1>7
  <1>9. largest # {}
    BY <1>6, <1>7, <1>8
  <1> HIDE DEF largest
  <1>10. /\ from # {} /\ from \subseteq 1 .. N
         /\ \A x \in from : x \in Nat /\ x <= N
    BY <1>1, <1>4, <1>9
  <1> HIDE DEF from
  <1>11. \E i \in from : \A j \in from : i >= j
    <2>1. N \in Nat /\ from # {} /\ \A x \in from : x \in Nat /\ x <= N
      BY <1>1, <1>10
    <2>2. \E m \in from : \A n \in from : m >= n
      BY <2>1, Greatest
    <2> QED
      BY <2>2
  <1>12. (CHOOSE i \in from : \A j \in from : i >= j) \in from
    BY <1>11
  <1> QED
    BY <1>5, <1>10, <1>12 DEF N

\* Taking one element out leaves a sequence of the same elements.
LEMMA RemoveAtIs ==
    ASSUME NEW U, NEW s \in Seq(U), NEW i \in 1 .. Len(s)
    PROVE  RemoveAt(s, i) \in Seq(U)
  <1>1. SubSeq(s, 1, i - 1) \in Seq(U)
    OBVIOUS
  <1>2. SubSeq(s, i + 1, Len(s)) \in Seq(U)
    OBVIOUS
  <1> DEFINE a == SubSeq(s, 1, i - 1)
             b == SubSeq(s, i + 1, Len(s))
  <1>3. RemoveAt(s, i) = a \o b
    BY DEF RemoveAt
  <1> HIDE DEF a, b
  <1>4. a \o b \in Seq(U)
    BY <1>1, <1>2 DEF a, b
  <1> QED
    BY <1>3, <1>4

\* KickGroup leaves a pool of waiting groups.
LEMMA KickGroupIs ==
    ASSUME QueueAssumption, NEW S \in SUBSET Group, NEW pool \in Seq(Idle(S)), NEW size
    PROVE  KickGroup(pool, size).pool \in Seq(Idle(S))
  <1>1. CASE pool = <<>>
    BY <1>1 DEF KickGroup
  <1>2. CASE pool # <<>>
    <2> DEFINE i == KickedIndex(pool, size)
    <2>1. pool \in Seq(Group)
      <3>1. Idle(S) \subseteq Group
        BY DEF Idle
      <3> QED
        BY <3>1
    <2>2. i \in 1 .. Len(pool)
      BY <1>2, <2>1, KickedIs
    <2> HIDE DEF i
    <2>3. RemoveAt(pool, i) \in Seq(Idle(S))
      BY <2>2, RemoveAtIs
    <2>4. KickGroup(pool, size).pool = RemoveAt(pool, i)
      BY <1>2 DEF KickGroup, i
    <2> QED
      BY <2>3, <2>4
  <1> QED
    BY <1>1, <1>2

TeamPools(pools, S) == \A t \in Team : pools[t] \in Seq(Idle(S))

\* One round of the balancing of FillPlayersToBG leaves pools of waiting
\* groups.
LEMMA BalanceStepIs ==
    ASSUME QueueAssumption, NEW S \in SUBSET Group,
           NEW queue, \A t \in Team : queue[t] \in Seq(S), NEW free,
           NEW s, TeamPools(s.pools, S)
    PROVE  TeamPools(BalanceStep(queue, free, s).pools, S)
  <1> DEFINE left == [t \in Team |-> free[t] - PlayerCount(s.pools[t])]
             low == IF left["alliance"] < left["horde"] THEN "alliance" ELSE "horde"
             high == Other(low)
             gap == left[high] - left[low]
             kicked == KickGroup(s.pools[low], gap)
             room == IF free[low] >= left[high] THEN free[low] - left[high] ELSE 0
             refilled == IF kicked.more THEN Scan(queue[low], s.index[low], kicked.pool, room)
                         ELSE [pool |-> kicked.pool, index |-> s.index[low]]
             emptied == refilled.pool = <<>>
             stop == emptied /\ free[low] <= left[high] + 1
             r == BalanceStep(queue, free, s)
             other == KickGroup(s.pools[high], gap).pool
             q == queue[low]
             ix == s.index[low]
             p == s.pools[low]
             kp == kicked.pool
  <1>1. low \in Team /\ high \in Team
    BY DEF Team, Other
  <1>2. r = s \/ (\A t \in Team : r.pools[t] \in {refilled.pool, other, s.pools[high]})
    <2> DEFINE done == s.done \/ gap <= 1 \/ \A t \in Team : s.pools[t] = <<>>
               pools == [t \in Team |->
                 IF t = low THEN refilled.pool
                 ELSE IF emptied /\ ~stop THEN KickGroup(s.pools[high], gap).pool
                 ELSE s.pools[high]]
               ind == [s.index EXCEPT ![low] = refilled.index]
    <2>1. r = IF done THEN s ELSE [pools |-> pools, index |-> ind, done |-> stop]
      BY DEF BalanceStep
    <2> HIDE DEF done, r, ind, stop
    <2>2. r = s \/ r.pools = pools
      BY <2>1
    <2> HIDE DEF emptied, refilled, gap, high, low
    <2> QED
      BY <2>2
  <1> HIDE DEF r, room, gap, low, high, left
  <1>3. p \in Seq(Idle(S)) /\ s.pools[high] \in Seq(Idle(S))
    BY <1>1 DEF TeamPools
  <1>4. other \in Seq(Idle(S))
    <2> DEFINE o == s.pools[high]
    <2>1. o \in Seq(Idle(S)) /\ other = KickGroup(o, gap).pool
      BY <1>3
    <2> HIDE DEF o, other
    <2> QED
      BY <2>1, KickGroupIs
  <1>5. kp \in Seq(Idle(S))
    <2>1. kp = KickGroup(p, gap).pool
      OBVIOUS
    <2> HIDE DEF p, kp
    <2> QED
      BY <1>3, <2>1, KickGroupIs
  <1>6. refilled.pool \in Seq(Idle(S))
    <2>1. refilled = IF kicked.more THEN Scan(q, ix, kp, room) ELSE [pool |-> kp, index |-> ix]
      OBVIOUS
    <2>2. q \in Seq(S)
      BY <1>1
    <2> HIDE DEF q, ix, kp, kicked, refilled
    <2>3. Scan(q, ix, kp, room).pool \in Seq(Idle(S))
      BY <1>5, <2>2, ScanIs
    <2> QED
      BY <1>5, <2>1, <2>3
  <1> HIDE DEF refilled, other
  <1> QED
    BY <1>2, <1>3, <1>4, <1>6 DEF r, TeamPools

\* The state that the balancing starts with.
Filled(first) == [pools |-> [t \in Team |-> first[t].pool],
                  index |-> [t \in Team |-> first[t].index], done |-> FALSE]

\* f is balanced of FillPlayersToBG, up to n.
BalanceUpto(queue, free, first, n, f) ==
    f = [i \in 0 .. n |-> IF i = 0 THEN Filled(first)
                          ELSE BalanceStep(queue, free, f[i - 1])]

\* There is a balancing of every number of rounds.
LEMMA BalanceExists ==
    ASSUME NEW queue, NEW free, NEW first, NEW N \in Nat
    PROVE  \E f : BalanceUpto(queue, free, first, N, f)
  <1> DEFINE T == {n \in Nat : \E f : BalanceUpto(queue, free, first, n, f)}
  <1>0. \A n : n \in T <=> n \in Nat /\ \E f : BalanceUpto(queue, free, first, n, f)
    OBVIOUS
  <1> HIDE DEF T
  <1>1. 0 \in T
    <2> DEFINE h == [i \in 0 .. 0 |-> Filled(first)]
    <2>1. BalanceUpto(queue, free, first, 0, h)
      BY DEF BalanceUpto
    <2> QED
      BY <1>0, <2>1
  <1>2. ASSUME NEW n \in 0 .. N - 1, n \in T PROVE n + 1 \in T
    <2>1. PICK g : BalanceUpto(queue, free, first, n, g)
      BY <1>0, <1>2
    <2> DEFINE h == [i \in 0 .. n + 1 |-> IF i = n + 1 THEN BalanceStep(queue, free, g[n]) ELSE g[i]]
    <2>2. BalanceUpto(queue, free, first, n + 1, h)
      BY <2>1 DEF BalanceUpto
    <2> QED
      BY <1>0, <2>2
  <1>3. \A i \in 0 .. N : i \in T
    BY <1>1, <1>2, Induction
  <1> QED
    BY <1>0, <1>3

\* FillPlayersToBG selects waiting groups of the queues it is given.
LEMMA FillPlayersIs ==
    ASSUME QueueAssumption, NEW S \in SUBSET Group,
           NEW queue, \A t \in Team : queue[t] \in Seq(S), NEW bg
    PROVE  TeamPools(FillPlayersToBG(queue, bg), S)
  <1> DEFINE free == [t \in Team |-> GetFreeSlotsForTeam(bg, t)]
             first == [t \in Team |-> Scan(queue[t], 1, <<>>, free[t])]
             N == Cardinality(Player)
             start == [pools |-> [t \in Team |-> first[t].pool],
                       index |-> [t \in Team |-> first[t].index], done |-> FALSE]
             balanced[n \in 0 .. Cardinality(Player)] ==
               IF n = 0 THEN [pools |-> [t \in Team |-> first[t].pool],
                              index |-> [t \in Team |-> first[t].index], done |-> FALSE]
               ELSE BalanceStep(queue, free, balanced[n - 1])
  <1>1. FillPlayersToBG(queue, bg) =
          IF InvitationType = 0 THEN [t \in Team |-> first[t].pool]
          ELSE balanced[Cardinality(Player)].pools
    BY DEF FillPlayersToBG
  <1>2. N \in Nat
    BY Counted
  <1>3. \A t \in Team : first[t].pool \in Seq(Idle(S))
    <2> SUFFICES ASSUME NEW t \in Team PROVE first[t].pool \in Seq(Idle(S))
      OBVIOUS
    <2> DEFINE q == queue[t]
               e == <<>>
               r == free[t]
               o == 1
    <2>1. q \in Seq(S) /\ e \in Seq(Idle(S)) /\ first[t] = Scan(q, o, e, r)
      OBVIOUS
    <2> HIDE DEF q, e, r, o, first
    <2>2. Scan(q, o, e, r).pool \in Seq(Idle(S))
      BY <2>1, ScanIs
    <2> QED
      BY <2>1, <2>2
  <1> HIDE DEF free, first
  <1>4. PICK g : BalanceUpto(queue, free, first, Cardinality(Player), g)
    BY <1>2, BalanceExists
  <1>5. balanced = [n \in 0 .. Cardinality(Player) |->
          IF n = 0 THEN [pools |-> [t \in Team |-> first[t].pool],
                         index |-> [t \in Team |-> first[t].index], done |-> FALSE]
          ELSE BalanceStep(queue, free, balanced[n - 1])]
    BY <1>4 DEF BalanceUpto, Filled
  <1> DEFINE T == {n \in 0 .. N : TeamPools(balanced[n].pools, S)}
  <1> HIDE DEF balanced
  <1>6. balanced[0].pools = [t \in Team |-> first[t].pool]
    BY <1>2, <1>5
  <1>7. ASSUME NEW n \in 1 .. N PROVE balanced[n] = BalanceStep(queue, free, balanced[n - 1])
    <2>1. n \in 0 .. Cardinality(Player) /\ n # 0
      BY <1>2
    <2> QED
      BY <1>5, <2>1
  <1>8. \A n : n \in T <=> n \in 0 .. N /\ TeamPools(balanced[n].pools, S)
    OBVIOUS
  <1> HIDE DEF T, N
  <1>9. 0 \in T
    BY <1>2, <1>3, <1>6, <1>8 DEF TeamPools
  <1>10. ASSUME NEW n \in 0 .. N - 1, n \in T PROVE n + 1 \in T
    <2> DEFINE k == n + 1
    <2>1. k \in 1 .. N /\ k - 1 = n /\ k \in 0 .. N
      BY <1>2
    <2> DEFINE s == balanced[n]
    <2>2. balanced[k] = BalanceStep(queue, free, s)
      BY <1>7, <2>1
    <2>3. TeamPools(s.pools, S)
      BY <1>8, <1>10
    <2> HIDE DEF k, s
    <2>4. TeamPools(balanced[k].pools, S)
      BY <2>2, <2>3, BalanceStepIs
    <2> QED
      BY <1>8, <2>1, <2>4 DEF k
  <1>11. \A i \in 0 .. N : i \in T
    <2>1. \A n \in 0 .. N - 1 : n \in T => n + 1 \in T
      BY <1>10
    <2> QED
      BY <1>2, <1>9, <2>1, Induction
  <1>12. TeamPools(balanced[Cardinality(Player)].pools, S)
    BY <1>2, <1>8, <1>11 DEF N
  <1> QED
    BY <1>1, <1>3, <1>12 DEF TeamPools

\* The groups that wait in a list are groups of the list.
LEMMA UninvitedIs ==
    ASSUME NEW S, NEW s \in Seq(S)
    PROVE  Uninvited(s) \in Seq(S)
  <1> DEFINE X == {g \in ToSet(s) : g.invited = 0}
  <1>1. Uninvited(s) = Only(s, X)
    BY DEF Uninvited
  <1> HIDE DEF X
  <1> QED
    BY <1>1, OnlyIs

\* Every list of the queue holds groups of the queue.
LEMMA QueueSeqs ==
    ASSUME NEW queue, QueueType(queue)
    PROVE  /\ Groups(queue) \in SUBSET Group
           /\ \A k \in Kinds, t \in Team : queue[k][t] \in Seq(Groups(queue))
  <1>1. ASSUME NEW k \in Kinds, NEW t \in Team PROVE queue[k][t] \in Seq(Groups(queue))
    <2> DEFINE s == queue[k][t]
    <2>1. s \in Seq(Group) /\ ToSet(s) \subseteq Groups(queue)
      BY GroupsAre
    <2> HIDE DEF s
    <2>2. DOMAIN s = 1 .. Len(s) /\ Len(s) \in Nat /\ \A i \in 1 .. Len(s) : s[i] \in Groups(queue)
      BY <2>1, SetOfSeq
    <2>3. s \in Seq(Groups(queue))
      BY <2>1, <2>2
    <2> QED
      BY <2>3 DEF s
  <1> QED
    BY <1>1, GroupsAre

\* CheckPremadeMatch selects waiting groups of the queue.
LEMMA PremadePoolsAre ==
    ASSUME NEW queue, QueueType(queue)
    PROVE  TeamPools(PremadePools(queue), Groups(queue))
  <1> DEFINE S == Groups(queue)
             first == [t \in Team |-> Uninvited(queue["premade"][t])[1]]
             premade == [t \in Team |-> Added(<<>>, first[t], MaxPlayersPerTeam)]
             maxPlayers == MinOf(PlayerCount(premade["alliance"]), PlayerCount(premade["horde"]))
             none == \E t \in Team : Uninvited(queue["premade"][t]) = <<>>
             r == PremadePools(queue)
  <1>1. r = IF none THEN NobodySelected
            ELSE [t \in Team |->
                 Scan(Uninvited(queue["normal"][t]), 1, premade[t], maxPlayers).pool]
    BY DEF PremadePools
  <1>2. CASE none
    <2>1. \A t \in Team : r[t] = <<>>
      BY <1>1, <1>2 DEF NobodySelected
    <2>2. <<>> \in Seq(Idle(S))
      OBVIOUS
    <2> HIDE DEF r, S
    <2>3. \A t \in Team : r[t] \in Seq(Idle(S))
      BY <2>1, <2>2
    <2> QED
      BY <2>3 DEF TeamPools, r, S
  <1>3. CASE ~ none
    <2> SUFFICES ASSUME NEW t \in Team PROVE r[t] \in Seq(Idle(S))
      BY DEF TeamPools
    <2> DEFINE p == queue["premade"][t]
               q == queue["normal"][t]
               u == Uninvited(q)
               v == Uninvited(p)
               g == v[1]
               e == <<>>
               m == MaxPlayersPerTeam
               o == 1
               start == Added(e, g, m)
    <2>1. r[t] = Scan(u, o, start, maxPlayers).pool
      BY <1>1, <1>3
    <2>2. p \in Seq(S) /\ q \in Seq(S)
      BY QueueSeqs DEF Kinds
    <2>3. v # <<>>
      BY <1>3
    <2> HIDE DEF p, q, S, maxPlayers, m, o
    <2>4. u \in Seq(S) /\ v \in Seq(S)
      BY <2>2, UninvitedIs
    <2> HIDE DEF u, v
    <2>5. g \in S
      BY <2>3, <2>4
    <2>6. e \in Seq(Idle(S))
      OBVIOUS
    <2> HIDE DEF e, g
    <2>7. start \in Seq(Idle(S))
      BY <2>5, <2>6, AddedIs
    <2> HIDE DEF start
    <2>8. Scan(u, o, start, maxPlayers).pool \in Seq(Idle(S))
      BY <2>4, <2>7, ScanIs
    <2> QED
      BY <2>1, <2>8
  <1> QED
    BY <1>2, <1>3

\* CheckNormalMatch selects waiting groups of the queue.
LEMMA NormalPoolsAre ==
    ASSUME NEW queue, QueueType(queue)
    PROVE  TeamPools(NormalPools(queue), Groups(queue))
  <1> DEFINE S == Groups(queue)
             waiting == [t \in Team |-> Uninvited(queue["normal"][t])]
             enough == [t \in Team |-> Enough(waiting[t])]
             count == [t \in Team |-> PlayerCount(enough[t].pool)]
             j == IF count["horde"] < count["alliance"] THEN "horde" ELSE "alliance"
             more == Scan(waiting[j], enough[j].index, enough[j].pool, count[Other(j)]).pool
             balanced == [t \in Team |-> IF t = j THEN more ELSE enough[t].pool]
             few == \E t \in Team : count[t] < MinPlayersPerTeam
             plain == [t \in Team |-> enough[t].pool]
             near == PlayerCount(balanced["horde"]) - PlayerCount(balanced["alliance"]) \in -2 .. 2
             r == NormalPools(queue)
  <1>1. r = IF few THEN NobodySelected
            ELSE IF InvitationType = 0 THEN plain
            ELSE IF near THEN balanced ELSE NobodySelected
    BY DEF NormalPools
  <1>2. r = NobodySelected \/ r = plain \/ r = balanced
    <2> HIDE DEF r, few, plain, near, balanced
    <2> QED
      BY <1>1
  <1>3. j \in Team
    BY DEF Team
  <1>4. ASSUME NEW t \in Team
        PROVE  waiting[t] \in Seq(S) /\ enough[t].pool \in Seq(Idle(S))
    <2> DEFINE q == queue["normal"][t]
               u == Uninvited(q)
    <2>1. q \in Seq(S) /\ waiting[t] = u /\ enough[t] = Enough(u)
      BY QueueSeqs DEF Kinds
    <2> HIDE DEF q, S, waiting, enough
    <2>2. u \in Seq(S)
      BY <2>1, UninvitedIs
    <2> HIDE DEF u
    <2>3. Enough(u).pool \in Seq(Idle(S))
      BY <2>2, EnoughIs
    <2> QED
      BY <2>1, <2>2, <2>3
  <1>5. more \in Seq(Idle(S))
    <2> DEFINE q == waiting[j]
               i == enough[j].index
               p == enough[j].pool
               c == count[Other(j)]
    <2>1. q \in Seq(S) /\ p \in Seq(Idle(S)) /\ more = Scan(q, i, p, c).pool
      BY <1>3, <1>4
    <2> HIDE DEF q, i, p, c, more, S
    <2> QED
      BY <2>1, ScanIs
  <1> HIDE DEF r, S, enough, more, j, waiting, count
  <1>6. ASSUME NEW t \in Team PROVE r[t] \in Seq(Idle(S))
    <2>1. r[t] = <<>> \/ r[t] = enough[t].pool \/ r[t] = more
      BY <1>2 DEF NobodySelected
    <2>2. <<>> \in Seq(Idle(S))
      OBVIOUS
    <2>3. enough[t].pool \in Seq(Idle(S))
      BY <1>4
    <2> QED
      BY <1>5, <2>1, <2>2, <2>3
  <1> QED
    BY <1>6 DEF r, S, TeamPools

\* f is filled of FillBattlegrounds, up to n.
FillUpto(w, n, f) ==
    f = [i \in 0 .. n |-> IF i = 0 THEN w
                          ELSE FillBattleground(f[i - 1], w.free[i])]

\* There is a filling of every number of battlegrounds.
LEMMA FillExists ==
    ASSUME NEW w, NEW N \in Nat
    PROVE  \E f : FillUpto(w, N, f)
  <1> DEFINE T == {n \in Nat : \E f : FillUpto(w, n, f)}
  <1>0. \A n : n \in T <=> n \in Nat /\ \E f : FillUpto(w, n, f)
    OBVIOUS
  <1> HIDE DEF T
  <1>1. 0 \in T
    <2> DEFINE h == [i \in 0 .. 0 |-> w]
    <2>1. FillUpto(w, 0, h)
      BY DEF FillUpto
    <2> QED
      BY <1>0, <2>1
  <1>2. ASSUME NEW n \in 0 .. N - 1, n \in T PROVE n + 1 \in T
    <2>1. PICK g : FillUpto(w, n, g)
      BY <1>0, <1>2
    <2> DEFINE h == [i \in 0 .. n + 1 |-> IF i = n + 1 THEN FillBattleground(g[n], w.free[n + 1]) ELSE g[i]]
    <2>2. FillUpto(w, n + 1, h)
      BY <2>1 DEF FillUpto
    <2> QED
      BY <1>0, <2>2
  <1>3. \A i \in 0 .. N : i \in T
    BY <1>1, <1>2, Induction
  <1> QED
    BY <1>0, <1>3

\* FillBattlegrounds is the filling of all battlegrounds with free slots.
LEMMA FillDefined ==
    ASSUME NEW w, Len(w.free) \in Nat
    PROVE  \E f : FillUpto(w, Len(w.free), f) /\ FillBattlegrounds(w) = f[Len(w.free)]
  <1>1. PICK g : FillUpto(w, Len(w.free), g)
    BY FillExists
  <1> DEFINE filled[n \in 0 .. Len(w.free)] ==
          IF n = 0 THEN w ELSE FillBattleground(filled[n - 1], w.free[n])
  <1>2. FillBattlegrounds(w) = filled[Len(w.free)]
    BY DEF FillBattlegrounds
  <1>3. filled = [n \in 0 .. Len(w.free) |->
          IF n = 0 THEN w ELSE FillBattleground(filled[n - 1], w.free[n])]
    BY <1>1 DEF FillUpto
  <1>4. FillUpto(w, Len(w.free), filled)
    BY <1>3 DEF FillUpto
  <1> QED
    BY <1>2, <1>4

-----------------------------------------------------------------------------
(* Counting players modulo the width of a counter.                         *)
LEMMA ModIs ==
    ASSUME NEW x \in Int, NEW m \in Nat, m > 0
    PROVE  /\ x % m \in 0 .. m - 1 /\ x \div m \in Int
           /\ x = m * (x \div m) + (x % m)
  OBVIOUS

\* Two remainders that differ by a multiple are the same.
LEMMA ModUnique ==
    ASSUME NEW m \in Nat, m > 0, NEW a \in 0 .. m - 1, NEW b \in 0 .. m - 1,
           NEW k \in Int, a = b + m * k
    PROVE  a = b
  <1>1. CASE k >= 1
    <2>1. m * k >= m
      BY <1>1
    <2> QED
      BY <2>1
  <1>2. CASE k <= -1
    <2>1. m * k <= -m
      BY <1>2
    <2> QED
      BY <2>1
  <1>3. CASE k = 0
    BY <1>3
  <1> QED
    BY <1>1, <1>2, <1>3

\* A sum may be reduced first: the uint32 counters wrap.
LEMMA ModAdd ==
    ASSUME NEW x \in Int, NEW y \in Int, NEW m \in Nat, m > 0
    PROVE  ((x % m) + y) % m = (x + y) % m
  <1> DEFINE a == ((x % m) + y) % m
             b == (x + y) % m
             i == x \div m
             z == (x % m) + y
             v == x + y
             j == z \div m
             k == v \div m
             l == k - i - j
  <1>1. i \in Int /\ x = m * i + (x % m) /\ x % m \in Int
    BY ModIs
  <1>2. z \in Int /\ v \in Int
    BY <1>1
  <1> HIDE DEF z, v
  <1>3. j \in Int /\ z = m * j + (z % m) /\ z % m \in 0 .. m - 1
    BY <1>2, ModIs
  <1>4. k \in Int /\ v = m * k + (v % m) /\ v % m \in 0 .. m - 1
    BY <1>2, ModIs
  <1>5. v = z + m * i
    BY <1>1 DEF z, v
  <1> HIDE DEF i, j, k
  <1>6. l \in Int /\ m * l = m * k - m * i - m * j
    BY <1>1, <1>3, <1>4
  <1>7. z % m = (v % m) + m * l
    <2> DEFINE mi == m * i
               mj == m * j
               mk == m * k
               ml == m * l
               zm == z % m
               vm == v % m
    <2>1. /\ mi \in Int /\ mj \in Int /\ mk \in Int /\ zm \in Int /\ vm \in Int
          /\ z = mj + zm /\ v = mk + vm /\ v = z + mi /\ ml = mk - mi - mj
      BY <1>1, <1>3, <1>4, <1>5, <1>6
    <2> HIDE DEF mi, mj, mk, ml, zm, vm
    <2>2. zm = vm + ml
      BY <2>1, <1>2
    <2> QED
      BY <2>2 DEF zm, vm, ml
  <1> HIDE DEF l
  <1> DEFINE zz == z % m
             vv == v % m
  <1>8. zz \in 0 .. m - 1 /\ vv \in 0 .. m - 1 /\ zz = vv + m * l
    BY <1>3, <1>4, <1>7
  <1> HIDE DEF zz, vv
  <1>9. zz = vv
    BY <1>6, <1>8, ModUnique
  <1> QED
    BY <1>9 DEF zz, vv, z, v

\* The remainder as an operator, for the lemmas that are cited.
Rem(x, m) == x % m

\* z follows the remainder of x as v follows x.
LEMMA RemSum ==
    ASSUME NEW m \in Nat, m > 0, NEW x \in Int, NEW z \in Int, NEW v \in Int,
           z - Rem(x, m) = v - x
    PROVE  Rem(z, m) = Rem(v, m) /\ Rem(x, m) \in 0 .. m - 1
  <1> DEFINE y == v - x
             u == x % m
             s == u + y
             t == x + y
  <1>1. u \in 0 .. m - 1 /\ y \in Int
    BY ModIs
  <1>2. z = s /\ v = t
    BY <1>1 DEF Rem
  <1>3. s % m = t % m
    <2> HIDE DEF y
    <2> QED
      BY <1>1, ModAdd
  <1> QED
    BY <1>1, <1>2, <1>3 DEF Rem

\* A remainder is its own remainder.
LEMMA ModSame ==
    ASSUME NEW m \in Nat, m > 0, NEW x \in 0 .. m - 1
    PROVE  x % m = x
  OBVIOUS

\* The players of the two sides, and the width of a counter.
LEMMA Sides ==
    ASSUME QueueAssumption
    PROVE  /\ \A t \in Team : Members(t) \in SUBSET Player
           /\ \A p \in Player, t \in Team : p \in Members(t) <=> TeamOf(p) = t
           /\ \A p : TeamOf(p) \in Team
           /\ UInt \in Nat /\ UInt > 0
  BY DEF QueueAssumption, Team, Members, TeamOf, Player

\* A battleground with the invited counters c accounts for the players h,
\* except for the difference d.
Accounts(c, h, d) == \A t \in Team : c[t] = (Cardinality(h \cap Members(t)) + d[t]) % UInt

\* The number of players of one side.
LEMMA SideCount ==
    ASSUME QueueAssumption, NEW h \in SUBSET Player, NEW t \in Team
    PROVE  IsFiniteSet(h \cap Members(t)) /\ Cardinality(h \cap Members(t)) \in Nat
           /\ Cardinality(h \cap Members(t)) <= Cardinality(Player)
  <1>1. h \cap Members(t) \in SUBSET Player
    OBVIOUS
  <1> DEFINE x == h \cap Members(t)
  <1>2. IsFiniteSet(x) /\ Cardinality(x) \in 0 .. Cardinality(Player)
        /\ Cardinality(Player) \in Nat
    <2> HIDE DEF x
    <2>1. x \in SUBSET Player
      BY <1>1 DEF x
    <2> QED
      BY <2>1, Counted
  <1> QED
    BY <1>2

\* The number of members of two sets that share none.
LEMMA DisjointCount ==
    ASSUME NEW A, NEW B, IsFiniteSet(A), IsFiniteSet(B), A \cap B = {}
    PROVE  Cardinality(A \cup B) = Cardinality(A) + Cardinality(B)
           /\ Cardinality(A) \in Nat /\ Cardinality(B) \in Nat
  <1>1. Cardinality(A \cup B) = Cardinality(A) + Cardinality(B) - Cardinality(A \cap B)
    BY FS_Union
  <1>2. Cardinality(A \cap B) = 0
    BY FS_EmptySet
  <1> QED
    BY <1>1, <1>2, FS_CardinalityType

\* The counters without the players x.
LEMMA AccountsWithout ==
    ASSUME QueueAssumption, NEW h \in SUBSET Player, NEW x \in SUBSET h,
           NEW c, NEW d \in [Team -> Int], Accounts(c, h, d)
    PROVE  Accounts([t \in Team |-> (c[t] - Cardinality(x \cap Members(t))) % UInt], h \ x, d)
  <1> DEFINE r == [t \in Team |-> (c[t] - Cardinality(x \cap Members(t))) % UInt]
             y == h \ x
  <1>1. ASSUME NEW t \in Team
        PROVE  r[t] = (Cardinality(y \cap Members(t)) + d[t]) % UInt
    <2> DEFINE M == Members(t)
               A == y \cap M
               B == x \cap M
               cA == Cardinality(A)
               cB == Cardinality(B)
               cH == Cardinality(h \cap M)
               e == d[t]
               z == cH + e
               n == -cB
    <2>1. IsFiniteSet(A) /\ IsFiniteSet(B) /\ cA \in Nat /\ cB \in Nat
      BY SideCount
    <2>2. h \cap M = A \cup B /\ A \cap B = {}
      OBVIOUS
    <2>3. cH = cA + cB
      <3> HIDE DEF A, B
      <3>1. Cardinality(A \cup B) = cA + cB
        BY <2>1, <2>2, DisjointCount
      <3> QED
        BY <2>2, <3>1
    <2>4. c[t] = z % UInt
      BY DEF Accounts
    <2>5. r[t] = (c[t] - cB) % UInt
      OBVIOUS
    <2>6. e \in Int
      OBVIOUS
    <2> HIDE DEF cA, cB, cH, e, r
    <2>7. z \in Int /\ n \in Int
      BY <2>1, <2>3, <2>6
    <2> DEFINE m == UInt
               u == z % UInt
               a == u + n
               v == z + n
    <2>a. m \in Nat /\ m > 0
      BY Sides
    <2>b. u = Rem(z, m) /\ u \in Int
      <3> HIDE DEF z
      <3> QED
        BY <2>7, <2>a, ModIs DEF Rem
    <2>8. a = c[t] - cB /\ v = cA + e /\ a \in Int /\ v \in Int
      BY <2>1, <2>3, <2>4, <2>6, <2>b
    <2>9. a - u = v - z
      BY <2>7, <2>b
    <2> HIDE DEF m, a, v, u
    <2>10. Rem(a, m) = Rem(v, m)
      <3> HIDE DEF z
      <3>1. a - Rem(z, m) = v - z
        BY <2>9, <2>b
      <3> QED
        BY <2>7, <2>8, <2>a, <3>1, RemSum
    <2>11. r[t] = (cA + e) % UInt
      BY <2>5, <2>8, <2>10 DEF Rem, m
    <2> QED
      BY <2>11 DEF cA, e
  <1> QED
    BY <1>1 DEF Accounts

\* DecreaseInvitedCount accounts for one player who is gone.
LEMMA AccountsDecreased ==
    ASSUME QueueAssumption, NEW h \in SUBSET Player, NEW p \in h,
           NEW c \in [Team -> Nat], NEW d \in [Team -> Int], Accounts(c, h, d)
    PROVE  Accounts(Decreased(c, TeamOf(p), 1), h \ {p}, d)
  <1> DEFINE x == {p}
             r == [t \in Team |-> (c[t] - Cardinality(x \cap Members(t))) % UInt]
             q == Decreased(c, TeamOf(p), 1)
  <1>1. Accounts(r, h \ x, d)
    <2>1. x \in SUBSET h
      OBVIOUS
    <2> HIDE DEF x
    <2> QED
      BY <2>1, AccountsWithout
  <1>2. ASSUME NEW t \in Team PROVE q[t] = r[t]
    <2>1. CASE t = TeamOf(p)
      <3>1. x \cap Members(t) = {p}
        BY <2>1, Sides
      <3>2. Cardinality(x \cap Members(t)) = 1
        BY <3>1, FS_Singleton
      <3> QED
        BY <2>1, <3>2 DEF Decreased
    <2>2. CASE t # TeamOf(p)
      <3>1. x \cap Members(t) = {}
        BY <2>2, Sides
      <3>2. Cardinality(x \cap Members(t)) = 0
        BY <3>1, FS_EmptySet
      <3>3. q[t] = c[t]
        BY <2>2 DEF Decreased
      <3> DEFINE z == Cardinality(h \cap Members(t)) + d[t]
                 zz == z % UInt
      <3>4. z \in Int
        <4>1. Cardinality(h \cap Members(t)) \in Nat
          BY SideCount
        <4>2. d[t] \in Int
          OBVIOUS
        <4> QED
          BY <4>1, <4>2
      <3>5. zz \in 0 .. UInt - 1
        <4> HIDE DEF z
        <4> QED
          BY <3>4, Sides, ModIs
      <3>6. c[t] = zz
        BY DEF Accounts
      <3> HIDE DEF zz
      <3>7. zz % UInt = zz
        BY <3>5, Sides, ModSame
      <3>8. r[t] = (c[t] - 0) % UInt
        BY <3>2
      <3> QED
        BY <3>3, <3>5, <3>6, <3>7, <3>8
    <2> QED
      BY <2>1, <2>2
  <1> HIDE DEF q, r
  <1>3. Accounts(q, h \ x, d)
    BY <1>1, <1>2 DEF Accounts
  <1> QED
    BY <1>3 DEF q

\* The counters when the players x are invited and those in found are counted.
LEMMA AccountsWith ==
    ASSUME QueueAssumption, NEW h \in SUBSET Player, NEW x \in SUBSET Player, h \cap x = {},
           NEW found \in SUBSET x,
           NEW c, NEW d \in [Team -> Int], Accounts(c, h, d)
    PROVE  Accounts(Increased(c, found), h \cup x, Skipped(d, x \ found))
  <1> DEFINE r == Increased(c, found)
             f == Skipped(d, x \ found)
             y == h \cup x
             missing == x \ found
  <1>1. ASSUME NEW t \in Team
        PROVE  r[t] = (Cardinality(y \cap Members(t)) + f[t]) % UInt
    <2> DEFINE M == Members(t)
               A == h \cap M
               B == found \cap M
               C == missing \cap M
               cA == Cardinality(A)
               cB == Cardinality(B)
               cC == Cardinality(C)
               cY == Cardinality(y \cap M)
               e == d[t]
               z == cA + e
    <2>1. /\ IsFiniteSet(A) /\ IsFiniteSet(B) /\ IsFiniteSet(C)
          /\ cA \in Nat /\ cB \in Nat /\ cC \in Nat
      BY SideCount
    <2>2. y \cap M = (A \cup B) \cup C /\ A \cap B = {} /\ (A \cup B) \cap C = {}
      OBVIOUS
    <2>3. cY = cA + cB + cC
      <3> HIDE DEF A, B, C
      <3> DEFINE D == A \cup B
      <3>1. Cardinality(D) = cA + cB
        BY <2>1, <2>2, DisjointCount
      <3>2. IsFiniteSet(D) /\ D \cap C = {} /\ y \cap M = D \cup C
        BY <2>1, <2>2, FS_Union
      <3> HIDE DEF D
      <3>3. Cardinality(D \cup C) = Cardinality(D) + Cardinality(C)
        BY <2>1, <3>2, DisjointCount
      <3> QED
        BY <2>1, <3>1, <3>2, <3>3
    <2>4. c[t] = z % UInt
      BY DEF Accounts
    <2>5. r[t] = (c[t] + cB) % UInt /\ f[t] = e - cC
      BY DEF Increased, Skipped
    <2>6. e \in Int
      OBVIOUS
    <2> HIDE DEF cA, cB, cC, cY, e, r, f
    <2>7. z \in Int
      BY <2>1, <2>6
    <2> DEFINE m == UInt
               u == z % UInt
               a == u + cB
               v == cY + f[t]
    <2>a. m \in Nat /\ m > 0
      BY Sides
    <2>b. u = Rem(z, m) /\ u \in Int
      <3> HIDE DEF z
      <3> QED
        BY <2>7, <2>a, ModIs DEF Rem
    <2>8. a = c[t] + cB /\ v = cA + cB + e /\ a \in Int /\ v \in Int
      BY <2>1, <2>3, <2>4, <2>5, <2>6, <2>b
    <2>9. a - u = v - z
      BY <2>1, <2>6, <2>7, <2>8, <2>b
    <2> HIDE DEF m, a, v, u
    <2>10. Rem(a, m) = Rem(v, m)
      <3> HIDE DEF z
      <3>1. a - Rem(z, m) = v - z
        BY <2>9, <2>b
      <3> QED
        BY <2>7, <2>8, <2>a, <3>1, RemSum
    <2>11. r[t] = v % UInt
      BY <2>5, <2>8, <2>10 DEF Rem, m
    <2> QED
      BY <2>11 DEF v, cY
  <1> QED
    BY <1>1 DEF Accounts

\* One player of side t less, and one more by mistake.
LEMMA AccountsLost ==
    ASSUME QueueAssumption, NEW h \in SUBSET Player, NEW p \in h,
           NEW c, NEW d \in [Team -> Int], Accounts(c, h, d)
    PROVE  Accounts(c, h \ {p}, [d EXCEPT ![TeamOf(p)] = @ + 1])
  <1> DEFINE f == [d EXCEPT ![TeamOf(p)] = @ + 1]
             y == h \ {p}
  <1>1. ASSUME NEW t \in Team
        PROVE  Cardinality(h \cap Members(t)) + d[t] = Cardinality(y \cap Members(t)) + f[t]
    <2>1. Cardinality(h \cap Members(t)) \in Nat /\ IsFiniteSet(h \cap Members(t)) /\ d[t] \in Int
      BY SideCount
    <2>2. CASE t = TeamOf(p)
      <3> DEFINE A == h \cap Members(t)
      <3>1. p \in A /\ A \ {p} = y \cap Members(t) /\ IsFiniteSet(A)
        BY <2>1, <2>2, Sides
      <3> HIDE DEF A
      <3>2. Cardinality(A \ {p}) = Cardinality(A) - 1
        BY <3>1, FS_RemoveElement
      <3>3. f[t] = d[t] + 1
        BY <2>2
      <3>4. Cardinality(y \cap Members(t)) = Cardinality(A) - 1
        BY <3>1, <3>2
      <3>5. A = h \cap Members(t) /\ Cardinality(A) \in Nat
        BY <2>1 DEF A
      <3> DEFINE n == Cardinality(A)
                 k == Cardinality(y \cap Members(t))
                 e == d[t]
      <3>6. n \in Nat /\ k = n - 1 /\ e \in Int /\ f[t] = e + 1
        BY <2>1, <3>3, <3>4, <3>5
      <3> HIDE DEF n, k, e, f, y
      <3>7. n + e = k + f[t]
        BY <3>6
      <3> QED
        BY <3>5, <3>7 DEF n, k, e
    <2>3. CASE t # TeamOf(p)
      <3>1. h \cap Members(t) = y \cap Members(t)
        BY <2>3, Sides
      <3>2. f[t] = d[t]
        BY <2>3
      <3> QED
        BY <3>1, <3>2
    <2> QED
      BY <2>2, <2>3
  <1> QED
    BY <1>1 DEF Accounts

\* Counters of zero account for nobody.
LEMMA AccountsNobody ==
    ASSUME QueueAssumption, NEW c, NEW d, \A t \in Team : c[t] = 0 /\ d[t] = 0
    PROVE  Accounts(c, {}, d)
  <1>1. ASSUME NEW t \in Team PROVE c[t] = (Cardinality({} \cap Members(t)) + d[t]) % UInt
    <2>1. {} \cap Members(t) = {}
      OBVIOUS
    <2>2. Cardinality({} \cap Members(t)) = 0
      BY <2>1, FS_EmptySet
    <2>3. 0 % UInt = 0
      BY Sides
    <2> QED
      BY <2>2, <2>3
  <1> QED
    BY <1>1 DEF Accounts

\* When no counter has wrapped, zero counters account for nobody.
LEMMA NobodyAccounted ==
    ASSUME QueueAssumption, NEW h \in SUBSET Player, NEW c, NEW d \in [Team -> Int],
           Accounts(c, h, d), NEW t \in Team, c[t] = 0,
           d[t] >= 0, Cardinality(Player) + d[t] < UInt
    PROVE  h \cap Members(t) = {}
  <1> DEFINE A == h \cap Members(t)
             n == Cardinality(A)
             z == n + d[t]
  <1>1. IsFiniteSet(A) /\ n \in Nat /\ n <= Cardinality(Player)
    BY SideCount
  <1>2. Cardinality(Player) \in Nat /\ d[t] \in Int /\ UInt \in Nat /\ UInt > 0
    BY Counted, Sides
  <1>3. 0 = z % UInt
    BY DEF Accounts
  <1> HIDE DEF n
  <1>4. z \in 0 .. UInt - 1
    BY <1>1, <1>2
  <1>5. z % UInt = z
    <2> HIDE DEF z
    <2> QED
      BY <1>2, <1>4, ModSame
  <1>6. n = 0
    BY <1>1, <1>2, <1>3, <1>5
  <1> QED
    BY <1>1, <1>6, FS_EmptySet DEF n

-----------------------------------------------------------------------------
(* BattlegroundQueueUpdate, from list to list and battleground to battleground.*)
\* Who is in a queue, who is invited, who is on the way, and which
\* battlegrounds there are.
QueuedIn(queue) == UNION {g.players : g \in Groups(queue)}
InvitedIn(queue, b) == UNION {g.players : g \in {h \in Groups(queue) : h.invited = b}}
Way(b) == {p \in Player : place[p] = "loading" /\ bgId[p] = b}
Created(status) == status \notin {"none", "deleted"}

\* The players battleground b has to keep a place for.
HeadsIn(queue, battlegrounds, b) == InvitedIn(queue, b) \cup Way(b) \cup battlegrounds[b].players

\* Every player who is invited and not in unwatching has his removal event.
Watched(queue, events, unwatching) ==
    \A g \in Groups(queue) : g.invited # 0 =>
        \A p \in g.players \ unwatching :
            \E e \in ToSet(events) : p \in e.players /\ e.bg = g.invited /\ e.time = g.time

\* What a player was told is the invitation of his group.
ToldIn(queue, invite) ==
    \A g \in Groups(queue) : \A p \in g.players : invite[p] \in {0, g.invited}

\* The type of what an update works on.
WorkType(w) ==
    w \in [queue : [Kinds -> [Team -> Seq(Group)]],
           bgs : [Battleground -> BattlegroundState],
           events : Seq(Event), free : Seq(Battleground),
           inviteId : [Player -> Ids],
           drift : [Battleground -> [Team -> Int]],
           unwatched : SUBSET Player]

\* A player who waits is on the way to no battleground, and in none.
Apart == \A b \in Battleground : QueuedPlayers \cap (Way(b) \cup bgs[b].players) = {}

\* What stays of the state during an update.
Kept(w) ==
    /\ QueuedIn(w.queue) = QueuedPlayers
    /\ \A b \in Battleground :
         /\ w.bgs[b].players = bgs[b].players
         /\ \/ w.bgs[b].status = bgs[b].status
            \/ bgs[b].status = "none" /\ w.bgs[b].status = "wait_join"
    /\ \A p \in Player \ QueuedPlayers : w.inviteId[p] = inviteId[p]
    /\ \A b \in Battleground, t \in Team : w.drift[b][t] <= drift[b][t]

\* What an update knows of battleground b.
Kind(w, b) ==
    /\ Created(w.bgs[b].status) =>
         Accounts(w.bgs[b].invited, HeadsIn(w.queue, w.bgs, b), w.drift[b])
    /\ w.bgs[b].status = "none" =>
         /\ HeadsIn(w.queue, w.bgs, b) = {} /\ b \notin ToSet(w.free)
         /\ \A t \in Team : w.bgs[b].invited[t] = 0 /\ w.drift[b][t] = 0
    /\ w.bgs[b].status = "deleted" =>
         /\ w.drift[b] = drift[b]
         /\ InvitedIn(w.queue, b) = InvitedIn(m_QueuedGroups, b)
         /\ b \in ToSet(w.free) => b \in ToSet(freeSlots)

\* The invariant of an update.
WorkInv(w) ==
    /\ WorkType(w)
    /\ OneGroup(w.queue)
    /\ Watched(w.queue, w.events, w.unwatched)
    /\ ToldIn(w.queue, w.inviteId)
    /\ Kept(w)
    /\ \A b \in Battleground : Kind(w, b)

\* The types of what an update works on.
LEMMA WorkFields ==
    ASSUME NEW w, WorkType(w)
    PROVE  /\ QueueType(w.queue)
           /\ w.bgs \in [Battleground -> BattlegroundState]
           /\ w.events \in Seq(Event) /\ w.free \in Seq(Battleground)
           /\ w.inviteId \in [Player -> Ids]
           /\ w.drift \in [Battleground -> [Team -> Int]]
           /\ w.unwatched \in SUBSET Player
  BY DEF WorkType, QueueType

\* The queued and the invited players by their groups.
LEMMA QueuedIs ==
    ASSUME NEW queue, QueueType(queue)
    PROVE  /\ \A p : p \in QueuedIn(queue) <=> \E g \in Groups(queue) : p \in g.players
           /\ \A p, b : p \in InvitedIn(queue, b) <=>
                \E g \in Groups(queue) : p \in g.players /\ g.invited = b
           /\ QueuedIn(queue) \in SUBSET Player
           /\ \A b : InvitedIn(queue, b) \in SUBSET Player /\ InvitedIn(queue, b) \subseteq QueuedIn(queue)
  <1>1. \A g \in Groups(queue) : g.players \in SUBSET Player
    BY GroupsAre DEF Group
  <1> QED
    BY <1>1 DEF QueuedIn, InvitedIn

\* The selected groups, as sets of players: each is a waiting group.
Selectable(selected, queue) ==
    \A X \in selected : \E g \in Groups(queue) : g.invited = 0 /\ g.players = X

\* InviteGroupToBG of waiting groups: the players stay queued, and exactly
\* those of the chosen groups are invited now.
LEMMA InvitedNow ==
    ASSUME NEW queue, QueueType(queue), OneGroup(queue), serial \in Nat,
           NEW selected, Selectable(selected, queue), NEW b \in Battleground
    PROVE  LET q == Invite(queue, selected, b)
           IN  /\ QueueType(q) /\ OneGroup(q)
               /\ QueuedIn(q) = QueuedIn(queue)
               /\ InvitedIn(q, b) = InvitedIn(queue, b) \cup UNION selected
               /\ \A c \in Battleground \ {b} : InvitedIn(q, c) = InvitedIn(queue, c)
               /\ UNION selected \in SUBSET QueuedIn(queue)
               /\ \A c \in Battleground : InvitedIn(queue, c) \cap UNION selected = {}
  <1> DEFINE q == Invite(queue, selected, b)
             C(g) == Chosen(g, selected, b)
  <1>1. b \in Ids /\ 0 \notin Battleground
    BY DEF Ids, Battleground
  <1>2. QueueType(q) /\ \A x : x \in Groups(q) <=> \E g \in Groups(queue) : x = C(g)
    BY <1>1, InviteIs
  <1>3. \A g \in Groups(queue) :
          /\ C(g) \in Group
          /\ C(g).players = g.players
          /\ g.players \in selected => C(g).invited = b
          /\ g.players \notin selected => C(g) = g
    <2>1. \A g \in Groups(queue) : g \in Group
      BY GroupsAre
    <2> QED
      BY <1>1, <2>1, ChosenIs
  <1> HIDE DEF q, C
  <1>4. \A g \in Groups(queue) : g.players # {}
    BY DEF OneGroup
  <1>5. \A g, h \in Groups(queue) : \A p : p \in g.players /\ p \in h.players => g = h
    BY DEF OneGroup
  <1>6. \A g \in Groups(queue) : g.players \in selected => g.invited = 0
    <2> SUFFICES ASSUME NEW g \in Groups(queue), g.players \in selected PROVE g.invited = 0
      OBVIOUS
    <2>1. PICK h \in Groups(queue) : h.invited = 0 /\ h.players = g.players
      BY DEF Selectable
    <2> QED
      BY <1>4, <1>5, <2>1
  <1>7. OneGroup(q)
    <2>1. \A x \in Groups(q) : x.players # {}
      BY <1>2, <1>3, <1>4
    <2>2. ASSUME NEW x \in Groups(q), NEW y \in Groups(q), x.players \cap y.players # {}
          PROVE  x = y
      <3>1. PICK g \in Groups(queue) : x = C(g)
        BY <1>2
      <3>2. PICK h \in Groups(queue) : y = C(h)
        BY <1>2
      <3>3. g = h
        BY <1>3, <1>5, <2>2, <3>1, <3>2
      <3> QED
        BY <3>1, <3>2, <3>3
    <2> QED
      BY <2>1, <2>2 DEF OneGroup
  <1>8. \A p : p \in QueuedIn(q) <=> p \in QueuedIn(queue)
    BY <1>2, <1>3, QueuedIs
  <1>9. \A p : p \in UNION selected => \E g \in Groups(queue) :
                   p \in g.players /\ g.players \in selected /\ g.invited = 0
    BY DEF Selectable
  <1>10. \A p : p \in InvitedIn(q, b) <=> p \in InvitedIn(queue, b) \/ p \in UNION selected
    <2>1. \A p : p \in InvitedIn(q, b) <=> \E g \in Groups(queue) : p \in g.players /\ C(g).invited = b
      BY <1>2, <1>3, QueuedIs
    <2>2. \A p : p \in InvitedIn(queue, b) <=> \E g \in Groups(queue) : p \in g.players /\ g.invited = b
      BY QueuedIs
    <2>3. \A g \in Groups(queue) : C(g).invited = b <=> g.players \in selected \/ g.invited = b
      BY <1>3
    <2>4. \A p, g : p \in g.players /\ g.players \in selected => p \in UNION selected
      OBVIOUS
    <2> QED
      BY <1>9, <2>1, <2>2, <2>3, <2>4
  <1>11. ASSUME NEW c \in Battleground, c # b, NEW p
         PROVE  p \in InvitedIn(q, c) <=> p \in InvitedIn(queue, c)
    <2>1. p \in InvitedIn(q, c) <=> \E g \in Groups(queue) : p \in g.players /\ C(g).invited = c
      BY <1>2, <1>3, QueuedIs
    <2>2. p \in InvitedIn(queue, c) <=> \E g \in Groups(queue) : p \in g.players /\ g.invited = c
      BY QueuedIs
    <2>3. \A g \in Groups(queue) : C(g).invited = c <=> g.invited = c
      BY <1>1, <1>3, <1>6, <1>11
    <2> QED
      BY <2>1, <2>2, <2>3
  <1>12. \A p : p \in UNION selected => p \in QueuedIn(queue)
    BY <1>9, QueuedIs
  <1>13. ASSUME NEW c \in Battleground, NEW p \in InvitedIn(queue, c), p \in UNION selected
         PROVE  FALSE
    <2>1. PICK g \in Groups(queue) : p \in g.players /\ g.invited = c
      BY QueuedIs
    <2>2. PICK h \in Groups(queue) : p \in h.players /\ h.invited = 0
      BY <1>9, <1>13
    <2> QED
      BY <1>1, <1>5, <2>1, <2>2
  <1> DEFINE all == UNION selected
  <1>14. QueuedIn(q) = QueuedIn(queue)
    BY <1>8
  <1>15. InvitedIn(q, b) = InvitedIn(queue, b) \cup all
    <2> HIDE DEF all
    <2> QED
      BY <1>10 DEF all
  <1>16. \A c \in Battleground \ {b} : InvitedIn(q, c) = InvitedIn(queue, c)
    BY <1>11
  <1>17. all \in SUBSET QueuedIn(queue)
    BY <1>12
  <1>18. \A c \in Battleground : InvitedIn(queue, c) \cap all = {}
    BY <1>13
  <1> HIDE DEF all
  <1> QED
    BY <1>2, <1>7, <1>14, <1>15, <1>16, <1>17, <1>18 DEF q, all

\* Every invited player who was found has his removal event, the others are
\* added to the unwatched.
LEMMA WatchedNow ==
    ASSUME NEW queue, QueueType(queue), OneGroup(queue), serial \in Nat,
           NEW selected, Selectable(selected, queue), NEW b \in Battleground,
           NEW events \in Seq(Event), NEW more \in Seq(Event), NEW unwatching,
           Watched(queue, events, unwatching), NEW found,
           \A p \in found : \E e \in ToSet(more) :
               p \in e.players /\ e.bg = b /\ e.time = serial + 1
    PROVE  Watched(Invite(queue, selected, b), events \o more,
                   unwatching \cup ((UNION selected) \ found))
  <1> DEFINE q == Invite(queue, selected, b)
             C(g) == Chosen(g, selected, b)
             later == events \o more
             unw == unwatching \cup ((UNION selected) \ found)
  <1>1. b \in Ids
    BY DEF Ids, Battleground
  <1>2. \A x : x \in Groups(q) <=> \E g \in Groups(queue) : x = C(g)
    BY <1>1, InviteIs
  <1>3. \A g \in Groups(queue) :
          /\ C(g).players = g.players
          /\ g.players \in selected => C(g).invited = b /\ C(g).time = serial + 1
          /\ g.players \notin selected => C(g) = g
    <2>1. \A g \in Groups(queue) : g \in Group
      BY GroupsAre
    <2> QED
      BY <1>1, <2>1, ChosenIs
  <1>4. \A e : e \in ToSet(events) \/ e \in ToSet(more) => e \in ToSet(later)
    <2>1. ToSet(later) = ToSet(events) \cup ToSet(more)
      BY ConcatSet
    <2> QED
      BY <2>1
  <1>5. \A X, p : X \in selected /\ p \in X /\ p \notin unw => p \in found
    OBVIOUS
  <1>6. \A p : p \notin unw => p \notin unwatching
    OBVIOUS
  <1> HIDE DEF q, C, later, unw
  <1>7. ASSUME NEW x \in Groups(q), x.invited # 0, NEW p \in x.players, p \notin unw
        PROVE  \E e \in ToSet(later) : p \in e.players /\ e.bg = x.invited /\ e.time = x.time
    <2>1. PICK g \in Groups(queue) : x = C(g)
      BY <1>2
    <2>2. CASE g.players \in selected
      <3>1. p \in found
        BY <1>3, <1>5, <1>7, <2>1, <2>2
      <3>2. PICK e \in ToSet(more) : p \in e.players /\ e.bg = b /\ e.time = serial + 1
        BY <3>1
      <3> QED
        BY <1>3, <1>4, <2>1, <2>2, <3>2
    <2>3. CASE g.players \notin selected
      <3>1. x = g
        BY <1>3, <2>1, <2>3
      <3>2. PICK e \in ToSet(events) : p \in e.players /\ e.bg = g.invited /\ e.time = g.time
        BY <1>6, <1>7, <3>1 DEF Watched
      <3> QED
        BY <1>4, <3>1, <3>2
    <2> QED
      BY <2>2, <2>3
  <1>8. Watched(q, later, unw)
    BY <1>7 DEF Watched
  <1> QED
    BY <1>8 DEF q, later, unw

\* The players in found are told of b.
TellsOf(told, invite, found, b) ==
    \A p \in Player : told[p] = IF p \in found THEN b ELSE invite[p]

\* What a player was told is still the invitation of his group.
LEMMA ToldNow ==
    ASSUME NEW queue, QueueType(queue), OneGroup(queue), serial \in Nat,
           NEW selected, Selectable(selected, queue), NEW b \in Battleground,
           NEW invite, ToldIn(queue, invite),
           NEW found \in SUBSET (UNION selected),
           NEW told, TellsOf(told, invite, found, b)
    PROVE  ToldIn(Invite(queue, selected, b), told)
  <1> DEFINE q == Invite(queue, selected, b)
             C(g) == Chosen(g, selected, b)
  <1>1. b \in Ids
    BY DEF Ids, Battleground
  <1>2. \A x : x \in Groups(q) <=> \E g \in Groups(queue) : x = C(g)
    BY <1>1, InviteIs
  <1>3. \A g \in Groups(queue) :
          /\ g.players \in SUBSET Player
          /\ C(g).players = g.players
          /\ g.players \in selected => C(g).invited = b
          /\ g.players \notin selected => C(g) = g
    <2>1. \A g \in Groups(queue) : g \in Group /\ g.players \in SUBSET Player
      BY GroupsAre DEF Group
    <2> QED
      BY <1>1, <2>1, ChosenIs
  <1> HIDE DEF q, C
  <1>4. \A g, h \in Groups(queue) : \A p : p \in g.players /\ p \in h.players => g = h
    BY DEF OneGroup
  <1>5. ASSUME NEW X \in selected, NEW p \in X
        PROVE  \E h \in Groups(queue) : h.players = X /\ h.invited = 0
    BY DEF Selectable
  <1>6. ASSUME NEW x \in Groups(q), NEW p \in x.players
        PROVE  told[p] \in {0, x.invited}
    <2>1. PICK g \in Groups(queue) : x = C(g)
      BY <1>2
    <2>2. p \in g.players /\ p \in Player /\ invite[p] \in {0, g.invited}
      BY <1>3, <2>1 DEF ToldIn
    <2>3. told[p] = IF p \in found THEN b ELSE invite[p]
      BY <2>2 DEF TellsOf
    <2>4. CASE g.players \in selected
      <3>1. PICK h \in Groups(queue) : h.players = g.players /\ h.invited = 0
        BY <1>5, <2>2, <2>4
      <3>2. h = g
        BY <1>4, <2>2, <3>1
      <3> QED
        BY <1>3, <2>1, <2>2, <2>3, <2>4, <3>1, <3>2
    <2>5. CASE g.players \notin selected
      <3>1. x = g
        BY <1>3, <2>1, <2>5
      <3>2. p \notin found
        <4> SUFFICES ASSUME p \in found PROVE FALSE
          OBVIOUS
        <4>1. PICK X \in selected : p \in X
          OBVIOUS
        <4>2. PICK h \in Groups(queue) : h.players = X /\ h.invited = 0
          BY <1>5, <4>1
        <4>3. h = g
          BY <1>4, <2>2, <4>1, <4>2
        <4> QED
          BY <2>5, <4>1, <4>2, <4>3
      <3> QED
        BY <2>2, <2>3, <3>1, <3>2
    <2> QED
      BY <2>4, <2>5
  <1>7. ToldIn(q, told)
    BY <1>6 DEF ToldIn
  <1> QED
    BY <1>7 DEF q

\* The selected groups, as sets of players and as one list.
SelectedIn(pools) == UNION {{pools[t][i].players : i \in DOMAIN pools[t]} : t \in Team}
Together(pools) == pools["alliance"] \o pools["horde"]

\* The chosen groups of both sides in one list, as InviteToBG goes through
\* them.
LEMMA TogetherIs ==
    ASSUME NEW S \in SUBSET Group, NEW pools, TeamPools(pools, S)
    PROVE  /\ Together(pools) \in Seq(Group)
           /\ \A X : X \in SelectedIn(pools) <=> \E g \in ToSet(Together(pools)) : g.players = X
           /\ ToSet(Together(pools)) \subseteq Idle(S)
  <1> DEFINE A == pools["alliance"]
             H == pools["horde"]
  <1>1. A \in Seq(Idle(S)) /\ H \in Seq(Idle(S))
    BY DEF TeamPools, Team
  <1>2. \A X : X \in SelectedIn(pools) <=>
           \/ \E i \in DOMAIN A : X = A[i].players
           \/ \E i \in DOMAIN H : X = H[i].players
    BY DEF SelectedIn, Team
  <1>a. Together(pools) = A \o H
    BY DEF Together
  <1> HIDE DEF A, H
  <1>3. A \o H \in Seq(Idle(S)) /\ ToSet(A \o H) = ToSet(A) \cup ToSet(H)
    BY <1>1, ConcatSet
  <1>4. \A x : (x \in ToSet(A) <=> \E i \in DOMAIN A : x = A[i])
               /\ (x \in ToSet(H) <=> \E i \in DOMAIN H : x = H[i])
    BY DEF ToSet
  <1> DEFINE c == Together(pools)
  <1>5. c \in Seq(Idle(S)) /\ \A x : x \in ToSet(c) <=> x \in ToSet(A) \/ x \in ToSet(H)
    BY <1>3, <1>a
  <1> HIDE DEF c
  <1>6. ToSet(c) \subseteq Idle(S)
    BY <1>5, SetOfSeq
  <1>7. c \in Seq(Group)
    <2>1. Idle(S) \subseteq Group
      BY DEF Idle
    <2> QED
      BY <1>5, <2>1
  <1>8. \A X : X \in SelectedIn(pools) <=> \E g \in ToSet(c) : g.players = X
    BY <1>2, <1>4, <1>5
  <1> QED
    BY <1>6, <1>7, <1>8 DEF c

\* There is an event for the players of every group who were found.
Announced(batch, pool, found, b) ==
    \A g \in ToSet(pool) : \E e \in ToSet(batch) :
        e.players = g.players \cap found /\ e.bg = b /\ e.time = serial + 1

\* Every chosen group gets an event for those of its players who were found.
LEMMA RemoveEventsAre ==
    ASSUME NEW pool \in Seq(Group), NEW found \in SUBSET Player, NEW b \in Battleground,
           serial \in Nat
    PROVE  /\ RemoveEvents(pool, found, b) \in Seq(Event)
           /\ Announced(RemoveEvents(pool, found, b), pool, found, b)
  <1> DEFINE r == RemoveEvents(pool, found, b)
             n == serial + 1
             e(i) == [players |-> pool[i].players \cap found, bg |-> b, time |-> n]
  <1>1. r = [i \in 1 .. Len(pool) |-> e(i)] /\ Len(pool) \in Nat
    BY DEF RemoveEvents
  <1>2. \A i \in 1 .. Len(pool) : pool[i] \in Group
    OBVIOUS
  <1>3. n \in Nat
    OBVIOUS
  <1> HIDE DEF r, n
  <1>4. \A i \in 1 .. Len(pool) :
          e(i) \in Event /\ e(i).players = pool[i].players \cap found /\ e(i).bg = b /\ e(i).time = n
    BY <1>2, <1>3 DEF Event, Group
  <1> HIDE DEF e
  <1>5. r \in Seq(Event) /\ Len(r) = Len(pool) /\ \A i \in 1 .. Len(pool) : r[i] = e(i)
    BY <1>1, <1>4
  <1>6. \A g : g \in ToSet(pool) <=> \E i \in 1 .. Len(pool) : g = pool[i]
    BY SetOfSeq
  <1>7. \A i \in 1 .. Len(pool) : e(i) \in ToSet(r)
    <2>1. \A x : x \in ToSet(r) <=> \E i \in 1 .. Len(r) : x = r[i]
      BY <1>5, SetOfSeq
    <2> QED
      BY <1>5, <2>1
  <1>8. \A g \in ToSet(pool) : \E x \in ToSet(r) :
          x.players = g.players \cap found /\ x.bg = b /\ x.time = n
    BY <1>4, <1>6, <1>7
  <1> QED
    BY <1>5, <1>8 DEF r, n, Announced

\* The types of the counters after an invitation.
LEMMA IncreasedIs ==
    ASSUME QueueAssumption, NEW c \in [Team -> Nat], NEW d \in [Team -> Int],
           NEW x \in SUBSET Player
    PROVE  /\ Increased(c, x) \in [Team -> Nat]
           /\ Skipped(d, x) \in [Team -> Int] /\ \A t \in Team : Skipped(d, x)[t] <= d[t]
  <1>1. ASSUME NEW t \in Team
        PROVE  /\ (c[t] + Cardinality(x \cap Members(t))) % UInt \in Nat
               /\ d[t] - Cardinality(x \cap Members(t)) \in Int
               /\ d[t] - Cardinality(x \cap Members(t)) <= d[t]
    <2> DEFINE n == Cardinality(x \cap Members(t))
               z == c[t] + n
    <2>1. n \in Nat
      BY SideCount
    <2>2. c[t] \in Nat /\ d[t] \in Int
      OBVIOUS
    <2> HIDE DEF n
    <2>3. z \in Int
      BY <2>1, <2>2
    <2>4. z % UInt \in 0 .. UInt - 1
      <3> HIDE DEF z
      <3> QED
        BY <2>3, Sides, ModIs
    <2>5. z % UInt \in Nat
      BY <2>4, Sides
    <2> QED
      BY <2>1, <2>2, <2>5 DEF n
  <1> QED
    BY <1>1 DEF Increased, Skipped

\* Inviting the selected groups to a created battleground keeps the invariant
\* of the update.
LEMMA InviteToBGIs ==
    ASSUME QueueAssumption, serial \in Nat, Apart, drift \in [Battleground -> [Team -> Int]],
           NEW w, WorkInv(w), NEW b \in Battleground, Created(w.bgs[b].status),
           NEW pools, TeamPools(pools, Groups(w.queue))
    PROVE  /\ WorkInv(InviteToBG(w, pools, b))
           /\ InviteToBG(w, pools, b).free = w.free
  <1> DEFINE r == InviteToBG(w, pools, b)
             selected == SelectedIn(pools)
             invitees == UNION selected
             found == {p \in invitees : FindPlayer(p)}
             pool == Together(pools)
             batch == RemoveEvents(pool, found, b)
             more == NonEmpty(batch)
             missing == invitees \ found
             q == Invite(w.queue, selected, b)
  <1>1. r = [queue |-> q,
             bgs |-> [w.bgs EXCEPT ![b].invited = Increased(@, found)],
             events |-> w.events \o more,
             free |-> w.free,
             inviteId |-> [p \in Player |-> IF p \in found THEN b ELSE w.inviteId[p]],
             drift |-> [w.drift EXCEPT ![b] = Skipped(@, missing)],
             unwatched |-> w.unwatched \cup missing]
    BY DEF InviteToBG, SelectedIn, Together
  <1>2. found \in SUBSET invitees
    OBVIOUS
  <1> HIDE DEF r, selected, found
  <1>3. /\ r.queue = q
        /\ r.bgs = [w.bgs EXCEPT ![b].invited = Increased(@, found)]
        /\ r.events = w.events \o more
        /\ r.free = w.free
        /\ r.inviteId = [p \in Player |-> IF p \in found THEN b ELSE w.inviteId[p]]
        /\ r.drift = [w.drift EXCEPT ![b] = Skipped(@, missing)]
        /\ r.unwatched = w.unwatched \cup missing
    <2> HIDE DEF q, more, missing
    <2> QED
      BY <1>1
  <1>4. /\ QueueType(w.queue)
        /\ w.bgs \in [Battleground -> BattlegroundState]
        /\ w.events \in Seq(Event) /\ w.free \in Seq(Battleground)
        /\ w.inviteId \in [Player -> Ids]
        /\ w.drift \in [Battleground -> [Team -> Int]]
        /\ w.unwatched \in SUBSET Player
    BY WorkFields DEF WorkInv
  <1>5. OneGroup(w.queue) /\ Watched(w.queue, w.events, w.unwatched) /\ ToldIn(w.queue, w.inviteId)
        /\ Kept(w) /\ \A c \in Battleground : Kind(w, c)
    BY DEF WorkInv
  <1> DEFINE S == Groups(w.queue)
  <1>6. S \in SUBSET Group
    BY <1>4, QueueSeqs
  <1>7. /\ pool \in Seq(Group) /\ ToSet(pool) \subseteq Idle(S)
        /\ \A X : X \in selected <=> \E g \in ToSet(pool) : g.players = X
    <2> HIDE DEF S
    <2>1. TeamPools(pools, S)
      BY DEF S
    <2> QED
      BY <1>6, <2>1, TogetherIs DEF selected
  <1> HIDE DEF pool, S
  <1>8. Selectable(selected, w.queue)
    BY <1>7 DEF Selectable, Idle, S
  <1>9. /\ QueueType(q) /\ OneGroup(q)
        /\ QueuedIn(q) = QueuedIn(w.queue)
        /\ InvitedIn(q, b) = InvitedIn(w.queue, b) \cup invitees
        /\ \A c \in Battleground \ {b} : InvitedIn(q, c) = InvitedIn(w.queue, c)
        /\ invitees \in SUBSET QueuedIn(w.queue)
        /\ \A c \in Battleground : InvitedIn(w.queue, c) \cap invitees = {}
    <2> DEFINE queue == w.queue
    <2>1. QueueType(queue) /\ OneGroup(queue) /\ Selectable(selected, queue)
      BY <1>4, <1>5, <1>8
    <2> HIDE DEF queue, q
    <2>2. q = Invite(queue, selected, b)
      BY DEF q, queue
    <2> QED
      BY <2>1, <2>2, InvitedNow DEF queue
  <1>10. QueuedIn(w.queue) \in SUBSET Player
    BY <1>4, QueuedIs
  <1>11. found \in SUBSET Player /\ missing \in SUBSET Player /\ invitees \in SUBSET Player
    BY <1>2, <1>9, <1>10
  <1>12. batch \in Seq(Event) /\ \A g \in ToSet(pool) : \E e \in ToSet(batch) :
            e.players = g.players \cap found /\ e.bg = b /\ e.time = serial + 1
    <2> HIDE DEF batch
    <2>1. /\ RemoveEvents(pool, found, b) \in Seq(Event)
          /\ Announced(RemoveEvents(pool, found, b), pool, found, b)
      <3>1. pool \in Seq(Group) /\ found \in SUBSET Player
        BY <1>7, <1>11
      <3> QED
        BY <3>1, RemoveEventsAre
    <2> QED
      BY <2>1 DEF batch, Announced
  <1> HIDE DEF batch
  <1>13. /\ more \in Seq(Event)
         /\ \A x : x \in ToSet(more) <=> x \in ToSet(batch) /\ x.players # {}
    BY <1>12, NonEmptyIs
  <1>14. ASSUME NEW p \in found
         PROVE  \E e \in ToSet(more) : p \in e.players /\ e.bg = b /\ e.time = serial + 1
    <2>1. PICK X \in selected : p \in X
      BY <1>2
    <2>2. PICK g \in ToSet(pool) : g.players = X
      BY <1>7
    <2>3. PICK e \in ToSet(batch) :
             e.players = g.players \cap found /\ e.bg = b /\ e.time = serial + 1
      BY <1>12
    <2> QED
      BY <1>13, <2>1, <2>2, <2>3
  <1> HIDE DEF more
  <1>15. Watched(q, r.events, r.unwatched)
    <2> DEFINE queue == w.queue
               events == w.events
               unwatching == w.unwatched
    <2>1. QueueType(queue) /\ OneGroup(queue) /\ Selectable(selected, queue)
          /\ events \in Seq(Event) /\ Watched(queue, events, unwatching)
      BY <1>4, <1>5, <1>8
    <2>2. r.events = events \o more /\ r.unwatched = unwatching \cup ((UNION selected) \ found)
      BY <1>3
    <2> HIDE DEF queue, events, unwatching
    <2>3. Watched(Invite(queue, selected, b), events \o more,
                  unwatching \cup ((UNION selected) \ found))
      BY <1>13, <1>14, <2>1, WatchedNow
    <2> QED
      BY <2>2, <2>3 DEF queue
  <1>16. ToldIn(q, r.inviteId)
    <2> DEFINE queue == w.queue
               invite == w.inviteId
               told == r.inviteId
    <2>1. QueueType(queue) /\ OneGroup(queue) /\ Selectable(selected, queue) /\ ToldIn(queue, invite)
      BY <1>4, <1>5, <1>8
    <2>2. TellsOf(told, invite, found, b)
      BY <1>3 DEF TellsOf
    <2> HIDE DEF queue, invite, told
    <2>3. ToldIn(Invite(queue, selected, b), told)
      BY <1>2, <2>1, <2>2, ToldNow
    <2> QED
      BY <2>3 DEF queue, told
  <1> HIDE DEF q, missing
  <1>b. missing = invitees \ found
    BY DEF missing
  <1>c. w.bgs[b] \in BattlegroundState /\ w.bgs[b].invited \in [Team -> Nat]
        /\ w.drift[b] \in [Team -> Int]
    BY <1>4 DEF BattlegroundState
  <1> DEFINE c0 == w.bgs[b].invited
             d0 == w.drift[b]
             c1 == Increased(c0, found)
             d1 == Skipped(d0, missing)
  <1>d. c1 \in [Team -> Nat] /\ d1 \in [Team -> Int] /\ \A t \in Team : d1[t] <= d0[t]
    <2> HIDE DEF c0, d0
    <2>1. c0 \in [Team -> Nat] /\ d0 \in [Team -> Int]
      BY <1>c DEF c0, d0
    <2> QED
      BY <1>11, <2>1, IncreasedIs
  <1>e. /\ r.bgs = [w.bgs EXCEPT ![b] = [w.bgs[b] EXCEPT !.invited = c1]]
        /\ r.drift = [w.drift EXCEPT ![b] = d1]
    BY <1>3
  <1> HIDE DEF c1, d1
  <1>f. /\ r.bgs[b].status = w.bgs[b].status /\ r.bgs[b].players = w.bgs[b].players
        /\ r.bgs[b].invited = c1 /\ r.drift[b] = d1
        /\ \A c \in Battleground \ {b} : r.bgs[c] = w.bgs[c] /\ r.drift[c] = w.drift[c]
    BY <1>4, <1>c, <1>e DEF BattlegroundState
  <1>17. WorkType(r)
    <2>1. r.bgs \in [Battleground -> BattlegroundState]
      <3> DEFINE n == [w.bgs[b] EXCEPT !.invited = c1]
      <3>1. n \in BattlegroundState
        BY <1>c, <1>d DEF BattlegroundState
      <3> HIDE DEF n
      <3>2. r.bgs = [w.bgs EXCEPT ![b] = n]
        BY <1>e DEF n
      <3> QED
        BY <1>4, <3>1, <3>2
    <2>2. r.drift \in [Battleground -> [Team -> Int]]
      BY <1>4, <1>d, <1>e
    <2>3. r.events \in Seq(Event) /\ r.free \in Seq(Battleground)
          /\ r.unwatched \in SUBSET Player
      BY <1>3, <1>4, <1>11, <1>13
    <2>4. r.inviteId \in [Player -> Ids]
      BY <1>3, <1>4 DEF Ids, Battleground
    <2>5. r.queue \in [Kinds -> [Team -> Seq(Group)]]
      BY <1>3, <1>9 DEF QueueType
    <2>6. r = [queue |-> r.queue, bgs |-> r.bgs, events |-> r.events, free |-> r.free,
               inviteId |-> r.inviteId, drift |-> r.drift, unwatched |-> r.unwatched]
      BY <1>1
    <2> QED
      BY <2>1, <2>2, <2>3, <2>4, <2>5, <2>6 DEF WorkType
  <1>18. Kept(r)
    <2>1. QueuedIn(r.queue) = QueuedPlayers
      BY <1>3, <1>5, <1>9 DEF Kept
    <2>2. ASSUME NEW c \in Battleground
          PROVE  /\ r.bgs[c].players = bgs[c].players
                 /\ \/ r.bgs[c].status = bgs[c].status
                    \/ bgs[c].status = "none" /\ r.bgs[c].status = "wait_join"
      <3>1. r.bgs[c].players = w.bgs[c].players /\ r.bgs[c].status = w.bgs[c].status
        BY <1>f
      <3> QED
        BY <1>5, <3>1 DEF Kept
    <2>3. ASSUME NEW p \in Player \ QueuedPlayers PROVE r.inviteId[p] = inviteId[p]
      <3>1. p \notin found
        BY <1>2, <1>5, <1>9 DEF Kept
      <3> QED
        BY <1>3, <1>5, <3>1 DEF Kept
    <2>4. ASSUME NEW c \in Battleground, NEW t \in Team PROVE r.drift[c][t] <= drift[c][t]
      <3>1. w.drift[c][t] <= drift[c][t] /\ w.drift[c][t] \in Int
        BY <1>4, <1>5 DEF Kept
      <3>2. CASE c # b
        BY <1>f, <3>1, <3>2
      <3>3. CASE c = b
        <4>1. r.drift[c][t] = d1[t] /\ d1[t] \in Int /\ d1[t] <= w.drift[c][t]
          BY <1>d, <1>f, <3>3
        <4>2. drift[c][t] \in Int
          OBVIOUS
        <4> QED
          BY <3>1, <4>1, <4>2
      <3> QED
        BY <3>2, <3>3
    <2> QED
      BY <2>1, <2>2, <2>3, <2>4 DEF Kept
  <1>19. ASSUME NEW c \in Battleground, c # b PROVE Kind(r, c)
    <2>1. r.bgs[c] = w.bgs[c] /\ r.drift[c] = w.drift[c] /\ r.free = w.free
          /\ InvitedIn(r.queue, c) = InvitedIn(w.queue, c)
      BY <1>3, <1>9, <1>f, <1>19
    <2>2. HeadsIn(r.queue, r.bgs, c) = HeadsIn(w.queue, w.bgs, c)
      BY <2>1 DEF HeadsIn
    <2>3. Kind(w, c)
      BY <1>5
    <2> QED
      BY <2>1, <2>2, <2>3 DEF Kind
  <1>20. Kind(r, b)
    <2> DEFINE h == HeadsIn(w.queue, w.bgs, b)
    <2>1. Accounts(c0, h, d0)
      BY <1>5 DEF Kind
    <2>2. h \in SUBSET Player
      <3>1. w.bgs[b].players \in SUBSET Player
        BY <1>c DEF BattlegroundState
      <3>2. InvitedIn(w.queue, b) \in SUBSET Player
        BY <1>4, QueuedIs
      <3> QED
        BY <3>1, <3>2 DEF HeadsIn, Way
    <2>3. h \cap invitees = {}
      <3>1. w.bgs[b].players = bgs[b].players /\ QueuedIn(w.queue) = QueuedPlayers
        BY <1>5 DEF Kept
      <3> QED
        BY <1>9, <3>1 DEF HeadsIn, Apart
    <2>4. HeadsIn(r.queue, r.bgs, b) = h \cup invitees
      BY <1>3, <1>9, <1>f DEF HeadsIn
    <2> HIDE DEF h
    <2>5. Accounts(c1, h \cup invitees, d1)
      <3> DEFINE x == invitees
      <3>1. x \in SUBSET Player /\ h \cap x = {} /\ found \in SUBSET x /\ d0 \in [Team -> Int]
            /\ c1 = Increased(c0, found) /\ d1 = Skipped(d0, x \ found)
        BY <1>2, <1>11, <1>c, <2>3 DEF c1, d1, missing
      <3> HIDE DEF x, c0, d0
      <3>2. Accounts(Increased(c0, found), h \cup x, Skipped(d0, x \ found))
        BY <2>1, <2>2, <3>1, AccountsWith
      <3> QED
        BY <3>1, <3>2 DEF x
    <2> QED
      BY <1>f, <2>4, <2>5 DEF Kind, Created
  <1> QED
    BY <1>3, <1>9, <1>15, <1>16, <1>17, <1>18, <1>19, <1>20 DEF WorkInv, r

\* What an update needs to know of the rest of the state.
Setting ==
    /\ QueueAssumption /\ serial \in Nat /\ Apart
    /\ drift \in [Battleground -> [Team -> Int]]

\* BGFreeSlotQueue is changed.
WithFree(w, free) == [w EXCEPT !.free = free]

\* A change of BGFreeSlotQueue keeps the invariant of the update, if it adds
\* created battlegrounds only.
LEMMA WithFreeIs ==
    ASSUME NEW w, WorkInv(w), NEW free \in Seq(Battleground),
           \A b \in ToSet(free) : b \in ToSet(w.free) \/ Created(w.bgs[b].status)
    PROVE  WorkInv(WithFree(w, free))
  <1> DEFINE r == WithFree(w, free)
  <1>1. WorkType(w)
    BY DEF WorkInv
  <1>2. /\ r.free = free /\ r.queue = w.queue /\ r.bgs = w.bgs /\ r.events = w.events
        /\ r.inviteId = w.inviteId /\ r.drift = w.drift /\ r.unwatched = w.unwatched
    BY <1>1 DEF WorkType, WithFree
  <1>3. WorkType(r)
    BY <1>1 DEF WorkType, WithFree
  <1> HIDE DEF r
  <1>4. Kept(r)
    BY <1>2 DEF WorkInv, Kept
  <1>5. ASSUME NEW b \in Battleground PROVE Kind(r, b)
    <2>1. Kind(w, b)
      BY DEF WorkInv
    <2>2. b \in ToSet(free) => b \in ToSet(w.free) \/ Created(w.bgs[b].status)
      OBVIOUS
    <2> QED
      BY <1>2, <2>1, <2>2 DEF Kind, Created
  <1> QED
    BY <1>2, <1>3, <1>4, <1>5 DEF WorkInv, r

\* Filling one battleground with free slots keeps the invariant of the
\* update.
LEMMA FillBattlegroundIs ==
    ASSUME Setting, NEW w, WorkInv(w), NEW b \in Battleground
    PROVE  WorkInv(FillBattleground(w, b))
  <1> DEFINE normal == w.queue["normal"]
             bg == w.bgs[b]
             pools == FillPlayersToBG(normal, bg)
             u == InviteToBG(w, pools, b)
             S == Groups(w.queue)
             free == Without(u.free, b)
  <1>1. CASE w.bgs[b].status \notin {"wait_join", "in_progress"}
    BY <1>1 DEF FillBattleground
  <1>2. CASE w.bgs[b].status \in {"wait_join", "in_progress"}
    <2>1. FillBattleground(w, b) = u \/ FillBattleground(w, b) = WithFree(u, free)
      <3> HIDE DEF u
      <3>1. FillBattleground(w, b) = IF HasFreeSlots(u.bgs[b]) THEN u
                                     ELSE [u EXCEPT !.free = Without(@, b)]
        BY <1>2 DEF FillBattleground, u
      <3> QED
        BY <3>1 DEF WithFree
    <2>2. WorkType(w) /\ QueueType(w.queue)
      BY WorkFields DEF WorkInv
    <2>3. S \in SUBSET Group /\ \A t \in Team : normal[t] \in Seq(S)
      BY <2>2, QueueSeqs DEF Kinds
    <2> HIDE DEF normal, bg
    <2>4. TeamPools(pools, S)
      <3> HIDE DEF S
      <3> QED
        BY <2>3, FillPlayersIs DEF Setting
    <2>5. Created(w.bgs[b].status)
      BY <1>2 DEF Created
    <2> HIDE DEF pools
    <2>6. WorkInv(u) /\ u.free = w.free
      BY <2>4, <2>5, InviteToBGIs DEF Setting
    <2> HIDE DEF u
    <2>7. u.free \in Seq(Battleground)
      BY <2>6, WorkFields DEF WorkInv
    <2>8. free \in Seq(Battleground) /\ \A x : x \in ToSet(free) => x \in ToSet(u.free)
      <3> DEFINE s == u.free
      <3>1. s \in Seq(Battleground) /\ free = Without(s, b)
        BY <2>7
      <3> HIDE DEF s, free
      <3> QED
        BY <3>1, WithoutIs DEF s
    <2> HIDE DEF free
    <2>9. WorkInv(WithFree(u, free))
      BY <2>6, <2>8, WithFreeIs
    <2> QED
      BY <2>1, <2>6, <2>9
  <1> QED
    BY <1>1, <1>2

\* Filling all battlegrounds with free slots keeps the invariant of the
\* update.
LEMMA FillBattlegroundsIs ==
    ASSUME Setting, NEW w, WorkInv(w)
    PROVE  WorkInv(FillBattlegrounds(w))
  <1> DEFINE N == Len(w.free)
  <1>1. w.free \in Seq(Battleground)
    BY WorkFields DEF WorkInv
  <1>2. N \in Nat /\ \A n \in 1 .. N : w.free[n] \in Battleground
    BY <1>1
  <1>3. PICK f : FillUpto(w, Len(w.free), f) /\ FillBattlegrounds(w) = f[Len(w.free)]
    BY <1>2, FillDefined
  <1>4. f[0] = w
    BY <1>2, <1>3 DEF FillUpto
  <1>5. ASSUME NEW n \in 1 .. N
        PROVE  f[n] = FillBattleground(f[n - 1], w.free[n])
    <2>1. n \in 0 .. N /\ n # 0
      BY <1>2
    <2> QED
      BY <1>3, <2>1 DEF FillUpto
  <1> DEFINE T == {n \in 0 .. N : WorkInv(f[n])}
  <1>6. \A n : n \in T <=> n \in 0 .. N /\ WorkInv(f[n])
    OBVIOUS
  <1> HIDE DEF N, T
  <1>7. ASSUME NEW n \in 0 .. N - 1, n \in T PROVE n + 1 \in T
    <2> DEFINE k == n + 1
               b == w.free[k]
               v == f[n]
    <2>1. k \in 1 .. N /\ k - 1 = n /\ k \in 0 .. N
      BY <1>2
    <2>2. b \in Battleground /\ f[k] = FillBattleground(v, b) /\ WorkInv(v)
      BY <1>2, <1>5, <1>6, <1>7, <2>1
    <2> HIDE DEF k, b, v
    <2>3. WorkInv(f[k])
      BY <2>2, FillBattlegroundIs
    <2> QED
      BY <1>6, <2>1, <2>3 DEF k
  <1>8. \A i \in 0 .. N : i \in T
    <2>1. 0 \in T
      BY <1>2, <1>4, <1>6
    <2>2. \A n \in 0 .. N - 1 : n \in T => n + 1 \in T
      BY <1>7
    <2> QED
      BY <1>2, <2>1, <2>2, Induction
  <1> QED
    BY <1>2, <1>3, <1>6, <1>8 DEF N

\* The lists are changed.
WithQueue(w, queue) == [w EXCEPT !.queue = queue]

\* Moving groups between the lists keeps the invariant of the update.
LEMMA WithQueueIs ==
    ASSUME NEW w, WorkInv(w), NEW queue, QueueType(queue), Groups(queue) = Groups(w.queue)
    PROVE  WorkInv(WithQueue(w, queue))
  <1> DEFINE r == WithQueue(w, queue)
  <1>1. WorkType(w)
    BY DEF WorkInv
  <1>2. /\ r.free = w.free /\ r.queue = queue /\ r.bgs = w.bgs /\ r.events = w.events
        /\ r.inviteId = w.inviteId /\ r.drift = w.drift /\ r.unwatched = w.unwatched
    BY <1>1 DEF WorkType, WithQueue
  <1>3. WorkType(r)
    BY <1>1 DEF WorkType, WithQueue, QueueType
  <1> HIDE DEF r
  <1>4. QueuedIn(queue) = QueuedIn(w.queue)
        /\ \A b : InvitedIn(queue, b) = InvitedIn(w.queue, b)
    BY DEF QueuedIn, InvitedIn
  <1>5. Kept(r)
    BY <1>2, <1>4 DEF WorkInv, Kept
  <1>6. OneGroup(queue) /\ Watched(queue, r.events, r.unwatched) /\ ToldIn(queue, r.inviteId)
    BY <1>2 DEF WorkInv, OneGroup, Watched, ToldIn
  <1>7. ASSUME NEW b \in Battleground PROVE Kind(r, b)
    <2>1. Kind(w, b)
      BY DEF WorkInv
    <2>2. HeadsIn(r.queue, r.bgs, b) = HeadsIn(w.queue, w.bgs, b)
      BY <1>2, <1>4 DEF HeadsIn
    <2> QED
      BY <1>2, <1>4, <2>1, <2>2 DEF Kind
  <1> QED
    BY <1>2, <1>3, <1>5, <1>6, <1>7 DEF WorkInv, r

\* b is created.
WithNew(w, b) == [w EXCEPT !.bgs[b].status = "wait_join"]

\* CreateNewBattleground keeps the invariant of the update.
LEMMA WithNewIs ==
    ASSUME Setting, NEW w, WorkInv(w), NEW b \in Battleground, w.bgs[b].status = "none"
    PROVE  /\ WorkInv(WithNew(w, b))
           /\ WithNew(w, b).queue = w.queue /\ WithNew(w, b).free = w.free
           /\ Created(WithNew(w, b).bgs[b].status)
  <1> DEFINE r == WithNew(w, b)
             s == [w.bgs[b] EXCEPT !.status = "wait_join"]
  <1>1. WorkType(w) /\ w.bgs \in [Battleground -> BattlegroundState]
    BY WorkFields DEF WorkInv
  <1>2. /\ r.free = w.free /\ r.queue = w.queue /\ r.bgs = [w.bgs EXCEPT ![b] = s]
        /\ r.events = w.events
        /\ r.inviteId = w.inviteId /\ r.drift = w.drift /\ r.unwatched = w.unwatched
    BY <1>1 DEF WorkType, WithNew
  <1>3. /\ s \in BattlegroundState /\ s.status = "wait_join"
        /\ s.players = w.bgs[b].players /\ s.invited = w.bgs[b].invited
    BY <1>1 DEF BattlegroundState, Status
  <1> HIDE DEF s
  <1>4. /\ r.bgs \in [Battleground -> BattlegroundState]
        /\ r.bgs[b] = s /\ \A c \in Battleground \ {b} : r.bgs[c] = w.bgs[c]
    BY <1>1, <1>2, <1>3
  <1>5. r = [w EXCEPT !.bgs = r.bgs]
    BY <1>1, <1>2 DEF WorkType, WithNew, s
  <1>6. WorkType(r)
    <2> DEFINE x == r.bgs
    <2>1. x \in [Battleground -> BattlegroundState] /\ r = [w EXCEPT !.bgs = x]
      BY <1>4, <1>5
    <2> HIDE DEF x, r
    <2> QED
      BY <1>1, <2>1 DEF WorkType
  <1> HIDE DEF r
  <1>7. Kept(r)
    <2>1. ASSUME NEW c \in Battleground
          PROVE  /\ r.bgs[c].players = bgs[c].players
                 /\ \/ r.bgs[c].status = bgs[c].status
                    \/ bgs[c].status = "none" /\ r.bgs[c].status = "wait_join"
      <3>1. /\ w.bgs[c].players = bgs[c].players
            /\ \/ w.bgs[c].status = bgs[c].status
               \/ bgs[c].status = "none" /\ w.bgs[c].status = "wait_join"
        BY DEF WorkInv, Kept
      <3>2. CASE c = b
        BY <1>3, <1>4, <3>1, <3>2
      <3>3. CASE c # b
        BY <1>4, <3>1, <3>3
      <3> QED
        BY <3>2, <3>3
    <2> QED
      BY <1>2, <2>1 DEF WorkInv, Kept
  <1>8. ASSUME NEW c \in Battleground, c # b PROVE Kind(r, c)
    <2>1. Kind(w, c)
      BY DEF WorkInv
    <2>2. r.bgs[c] = w.bgs[c]
      BY <1>4, <1>8
    <2>3. HeadsIn(r.queue, r.bgs, c) = HeadsIn(w.queue, w.bgs, c)
      BY <1>2, <2>2 DEF HeadsIn
    <2> QED
      BY <1>2, <2>1, <2>2, <2>3 DEF Kind
  <1>9. Kind(r, b)
    <2>1. /\ HeadsIn(w.queue, w.bgs, b) = {}
          /\ \A t \in Team : w.bgs[b].invited[t] = 0 /\ w.drift[b][t] = 0
      BY DEF WorkInv, Kind
    <2>2. HeadsIn(r.queue, r.bgs, b) = {}
      BY <1>2, <1>3, <1>4, <2>1 DEF HeadsIn
    <2> DEFINE c0 == w.bgs[b].invited
               d0 == w.drift[b]
    <2>3. \A t \in Team : c0[t] = 0 /\ d0[t] = 0
      BY <2>1
    <2> HIDE DEF c0, d0
    <2>4. Accounts(c0, {}, d0)
      BY <2>3, AccountsNobody DEF Setting
    <2>5. r.bgs[b].status = "wait_join" /\ r.bgs[b].invited = c0 /\ r.drift[b] = d0
      BY <1>2, <1>3, <1>4 DEF c0, d0
    <2> QED
      BY <2>2, <2>4, <2>5 DEF Kind
  <1>10. OneGroup(r.queue) /\ Watched(r.queue, r.events, r.unwatched) /\ ToldIn(r.queue, r.inviteId)
    BY <1>2 DEF WorkInv
  <1>11. Created(r.bgs[b].status)
    BY <1>3, <1>4 DEF Created
  <1> QED
    BY <1>2, <1>6, <1>7, <1>8, <1>9, <1>10, <1>11 DEF WorkInv, r

\* The members of a list with one value put in front.
LEMMA FrontSeq ==
    ASSUME NEW U, NEW e \in U, NEW s \in Seq(U)
    PROVE  <<e>> \o s \in Seq(U) /\ ToSet(<<e>> \o s) = {e} \cup ToSet(s)
  <1> DEFINE h == <<e>>
  <1>1. h \in Seq(U) /\ ToSet(h) = {e}
    BY DEF ToSet
  <1> HIDE DEF h
  <1>2. h \o s \in Seq(U) /\ ToSet(h \o s) = ToSet(h) \cup ToSet(s)
    BY <1>1, ConcatSet
  <1> QED
    BY <1>1, <1>2 DEF h

\* Starting a battleground for the selected groups keeps the invariant of the
\* update.
LEMMA StartNewIs ==
    ASSUME Setting, NEW w, WorkInv(w), ~ CannotCreate(w),
           NEW pools, TeamPools(pools, Groups(w.queue))
    PROVE  WorkInv(StartNewBattleground(w, pools))
  <1> DEFINE F == Fresh(w)
             b == CHOOSE c \in Fresh(w) : \A d \in Fresh(w) : c <= d
             v == WithNew(w, b)
             u == InviteToBG(v, pools, b)
             free == <<b>> \o u.free
  <1>1. F \in SUBSET Nat /\ F # {}
    BY DEF Fresh, Battleground, CannotCreate
  <1>2. b \in F
    <2> HIDE DEF F
    <2>1. \E c \in F : \A d \in F : c <= d
      BY <1>1, Least
    <2>2. (CHOOSE c \in F : \A d \in F : c <= d) \in F
      BY <2>1
    <2> QED
      BY <2>2 DEF F
  <1> HIDE DEF b
  <1>3. b \in Battleground /\ w.bgs[b].status = "none"
    BY <1>2 DEF Fresh
  <1>4. StartNewBattleground(w, pools) = WithFree(u, free)
    BY DEF StartNewBattleground, WithFree, WithNew, b
  <1> HIDE DEF F, v
  <1>5. WorkInv(v) /\ v.queue = w.queue /\ v.free = w.free /\ Created(v.bgs[b].status)
    BY <1>3, WithNewIs DEF v
  <1>6. TeamPools(pools, Groups(v.queue))
    BY <1>5
  <1>7. WorkInv(u)
    BY <1>3, <1>5, <1>6, InviteToBGIs DEF Setting
  <1>8. Created(u.bgs[b].status)
    <2>1. WorkType(v)
      BY <1>5 DEF WorkInv
    <2>2. v.bgs \in [Battleground -> BattlegroundState]
      BY <2>1, WorkFields
    <2>3. u.bgs[b].status = v.bgs[b].status
      BY <1>3, <2>2 DEF InviteToBG, BattlegroundState
    <2> QED
      BY <1>5, <2>3
  <1> HIDE DEF u
  <1>9. u.free \in Seq(Battleground)
    BY <1>7, WorkFields DEF WorkInv
  <1>10. free \in Seq(Battleground) /\ \A x \in ToSet(free) : x \in ToSet(u.free) \/ Created(u.bgs[x].status)
    <2> DEFINE s == u.free
    <2>1. s \in Seq(Battleground)
      BY <1>9
    <2> HIDE DEF s
    <2>2. <<b>> \o s \in Seq(Battleground) /\ ToSet(<<b>> \o s) = {b} \cup ToSet(s)
      BY <1>3, <2>1, FrontSeq
    <2> QED
      BY <1>8, <2>2 DEF s
  <1> HIDE DEF free
  <1>11. WorkInv(WithFree(u, free))
    BY <1>7, <1>10, WithFreeIs
  <1> QED
    BY <1>4, <1>11

\* CheckPremadeMatch and CheckNormalMatch keep the invariant of the update.
LEMMA StartMatchesIs ==
    ASSUME Setting, NEW w, WorkInv(w), NEW late
    PROVE  WorkInv(StartMatches(w, late))
  <1> DEFINE premade == PremadePools(w.queue)
             moved == PremadeMoved(w.queue, late)
             v == IF premade = NobodySelected
                    THEN WithQueue(w, moved)
                    ELSE StartNewBattleground(w, premade)
             normal == NormalPools(v.queue)
  <1>1. StartMatches(w, late) =
          IF premade # NobodySelected /\ CannotCreate(w) THEN w
          ELSE IF normal = NobodySelected \/ CannotCreate(v) THEN v
          ELSE StartNewBattleground(v, normal)
    BY DEF StartMatches, WithQueue
  <1>2. QueueType(w.queue)
    BY WorkFields DEF WorkInv
  <1>3. QueueType(moved) /\ Groups(moved) = Groups(w.queue)
    <2> DEFINE queue == w.queue
    <2>1. QueueType(queue) /\ moved = PremadeMoved(queue, late)
      BY <1>2
    <2> HIDE DEF queue, moved
    <2> QED
      BY <2>1, PremadeMovedIs DEF queue
  <1>4. WorkInv(WithQueue(w, moved))
    <2> HIDE DEF moved
    <2> QED
      BY <1>3, WithQueueIs
  <1>5. TeamPools(premade, Groups(w.queue))
    <2> DEFINE queue == w.queue
    <2>1. QueueType(queue) /\ premade = PremadePools(queue)
      BY <1>2
    <2> HIDE DEF queue, premade
    <2> QED
      BY <2>1, PremadePoolsAre DEF queue
  <1> HIDE DEF premade, moved
  <1>6. CASE premade # NobodySelected /\ CannotCreate(w)
    BY <1>1, <1>6
  <1>7. CASE ~ (premade # NobodySelected /\ CannotCreate(w))
    <2>1. WorkInv(v)
      <3>1. CASE premade = NobodySelected
        BY <1>4, <3>1
      <3>2. CASE premade # NobodySelected
        <4>1. ~ CannotCreate(w)
          BY <1>7, <3>2
        <4>2. WorkInv(StartNewBattleground(w, premade))
          BY <1>5, <4>1, StartNewIs
        <4> QED
          BY <3>2, <4>2
      <3> QED
        BY <3>1, <3>2
    <2> HIDE DEF v
    <2>2. QueueType(v.queue)
      BY <2>1, WorkFields DEF WorkInv
    <2>3. TeamPools(normal, Groups(v.queue))
      <3> DEFINE queue == v.queue
      <3>1. QueueType(queue) /\ normal = NormalPools(queue)
        BY <2>2
      <3> HIDE DEF queue, normal
      <3> QED
        BY <3>1, NormalPoolsAre DEF queue
    <2> HIDE DEF normal
    <2>4. CASE normal = NobodySelected \/ CannotCreate(v)
      BY <1>1, <1>7, <2>1, <2>4
    <2>5. CASE ~ (normal = NobodySelected \/ CannotCreate(v))
      <3>1. WorkInv(StartNewBattleground(v, normal))
        BY <2>1, <2>3, <2>5, StartNewIs
      <3> QED
        BY <1>1, <1>7, <2>5, <3>1
    <2> QED
      BY <2>4, <2>5
  <1> QED
    BY <1>6, <1>7

\* What the update starts with.
Work == [queue |-> m_QueuedGroups, bgs |-> bgs, events |-> m_events, free |-> freeSlots,
         inviteId |-> inviteId, drift |-> drift, unwatched |-> unwatched]

\* The whole of BattlegroundQueueUpdate keeps the invariant of the update.
LEMMA UpdatedIs ==
    ASSUME Setting, WorkInv(Work), NEW late
    PROVE  WorkInv(Updated(late))
  <1>1. Updated(late) = IF Groups(m_QueuedGroups) = {} THEN Work
                        ELSE StartMatches(FillBattlegrounds(Work), late)
    BY DEF Updated, Work
  <1> DEFINE w == Work
             v == FillBattlegrounds(w)
  <1> HIDE DEF w
  <1>2. WorkInv(w)
    BY DEF w
  <1>3. WorkInv(v)
    BY <1>2, FillBattlegroundsIs
  <1> HIDE DEF v
  <1>4. WorkInv(StartMatches(v, late))
    BY <1>3, StartMatchesIs
  <1> QED
    BY <1>1, <1>2, <1>4 DEF v, w

-----------------------------------------------------------------------------
(* One player less, one group more.                                        *)
LEMMA WithoutNow ==
    ASSUME NEW queue, QueueType(queue), OneGroup(queue), NEW p
    PROVE  LET q == WithoutPlayer(queue, p)
           IN  /\ QueueType(q) /\ OneGroup(q)
               /\ QueuedIn(q) = QueuedIn(queue) \ {p}
               /\ \A b : InvitedIn(q, b) = InvitedIn(queue, b) \ {p}
  <1> DEFINE q == WithoutPlayer(queue, p)
  <1>1. QueueType(q) /\ \A x : x \in Groups(q) <=>
                \E g \in Groups(queue) : g.players \ {p} # {} /\ x = Smaller(g, p)
    BY WithoutPlayerIs
  <1> HIDE DEF q
  <1>2. \A g \in Groups(queue) : /\ Smaller(g, p).players = g.players \ {p}
                                 /\ Smaller(g, p).invited = g.invited
    <2>1. \A g \in Groups(queue) : g \in Group
      BY GroupsAre
    <2> QED
      BY <2>1, SmallerIs
  <1>3. OneGroup(q)
    <2>1. \A x \in Groups(q) : x.players # {}
      BY <1>1, <1>2
    <2>2. ASSUME NEW x \in Groups(q), NEW y \in Groups(q), x.players \cap y.players # {}
          PROVE  x = y
      <3>1. PICK g \in Groups(queue) : x = Smaller(g, p)
        BY <1>1
      <3>2. PICK h \in Groups(queue) : y = Smaller(h, p)
        BY <1>1
      <3>3. g.players \cap h.players # {}
        BY <1>2, <2>2, <3>1, <3>2
      <3>4. g = h
        BY <3>3 DEF OneGroup
      <3> QED
        BY <3>1, <3>2, <3>4
    <2> QED
      BY <2>1, <2>2 DEF OneGroup
  <1>4. \A r : r \in QueuedIn(q) <=> r \in QueuedIn(queue) \ {p}
    <2>1. \A r : r \in QueuedIn(q) <=> \E x \in Groups(q) : r \in x.players
      BY <1>1, QueuedIs
    <2>2. \A r : r \in QueuedIn(queue) <=> \E g \in Groups(queue) : r \in g.players
      BY QueuedIs
    <2>3. \A r : r \in QueuedIn(q) <=> \E g \in Groups(queue) : r \in g.players \ {p}
      BY <1>1, <1>2, <2>1
    <2> QED
      BY <2>2, <2>3
  <1>5. ASSUME NEW b PROVE \A r : r \in InvitedIn(q, b) <=> r \in InvitedIn(queue, b) \ {p}
    <2>1. \A r : r \in InvitedIn(q, b) <=> \E x \in Groups(q) : r \in x.players /\ x.invited = b
      BY <1>1, QueuedIs
    <2>2. \A r : r \in InvitedIn(queue, b) <=>
             \E g \in Groups(queue) : r \in g.players /\ g.invited = b
      BY QueuedIs
    <2>3. \A r : r \in InvitedIn(q, b) <=>
             \E g \in Groups(queue) : r \in g.players \ {p} /\ g.invited = b
      BY <1>1, <1>2, <2>1
    <2> QED
      BY <2>2, <2>3
  <1>6. QueuedIn(q) = QueuedIn(queue) \ {p}
    BY <1>4
  <1>7. \A b : InvitedIn(q, b) = InvitedIn(queue, b) \ {p}
    BY <1>5
  <1> QED
    BY <1>1, <1>3, <1>6, <1>7 DEF q

\* With one player less in the queue the others still have their events.
LEMMA WithoutWatched ==
    ASSUME NEW queue, QueueType(queue), NEW p, NEW events, NEW unwatching,
           Watched(queue, events, unwatching)
    PROVE  Watched(WithoutPlayer(queue, p), events, unwatching \ {p})
  <1> DEFINE q == WithoutPlayer(queue, p)
             unw == unwatching \ {p}
  <1>1. \A x : x \in Groups(q) <=>
                \E g \in Groups(queue) : g.players \ {p} # {} /\ x = Smaller(g, p)
    BY WithoutPlayerIs
  <1> HIDE DEF q
  <1>2. \A g \in Groups(queue) : /\ Smaller(g, p).players = g.players \ {p}
                                 /\ Smaller(g, p).invited = g.invited
                                 /\ Smaller(g, p).time = g.time
    <2>1. \A g \in Groups(queue) : g \in Group
      BY GroupsAre
    <2> QED
      BY <2>1, SmallerIs
  <1>3. ASSUME NEW x \in Groups(q), x.invited # 0, NEW r \in x.players, r \notin unw
        PROVE  \E e \in ToSet(events) : r \in e.players /\ e.bg = x.invited /\ e.time = x.time
    <2>1. PICK g \in Groups(queue) : x = Smaller(g, p)
      BY <1>1
    <2>2. g.invited = x.invited /\ g.time = x.time /\ r \in g.players /\ r # p
      BY <1>2, <1>3, <2>1
    <2>3. r \notin unwatching
      BY <1>3, <2>2
    <2> QED
      BY <1>3, <2>2, <2>3 DEF Watched
  <1> HIDE DEF unw
  <1>4. Watched(q, events, unw)
    BY <1>3 DEF Watched
  <1> QED
    BY <1>4 DEF q, unw

\* With one player less in the queue the others still know their invitation.
LEMMA WithoutTold ==
    ASSUME NEW queue, QueueType(queue), NEW p, NEW invite, NEW told, ToldIn(queue, invite),
           \A r \in Player : r # p => told[r] = invite[r]
    PROVE  ToldIn(WithoutPlayer(queue, p), told)
  <1> DEFINE q == WithoutPlayer(queue, p)
  <1>1. \A x : x \in Groups(q) <=>
                \E g \in Groups(queue) : g.players \ {p} # {} /\ x = Smaller(g, p)
    BY WithoutPlayerIs
  <1> HIDE DEF q
  <1>2. \A g \in Groups(queue) : /\ g.players \in SUBSET Player
                                 /\ Smaller(g, p).players = g.players \ {p}
                                 /\ Smaller(g, p).invited = g.invited
    <2>1. \A g \in Groups(queue) : g \in Group /\ g.players \in SUBSET Player
      BY GroupsAre DEF Group
    <2> QED
      BY <2>1, SmallerIs
  <1>3. ASSUME NEW x \in Groups(q), NEW r \in x.players PROVE told[r] \in {0, x.invited}
    <2>1. PICK g \in Groups(queue) : x = Smaller(g, p)
      BY <1>1
    <2>2. g.invited = x.invited /\ r \in g.players /\ r # p /\ r \in Player
      BY <1>2, <1>3, <2>1
    <2> QED
      BY <2>2 DEF ToldIn
  <1>4. ToldIn(q, told)
    BY <1>3 DEF ToldIn
  <1> QED
    BY <1>4 DEF q

\* AddGroup: the players of the new group are queued, and nobody is invited.
LEMMA WithGroupNow ==
    ASSUME QueueAssumption, NEW queue, QueueType(queue), OneGroup(queue),
           NEW kind \in Kinds, NEW t \in Team, NEW players \in SUBSET Player, players # {},
           players \cap QueuedIn(queue) = {}
    PROVE  LET q == WithGroup(queue, kind, t, NewGroup(players))
           IN  /\ QueueType(q) /\ OneGroup(q)
               /\ QueuedIn(q) = QueuedIn(queue) \cup players
               /\ \A b \in Battleground : InvitedIn(q, b) = InvitedIn(queue, b)
               /\ Groups(q) = Groups(queue) \cup {NewGroup(players)}
  <1> DEFINE n == NewGroup(players)
             q == WithGroup(queue, kind, t, n)
  <1>1. n \in Group /\ n.players = players /\ n.invited = 0
    BY DEF NewGroup, Group, Ids, QueueAssumption
  <1> HIDE DEF n
  <1>2. QueueType(q) /\ Groups(q) = Groups(queue) \cup {n}
    BY <1>1, WithGroupIs
  <1> HIDE DEF q
  <1>3. \A g \in Groups(queue) : g.players \cap players = {} /\ g.players # {}
    BY DEF QueuedIn, OneGroup
  <1>4. OneGroup(q)
    BY <1>1, <1>2, <1>3 DEF OneGroup
  <1>5. \A r : r \in QueuedIn(q) <=> r \in QueuedIn(queue) \/ r \in players
    BY <1>1, <1>2, QueuedIs
  <1>6. ASSUME NEW b \in Battleground, NEW r
        PROVE  r \in InvitedIn(q, b) <=> r \in InvitedIn(queue, b)
    <2>1. b # 0
      BY DEF Battleground
    <2> QED
      BY <1>1, <1>2, <2>1, QueuedIs
  <1>7. QueuedIn(q) = QueuedIn(queue) \cup players
    BY <1>5
  <1>8. ASSUME NEW b \in Battleground PROVE InvitedIn(q, b) = InvitedIn(queue, b)
    <2>1. \A r : r \in InvitedIn(q, b) <=> r \in InvitedIn(queue, b)
      BY <1>6
    <2> QED
      BY <2>1
  <1> QED
    BY <1>2, <1>4, <1>7, <1>8 DEF q, n

-----------------------------------------------------------------------------
(* The invariant, and what a step does besides.                            *)
\* The players battleground b has to keep a place for.
Heads(b) == HeadsIn(m_QueuedGroups, bgs, b)

\* What the counters of a battleground with a status account for.
Matches(status, invited, heads, d) ==
    /\ Created(status) => Accounts(invited, heads, d)
    /\ status = "none" => heads = {} /\ \A t \in Team : invited[t] = 0 /\ d[t] = 0

\* The counters of b account for its heads.
Accounted(b) == Matches(bgs[b].status, bgs[b].invited, Heads(b), drift[b])

\* Only what exists is offered to the queue.
FreeExist == \A b \in ToSet(freeSlots) : Created(bgs[b].status)

\* The inductive invariant.
IInv ==
    /\ TypeInv
    /\ OneGroup(m_QueuedGroups)
    /\ SlotHeld /\ Ported /\ Inside
    /\ ToldIn(m_QueuedGroups, inviteId)
    /\ Watched(m_QueuedGroups, m_events, unwatched)
    /\ \A b \in Battleground : Accounted(b)
    /\ FreeExist

\* Battleground b has no player, and by its counters nobody is invited.
Deserted(b) == Created(bgs[b].status) /\ bgs[b].players = {} /\ NobodyInvited(bgs[b])

\* What a step does to a battleground that is deleted afterwards, and to the
\* drift of the counters.
Frame ==
    /\ \A b \in Battleground : bgs'[b].status = "deleted" =>
         /\ bgs[b].status = "deleted" \/ Deserted(b)
         /\ Heads(b)' \subseteq Heads(b) /\ drift'[b] = drift[b]
    /\ moves \in Nat /\ moves' \in Nat
    /\ \A b \in Battleground, t \in Team : drift'[b][t] - moves' <= drift[b][t] - moves

\* A battleground exists from its creation to its deletion.
LEMMA ExistsIs ==
    ASSUME NEW b \in Battleground
    PROVE  Exists(b) <=> Created(bgs[b].status)
  BY DEF Exists, Created

\* The queued players of the state.
LEMMA QueuedPlayersAre == QueuedPlayers = QueuedIn(m_QueuedGroups)
  BY DEF QueuedPlayers, QueuedIn

\* A queued player is in no battleground and on the way to none.
LEMMA InvApart ==
    ASSUME IInv PROVE Apart
  <1>1. ASSUME NEW b \in Battleground, NEW p \in QueuedPlayers, p \in Way(b) \cup bgs[b].players
        PROVE  FALSE
    <2>1. b # 0
      BY DEF Battleground
    <2>2. CASE p \in bgs[b].players
      BY <2>2 DEF IInv, Inside
    <2>3. CASE p \in Way(b)
      BY <2>1, <2>3 DEF IInv, Ported, Way
    <2> QED
      BY <1>1, <2>2, <2>3
  <1> QED
    BY <1>1 DEF Apart

\* The heads of a battleground are players.
LEMMA HeadsAre ==
    ASSUME TypeInv, NEW b \in Battleground
    PROVE  Heads(b) \in SUBSET Player
  <1>1. bgs[b].players \in SUBSET Player
    BY DEF TypeInv, BattlegroundState
  <1>2. InvitedIn(m_QueuedGroups, b) \in SUBSET Player
    BY QueuedIs DEF TypeInv
  <1> QED
    BY <1>1, <1>2 DEF Heads, HeadsIn, Way

\* The invariant holds when the server starts.
LEMMA InitInv == ASSUME QueueAssumption, Init PROVE IInv
  <1>1. NumBattlegrounds \in Nat /\ 0 \in Ids /\ 0 \notin Battleground
    BY DEF QueueAssumption, Ids, Battleground
  <1>2. TypeInv
    <2>1. QueueType(m_QueuedGroups)
      BY DEF Init, QueueType, Kinds
    <2>2. NoBattleground \in BattlegroundState
      BY DEF NoBattleground, BattlegroundState, Status
    <2>3. m_events \in Seq(Event) /\ freeSlots \in Seq(Battleground)
      BY DEF Init
    <2> QED
      BY <1>1, <2>1, <2>2, <2>3 DEF Init, TypeInv
  <1>3. Groups(m_QueuedGroups) = {}
    BY DEF Init, Groups, ToSet
  <1>4. QueuedPlayers = {} /\ \A b : InvitedIn(m_QueuedGroups, b) = {}
    BY <1>3 DEF QueuedPlayers, InvitedIn
  <1>5. ASSUME NEW b \in Battleground PROVE Accounted(b)
    <2>1. bgs[b] = NoBattleground /\ drift[b] = [t \in Team |-> 0]
      BY DEF Init
    <2>2. Way(b) = {}
      BY DEF Way, Init
    <2>3. Heads(b) = {}
      BY <1>4, <2>1, <2>2 DEF Heads, HeadsIn, NoBattleground
    <2> QED
      BY <2>1, <2>3 DEF Accounted, Matches, Created, NoBattleground
  <1>6. SlotHeld /\ Ported /\ OneGroup(m_QueuedGroups)
    BY <1>3, <1>4 DEF SlotHeld, Ported, OneGroup, Init
  <1>7. Inside
    BY DEF Inside, Init, NoBattleground
  <1>8. ToldIn(m_QueuedGroups, inviteId) /\ Watched(m_QueuedGroups, m_events, unwatched)
    BY <1>3 DEF ToldIn, Watched
  <1>9. FreeExist
    BY DEF FreeExist, Init, ToSet
  <1> QED
    BY <1>2, <1>5, <1>6, <1>7, <1>8, <1>9 DEF IInv

\* The types of the state, and of one battleground.
LEMMA TypesAre ==
    ASSUME TypeInv
    PROVE  /\ QueueType(m_QueuedGroups)
           /\ QueuedPlayers \in SUBSET Player
           /\ \A b \in Battleground :
                /\ bgs[b] \in BattlegroundState
                /\ bgs[b].status \in Status /\ bgs[b].players \in SUBSET Player
                /\ bgs[b].invited \in [Team -> Nat]
                /\ drift[b] \in [Team -> Int]
                /\ \A t \in Team : drift[b][t] \in Int
  <1>1. QueuedPlayers \in SUBSET Player
    BY QueuedIs, QueuedPlayersAre DEF TypeInv
  <1> QED
    BY <1>1 DEF TypeInv, BattlegroundState

\* A step that changes neither the battlegrounds nor the history.
LEMMA SameFrame ==
    ASSUME TypeInv, bgs' = bgs, drift' = drift, moves' \in Nat, moves <= moves',
           \A b \in Battleground : bgs[b].status = "deleted" => Heads(b)' \subseteq Heads(b)
    PROVE  Frame
  <1>1. moves \in Nat
    BY DEF TypeInv
  <1>2. ASSUME NEW b \in Battleground, NEW t \in Team
        PROVE  drift'[b][t] - moves' <= drift[b][t] - moves
    <2>1. drift[b][t] \in Int
      BY TypesAre
    <2> QED
      BY <1>1, <2>1
  <1> QED
    BY <1>1, <1>2 DEF Frame

\* AddGroup keeps the invariant, for players without a queue slot.
LEMMA AddGroupInv ==
    ASSUME QueueAssumption, IInv, NEW players \in SUBSET Player, players # {}, NEW kind \in Kinds,
           AddGroup(players, kind),
           \A p \in players : ~ queueId[p] /\ place[p] # "offline"
    PROVE  IInv' /\ Frame
  <1> DEFINE t == TeamOf(CHOOSE p \in players : TRUE)
             queue == m_QueuedGroups
             n == NewGroup(players)
             q == WithGroup(queue, kind, t, n)
  <1>1. t \in Team
    BY Sides
  <1>2. /\ m_QueuedGroups' = q
        /\ queueId' = [p \in Player |-> p \in players \/ queueId[p]]
        /\ inviteId' = [p \in Player |-> IF p \in players THEN 0 ELSE inviteId[p]]
        /\ m_events' = m_events /\ serial' = serial /\ bgs' = bgs /\ freeSlots' = freeSlots
        /\ place' = place /\ bgId' = bgId /\ drift' = drift /\ unwatched' = unwatched
        /\ moves' = moves
    BY DEF AddGroup, WithGroup, bgVars, history
  <1>3. TypeInv /\ OneGroup(queue) /\ QueueType(queue)
    BY DEF IInv, TypeInv
  <1>4. \A p \in players : p \notin QueuedPlayers
    BY DEF IInv, SlotHeld
  <1> HIDE DEF t
  <1>5. /\ QueueType(q) /\ OneGroup(q)
        /\ QueuedIn(q) = QueuedIn(queue) \cup players
        /\ \A b \in Battleground : InvitedIn(q, b) = InvitedIn(queue, b)
        /\ Groups(q) = Groups(queue) \cup {n}
    <2> HIDE DEF queue, q, n
    <2>1. players \cap QueuedIn(queue) = {}
      BY <1>4, QueuedPlayersAre DEF queue
    <2> QED
      BY <1>1, <1>3, <2>1, WithGroupNow DEF q, n
  <1>6. n.players = players /\ n.invited = 0
    BY DEF NewGroup
  <1> HIDE DEF q, n
  <1>7. QueuedPlayers' = QueuedPlayers \cup players
    BY <1>2, <1>5, QueuedPlayersAre DEF QueuedPlayers, QueuedIn
  <1>8. TypeInv'
    <2>1. queueId' \in [Player -> BOOLEAN]
      BY <1>2, <1>3 DEF TypeInv
    <2>2. inviteId' \in [Player -> Ids]
      BY <1>2, <1>3 DEF TypeInv, Ids, QueueAssumption
    <2> QED
      BY <1>2, <1>3, <1>5, <2>1, <2>2 DEF TypeInv, QueueType
  <1>9. SlotHeld'
    BY <1>2, <1>7, TypesAre, <1>3 DEF SlotHeld, IInv
  <1>10. Ported'
    <2> SUFFICES ASSUME NEW p \in Player, place[p] = "loading", bgId[p] # 0
                 PROVE  queueId'[p] /\ p \notin QueuedPlayers' /\ inviteId'[p] = bgId[p]
      BY <1>2 DEF Ported
    <2>1. queueId[p] /\ p \notin QueuedPlayers /\ inviteId[p] = bgId[p]
      BY DEF IInv, Ported
    <2> QED
      BY <1>2, <1>7, <2>1
  <1>11. Inside'
    <2> SUFFICES ASSUME NEW b \in Battleground, NEW p \in bgs[b].players
                 PROVE  /\ Exists(b)' /\ bgId'[p] = b /\ p \notin QueuedPlayers'
                        /\ place'[p] # "loading"
                        /\ place'[p] = "world" => queueId'[p]
      BY <1>2 DEF Inside
    <2>1. /\ Exists(b) /\ bgId[p] = b /\ p \notin QueuedPlayers
          /\ place[p] # "loading"
          /\ place[p] = "world" => queueId[p]
      BY DEF IInv, Inside
    <2>2. p \in Player /\ place[p] \in {"world", "loading", "offline"}
      BY <1>3, TypesAre DEF TypeInv
    <2>3. p \notin players
      BY <2>1, <2>2
    <2> QED
      BY <1>2, <1>7, <2>1, <2>2, <2>3 DEF Exists
  <1>12. ToldIn(m_QueuedGroups, inviteId)'
    <2>1. \A p \in players : inviteId'[p] = 0
      BY <1>2
    <2>2. \A g \in Groups(queue) : \A p \in g.players : p \notin players /\ p \in Player
      BY <1>3, <1>4, TypesAre DEF QueuedPlayers
    <2>3. \A g \in Groups(queue) : \A p \in g.players : inviteId'[p] \in {0, g.invited}
      BY <1>2, <2>2 DEF IInv, ToldIn
    <2>4. \A g \in Groups(q) : \A p \in g.players : inviteId'[p] \in {0, g.invited}
      BY <1>5, <1>6, <2>1, <2>3
    <2> QED
      BY <1>2, <2>4 DEF ToldIn
  <1>13. Watched(m_QueuedGroups, m_events, unwatched)'
    <2>1. Watched(q, m_events, unwatched)
      BY <1>5, <1>6 DEF IInv, Watched
    <2> QED
      BY <1>2, <2>1 DEF Watched
  <1>14. \A b \in Battleground : Heads(b)' = Heads(b)
    <2> SUFFICES ASSUME NEW b \in Battleground PROVE Heads(b)' = Heads(b)
      OBVIOUS
    <2>1. Way(b)' = Way(b)
      BY <1>2 DEF Way
    <2>2. HeadsIn(q, bgs, b) = Heads(b)
      BY <1>5 DEF Heads, HeadsIn
    <2> QED
      BY <1>2, <2>1, <2>2 DEF Heads, HeadsIn
  <1>15. \A b \in Battleground : Accounted(b)'
    BY <1>2, <1>14 DEF IInv, Accounted
  <1>16. FreeExist'
    BY <1>2 DEF IInv, FreeExist
  <1>17. OneGroup(m_QueuedGroups)'
    BY <1>2, <1>5 DEF OneGroup
  <1>18. IInv'
    BY <1>8, <1>9, <1>10, <1>11, <1>12, <1>13, <1>15, <1>16, <1>17 DEF IInv
  <1>19. Frame
    <2>1. moves' \in Nat /\ moves <= moves'
      BY <1>2, <1>3 DEF TypeInv
    <2> QED
      BY <1>2, <1>3, <1>14, <2>1, SameFrame
  <1> QED
    BY <1>18, <1>19

\* HandleBattlemasterJoinOpcode of one player keeps the invariant.
LEMMA JoinAloneInv ==
    ASSUME QueueAssumption, IInv, NEW p \in Player, JoinAlone(p) PROVE IInv' /\ Frame
  <1> DEFINE x == {p}
             k == "normal"
  <1>1. x \in SUBSET Player /\ x # {} /\ k \in Kinds /\ AddGroup(x, k)
        /\ \A r \in x : ~ queueId[r] /\ place[r] # "offline"
    BY DEF JoinAlone, Kinds
  <1> HIDE DEF x, k
  <1> QED
    BY <1>1, AddGroupInv

\* HandleBattlemasterJoinOpcode of a party keeps the invariant.
LEMMA JoinAsGroupInv ==
    ASSUME QueueAssumption, IInv, NEW p \in Player, NEW party \in Parties, JoinAsGroup(p, party)
    PROVE  IInv' /\ Frame
  <1> DEFINE k == IF Cardinality(party) >= MinPlayersPerTeam THEN "premade" ELSE "normal"
  <1>1. party \in SUBSET Player /\ party # {} /\ k \in Kinds /\ AddGroup(party, k)
        /\ \A r \in party : ~ queueId[r] /\ place[r] # "offline"
    BY DEF JoinAsGroup, Kinds, QueueAssumption, Player
  <1> HIDE DEF k
  <1> QED
    BY <1>1, AddGroupInv

\* A step that touches neither the queue nor the battlegrounds.
LEMMA ChangeMapInv ==
    ASSUME QueueAssumption, IInv, NEW p \in Player, ChangeMap(p) PROVE IInv' /\ Frame
  <1>1. /\ place[p] = "world" /\ bgId[p] = 0 /\ moves' = moves + 1
        /\ place' = [place EXCEPT ![p] = "loading"]
        /\ m_QueuedGroups' = m_QueuedGroups /\ m_events' = m_events /\ serial' = serial
        /\ bgs' = bgs /\ freeSlots' = freeSlots /\ bgId' = bgId /\ queueId' = queueId
        /\ inviteId' = inviteId /\ drift' = drift /\ unwatched' = unwatched
    BY DEF ChangeMap, queueVars, bgVars, history
  <1>2. TypeInv
    BY DEF IInv
  <1>3. QueuedPlayers' = QueuedPlayers
    BY <1>1 DEF QueuedPlayers
  <1>4. TypeInv'
    BY <1>1, <1>2 DEF TypeInv, QueueType
  <1>5. \A r \in Player : place'[r] = IF r = p THEN "loading" ELSE place[r]
    BY <1>1, <1>2 DEF TypeInv
  <1>6. SlotHeld'
    BY <1>1, <1>2, <1>3, <1>5, TypesAre DEF SlotHeld, IInv
  <1>7. Ported'
    BY <1>1, <1>3, <1>5 DEF Ported, IInv
  <1>8. Inside'
    <2> SUFFICES ASSUME NEW b \in Battleground, NEW r \in bgs[b].players
                 PROVE  /\ Exists(b)' /\ bgId[r] = b /\ r \notin QueuedPlayers'
                        /\ place'[r] # "loading"
                        /\ place'[r] = "world" => queueId[r]
      BY <1>1 DEF Inside
    <2>1. /\ Exists(b) /\ bgId[r] = b /\ r \notin QueuedPlayers
          /\ place[r] # "loading"
          /\ place[r] = "world" => queueId[r]
      BY DEF IInv, Inside
    <2>2. r \in Player /\ b # 0
      BY <1>2, TypesAre DEF Battleground
    <2> QED
      BY <1>1, <1>3, <1>5, <2>1, <2>2 DEF Exists
  <1>9. \A b \in Battleground : Heads(b)' = Heads(b)
    <2> SUFFICES ASSUME NEW b \in Battleground PROVE Heads(b)' = Heads(b)
      OBVIOUS
    <2>1. b # 0
      BY DEF Battleground
    <2>2. Way(b)' = Way(b)
      BY <1>1, <1>5, <2>1 DEF Way
    <2> QED
      BY <1>1, <2>2 DEF Heads, HeadsIn
  <1>10. \A b \in Battleground : Accounted(b)'
    BY <1>1, <1>9 DEF IInv, Accounted
  <1>11. FreeExist' /\ OneGroup(m_QueuedGroups)' /\ ToldIn(m_QueuedGroups, inviteId)'
         /\ Watched(m_QueuedGroups, m_events, unwatched)'
    BY <1>1 DEF IInv, FreeExist, OneGroup, ToldIn, Watched
  <1>12. IInv'
    BY <1>4, <1>6, <1>7, <1>8, <1>10, <1>11 DEF IInv
  <1>13. Frame
    <2>1. moves' \in Nat /\ moves <= moves'
      BY <1>1, <1>2 DEF TypeInv
    <2> QED
      BY <1>1, <1>2, <1>9, <2>1, SameFrame
  <1> QED
    BY <1>12, <1>13

\* The end of a tick keeps the invariant.
LEMMA EndTickInv ==
    ASSUME IInv, EndTick PROVE IInv' /\ Frame
  <1>1. /\ m_QueuedGroups' = m_QueuedGroups /\ m_events' = m_events /\ serial' = serial
        /\ bgs' = bgs /\ freeSlots' = freeSlots /\ bgId' = bgId /\ queueId' = queueId
        /\ inviteId' = inviteId /\ drift' = drift /\ unwatched' = unwatched
        /\ place' = place /\ moves' = moves
    BY DEF EndTick, queueVars, bgVars, history, playerVars
  <1>2. \A b \in Battleground : Heads(b)' = Heads(b)
    BY <1>1 DEF Heads, HeadsIn, Way
  <1>3. IInv'
    <2>1. \A b \in Battleground : Accounted(b)'
      BY <1>1, <1>2 DEF IInv, Accounted
    <2>2. QueuedPlayers' = QueuedPlayers
      BY <1>1 DEF QueuedPlayers
    <2>3. TypeInv'
      BY <1>1 DEF IInv, TypeInv, QueueType
    <2>4. SlotHeld' /\ Ported'
      BY <1>1, <2>2 DEF IInv, SlotHeld, Ported
    <2>5. Inside'
      BY <1>1, <2>2 DEF IInv, Inside, Exists
    <2> QED
      BY <1>1, <2>1, <2>3, <2>4, <2>5 DEF IInv, FreeExist, OneGroup, ToldIn, Watched
  <1>4. Frame
    <2>1. TypeInv
      BY DEF IInv
    <2>2. moves' \in Nat /\ moves <= moves'
      BY <1>1, <2>1 DEF TypeInv
    <2> QED
      BY <1>1, <1>2, <2>1, <2>2, SameFrame
  <1> QED
    BY <1>3, <1>4

\* A battleground that exists gets another status.
LEMMA StatusInv ==
    ASSUME IInv, NEW b \in Battleground, NEW st \in Status,
           Created(bgs[b].status),
           Created(st) \/ (st = "deleted" /\ bgs[b].players = {} /\ NobodyInvited(bgs[b])),
           bgs' = [bgs EXCEPT ![b].status = st],
           freeSlots' \in Seq(Battleground),
           \A x \in ToSet(freeSlots') : x \in ToSet(freeSlots) /\ (x # b \/ Created(st)),
           UNCHANGED <<queueVars, m_OfflineQueue, playerVars, history, moves>>
    PROVE  IInv' /\ Frame
  <1>1. /\ m_QueuedGroups' = m_QueuedGroups /\ m_events' = m_events /\ serial' = serial
        /\ bgId' = bgId /\ queueId' = queueId
        /\ inviteId' = inviteId /\ drift' = drift /\ unwatched' = unwatched
        /\ place' = place /\ moves' = moves
    BY DEF queueVars, history, playerVars
  <1>2. TypeInv
    BY DEF IInv
  <1>3. /\ bgs' \in [Battleground -> BattlegroundState]
        /\ bgs'[b].status = st
        /\ \A c \in Battleground : /\ bgs'[c].players = bgs[c].players
                                   /\ bgs'[c].invited = bgs[c].invited
                                   /\ c # b => bgs'[c].status = bgs[c].status
    BY <1>2 DEF TypeInv, BattlegroundState
  <1>4. \A c \in Battleground : Heads(c)' = Heads(c)
    BY <1>1, <1>3 DEF Heads, HeadsIn, Way
  <1>5. QueuedPlayers' = QueuedPlayers
    BY <1>1 DEF QueuedPlayers
  <1>6. TypeInv'
    BY <1>1, <1>2, <1>3 DEF TypeInv, QueueType
  <1>7. SlotHeld' /\ Ported'
    BY <1>1, <1>5 DEF IInv, SlotHeld, Ported
  <1>8. Inside'
    <2> SUFFICES ASSUME NEW c \in Battleground, NEW r \in bgs[c].players
                 PROVE  /\ Exists(c)' /\ bgId[r] = c /\ r \notin QueuedPlayers'
                        /\ place[r] # "loading"
                        /\ place[r] = "world" => queueId[r]
      BY <1>1, <1>3 DEF Inside
    <2>1. /\ Exists(c) /\ bgId[r] = c /\ r \notin QueuedPlayers
          /\ place[r] # "loading"
          /\ place[r] = "world" => queueId[r]
      BY DEF IInv, Inside
    <2>2. CASE c = b
      <3>1. Created(st)
        BY <2>2
      <3> QED
        BY <1>3, <1>5, <2>1, <2>2, <3>1 DEF Exists, Created
    <2>3. CASE c # b
      BY <1>3, <1>5, <2>1, <2>3 DEF Exists
    <2> QED
      BY <2>2, <2>3
  <1>9. ASSUME NEW c \in Battleground PROVE Accounted(c)'
    <2>1. Accounted(c)
      BY DEF IInv
    <2>2. CASE c # b
      BY <1>1, <1>3, <1>4, <2>1, <2>2 DEF Accounted
    <2>3. CASE c = b
      <3>1. Accounts(bgs[b].invited, Heads(b), drift[b])
        BY <2>1, <2>3 DEF Accounted, Matches
      <3>2. st # "none"
        BY DEF Created
      <3> QED
        BY <1>1, <1>3, <1>4, <2>3, <3>1, <3>2 DEF Accounted, Matches
    <2> QED
      BY <2>2, <2>3
  <1>10. FreeExist'
    <2> SUFFICES ASSUME NEW x \in ToSet(freeSlots') PROVE Created(bgs'[x].status)
      BY DEF FreeExist
    <2>1. x \in Battleground
      BY SetOfSeq
    <2>2. Created(bgs[x].status)
      BY DEF IInv, FreeExist
    <2>3. CASE x = b
      BY <1>3, <2>3
    <2>4. CASE x # b
      BY <1>3, <2>1, <2>2, <2>4
    <2> QED
      BY <2>3, <2>4
  <1>11. OneGroup(m_QueuedGroups)' /\ ToldIn(m_QueuedGroups, inviteId)'
         /\ Watched(m_QueuedGroups, m_events, unwatched)'
    BY <1>1 DEF IInv, OneGroup, ToldIn, Watched
  <1>12. Frame
    <2>1. moves \in Nat /\ \A c \in Battleground, t \in Team : drift[c][t] \in Int
      BY <1>2, TypesAre DEF TypeInv
    <2>2. \A c \in Battleground : bgs'[c].status = "deleted" =>
                bgs[c].status = "deleted" \/ Deserted(c)
      BY <1>3 DEF Created, Deserted
    <2> QED
      BY <1>1, <1>4, <2>1, <2>2 DEF Frame
  <1> QED
    BY <1>6, <1>7, <1>8, <1>9, <1>10, <1>11, <1>12 DEF IInv

\* Battleground::Update of an empty battleground keeps the invariant.
LEMMA UpdateEmptyInv ==
    ASSUME IInv, NEW b \in Battleground, UpdateEmpty(b) PROVE IInv' /\ Frame
  <1> DEFINE st == "deleted"
  <1>1. /\ Created(bgs[b].status) /\ st \in Status /\ bgs[b].players = {}
        /\ NobodyInvited(bgs[b])
        /\ bgs' = [bgs EXCEPT ![b].status = st]
        /\ UNCHANGED <<queueVars, m_OfflineQueue, playerVars, history, moves>>
        /\ freeSlots' = Without(freeSlots, b)
    BY ExistsIs DEF UpdateEmpty, MayIdle, Status
  <1>2. freeSlots \in Seq(Battleground)
    BY DEF IInv, TypeInv
  <1>3. freeSlots' \in Seq(Battleground)
        /\ \A x \in ToSet(freeSlots') : x \in ToSet(freeSlots) /\ (x # b \/ Created(st))
    BY <1>1, <1>2, WithoutIs
  <1>4. Created(st) \/ (st = "deleted" /\ bgs[b].players = {} /\ NobodyInvited(bgs[b]))
    BY <1>1
  <1> HIDE DEF st
  <1> QED
    BY <1>1, <1>3, <1>4, StatusInv

\* A change of the status in Battleground::Update keeps the invariant.
LEMMA UpdateStatusInv ==
    ASSUME IInv, NEW b \in Battleground, UpdateStatus(b) PROVE IInv' /\ Frame
  <1> DEFINE st == IF bgs[b].status = "wait_join" THEN "in_progress" ELSE "wait_leave"
  <1>1. /\ Created(bgs[b].status) /\ st \in Status /\ Created(st)
        /\ bgs' = [bgs EXCEPT ![b].status = st]
        /\ UNCHANGED <<queueVars, m_OfflineQueue, playerVars, history, moves>>
        /\ freeSlots' = freeSlots \/ freeSlots' = Without(freeSlots, b)
    BY DEF UpdateStatus, Open, Created, Status
  <1> HIDE DEF st
  <1>2. freeSlots \in Seq(Battleground)
    BY DEF IInv, TypeInv
  <1>3. freeSlots' \in Seq(Battleground)
        /\ \A x \in ToSet(freeSlots') : x \in ToSet(freeSlots) /\ (x # b \/ Created(st))
    BY <1>1, <1>2, WithoutIs
  <1> QED
    BY <1>1, <1>3, StatusInv

\* HandleMoveWorldportAckOpcode keeps the invariant: the player on the way
\* becomes a player inside.
LEMMA WorldportAckInv ==
    ASSUME QueueAssumption, IInv, NEW p \in Player, WorldportAck(p) PROVE IInv' /\ Frame
  <1> DEFINE lost == bgId[p] # 0 /\ ~ Exists(bgId[p])
             here == bgId[p] # 0 /\ inviteId[p] = bgId[p]
             d == bgId[p]
  <1>1. /\ place[p] = "loading"
        /\ m_QueuedGroups' = m_QueuedGroups /\ m_events' = m_events /\ serial' = serial
        /\ freeSlots' = freeSlots /\ queueId' = queueId
        /\ inviteId' = inviteId /\ drift' = drift /\ unwatched' = unwatched /\ moves' = moves
        /\ lost => bgId' = [bgId EXCEPT ![p] = 0] /\ place' = place /\ bgs' = bgs
        /\ ~ lost => /\ place' = [place EXCEPT ![p] = "world"] /\ bgId' = bgId
                     /\ bgs' = IF here THEN [bgs EXCEPT ![d].players = @ \cup {p}] ELSE bgs
    BY DEF WorldportAck, queueVars, history
  <1>2. TypeInv
    BY DEF IInv
  <1>3. d \in Ids /\ (d # 0 => d \in Battleground)
    BY <1>2 DEF TypeInv, Ids, Battleground, QueueAssumption
  <1>4. d # 0 => queueId[p] /\ p \notin QueuedPlayers /\ inviteId[p] = d
    BY <1>1 DEF IInv, Ported
  <1>5. QueuedPlayers' = QueuedPlayers
    BY <1>1 DEF QueuedPlayers
  <1>a. lost => d # 0 /\ ~ Exists(d)
    BY DEF lost
  <1>b. ~ lost => d = 0 \/ Exists(d)
    BY DEF lost
  <1>c. d # 0 => here
    BY <1>4
  <1>d. lost \in BOOLEAN /\ here \in BOOLEAN
    OBVIOUS
  <1> HIDE DEF lost, here
  <1>6. /\ \A r \in Player : bgId'[r] = IF lost /\ r = p THEN 0 ELSE bgId[r]
        /\ \A r \in Player : place'[r] = IF ~ lost /\ r = p THEN "world" ELSE place[r]
        /\ bgId' \in [Player -> Ids] /\ place' \in [Player -> {"world", "loading", "offline"}]
    <2>0. bgId \in [Player -> Ids] /\ place \in [Player -> {"world", "loading", "offline"}]
          /\ 0 \in Ids
      BY <1>2 DEF TypeInv, Ids, QueueAssumption
    <2>1. CASE lost
      <3>1. bgId' = [bgId EXCEPT ![p] = 0] /\ place' = place
        BY <1>1, <2>1
      <3> QED
        BY <2>0, <2>1, <3>1
    <2>2. CASE ~ lost
      <3>1. place' = [place EXCEPT ![p] = "world"] /\ bgId' = bgId
        BY <1>1, <2>2
      <3> QED
        BY <2>0, <2>2, <3>1
    <2> QED
      BY <1>d, <2>1, <2>2
  <1> HIDE DEF d
  <1>7. /\ bgs' \in [Battleground -> BattlegroundState]
        /\ \A b \in Battleground : bgs'[b].status = bgs[b].status /\ bgs'[b].invited = bgs[b].invited
        /\ \A b \in Battleground : bgs'[b].players =
             IF ~ lost /\ b = d THEN bgs[b].players \cup {p} ELSE bgs[b].players
    <2>0. bgs \in [Battleground -> BattlegroundState] /\ 0 \notin Battleground
      BY <1>2 DEF TypeInv, Battleground
    <2>1. CASE lost \/ d = 0
      <3>1. bgs' = bgs
        <4>1. here => d # 0
          BY DEF here, d
        <4> QED
          BY <1>1, <2>1, <4>1
      <3> QED
        BY <2>0, <2>1, <3>1
    <2>2. CASE ~ lost /\ d # 0
      <3>1. bgs' = [bgs EXCEPT ![d].players = @ \cup {p}] /\ d \in Battleground
        BY <1>1, <1>3, <1>c, <2>2 DEF d
      <3>2. bgs[d] \in BattlegroundState
        BY <2>0, <3>1
      <3> DEFINE n == [bgs[d] EXCEPT !.players = @ \cup {p}]
      <3>3. n \in BattlegroundState /\ n.status = bgs[d].status /\ n.invited = bgs[d].invited
            /\ n.players = bgs[d].players \cup {p}
        BY <3>2 DEF BattlegroundState
      <3>4. bgs' = [bgs EXCEPT ![d] = n]
        BY <3>1
      <3> HIDE DEF n
      <3>5. bgs' \in [Battleground -> BattlegroundState]
        BY <2>0, <3>3, <3>4
      <3>6. \A b \in Battleground : bgs'[b] = IF b = d THEN n ELSE bgs[b]
        BY <2>0, <3>4
      <3>7. ASSUME NEW b \in Battleground
            PROVE  /\ bgs'[b].status = bgs[b].status /\ bgs'[b].invited = bgs[b].invited
                   /\ bgs'[b].players = IF b = d THEN bgs[b].players \cup {p} ELSE bgs[b].players
        <4>1. CASE b = d
          BY <3>3, <3>6, <4>1
        <4>2. CASE b # d
          BY <3>6, <4>2
        <4> QED
          BY <4>1, <4>2
      <3> QED
        BY <2>2, <3>5, <3>7
    <2> QED
      BY <1>d, <2>1, <2>2
  <1>10. \A b \in Battleground : Heads(b)' = IF lost /\ b = d THEN Heads(b) \ {p} ELSE Heads(b)
    <2> SUFFICES ASSUME NEW b \in Battleground
                 PROVE  Heads(b)' = IF lost /\ b = d THEN Heads(b) \ {p} ELSE Heads(b)
      OBVIOUS
    <2>1. b # 0
      BY DEF Battleground
    <2>2. p \in Way(b) <=> b = d
      BY <1>1 DEF Way, d
    <2>3. Way(b)' = IF b = d THEN Way(b) \ {p} ELSE Way(b)
      BY <1>1, <1>6, <2>1 DEF Way, d
    <2>4. b = d => p \notin InvitedIn(m_QueuedGroups, b)
      <3>1. InvitedIn(m_QueuedGroups, b) \subseteq QueuedPlayers
        BY <1>2, TypesAre, QueuedIs, QueuedPlayersAre
      <3> QED
        BY <1>4, <2>1, <3>1
    <2>5. b = d => p \notin bgs[b].players
      BY <1>1 DEF IInv, Inside
    <2>6. Heads(b) = InvitedIn(m_QueuedGroups, b) \cup Way(b) \cup bgs[b].players
          /\ Heads(b)' = InvitedIn(m_QueuedGroups, b) \cup Way(b)' \cup bgs'[b].players
      BY <1>1 DEF Heads, HeadsIn
    <2>7. CASE b # d
      BY <1>7, <2>3, <2>6, <2>7
    <2>8. CASE b = d /\ lost
      <3>1. bgs'[b].players = bgs[b].players /\ Way(b)' = Way(b) \ {p}
        BY <1>7, <2>3, <2>8
      <3>2. Heads(b)' = Heads(b) \ {p}
        BY <2>4, <2>5, <2>6, <2>8, <3>1
      <3> QED
        BY <2>8, <3>2
    <2>9. CASE b = d /\ ~ lost
      <3>1. bgs'[b].players = bgs[b].players \cup {p} /\ Way(b)' = Way(b) \ {p} /\ p \in Way(b)
        BY <1>7, <2>2, <2>3, <2>9
      <3>2. Heads(b)' = Heads(b)
        BY <2>6, <3>1
      <3> QED
        BY <2>9, <3>2
    <2> QED
      BY <1>d, <2>7, <2>8, <2>9
  <1>11. TypeInv'
    BY <1>1, <1>2, <1>6, <1>7 DEF TypeInv, QueueType
  <1>12. SlotHeld'
    BY <1>1, <1>2, <1>5, <1>6, TypesAre DEF SlotHeld, IInv
  <1>13. Ported'
    BY <1>1, <1>5, <1>6 DEF Ported, IInv
  <1>14. Inside'
    <2> SUFFICES ASSUME NEW b \in Battleground, NEW r \in bgs'[b].players
                 PROVE  /\ Exists(b)' /\ bgId'[r] = b /\ r \notin QueuedPlayers'
                        /\ place'[r] # "loading"
                        /\ place'[r] = "world" => queueId'[r]
      BY DEF Inside
    <2>a. Exists(b)' <=> Exists(b)
      BY <1>7 DEF Exists
    <2>1. CASE r \in bgs[b].players
      <3>1. /\ Exists(b) /\ bgId[r] = b /\ r \notin QueuedPlayers
            /\ place[r] # "loading"
            /\ place[r] = "world" => queueId[r]
        BY <2>1 DEF IInv, Inside
      <3>2. r \in Player /\ r # p
        BY <1>1, <1>2, <2>1, <3>1, TypesAre
      <3> QED
        BY <1>1, <1>5, <1>6, <2>a, <3>1, <3>2
    <2>2. CASE r \notin bgs[b].players
      <3>1. r = p /\ ~ lost /\ b = d
        BY <1>7, <2>2
      <3>2. b # 0 /\ Exists(b)
        BY <1>b, <3>1 DEF Battleground
      <3>3. bgId'[p] = b /\ place'[p] = "world" /\ queueId[p] /\ p \notin QueuedPlayers
        BY <1>4, <1>6, <3>1, <3>2 DEF d
      <3> QED
        BY <1>1, <1>5, <2>a, <3>1, <3>2, <3>3
    <2> QED
      BY <2>1, <2>2
  <1>15. ASSUME NEW b \in Battleground PROVE Accounted(b)'
    <2>1. Accounted(b)
      BY DEF IInv
    <2>2. CASE lost /\ b = d
      <3>1. ~ Created(bgs[b].status)
        BY <1>a, <2>2, ExistsIs
      <3> QED
        BY <1>1, <1>7, <1>10, <2>1, <2>2, <3>1 DEF Accounted, Matches
    <2>3. CASE ~ (lost /\ b = d)
      BY <1>1, <1>7, <1>10, <2>1, <2>3 DEF Accounted
    <2> QED
      BY <2>2, <2>3
  <1>16. FreeExist'
    <2> SUFFICES ASSUME NEW x \in ToSet(freeSlots) PROVE Created(bgs'[x].status)
      BY <1>1 DEF FreeExist
    <2>1. x \in Battleground
      BY <1>2, SetOfSeq DEF TypeInv
    <2> QED
      BY <1>7, <2>1 DEF IInv, FreeExist
  <1>17. OneGroup(m_QueuedGroups)' /\ ToldIn(m_QueuedGroups, inviteId)'
         /\ Watched(m_QueuedGroups, m_events, unwatched)'
    BY <1>1 DEF IInv, OneGroup, ToldIn, Watched
  <1>18. Frame
    <2>1. moves \in Nat /\ \A c \in Battleground, t \in Team : drift[c][t] \in Int
      BY <1>2, TypesAre DEF TypeInv
    <2>2. \A b \in Battleground : Heads(b)' \subseteq Heads(b)
      BY <1>10
    <2> QED
      BY <1>1, <1>7, <2>1, <2>2 DEF Frame
  <1> QED
    BY <1>11, <1>12, <1>13, <1>14, <1>15, <1>16, <1>17, <1>18 DEF IInv

-----------------------------------------------------------------------------
(* BattlegroundQueue::RemovePlayer.                                        *)
\* RemovePlayer takes one player out of the queue, and off the counter of the
\* battleground he was invited to if it is told to.
LEMMA RemovedIs ==
    ASSUME QueueAssumption, IInv, NEW p \in Player, NEW dec \in BOOLEAN, RemovePlayer(p, dec)
    PROVE  /\ QueueType(m_QueuedGroups') /\ OneGroup(m_QueuedGroups')
           /\ QueuedPlayers' = QueuedPlayers \ {p}
           /\ \A b : InvitedIn(m_QueuedGroups', b) = InvitedIn(m_QueuedGroups, b) \ {p}
           /\ bgs' \in [Battleground -> BattlegroundState]
           /\ \A b \in Battleground :
                /\ bgs'[b].status = bgs[b].status /\ bgs'[b].players = bgs[b].players
                /\ bgs'[b].invited =
                     IF dec /\ Created(bgs[b].status) /\ p \in InvitedIn(m_QueuedGroups, b)
                       THEN Decreased(bgs[b].invited, TeamOf(p), 1) ELSE bgs[b].invited
  <1> DEFINE queue == m_QueuedGroups
             q == WithoutPlayer(queue, p)
             d == GroupInfo(p).invited
             counts == dec /\ InvitedToBattleground(p)
  <1>1. TypeInv /\ QueueType(queue) /\ OneGroup(queue) /\ m_QueuedGroups' = q
    BY DEF IInv, TypeInv, RemovePlayer
  <1>2. /\ QueueType(q) /\ OneGroup(q)
        /\ QueuedIn(q) = QueuedIn(queue) \ {p}
        /\ \A b : InvitedIn(q, b) = InvitedIn(queue, b) \ {p}
    <2> HIDE DEF queue, q
    <2> QED
      BY <1>1, WithoutNow DEF q
  <1>3. QueuedPlayers' = QueuedIn(m_QueuedGroups')
    BY DEF QueuedPlayers, QueuedIn
  <1>4. bgs' = IF counts THEN [bgs EXCEPT ![d].invited = Decreased(@, TeamOf(p), 1)] ELSE bgs
    BY DEF RemovePlayer, CountsOut
  <1>5. p \in QueuedPlayers => \A b : p \in InvitedIn(queue, b) <=> b = d
    <2> SUFFICES ASSUME p \in QueuedPlayers, NEW b PROVE p \in InvitedIn(queue, b) <=> b = d
      OBVIOUS
    <2> DEFINE g == GroupInfo(p)
    <2>1. g \in Groups(queue) /\ p \in g.players
      BY GroupInfoIs
    <2> HIDE DEF g, queue
    <2>2. \A h \in Groups(queue) : p \in h.players => h = g
      BY <1>1, <2>1 DEF OneGroup
    <2>3. p \in InvitedIn(queue, b) <=> \E h \in Groups(queue) : p \in h.players /\ h.invited = b
      BY <1>1, QueuedIs
    <2> QED
      BY <2>1, <2>2, <2>3 DEF g
  <1>6. \A b : p \in InvitedIn(queue, b) => p \in QueuedPlayers
    <2>1. \A b : InvitedIn(queue, b) \subseteq QueuedIn(queue)
      BY <1>1, QueuedIs
    <2> QED
      BY <2>1, QueuedPlayersAre
  <1>7. counts <=> dec /\ p \in QueuedPlayers /\ d \in Battleground /\ Created(bgs[d].status)
    BY DEF InvitedToBattleground, Exists, Created
  <1>8. counts \in BOOLEAN
    BY DEF InvitedToBattleground, Exists
  <1> HIDE DEF counts, d, q
  <1>9. \A b \in Battleground : (dec /\ Created(bgs[b].status) /\ p \in InvitedIn(queue, b))
                                   <=> (counts /\ b = d)
    BY <1>5, <1>6, <1>7
  <1>10. /\ bgs' \in [Battleground -> BattlegroundState]
         /\ \A b \in Battleground :
              /\ bgs'[b].status = bgs[b].status /\ bgs'[b].players = bgs[b].players
              /\ bgs'[b].invited = IF counts /\ b = d THEN Decreased(bgs[b].invited, TeamOf(p), 1)
                                   ELSE bgs[b].invited
    <2>0. bgs \in [Battleground -> BattlegroundState]
      BY <1>1 DEF TypeInv
    <2>1. CASE ~ counts
      <3>1. bgs' = bgs
        BY <1>4, <2>1
      <3> QED
        BY <2>0, <2>1, <3>1
    <2>2. CASE counts
      <3>1. bgs' = [bgs EXCEPT ![d].invited = Decreased(@, TeamOf(p), 1)] /\ d \in Battleground
        BY <1>4, <1>7, <2>2
      <3>2. bgs[d] \in BattlegroundState /\ bgs[d].invited \in [Team -> Nat]
        BY <2>0, <3>1 DEF BattlegroundState
      <3> DEFINE i == Decreased(bgs[d].invited, TeamOf(p), 1)
                 n == [bgs[d] EXCEPT !.invited = i]
      <3>3. i \in [Team -> Nat]
        <4> DEFINE c == bgs[d].invited
                   t == TeamOf(p)
        <4>1. t \in Team /\ c \in [Team -> Nat] /\ UInt \in Nat /\ UInt > 0
          BY <3>2, Sides
        <4> HIDE DEF c, t
        <4>2. (c[t] - 1) \in Int
          BY <4>1
        <4>3. (c[t] - 1) % UInt \in Nat
          BY <4>1, <4>2
        <4>4. [c EXCEPT ![t] = (c[t] - 1) % UInt] \in [Team -> Nat]
          BY <4>1, <4>3
        <4> QED
          BY <4>4 DEF Decreased, c, t
      <3> HIDE DEF i
      <3>4. n \in BattlegroundState /\ n.status = bgs[d].status /\ n.players = bgs[d].players
            /\ n.invited = i
        BY <3>2, <3>3 DEF BattlegroundState
      <3>5. bgs' = [bgs EXCEPT ![d] = n]
        BY <3>1 DEF i
      <3> HIDE DEF n
      <3>6. bgs' \in [Battleground -> BattlegroundState]
        BY <2>0, <3>4, <3>5
      <3>7. \A b \in Battleground : bgs'[b] = IF b = d THEN n ELSE bgs[b]
        BY <2>0, <3>5
      <3>8. ASSUME NEW b \in Battleground
            PROVE  /\ bgs'[b].status = bgs[b].status /\ bgs'[b].players = bgs[b].players
                   /\ bgs'[b].invited = IF b = d THEN Decreased(bgs[b].invited, TeamOf(p), 1)
                                        ELSE bgs[b].invited
        <4>1. CASE b = d
          BY <3>4, <3>7, <4>1 DEF i
        <4>2. CASE b # d
          BY <3>7, <4>2
        <4> QED
          BY <4>1, <4>2
      <3> QED
        BY <2>2, <3>6, <3>8
    <2> QED
      BY <1>8, <2>1, <2>2
  <1>11. \A b \in Battleground : bgs'[b].invited =
            IF dec /\ Created(bgs[b].status) /\ p \in InvitedIn(queue, b)
              THEN Decreased(bgs[b].invited, TeamOf(p), 1) ELSE bgs[b].invited
    BY <1>8, <1>9, <1>10
  <1>12. QueuedPlayers' = QueuedPlayers \ {p}
    BY <1>1, <1>2, <1>3, QueuedPlayersAre
  <1> QED
    BY <1>1, <1>2, <1>10, <1>11, <1>12

\* A player who waits leaves the queue: by himself, when his invitation
\* expires, or because he logs out.
LEMMA LeftInv ==
    ASSUME QueueAssumption, IInv, NEW p \in QueuedPlayers, RemovePlayer(p, TRUE),
           queueId' = [queueId EXCEPT ![p] = FALSE], inviteId' = [inviteId EXCEPT ![p] = 0],
           place' = place \/ place' = [place EXCEPT ![p] = "offline"],
           m_events' \in Seq(Event), Watched(m_QueuedGroups', m_events', unwatched'),
           serial' = serial, freeSlots' = freeSlots, bgId' = bgId, drift' = drift,
           moves' \in Nat, moves <= moves'
    PROVE  IInv' /\ Frame
  <1> DEFINE queue == m_QueuedGroups
  <1>1. TypeInv /\ QueueType(queue) /\ OneGroup(queue) /\ p \in Player
    BY TypesAre DEF IInv
  <1>2. /\ QueueType(m_QueuedGroups') /\ OneGroup(m_QueuedGroups')
        /\ QueuedPlayers' = QueuedPlayers \ {p}
        /\ \A b : InvitedIn(m_QueuedGroups', b) = InvitedIn(queue, b) \ {p}
        /\ bgs' \in [Battleground -> BattlegroundState]
        /\ \A b \in Battleground :
             /\ bgs'[b].status = bgs[b].status /\ bgs'[b].players = bgs[b].players
             /\ bgs'[b].invited =
                  IF Created(bgs[b].status) /\ p \in InvitedIn(queue, b)
                    THEN Decreased(bgs[b].invited, TeamOf(p), 1) ELSE bgs[b].invited
    <2> DEFINE dec == TRUE
    <2>1. dec \in BOOLEAN /\ RemovePlayer(p, dec) /\ dec
      OBVIOUS
    <2> HIDE DEF dec
    <2> QED
      BY <1>1, <2>1, RemovedIs
  <1>3. m_QueuedGroups' = WithoutPlayer(queue, p) /\ unwatched' = unwatched \ {p}
    BY DEF RemovePlayer
  <1>4. /\ \A r \in Player : r # p => place'[r] = place[r]
        /\ place' \in [Player -> {"world", "loading", "offline"}]
        /\ place'[p] = "loading" => place[p] = "loading"
    BY <1>1 DEF TypeInv
  <1>5. /\ \A r \in Player : queueId'[r] = IF r = p THEN FALSE ELSE queueId[r]
        /\ \A r \in Player : inviteId'[r] = IF r = p THEN 0 ELSE inviteId[r]
        /\ queueId' \in [Player -> BOOLEAN] /\ inviteId' \in [Player -> Ids]
    BY <1>1 DEF TypeInv, Ids, QueueAssumption
  <1>6. \A b \in Battleground : p \notin Way(b) /\ p \notin bgs[b].players
    BY InvApart DEF Apart
  <1>7. TypeInv'
    <2>1. unwatched' \subseteq Player
      BY <1>1, <1>3 DEF TypeInv
    <2>2. bgId \in [Player -> Ids] /\ freeSlots \in Seq(Battleground) /\ serial \in Nat
          /\ drift \in [Battleground -> [Team -> Int]]
      BY <1>1 DEF TypeInv
    <2> QED
      BY <1>2, <1>4, <1>5, <2>1, <2>2 DEF TypeInv, QueueType
  <1>8. SlotHeld'
    <2> SUFFICES ASSUME NEW r \in QueuedPlayers' PROVE queueId'[r] /\ place'[r] # "offline"
      BY DEF SlotHeld
    <2>1. r \in QueuedPlayers /\ r # p /\ r \in Player
      BY <1>1, <1>2, TypesAre
    <2>2. queueId[r] /\ place[r] # "offline"
      BY <2>1 DEF IInv, SlotHeld
    <2> QED
      BY <1>4, <1>5, <2>1, <2>2
  <1>9. Ported'
    <2> SUFFICES ASSUME NEW r \in Player, place'[r] = "loading", bgId'[r] # 0
                 PROVE  queueId'[r] /\ r \notin QueuedPlayers' /\ inviteId'[r] = bgId'[r]
      BY DEF Ported
    <2>1. place[r] = "loading" /\ bgId[r] # 0
      BY <1>4
    <2>2. queueId[r] /\ r \notin QueuedPlayers /\ inviteId[r] = bgId[r]
      BY <2>1 DEF IInv, Ported
    <2> QED
      BY <1>2, <1>5, <2>2
  <1>10. Inside'
    <2> SUFFICES ASSUME NEW b \in Battleground, NEW r \in bgs'[b].players
                 PROVE  /\ Exists(b)' /\ bgId'[r] = b /\ r \notin QueuedPlayers'
                        /\ place'[r] # "loading"
                        /\ place'[r] = "world" => queueId'[r]
      BY DEF Inside
    <2>1. /\ Exists(b) /\ bgId[r] = b /\ r \notin QueuedPlayers
          /\ place[r] # "loading"
          /\ place[r] = "world" => queueId[r]
      BY <1>2 DEF IInv, Inside
    <2>2. r \in Player /\ r # p
      BY <1>1, <1>2, <2>1, TypesAre
    <2>3. Exists(b)'
      BY <1>2, <2>1 DEF Exists
    <2> QED
      BY <1>2, <1>4, <1>5, <2>1, <2>2, <2>3
  <1>11. ToldIn(m_QueuedGroups', inviteId')
    <2> DEFINE told == inviteId'
               q == m_QueuedGroups'
    <2>1. \A r \in Player : r # p => told[r] = inviteId[r]
      BY <1>5
    <2>2. ToldIn(queue, inviteId) /\ q = WithoutPlayer(queue, p)
      BY <1>3 DEF IInv
    <2> HIDE DEF told, q, queue
    <2>3. ToldIn(q, told)
      BY <1>1, <2>1, <2>2, WithoutTold
    <2> QED
      BY <2>3 DEF told, q
  <1>12. \A b \in Battleground : Heads(b)' = Heads(b) \ {p}
    <2> SUFFICES ASSUME NEW b \in Battleground PROVE Heads(b)' = Heads(b) \ {p}
      OBVIOUS
    <2>1. Way(b)' = Way(b)
      <3>1. \A r \in Player : r \in Way(b)' <=> r \in Way(b)
        BY <1>1, <1>4, <1>6 DEF Way
      <3> QED
        BY <3>1 DEF Way
    <2>2. Heads(b) = InvitedIn(queue, b) \cup Way(b) \cup bgs[b].players
          /\ Heads(b)' = InvitedIn(m_QueuedGroups', b) \cup Way(b)' \cup bgs'[b].players
      BY DEF Heads, HeadsIn
    <2>3. InvitedIn(m_QueuedGroups', b) = InvitedIn(queue, b) \ {p} /\ bgs'[b].players = bgs[b].players
      BY <1>2
    <2> QED
      BY <1>6, <2>1, <2>2, <2>3
  <1>13. ASSUME NEW b \in Battleground PROVE Accounted(b)'
    <2> DEFINE h == Heads(b)
               c == bgs[b].invited
               d == drift[b]
    <2>1. Matches(bgs[b].status, c, h, d) /\ h \in SUBSET Player
          /\ c \in [Team -> Nat] /\ d \in [Team -> Int]
      BY <1>1, TypesAre, HeadsAre DEF IInv, Accounted
    <2>2. bgs'[b].status = bgs[b].status /\ Heads(b)' = h \ {p} /\ drift'[b] = d
      BY <1>2, <1>12
    <2>3. p \in h <=> p \in InvitedIn(queue, b)
      BY <1>6 DEF Heads, HeadsIn
    <2>a. bgs'[b].invited = IF Created(bgs[b].status) /\ p \in h
                    THEN Decreased(c, TeamOf(p), 1) ELSE c
      BY <1>2, <2>3
    <2> HIDE DEF h, c, d
    <2>4. CASE Created(bgs[b].status) /\ p \in h
      <3>1. Accounts(c, h, d)
        BY <2>1, <2>4 DEF Matches
      <3>2. Accounts(Decreased(c, TeamOf(p), 1), h \ {p}, d)
        BY <2>1, <2>4, <3>1, AccountsDecreased
      <3> QED
        BY <2>2, <2>4, <2>a, <3>2 DEF Accounted, Matches, Created
    <2>5. CASE ~ (Created(bgs[b].status) /\ p \in h)
      <3>1. bgs'[b].invited = c
        BY <2>5, <2>a
      <3>2. p \notin h => h \ {p} = h
        OBVIOUS
      <3>3. CASE p \notin h
        BY <2>1, <2>2, <3>1, <3>2, <3>3 DEF Accounted
      <3>4. CASE p \in h
        BY <2>1, <2>2, <2>5, <3>1, <3>4 DEF Accounted, Matches
      <3> QED
        BY <3>3, <3>4
    <2> QED
      BY <2>4, <2>5
  <1>14. FreeExist'
    <2> SUFFICES ASSUME NEW x \in ToSet(freeSlots) PROVE Created(bgs'[x].status)
      BY DEF FreeExist
    <2>1. x \in Battleground
      BY <1>1, SetOfSeq DEF TypeInv
    <2> QED
      BY <1>2, <2>1 DEF IInv, FreeExist
  <1>15. IInv'
    BY <1>2, <1>7, <1>8, <1>9, <1>10, <1>11, <1>13, <1>14 DEF IInv, OneGroup, ToldIn, Watched
  <1>16. Frame
    <2>1. moves \in Nat /\ \A c \in Battleground, t \in Team : drift[c][t] \in Int
      BY <1>1, TypesAre DEF TypeInv
    <2>2. \A b \in Battleground : Heads(b)' \subseteq Heads(b)
      BY <1>12
    <2> QED
      BY <1>2, <2>1, <2>2 DEF Frame
  <1> QED
    BY <1>15, <1>16

\* Leaving the queue keeps the invariant.
LEMMA LeaveQueueInv ==
    ASSUME QueueAssumption, IInv, NEW p \in Player, LeaveQueue(p) PROVE IInv' /\ Frame
  <1>1. /\ p \in QueuedPlayers /\ RemovePlayer(p, TRUE)
        /\ queueId' = [queueId EXCEPT ![p] = FALSE] /\ inviteId' = [inviteId EXCEPT ![p] = 0]
        /\ place' = place /\ m_events' = m_events /\ serial' = serial /\ freeSlots' = freeSlots
        /\ bgId' = bgId /\ drift' = drift /\ moves' = moves
    BY DEF LeaveQueue
  <1>2. /\ m_events \in Seq(Event) /\ moves \in Nat /\ QueueType(m_QueuedGroups)
        /\ Watched(m_QueuedGroups, m_events, unwatched)
    BY DEF IInv, TypeInv
  <1>3. m_QueuedGroups' = WithoutPlayer(m_QueuedGroups, p) /\ unwatched' = unwatched \ {p}
    BY <1>1 DEF RemovePlayer
  <1>4. Watched(WithoutPlayer(m_QueuedGroups, p), m_events, unwatched \ {p})
    BY <1>2, WithoutWatched
  <1>5. Watched(m_QueuedGroups', m_events', unwatched')
    BY <1>1, <1>3, <1>4
  <1>6. m_events' \in Seq(Event) /\ moves' \in Nat /\ moves <= moves'
    BY <1>1, <1>2
  <1> QED
    BY <1>1, <1>5, <1>6, LeftInv

-----------------------------------------------------------------------------
(* BGQueueRemoveEvent::Execute.                                            *)
\* The events left when the head of them was executed for the player p.
Rest(events, p) ==
    IF Head(events).players = {p} THEN Tail(events) ELSE [events EXCEPT ![1].players = @ \ {p}]

\* Only the first event loses anybody, and only the player p.
LEMMA RestIs ==
    ASSUME NEW events \in Seq(Event), events # <<>>, NEW p
    PROVE  /\ Rest(events, p) \in Seq(Event)
           /\ \A e \in ToSet(events) : \A r \in e.players : r # p \/ e # Head(events) =>
                \E f \in ToSet(Rest(events, p)) : r \in f.players /\ f.bg = e.bg /\ f.time = e.time
  <1> DEFINE first == Head(events)
             n == Len(events)
  <1>1. /\ n \in Nat /\ n > 0 /\ DOMAIN events = 1 .. n
        /\ first = events[1] /\ first \in Event
        /\ \A i \in 1 .. n : events[i] \in Event
    OBVIOUS
  <1> SUFFICES /\ Rest(events, p) \in Seq(Event)
               /\ \A i \in 1 .. n : \A r \in events[i].players : r # p \/ events[i] # first =>
                    \E j \in DOMAIN Rest(events, p) :
                      /\ r \in Rest(events, p)[j].players
                      /\ Rest(events, p)[j].bg = events[i].bg
                      /\ Rest(events, p)[j].time = events[i].time
    BY <1>1 DEF ToSet
  <1>2. CASE first.players = {p}
    <2> DEFINE rest == Tail(events)
    <2>1. Rest(events, p) = rest
      BY <1>2 DEF Rest
    <2>2. /\ rest \in Seq(Event) /\ DOMAIN rest = 1 .. n - 1
          /\ \A j \in 1 .. n - 1 : rest[j] = events[j + 1]
      BY <1>1
    <2> HIDE DEF rest
    <2>3. ASSUME NEW i \in 1 .. n, NEW r \in events[i].players, r # p \/ events[i] # first
          PROVE  \E j \in DOMAIN rest : /\ r \in rest[j].players
                                        /\ rest[j].bg = events[i].bg /\ rest[j].time = events[i].time
      <3>1. i # 1
        BY <1>1, <1>2, <2>3
      <3>2. i - 1 \in 1 .. n - 1 /\ (i - 1) + 1 = i
        BY <1>1, <3>1
      <3>3. rest[i - 1] = events[i]
        BY <2>2, <3>2
      <3> QED
        BY <2>2, <2>3, <3>2, <3>3
    <2> QED
      BY <2>1, <2>2, <2>3
  <1>3. CASE first.players # {p}
    <2> DEFINE new == [first EXCEPT !.players = @ \ {p}]
               rest == [events EXCEPT ![1] = new]
    <2>1. Rest(events, p) = rest
      BY <1>1, <1>3 DEF Rest
    <2>2. new \in Event /\ new.players = first.players \ {p} /\ new.bg = first.bg
          /\ new.time = first.time
      BY <1>1 DEF Event
    <2> HIDE DEF new
    <2>3. /\ rest \in Seq(Event) /\ DOMAIN rest = 1 .. n /\ rest[1] = new
          /\ \A j \in 1 .. n : j # 1 => rest[j] = events[j]
      BY <1>1, <2>2
    <2> HIDE DEF rest
    <2>4. ASSUME NEW i \in 1 .. n, NEW r \in events[i].players, r # p \/ events[i] # first
          PROVE  \E j \in DOMAIN rest : /\ r \in rest[j].players
                                        /\ rest[j].bg = events[i].bg /\ rest[j].time = events[i].time
      <3>1. CASE i = 1
        BY <1>1, <2>2, <2>3, <2>4, <3>1
      <3>2. CASE i # 1
        BY <2>3, <2>4, <3>2
      <3> QED
        BY <3>1, <3>2
    <2> QED
      BY <2>1, <2>3, <2>4
  <1> QED
    BY <1>2, <1>3

\* A step that only lets an event pass.
LEMMA PassedInv ==
    ASSUME QueueAssumption, IInv, m_events' \in Seq(Event), unwatched' \subseteq Player,
           Watched(m_QueuedGroups, m_events', unwatched'),
           m_QueuedGroups' = m_QueuedGroups, serial' = serial, bgs' = bgs, freeSlots' = freeSlots,
           place' = place, bgId' = bgId, queueId' = queueId, inviteId' = inviteId,
           drift' = drift, moves' = moves
    PROVE  IInv' /\ Frame
  <1>1. TypeInv
    BY DEF IInv
  <1>2. \A b \in Battleground : Heads(b)' = Heads(b)
    BY DEF Heads, HeadsIn, Way
  <1>3. \A b \in Battleground : Accounted(b)'
    BY <1>2 DEF IInv, Accounted
  <1>4. QueuedPlayers' = QueuedPlayers
    BY DEF QueuedPlayers
  <1>5. TypeInv'
    BY <1>1 DEF TypeInv, QueueType
  <1>6. SlotHeld' /\ Ported'
    BY <1>4 DEF IInv, SlotHeld, Ported
  <1>7. Inside'
    BY <1>4 DEF IInv, Inside, Exists
  <1>8. IInv'
    BY <1>3, <1>5, <1>6, <1>7 DEF IInv, FreeExist, OneGroup, ToldIn, Watched
  <1>9. Frame
    <2>1. moves' \in Nat /\ moves <= moves'
      BY <1>1 DEF TypeInv
    <2> QED
      BY <1>1, <1>2, <2>1, SameFrame
  <1> QED
    BY <1>8, <1>9

\* BGQueueRemoveEvent::Execute keeps the invariant: a player whose invitation
\* is still the one of the event loses it, and any other event passes.
LEMMA RemoveEventInv ==
    ASSUME QueueAssumption, IInv, NEW p \in Player, RemoveEvent(p) PROVE IInv' /\ Frame
  <1> DEFINE first == Head(m_events)
             b == first.bg
             queue == m_QueuedGroups
             invited == IsPlayerInvited(p, b, first.time)
  <1>1. /\ m_events # <<>> /\ p \in first.players
        /\ m_events' = Rest(m_events, p)
        /\ serial' = serial /\ freeSlots' = freeSlots /\ place' = place /\ bgId' = bgId
        /\ drift' = drift /\ moves' = moves
    BY DEF RemoveEvent, Rest
  <1>2. \/ /\ FindPlayer(p) /\ invited
           /\ queueId' = [queueId EXCEPT ![p] = FALSE] /\ inviteId' = [inviteId EXCEPT ![p] = 0]
           /\ RemovePlayer(p, TRUE)
        \/ /\ unwatched' = IF invited THEN unwatched \cup {p} ELSE unwatched
           /\ queueId' = queueId /\ inviteId' = inviteId /\ m_QueuedGroups' = queue /\ bgs' = bgs
    BY DEF RemoveEvent
  <1>3. /\ TypeInv /\ QueueType(queue) /\ OneGroup(queue) /\ m_events \in Seq(Event)
        /\ moves \in Nat /\ Watched(queue, m_events, unwatched) /\ unwatched \subseteq Player
    BY DEF IInv, TypeInv
  <1> DEFINE rest == m_events'
  <1>4. /\ rest \in Seq(Event)
        /\ \A e \in ToSet(m_events) : \A r \in e.players : r # p \/ e # first =>
                \E f \in ToSet(rest) : r \in f.players /\ f.bg = e.bg /\ f.time = e.time
    BY <1>1, <1>3, RestIs
  <1>5. invited <=> p \in QueuedPlayers /\ GroupInfo(p).invited = b /\ GroupInfo(p).time = first.time
    BY DEF IsPlayerInvited
  <1>6. \A g \in Groups(queue) : p \in g.players => p \in QueuedPlayers /\ GroupInfo(p) = g
    <2> SUFFICES ASSUME NEW g \in Groups(queue), p \in g.players
                 PROVE  p \in QueuedPlayers /\ GroupInfo(p) = g
      OBVIOUS
    <2>1. p \in QueuedPlayers
      BY DEF QueuedPlayers
    <2>2. GroupInfo(p) \in Groups(queue) /\ p \in GroupInfo(p).players
      BY <2>1, GroupInfoIs
    <2> QED
      BY <1>3, <2>1, <2>2 DEF OneGroup
  <1>7. invited \in BOOLEAN
    BY DEF IsPlayerInvited
  <1> HIDE DEF invited
  <1>8. CASE /\ FindPlayer(p) /\ invited
             /\ queueId' = [queueId EXCEPT ![p] = FALSE] /\ inviteId' = [inviteId EXCEPT ![p] = 0]
             /\ RemovePlayer(p, TRUE)
    <2> DEFINE q == WithoutPlayer(queue, p)
               unw == unwatched \ {p}
    <2>1. m_QueuedGroups' = q /\ unwatched' = unw
      BY <1>8 DEF RemovePlayer
    <2>2. Watched(q, m_events, unw)
      BY <1>3, WithoutWatched
    <2>3. p \notin QueuedIn(q)
      BY <1>3, WithoutNow
    <2>4. QueueType(q)
      BY <1>3, WithoutPlayerIs
    <2> HIDE DEF q, unw, rest
    <2>5. \A g \in Groups(q) : p \notin g.players
      BY <2>3, <2>4, QueuedIs
    <2>6. Watched(q, rest, unw)
      BY <1>4, <2>2, <2>5 DEF Watched
    <2>7. p \in QueuedPlayers
      BY <1>5, <1>8
    <2>8. Watched(m_QueuedGroups', m_events', unwatched')
      BY <2>1, <2>6 DEF rest
    <2>9. m_events' \in Seq(Event) /\ moves' \in Nat /\ moves <= moves'
      BY <1>1, <1>3, <1>4 DEF rest
    <2> QED
      BY <1>1, <1>8, <2>7, <2>8, <2>9, LeftInv
  <1>9. CASE /\ unwatched' = IF invited THEN unwatched \cup {p} ELSE unwatched
             /\ queueId' = queueId /\ inviteId' = inviteId /\ m_QueuedGroups' = queue /\ bgs' = bgs
    <2> DEFINE unw == unwatched'
    <2>1. unw \subseteq Player /\ unwatched \subseteq unw /\ (invited => p \in unw)
      BY <1>3, <1>7, <1>9
    <2> HIDE DEF unw, rest
    <2>2. ASSUME NEW g \in Groups(queue), g.invited # 0, NEW r \in g.players, r \notin unw
          PROVE  \E f \in ToSet(rest) : r \in f.players /\ f.bg = g.invited /\ f.time = g.time
      <3>1. r \notin unwatched
        BY <2>1, <2>2
      <3>2. PICK e \in ToSet(m_events) : r \in e.players /\ e.bg = g.invited /\ e.time = g.time
        BY <1>3, <2>2, <3>1 DEF Watched
      <3>3. r # p \/ e # first
        BY <1>5, <1>6, <2>1, <2>2, <3>2
      <3> QED
        BY <1>4, <3>2, <3>3
    <2>3. Watched(queue, rest, unw)
      BY <2>2 DEF Watched
    <2>4. Watched(m_QueuedGroups, m_events', unwatched') /\ m_events' \in Seq(Event)
          /\ unwatched' \subseteq Player
      BY <1>4, <2>1, <2>3 DEF unw, rest
    <2> QED
      BY <1>1, <1>9, <2>4, PassedInv
  <1> QED
    BY <1>2, <1>8, <1>9

\* Accepting the invitation keeps the invariant: the invited player becomes a
\* player on the way.
LEMMA EnterBattleInv ==
    ASSUME QueueAssumption, IInv, NEW p \in Player, EnterBattle(p) PROVE IInv' /\ Frame
  <1> DEFINE queue == m_QueuedGroups
             d == GroupInfo(p).invited
  <1>1. /\ place[p] = "world" /\ queueId[p] /\ p \in QueuedPlayers /\ Exists(d) /\ inviteId[p] # 0
        /\ bgId' = [bgId EXCEPT ![p] = d] /\ place' = [place EXCEPT ![p] = "loading"]
        /\ RemovePlayer(p, FALSE)
        /\ m_events' = m_events /\ serial' = serial /\ freeSlots' = freeSlots
        /\ queueId' = queueId /\ inviteId' = inviteId /\ drift' = drift /\ moves' = moves
    BY DEF EnterBattle
  <1>2. TypeInv /\ QueueType(queue) /\ OneGroup(queue)
    BY DEF IInv, TypeInv
  <1>3. /\ QueueType(m_QueuedGroups') /\ OneGroup(m_QueuedGroups')
        /\ QueuedPlayers' = QueuedPlayers \ {p}
        /\ \A b : InvitedIn(m_QueuedGroups', b) = InvitedIn(queue, b) \ {p}
        /\ bgs' \in [Battleground -> BattlegroundState]
        /\ \A b \in Battleground :
             /\ bgs'[b].status = bgs[b].status /\ bgs'[b].players = bgs[b].players
             /\ bgs'[b].invited = bgs[b].invited
    <2> DEFINE dec == FALSE
    <2>1. dec \in BOOLEAN /\ RemovePlayer(p, dec) /\ ~ dec
      BY <1>1
    <2> HIDE DEF dec
    <2> QED
      BY <2>1, RemovedIs
  <1>4. m_QueuedGroups' = WithoutPlayer(queue, p) /\ unwatched' = unwatched \ {p}
    BY <1>1 DEF RemovePlayer
  <1> DEFINE g == GroupInfo(p)
  <1>5. g \in Groups(queue) /\ p \in g.players
    BY <1>1, GroupInfoIs
  <1>6. d \in Battleground /\ d # 0 /\ inviteId[p] = d
    <2>1. d \in Battleground
      BY <1>1 DEF Exists
    <2>2. inviteId[p] \in {0, g.invited}
      BY <1>5 DEF IInv, ToldIn
    <2> QED
      BY <1>1, <2>1, <2>2 DEF Battleground
  <1>7. \A b : p \in InvitedIn(queue, b) <=> b = d
    <2> SUFFICES ASSUME NEW b PROVE p \in InvitedIn(queue, b) <=> b = d
      OBVIOUS
    <2> HIDE DEF g, queue
    <2>1. \A h \in Groups(queue) : p \in h.players => h = g
      BY <1>2, <1>5 DEF OneGroup
    <2>2. p \in InvitedIn(queue, b) <=> \E h \in Groups(queue) : p \in h.players /\ h.invited = b
      BY <1>2, QueuedIs
    <2> QED
      BY <1>5, <2>1, <2>2 DEF g
  <1> HIDE DEF d, g
  <1>8. /\ \A r \in Player : place'[r] = IF r = p THEN "loading" ELSE place[r]
        /\ \A r \in Player : bgId'[r] = IF r = p THEN d ELSE bgId[r]
        /\ place' \in [Player -> {"world", "loading", "offline"}] /\ bgId' \in [Player -> Ids]
    BY <1>1, <1>2, <1>6 DEF TypeInv, Ids, Battleground
  <1>9. \A b \in Battleground : p \notin bgs[b].players
    BY <1>1, InvApart DEF Apart
  <1>10. \A b \in Battleground : Heads(b)' = Heads(b)
    <2> SUFFICES ASSUME NEW b \in Battleground PROVE Heads(b)' = Heads(b)
      OBVIOUS
    <2>1. \A r \in Player : r \in Way(b)' <=> r \in Way(b) \/ (r = p /\ b = d)
      BY <1>1, <1>8 DEF Way
    <2>2. Way(b)' = IF b = d THEN Way(b) \cup {p} ELSE Way(b)
      BY <2>1 DEF Way
    <2>3. Heads(b) = InvitedIn(queue, b) \cup Way(b) \cup bgs[b].players
          /\ Heads(b)' = InvitedIn(m_QueuedGroups', b) \cup Way(b)' \cup bgs'[b].players
      BY DEF Heads, HeadsIn
    <2>4. InvitedIn(m_QueuedGroups', b) = InvitedIn(queue, b) \ {p} /\ bgs'[b].players = bgs[b].players
      BY <1>3
    <2>5. CASE b = d
      BY <1>7, <2>2, <2>3, <2>4, <2>5
    <2>6. CASE b # d
      BY <1>7, <2>2, <2>3, <2>4, <2>6
    <2> QED
      BY <2>5, <2>6
  <1>11. TypeInv'
    <2>1. unwatched' \subseteq Player
      BY <1>2, <1>4 DEF TypeInv
    <2>2. /\ m_events \in Seq(Event) /\ serial \in Nat /\ freeSlots \in Seq(Battleground)
          /\ queueId \in [Player -> BOOLEAN] /\ inviteId \in [Player -> Ids] /\ moves \in Nat
          /\ drift \in [Battleground -> [Team -> Int]]
      BY <1>2 DEF TypeInv
    <2> QED
      BY <1>1, <1>3, <1>8, <2>1, <2>2 DEF TypeInv, QueueType
  <1>12. SlotHeld'
    <2> SUFFICES ASSUME NEW r \in QueuedPlayers' PROVE queueId'[r] /\ place'[r] # "offline"
      BY DEF SlotHeld
    <2>1. r \in QueuedPlayers /\ r # p /\ r \in Player
      BY <1>2, <1>3, TypesAre
    <2>2. queueId[r] /\ place[r] # "offline"
      BY <2>1 DEF IInv, SlotHeld
    <2> QED
      BY <1>1, <1>8, <2>1, <2>2
  <1>13. Ported'
    <2> SUFFICES ASSUME NEW r \in Player, place'[r] = "loading", bgId'[r] # 0
                 PROVE  queueId'[r] /\ r \notin QueuedPlayers' /\ inviteId'[r] = bgId'[r]
      BY DEF Ported
    <2>1. CASE r = p
      BY <1>1, <1>3, <1>6, <1>8, <2>1
    <2>2. CASE r # p
      <3>1. queueId[r] /\ r \notin QueuedPlayers /\ inviteId[r] = bgId[r]
        BY <1>8, <2>2 DEF IInv, Ported
      <3> QED
        BY <1>1, <1>3, <1>8, <2>2, <3>1
    <2> QED
      BY <2>1, <2>2
  <1>14. Inside'
    <2> SUFFICES ASSUME NEW b \in Battleground, NEW r \in bgs'[b].players
                 PROVE  /\ Exists(b)' /\ bgId'[r] = b /\ r \notin QueuedPlayers'
                        /\ place'[r] # "loading"
                        /\ place'[r] = "world" => queueId'[r]
      BY DEF Inside
    <2>1. /\ Exists(b) /\ bgId[r] = b /\ r \notin QueuedPlayers
          /\ place[r] # "loading"
          /\ place[r] = "world" => queueId[r]
      BY <1>3 DEF IInv, Inside
    <2>2. r \in Player /\ r # p
      BY <1>2, <1>3, <1>9, TypesAre
    <2>3. Exists(b)'
      BY <1>3, <2>1 DEF Exists
    <2> QED
      BY <1>1, <1>3, <1>8, <2>1, <2>2, <2>3
  <1>15. ToldIn(m_QueuedGroups', inviteId')
    <2>1. \A r \in Player : r # p => inviteId[r] = inviteId[r]
      OBVIOUS
    <2>2. ToldIn(queue, inviteId)
      BY DEF IInv
    <2> HIDE DEF queue
    <2>3. ToldIn(WithoutPlayer(queue, p), inviteId)
      BY <1>2, <2>1, <2>2, WithoutTold
    <2> QED
      BY <1>1, <1>4, <2>3
  <1>16. Watched(m_QueuedGroups', m_events', unwatched')
    <2>1. Watched(queue, m_events, unwatched)
      BY DEF IInv
    <2> HIDE DEF queue
    <2>2. Watched(WithoutPlayer(queue, p), m_events, unwatched \ {p})
      BY <1>2, <2>1, WithoutWatched
    <2> QED
      BY <1>1, <1>4, <2>2
  <1>17. \A b \in Battleground : Accounted(b)'
    BY <1>1, <1>3, <1>10 DEF IInv, Accounted
  <1>18. FreeExist'
    <2> SUFFICES ASSUME NEW x \in ToSet(freeSlots) PROVE Created(bgs'[x].status)
      BY <1>1 DEF FreeExist
    <2>1. x \in Battleground
      BY <1>2, SetOfSeq DEF TypeInv
    <2> QED
      BY <1>3, <2>1 DEF IInv, FreeExist
  <1>19. IInv'
    BY <1>3, <1>11, <1>12, <1>13, <1>14, <1>15, <1>16, <1>17, <1>18 DEF IInv, OneGroup, ToldIn, Watched
  <1>20. Frame
    <2>1. moves \in Nat /\ \A c \in Battleground, t \in Team : drift[c][t] \in Int
      BY <1>2, TypesAre DEF TypeInv
    <2>2. \A b \in Battleground : Heads(b)' \subseteq Heads(b)
      BY <1>10
    <2> QED
      BY <1>1, <1>3, <2>1, <2>2 DEF Frame
  <1> QED
    BY <1>19, <1>20

\* A player who is not in the queue logs out.
LEMMA GoneInv ==
    ASSUME QueueAssumption, IInv, NEW p \in Player, p \notin QueuedPlayers, LogoutPlayer(p)
    PROVE  IInv' /\ Frame
  <1> DEFINE queue == m_QueuedGroups
             d == bgId[p]
             lost == place[p] = "loading" /\ Exists(d)
  <1>1. /\ moves' = moves + 1 /\ place' = [place EXCEPT ![p] = "offline"]
        /\ queueId' = [queueId EXCEPT ![p] = FALSE] /\ inviteId' = [inviteId EXCEPT ![p] = 0]
        /\ RemovePlayer(p, TRUE)
        /\ drift' = IF lost THEN [drift EXCEPT ![d][TeamOf(p)] = @ + 1] ELSE drift
        /\ m_events' = m_events /\ serial' = serial /\ freeSlots' = freeSlots /\ bgId' = bgId
    BY DEF LogoutPlayer
  <1>2. TypeInv /\ QueueType(queue) /\ OneGroup(queue)
    BY DEF IInv, TypeInv
  <1>3. /\ QueueType(m_QueuedGroups') /\ OneGroup(m_QueuedGroups')
        /\ QueuedPlayers' = QueuedPlayers
        /\ \A b : InvitedIn(m_QueuedGroups', b) = InvitedIn(queue, b)
        /\ bgs' \in [Battleground -> BattlegroundState]
        /\ \A b \in Battleground :
             /\ bgs'[b].status = bgs[b].status /\ bgs'[b].players = bgs[b].players
             /\ bgs'[b].invited = bgs[b].invited
    <2> DEFINE dec == TRUE
    <2>1. dec \in BOOLEAN /\ RemovePlayer(p, dec)
      BY <1>1
    <2>2. \A b : p \notin InvitedIn(queue, b)
      <3>1. \A b : InvitedIn(queue, b) \subseteq QueuedIn(queue)
        BY <1>2, QueuedIs
      <3> QED
        BY <3>1, QueuedPlayersAre
    <2>3. QueuedPlayers \ {p} = QueuedPlayers /\ \A b : InvitedIn(queue, b) \ {p} = InvitedIn(queue, b)
      BY <2>2
    <2> HIDE DEF dec
    <2>4. /\ QueueType(m_QueuedGroups') /\ OneGroup(m_QueuedGroups')
          /\ QueuedPlayers' = QueuedPlayers \ {p}
          /\ \A b : InvitedIn(m_QueuedGroups', b) = InvitedIn(queue, b) \ {p}
          /\ bgs' \in [Battleground -> BattlegroundState]
          /\ \A b \in Battleground :
                /\ bgs'[b].status = bgs[b].status /\ bgs'[b].players = bgs[b].players
                /\ bgs'[b].invited =
                     IF dec /\ Created(bgs[b].status) /\ p \in InvitedIn(queue, b)
                       THEN Decreased(bgs[b].invited, TeamOf(p), 1) ELSE bgs[b].invited
      BY <2>1, RemovedIs
    <2>5. \A b \in Battleground : bgs'[b].invited = bgs[b].invited
      BY <2>2, <2>4
    <2>6. QueuedPlayers' = QueuedPlayers
      BY <2>3, <2>4
    <2>7. \A b : InvitedIn(m_QueuedGroups', b) = InvitedIn(queue, b)
      BY <2>3, <2>4
    <2> QED
      BY <2>4, <2>5, <2>6, <2>7
  <1>4. m_QueuedGroups' = WithoutPlayer(queue, p) /\ unwatched' = unwatched \ {p}
    BY <1>1 DEF RemovePlayer
  <1>5. /\ \A r \in Player : place'[r] = IF r = p THEN "offline" ELSE place[r]
        /\ \A r \in Player : queueId'[r] = IF r = p THEN FALSE ELSE queueId[r]
        /\ \A r \in Player : inviteId'[r] = IF r = p THEN 0 ELSE inviteId[r]
        /\ place' \in [Player -> {"world", "loading", "offline"}]
        /\ queueId' \in [Player -> BOOLEAN] /\ inviteId' \in [Player -> Ids]
    BY <1>1, <1>2 DEF TypeInv, Ids, QueueAssumption
  <1>6. lost => d \in Battleground /\ place[p] = "loading" /\ Created(bgs[d].status)
    BY DEF Exists, Created
  <1>a. place[p] = "loading" /\ d \in Battleground /\ Created(bgs[d].status) => lost
    BY DEF Exists, Created
  <1>b. lost \in BOOLEAN
    BY DEF Exists
  <1> HIDE DEF lost
  <1>7. /\ drift' \in [Battleground -> [Team -> Int]]
        /\ \A b \in Battleground : drift'[b] =
             IF lost /\ b = d THEN [drift[b] EXCEPT ![TeamOf(p)] = @ + 1] ELSE drift[b]
    <2>0. drift \in [Battleground -> [Team -> Int]]
      BY <1>2 DEF TypeInv
    <2>1. CASE ~ lost
      <3>1. drift' = drift
        BY <1>1, <2>1
      <3> QED
        BY <2>0, <2>1, <3>1
    <2>2. CASE lost
      <3>1. drift' = [drift EXCEPT ![d][TeamOf(p)] = @ + 1] /\ d \in Battleground
        BY <1>1, <1>6, <2>2
      <3> DEFINE f == drift[d]
                 t == TeamOf(p)
                 n == [f EXCEPT ![t] = @ + 1]
      <3>2. f \in [Team -> Int] /\ t \in Team
        BY <2>0, <3>1, Sides
      <3> HIDE DEF f, t
      <3>3. n \in [Team -> Int]
        BY <3>2
      <3>4. drift' = [drift EXCEPT ![d] = n]
        BY <3>1 DEF f, t
      <3> HIDE DEF n, d
      <3>5. drift' \in [Battleground -> [Team -> Int]]
            /\ \A b \in Battleground : drift'[b] = IF b = d THEN n ELSE drift[b]
        BY <2>0, <3>3, <3>4
      <3>6. n = [drift[d] EXCEPT ![TeamOf(p)] = @ + 1]
        BY DEF n, f, t
      <3> QED
        BY <2>2, <3>5, <3>6
    <2> QED
      BY <1>b, <2>1, <2>2
  <1> HIDE DEF d
  <1>8. \A b \in Battleground :
          Heads(b)' = IF place[p] = "loading" /\ b = d THEN Heads(b) \ {p} ELSE Heads(b)
    <2> SUFFICES ASSUME NEW b \in Battleground
                 PROVE  Heads(b)' = IF place[p] = "loading" /\ b = d THEN Heads(b) \ {p} ELSE Heads(b)
      OBVIOUS
    <2>1. \A r \in Player : r \in Way(b)' <=> r \in Way(b) /\ r # p
      BY <1>1, <1>5 DEF Way
    <2>2. Way(b)' = Way(b) \ {p}
      BY <2>1 DEF Way
    <2>3. p \in Way(b) <=> place[p] = "loading" /\ b = d
      BY DEF Way, d
    <2>4. Heads(b) = InvitedIn(queue, b) \cup Way(b) \cup bgs[b].players
          /\ Heads(b)' = InvitedIn(queue, b) \cup Way(b)' \cup bgs[b].players
      BY <1>3 DEF Heads, HeadsIn
    <2>5. p \notin InvitedIn(queue, b)
      <3>1. InvitedIn(queue, b) \subseteq QueuedIn(queue)
        BY <1>2, QueuedIs
      <3> QED
        BY <3>1, QueuedPlayersAre
    <2>6. place[p] = "loading" => p \notin bgs[b].players
      BY DEF IInv, Inside
    <2>7. CASE place[p] = "loading" /\ b = d
      BY <2>2, <2>4, <2>5, <2>6, <2>7
    <2>8. CASE ~ (place[p] = "loading" /\ b = d)
      <3>1. Way(b)' = Way(b)
        BY <2>2, <2>3, <2>8
      <3> QED
        BY <2>4, <2>8, <3>1
    <2> QED
      BY <2>7, <2>8
  <1>9. TypeInv'
    <2>1. unwatched' \subseteq Player
      BY <1>2, <1>4 DEF TypeInv
    <2>2. /\ m_events \in Seq(Event) /\ serial \in Nat /\ freeSlots \in Seq(Battleground)
          /\ bgId \in [Player -> Ids] /\ moves + 1 \in Nat
      BY <1>2 DEF TypeInv
    <2> QED
      BY <1>1, <1>3, <1>5, <1>7, <2>1, <2>2 DEF TypeInv, QueueType
  <1>10. SlotHeld'
    <2> SUFFICES ASSUME NEW r \in QueuedPlayers' PROVE queueId'[r] /\ place'[r] # "offline"
      BY DEF SlotHeld
    <2>1. r \in QueuedPlayers /\ r # p /\ r \in Player
      BY <1>2, <1>3, TypesAre
    <2>2. queueId[r] /\ place[r] # "offline"
      BY <2>1 DEF IInv, SlotHeld
    <2> QED
      BY <1>5, <2>1, <2>2
  <1>11. Ported'
    <2> SUFFICES ASSUME NEW r \in Player, place'[r] = "loading", bgId'[r] # 0
                 PROVE  queueId'[r] /\ r \notin QueuedPlayers' /\ inviteId'[r] = bgId'[r]
      BY DEF Ported
    <2>1. r # p /\ place[r] = "loading" /\ bgId[r] # 0
      BY <1>1, <1>5
    <2>2. queueId[r] /\ r \notin QueuedPlayers /\ inviteId[r] = bgId[r]
      BY <2>1 DEF IInv, Ported
    <2> QED
      BY <1>1, <1>3, <1>5, <2>1, <2>2
  <1>12. Inside'
    <2> SUFFICES ASSUME NEW b \in Battleground, NEW r \in bgs'[b].players
                 PROVE  /\ Exists(b)' /\ bgId'[r] = b /\ r \notin QueuedPlayers'
                        /\ place'[r] # "loading"
                        /\ place'[r] = "world" => queueId'[r]
      BY DEF Inside
    <2>1. /\ Exists(b) /\ bgId[r] = b /\ r \notin QueuedPlayers
          /\ place[r] # "loading"
          /\ place[r] = "world" => queueId[r]
      BY <1>3 DEF IInv, Inside
    <2>2. r \in Player
      BY <1>2, <1>3, TypesAre
    <2>3. Exists(b)'
      BY <1>3, <2>1 DEF Exists
    <2> QED
      BY <1>1, <1>3, <1>5, <2>1, <2>2, <2>3
  <1>13. ToldIn(m_QueuedGroups', inviteId')
    <2> DEFINE told == inviteId'
    <2>1. \A r \in Player : r # p => told[r] = inviteId[r]
      BY <1>5
    <2>2. ToldIn(queue, inviteId)
      BY DEF IInv
    <2> HIDE DEF queue, told
    <2>3. ToldIn(WithoutPlayer(queue, p), told)
      BY <1>2, <2>1, <2>2, WithoutTold
    <2> QED
      BY <1>4, <2>3 DEF told
  <1>14. Watched(m_QueuedGroups', m_events', unwatched')
    <2>1. Watched(queue, m_events, unwatched)
      BY DEF IInv
    <2> HIDE DEF queue
    <2>2. Watched(WithoutPlayer(queue, p), m_events, unwatched \ {p})
      BY <1>2, <2>1, WithoutWatched
    <2> QED
      BY <1>1, <1>4, <2>2
  <1>15. ASSUME NEW b \in Battleground PROVE Accounted(b)'
    <2> DEFINE h == Heads(b)
               c == bgs[b].invited
               f == drift[b]
               st == bgs[b].status
    <2>1. Matches(st, c, h, f) /\ h \in SUBSET Player
          /\ c \in [Team -> Nat] /\ f \in [Team -> Int]
      BY <1>2, TypesAre, HeadsAre DEF IInv, Accounted
    <2>2. bgs'[b].status = st /\ bgs'[b].invited = c
      BY <1>3
    <2>3. Heads(b)' = IF place[p] = "loading" /\ b = d THEN h \ {p} ELSE h
      BY <1>8
    <2>4. drift'[b] = IF lost /\ b = d THEN [f EXCEPT ![TeamOf(p)] = @ + 1] ELSE f
      BY <1>7
    <2>5. lost /\ b = d => p \in h /\ Created(st)
      <3>1. lost /\ b = d => p \in Way(b) /\ Created(st)
        BY <1>6 DEF Way, d
      <3> QED
        BY <3>1 DEF Heads, HeadsIn
    <2>6. place[p] = "loading" /\ b = d /\ ~ lost => ~ Created(st)
      BY <1>a
    <2> HIDE DEF h, c, f, st
    <2>7. CASE lost /\ b = d
      <3>1. Accounts(c, h, f) /\ p \in h /\ Created(st)
        BY <2>1, <2>5, <2>7 DEF Matches
      <3>2. Accounts(c, h \ {p}, [f EXCEPT ![TeamOf(p)] = @ + 1])
        BY <2>1, <3>1, AccountsLost
      <3>3. Heads(b)' = h \ {p}
        BY <1>6, <2>3, <2>7
      <3>4. drift'[b] = [f EXCEPT ![TeamOf(p)] = @ + 1]
        BY <2>4, <2>7
      <3> QED
        BY <2>2, <3>1, <3>2, <3>3, <3>4 DEF Accounted, Matches, Created
    <2>8. CASE ~ (lost /\ b = d) /\ place[p] = "loading" /\ b = d
      <3>1. ~ Created(st) /\ Heads(b)' = h \ {p} /\ drift'[b] = f
        BY <2>3, <2>4, <2>6, <2>8
      <3> QED
        BY <2>1, <2>2, <3>1 DEF Accounted, Matches
    <2>9. CASE ~ (lost /\ b = d) /\ ~ (place[p] = "loading" /\ b = d)
      <3>1. Heads(b)' = h /\ drift'[b] = f
        BY <2>3, <2>4, <2>9
      <3> QED
        BY <2>1, <2>2, <3>1 DEF Accounted
    <2> QED
      BY <1>b, <2>7, <2>8, <2>9
  <1>16. FreeExist'
    <2> SUFFICES ASSUME NEW x \in ToSet(freeSlots) PROVE Created(bgs'[x].status)
      BY <1>1 DEF FreeExist
    <2>1. x \in Battleground
      BY <1>2, SetOfSeq DEF TypeInv
    <2> QED
      BY <1>3, <2>1 DEF IInv, FreeExist
  <1>17. IInv'
    BY <1>3, <1>9, <1>10, <1>11, <1>12, <1>13, <1>14, <1>15, <1>16 DEF IInv, OneGroup, ToldIn, Watched
  <1>18. Frame
    <2>1. moves \in Nat /\ moves' = moves + 1
      BY <1>1, <1>2 DEF TypeInv
    <2>2. ASSUME NEW b \in Battleground, bgs'[b].status = "deleted"
          PROVE  bgs[b].status = "deleted" /\ Heads(b)' \subseteq Heads(b) /\ drift'[b] = drift[b]
      <3>1. bgs[b].status = "deleted"
        BY <1>3, <2>2
      <3>2. ~ (lost /\ b = d)
        BY <1>6, <3>1 DEF Created
      <3> QED
        BY <1>3, <1>7, <1>8, <3>1, <3>2
    <2>3. ASSUME NEW b \in Battleground, NEW t \in Team
          PROVE  drift'[b][t] - moves' <= drift[b][t] - moves
      <3> DEFINE f == drift[b]
                 f2 == drift'[b]
      <3>1. f \in [Team -> Int] /\ f[t] \in Int
        BY <1>2, TypesAre
      <3>2. f2 = f \/ f2 = [f EXCEPT ![TeamOf(p)] = @ + 1]
        BY <1>b, <1>7
      <3> HIDE DEF f, f2
      <3>3. f2[t] = f[t] \/ f2[t] = f[t] + 1
        BY <3>1, <3>2
      <3>4. f2[t] - moves' <= f[t] - moves
        BY <2>1, <3>1, <3>3
      <3> QED
        BY <3>4 DEF f, f2
    <2> QED
      BY <2>1, <2>2, <2>3 DEF Frame
  <1> QED
    BY <1>17, <1>18

\* LogoutPlayer keeps the invariant, in the queue and out of it.
LEMMA LogoutPlayerInv ==
    ASSUME QueueAssumption, IInv, NEW p \in Player, LogoutPlayer(p) PROVE IInv' /\ Frame
  <1>1. CASE p \notin QueuedPlayers
    BY <1>1, GoneInv
  <1>2. CASE p \in QueuedPlayers
    <2>1. /\ RemovePlayer(p, TRUE) /\ moves' = moves + 1
          /\ queueId' = [queueId EXCEPT ![p] = FALSE] /\ inviteId' = [inviteId EXCEPT ![p] = 0]
          /\ place' = [place EXCEPT ![p] = "offline"]
          /\ m_events' = m_events /\ serial' = serial /\ freeSlots' = freeSlots /\ bgId' = bgId
      BY DEF LogoutPlayer
    <2>2. drift' = drift
      <3>1. place[p] # "loading" \/ bgId[p] = 0
        BY <1>2 DEF IInv, Ported
      <3>2. ~ Exists(0)
        BY DEF Exists, Battleground
      <3> QED
        BY <3>1, <3>2 DEF LogoutPlayer
    <2>3. /\ m_events \in Seq(Event) /\ moves \in Nat /\ QueueType(m_QueuedGroups)
          /\ Watched(m_QueuedGroups, m_events, unwatched)
      BY DEF IInv, TypeInv
    <2>4. m_QueuedGroups' = WithoutPlayer(m_QueuedGroups, p) /\ unwatched' = unwatched \ {p}
      BY <2>1 DEF RemovePlayer
    <2>5. Watched(WithoutPlayer(m_QueuedGroups, p), m_events, unwatched \ {p})
      BY <2>3, WithoutWatched
    <2>6. Watched(m_QueuedGroups', m_events', unwatched')
      BY <2>1, <2>4, <2>5
    <2>7. m_events' \in Seq(Event) /\ moves' \in Nat /\ moves <= moves'
      BY <2>1, <2>3
    <2> QED
      BY <1>2, <2>1, <2>2, <2>6, <2>7, LeftInv
  <1> QED
    BY <1>1, <1>2

\* The type of a decreased counter.
LEMMA DecreasedType ==
    ASSUME QueueAssumption, NEW c \in [Team -> Nat], NEW t \in Team
    PROVE  Decreased(c, t, 1) \in [Team -> Nat]
  <1>1. UInt \in Nat /\ UInt > 0
    BY Sides
  <1>2. (c[t] - 1) \in Int
    OBVIOUS
  <1>3. (c[t] - 1) % UInt \in Nat
    BY <1>1, <1>2
  <1>4. [c EXCEPT ![t] = (c[t] - 1) % UInt] \in [Team -> Nat]
    BY <1>3
  <1> QED
    BY <1>4 DEF Decreased

\* The login of a player keeps the invariant: back inside, on the way or not
\* at all.
LEMMA LoginInv ==
    ASSUME QueueAssumption, IInv, NEW p \in Player, Login(p) PROVE IInv' /\ Frame
  <1> DEFINE queue == m_QueuedGroups
             d == bgId[p]
             at_bg == Exists(d) /\ p \in bgs[d].players
             back == at_bg /\ bgs[d].status # "wait_leave"
             out == at_bg /\ ~ back
  <1>1. /\ place[p] = "offline"
        /\ place' = [place EXCEPT ![p] = "world"]
        /\ queueId' = [queueId EXCEPT ![p] = back]
        /\ inviteId' = [inviteId EXCEPT ![p] = IF back THEN d ELSE 0]
        /\ bgId' = [bgId EXCEPT ![p] = IF back THEN d ELSE 0]
        /\ bgs' = IF out THEN [bgs EXCEPT ![d].players = @ \ {p},
                                          ![d].invited = Decreased(@, TeamOf(p), 1)]
                  ELSE bgs
        /\ m_QueuedGroups' = queue /\ m_events' = m_events /\ serial' = serial
        /\ freeSlots' = freeSlots /\ drift' = drift /\ unwatched' = unwatched /\ moves' = moves
    BY DEF Login, queueVars, history
  <1>2. TypeInv /\ QueueType(queue)
    BY DEF IInv, TypeInv
  <1>3. d \in Ids
    BY <1>2 DEF TypeInv
  <1>4. /\ at_bg \in BOOLEAN /\ back \in BOOLEAN /\ out \in BOOLEAN
        /\ at_bg => d \in Battleground /\ Created(bgs[d].status) /\ p \in bgs[d].players
        /\ out <=> at_bg /\ ~ back
        /\ back => at_bg
    BY DEF Exists, Created
  <1>5. p \notin QueuedPlayers
    BY <1>1 DEF IInv, SlotHeld
  <1>6. \A b \in Battleground : p \in bgs[b].players => b = d /\ at_bg
    BY DEF IInv, Inside
  <1>7. QueuedPlayers' = QueuedPlayers
    BY <1>1 DEF QueuedPlayers
  <1> HIDE DEF at_bg, back, out
  <1>8. /\ \A r \in Player : place'[r] = IF r = p THEN "world" ELSE place[r]
        /\ \A r \in Player : queueId'[r] = IF r = p THEN back ELSE queueId[r]
        /\ \A r \in Player : inviteId'[r] = IF r = p THEN IF back THEN d ELSE 0 ELSE inviteId[r]
        /\ \A r \in Player : bgId'[r] = IF r = p THEN IF back THEN d ELSE 0 ELSE bgId[r]
        /\ place' \in [Player -> {"world", "loading", "offline"}]
        /\ queueId' \in [Player -> BOOLEAN]
        /\ inviteId' \in [Player -> Ids] /\ bgId' \in [Player -> Ids]
    <2> DEFINE n == IF back THEN d ELSE 0
    <2>1. n \in Ids
      BY <1>3 DEF Ids, QueueAssumption
    <2>2. /\ place \in [Player -> {"world", "loading", "offline"}]
          /\ queueId \in [Player -> BOOLEAN]
          /\ inviteId \in [Player -> Ids] /\ bgId \in [Player -> Ids]
      BY <1>2 DEF TypeInv
    <2>3. inviteId' = [inviteId EXCEPT ![p] = n] /\ bgId' = [bgId EXCEPT ![p] = n]
      BY <1>1
    <2> HIDE DEF n, d
    <2>4. inviteId' \in [Player -> Ids] /\ \A r \in Player : inviteId'[r] = IF r = p THEN n ELSE inviteId[r]
      BY <2>1, <2>2, <2>3
    <2>5. bgId' \in [Player -> Ids] /\ \A r \in Player : bgId'[r] = IF r = p THEN n ELSE bgId[r]
      BY <2>1, <2>2, <2>3
    <2>6. queueId' \in [Player -> BOOLEAN] /\ \A r \in Player : queueId'[r] = IF r = p THEN back ELSE queueId[r]
      BY <1>1, <1>4, <2>2
    <2>7. /\ place' \in [Player -> {"world", "loading", "offline"}]
          /\ \A r \in Player : place'[r] = IF r = p THEN "world" ELSE place[r]
      BY <1>1, <2>2
    <2> QED
      BY <2>4, <2>5, <2>6, <2>7 DEF n
  <1> HIDE DEF d
  <1>9. /\ bgs' \in [Battleground -> BattlegroundState]
        /\ \A b \in Battleground :
             /\ bgs'[b].status = bgs[b].status
             /\ bgs'[b].players = IF out /\ b = d THEN bgs[b].players \ {p} ELSE bgs[b].players
             /\ bgs'[b].invited = IF out /\ b = d THEN Decreased(bgs[b].invited, TeamOf(p), 1)
                                  ELSE bgs[b].invited
    <2>0. bgs \in [Battleground -> BattlegroundState]
      BY <1>2 DEF TypeInv
    <2>1. CASE ~ out
      <3>1. bgs' = bgs
        BY <1>1, <2>1 DEF d
      <3> QED
        BY <2>0, <2>1, <3>1
    <2>2. CASE out
      <3>1. d \in Battleground
            /\ bgs' = [bgs EXCEPT ![d].players = @ \ {p}, ![d].invited = Decreased(@, TeamOf(p), 1)]
        BY <1>1, <1>4, <2>2 DEF d
      <3> DEFINE i == Decreased(bgs[d].invited, TeamOf(p), 1)
                 n == [bgs[d] EXCEPT !.players = @ \ {p}, !.invited = i]
      <3>2. bgs[d] \in BattlegroundState /\ bgs[d].invited \in [Team -> Nat]
        BY <2>0, <3>1 DEF BattlegroundState
      <3>3. i \in [Team -> Nat]
        BY <3>2, Sides, DecreasedType
      <3> HIDE DEF i
      <3>4. n \in BattlegroundState /\ n.status = bgs[d].status
            /\ n.players = bgs[d].players \ {p} /\ n.invited = i
        BY <3>2, <3>3 DEF BattlegroundState
      <3>5. bgs' = [bgs EXCEPT ![d] = n]
        BY <2>0, <3>1 DEF i, BattlegroundState
      <3> HIDE DEF n
      <3>6. bgs' \in [Battleground -> BattlegroundState]
            /\ \A b \in Battleground : bgs'[b] = IF b = d THEN n ELSE bgs[b]
        BY <2>0, <3>4, <3>5
      <3>7. ASSUME NEW b \in Battleground
            PROVE  /\ bgs'[b].status = bgs[b].status
                   /\ bgs'[b].players = IF b = d THEN bgs[b].players \ {p} ELSE bgs[b].players
                   /\ bgs'[b].invited = IF b = d THEN Decreased(bgs[b].invited, TeamOf(p), 1)
                                        ELSE bgs[b].invited
        <4>1. CASE b = d
          BY <3>4, <3>6, <4>1 DEF i
        <4>2. CASE b # d
          BY <3>6, <4>2
        <4> QED
          BY <4>1, <4>2
      <3> QED
        BY <2>2, <3>6, <3>7
    <2> QED
      BY <1>4, <2>1, <2>2
  <1>10. \A b \in Battleground : Heads(b)' = IF out /\ b = d THEN Heads(b) \ {p} ELSE Heads(b)
    <2> SUFFICES ASSUME NEW b \in Battleground
                 PROVE  Heads(b)' = IF out /\ b = d THEN Heads(b) \ {p} ELSE Heads(b)
      OBVIOUS
    <2>1. \A r \in Player : r \in Way(b)' <=> r \in Way(b) /\ r # p
      BY <1>1, <1>8 DEF Way
    <2>2. Way(b)' = Way(b) /\ p \notin Way(b)
      BY <1>1, <2>1 DEF Way
    <2>3. Heads(b) = InvitedIn(queue, b) \cup Way(b) \cup bgs[b].players
          /\ Heads(b)' = InvitedIn(queue, b) \cup Way(b)' \cup bgs'[b].players
      BY <1>1 DEF Heads, HeadsIn
    <2>4. p \notin InvitedIn(queue, b)
      <3>1. InvitedIn(queue, b) \subseteq QueuedIn(queue)
        BY <1>2, QueuedIs
      <3> QED
        BY <1>5, <3>1, QueuedPlayersAre
    <2>5. CASE out /\ b = d
      <3>1. bgs'[b].players = bgs[b].players \ {p}
        BY <1>9, <2>5
      <3>2. Heads(b)' = Heads(b) \ {p}
        BY <2>2, <2>3, <2>4, <3>1
      <3> QED
        BY <2>5, <3>2
    <2>6. CASE ~ (out /\ b = d)
      <3>1. bgs'[b].players = bgs[b].players
        BY <1>9, <2>6
      <3> QED
        BY <2>2, <2>3, <2>6, <3>1
    <2> QED
      BY <2>5, <2>6
  <1>11. TypeInv'
    <2>1. /\ m_events \in Seq(Event) /\ serial \in Nat /\ freeSlots \in Seq(Battleground)
          /\ drift \in [Battleground -> [Team -> Int]] /\ moves \in Nat /\ unwatched \subseteq Player
      BY <1>2 DEF TypeInv
    <2>2. QueueType(m_QueuedGroups')
      BY <1>1, <1>2
    <2> QED
      BY <1>1, <1>8, <1>9, <2>1, <2>2 DEF TypeInv, QueueType
  <1>12. SlotHeld'
    BY <1>1, <1>2, <1>5, <1>7, <1>8, TypesAre DEF IInv, SlotHeld
  <1>13. Ported'
    <2> SUFFICES ASSUME NEW r \in Player, place'[r] = "loading", bgId'[r] # 0
                 PROVE  queueId'[r] /\ r \notin QueuedPlayers' /\ inviteId'[r] = bgId'[r]
      BY DEF Ported
    <2>1. r # p
      BY <1>8
    <2>2. queueId[r] /\ r \notin QueuedPlayers /\ inviteId[r] = bgId[r]
      BY <1>8, <2>1 DEF IInv, Ported
    <2> QED
      BY <1>7, <1>8, <2>1, <2>2
  <1>14. Inside'
    <2> SUFFICES ASSUME NEW b \in Battleground, NEW r \in bgs'[b].players
                 PROVE  /\ Exists(b)' /\ bgId'[r] = b /\ r \notin QueuedPlayers'
                        /\ place'[r] # "loading"
                        /\ place'[r] = "world" => queueId'[r]
      BY DEF Inside
    <2>0. r \in bgs[b].players /\ ~ (out /\ b = d /\ r = p)
      <3>1. CASE out /\ b = d
        <4>1. bgs'[b].players = bgs[b].players \ {p}
          BY <1>9, <3>1
        <4> QED
          BY <4>1
      <3>2. CASE ~ (out /\ b = d)
        <4>1. bgs'[b].players = bgs[b].players
          BY <1>9, <3>2
        <4> QED
          BY <3>2, <4>1
      <3> QED
        BY <3>1, <3>2
    <2>1. /\ Exists(b) /\ bgId[r] = b /\ r \notin QueuedPlayers
          /\ place[r] # "loading"
          /\ place[r] = "world" => queueId[r]
      BY <2>0 DEF IInv, Inside
    <2>2. r \in Player
      BY <1>2, <2>0, TypesAre
    <2>3. Exists(b)'
      BY <1>9, <2>1 DEF Exists
    <2>4. CASE r = p
      <3>1. b = d /\ back
        BY <1>4, <1>6, <2>0, <2>4
      <3> QED
        BY <1>7, <1>8, <2>1, <2>2, <2>3, <2>4, <3>1
    <2>5. CASE r # p
      BY <1>7, <1>8, <2>1, <2>2, <2>3, <2>5
    <2> QED
      BY <2>4, <2>5
  <1>15. ToldIn(m_QueuedGroups', inviteId')
    <2>1. \A g \in Groups(queue) : \A r \in g.players : r # p /\ r \in Player
      BY <1>2, <1>5, TypesAre DEF QueuedPlayers
    <2>2. \A g \in Groups(queue) : \A r \in g.players : inviteId'[r] \in {0, g.invited}
      BY <1>8, <2>1 DEF IInv, ToldIn
    <2> QED
      BY <1>1, <2>2 DEF ToldIn
  <1>16. ASSUME NEW b \in Battleground PROVE Accounted(b)'
    <2> DEFINE h == Heads(b)
               c == bgs[b].invited
               f == drift[b]
               st == bgs[b].status
    <2>1. Matches(st, c, h, f) /\ h \in SUBSET Player
          /\ c \in [Team -> Nat] /\ f \in [Team -> Int]
      BY <1>2, TypesAre, HeadsAre DEF IInv, Accounted
    <2>2. bgs'[b].status = st /\ drift'[b] = f
      BY <1>1, <1>9
    <2>3. out /\ b = d => p \in h /\ Created(st)
      BY <1>4 DEF Heads, HeadsIn
    <2>4. bgs'[b].invited = IF out /\ b = d THEN Decreased(c, TeamOf(p), 1) ELSE c
      BY <1>9
    <2>5. Heads(b)' = IF out /\ b = d THEN h \ {p} ELSE h
      BY <1>10
    <2> HIDE DEF h, c, f, st
    <2>6. CASE out /\ b = d
      <3>1. Accounts(c, h, f) /\ p \in h /\ Created(st)
        BY <2>1, <2>3, <2>6 DEF Matches
      <3>2. Accounts(Decreased(c, TeamOf(p), 1), h \ {p}, f)
        BY <2>1, <3>1, AccountsDecreased
      <3> QED
        BY <2>2, <2>4, <2>5, <2>6, <3>1, <3>2 DEF Accounted, Matches, Created
    <2>7. CASE ~ (out /\ b = d)
      <3>1. Heads(b)' = h /\ bgs'[b].invited = c
        BY <2>4, <2>5, <2>7
      <3> QED
        BY <2>1, <2>2, <3>1 DEF Accounted
    <2> QED
      BY <2>6, <2>7
  <1>17. FreeExist'
    <2> SUFFICES ASSUME NEW x \in ToSet(freeSlots) PROVE Created(bgs'[x].status)
      BY <1>1 DEF FreeExist
    <2>1. x \in Battleground
      BY <1>2, SetOfSeq DEF TypeInv
    <2> QED
      BY <1>9, <2>1 DEF IInv, FreeExist
  <1>18. OneGroup(m_QueuedGroups') /\ Watched(m_QueuedGroups', m_events', unwatched')
    BY <1>1 DEF IInv
  <1>19. IInv'
    BY <1>11, <1>12, <1>13, <1>14, <1>15, <1>16, <1>17, <1>18 DEF IInv, OneGroup, ToldIn, Watched
  <1>20. Frame
    <2>1. moves \in Nat /\ \A c \in Battleground, t \in Team : drift[c][t] \in Int
      BY <1>2, TypesAre DEF TypeInv
    <2>2. \A b \in Battleground : Heads(b)' \subseteq Heads(b)
      BY <1>10
    <2> QED
      BY <1>1, <1>9, <2>1, <2>2 DEF Frame
  <1> QED
    BY <1>19, <1>20

\* Participants leave, and go home if they are in the world.
LEMMA AtLeaveInv ==
    ASSUME QueueAssumption, IInv, NEW b \in Battleground, NEW leaving \in SUBSET bgs[b].players,
           leaving # {}, RemovePlayerAtLeave(b, leaving),
           m_QueuedGroups' = m_QueuedGroups, m_events' = m_events, serial' = serial,
           drift' = drift, unwatched' = unwatched, moves' = moves
    PROVE  IInv' /\ Frame
  <1> DEFINE Here(r) == r \in leaving /\ place[r] = "world"
             queue == m_QueuedGroups
             i == [t \in Team |-> (bgs[b].invited[t] - Cardinality(leaving \cap Members(t))) % UInt]
  <1>1. /\ bgs' = [bgs EXCEPT ![b].players = @ \ leaving, ![b].invited = i]
        /\ freeSlots' = IF Open(b) /\ ~ Contains(freeSlots, b) THEN <<b>> \o freeSlots ELSE freeSlots
        /\ queueId' = [r \in Player |-> queueId[r] /\ ~ Here(r)]
        /\ inviteId' = [r \in Player |-> IF Here(r) THEN 0 ELSE inviteId[r]]
        /\ bgId' = [r \in Player |-> IF Here(r) THEN 0 ELSE bgId[r]]
        /\ place' = [r \in Player |-> IF Here(r) THEN "loading" ELSE place[r]]
    <2>1. bgs \in [Battleground -> BattlegroundState] /\ bgs[b] \in BattlegroundState
      BY DEF IInv, TypeInv
    <2> QED
      BY <2>1 DEF RemovePlayerAtLeave, FindPlayer, BattlegroundState
  <1>2. TypeInv /\ QueueType(queue)
    BY DEF IInv, TypeInv
  <1>3. /\ bgs[b].players \in SUBSET Player /\ leaving \in SUBSET Player
        /\ bgs[b].invited \in [Team -> Nat]
        /\ 0 \notin Battleground
    BY <1>2, TypesAre DEF Battleground
  <1>4. /\ Exists(b) /\ Created(bgs[b].status)
        /\ \A r \in leaving : bgId[r] = b /\ r \notin QueuedPlayers /\ place[r] # "loading"
    BY ExistsIs DEF IInv, Inside
  <1>5. i \in [Team -> Nat]
    <2> SUFFICES ASSUME NEW t \in Team
                 PROVE  (bgs[b].invited[t] - Cardinality(leaving \cap Members(t))) % UInt \in Nat
      OBVIOUS
    <2>1. Cardinality(leaving \cap Members(t)) \in Nat
      BY <1>3, SideCount
    <2>2. UInt \in Nat /\ UInt > 0
      BY Sides
    <2>3. (bgs[b].invited[t] - Cardinality(leaving \cap Members(t))) \in Int
      BY <1>3, <2>1
    <2> DEFINE x == bgs[b].invited[t] - Cardinality(leaving \cap Members(t))
    <2> HIDE DEF x
    <2>4. x % UInt \in Nat
      BY <2>2, <2>3 DEF x
    <2> QED
      BY <2>4 DEF x
  <1>6. QueuedPlayers' = QueuedPlayers
    BY DEF QueuedPlayers
  <1>7. /\ \A r \in Player : queueId'[r] = (queueId[r] /\ ~ Here(r))
        /\ \A r \in Player : inviteId'[r] = IF Here(r) THEN 0 ELSE inviteId[r]
        /\ \A r \in Player : bgId'[r] = IF Here(r) THEN 0 ELSE bgId[r]
        /\ \A r \in Player : place'[r] = IF Here(r) THEN "loading" ELSE place[r]
        /\ place' \in [Player -> {"world", "loading", "offline"}]
        /\ queueId' \in [Player -> BOOLEAN]
        /\ inviteId' \in [Player -> Ids] /\ bgId' \in [Player -> Ids]
    <2>1. /\ place \in [Player -> {"world", "loading", "offline"}]
          /\ queueId \in [Player -> BOOLEAN]
          /\ inviteId \in [Player -> Ids] /\ bgId \in [Player -> Ids] /\ 0 \in Ids
      BY <1>2 DEF TypeInv, Ids, QueueAssumption
    <2>2. /\ \A r \in Player : queueId'[r] = (queueId[r] /\ ~ Here(r))
          /\ queueId' \in [Player -> BOOLEAN]
      BY <1>1, <2>1
    <2>3. /\ \A r \in Player : inviteId'[r] = IF Here(r) THEN 0 ELSE inviteId[r]
          /\ inviteId' \in [Player -> Ids]
      BY <1>1, <2>1
    <2>4. /\ \A r \in Player : bgId'[r] = IF Here(r) THEN 0 ELSE bgId[r]
          /\ bgId' \in [Player -> Ids]
      BY <1>1, <2>1
    <2>5. /\ \A r \in Player : place'[r] = IF Here(r) THEN "loading" ELSE place[r]
          /\ place' \in [Player -> {"world", "loading", "offline"}]
      BY <1>1, <2>1
    <2> QED
      BY <2>2, <2>3, <2>4, <2>5
  <1>8. \A r : Here(r) => r \in leaving /\ place[r] = "world"
    OBVIOUS
  <1>9. i = [t \in Team |-> (bgs[b].invited[t] - Cardinality(leaving \cap Members(t))) % UInt]
    OBVIOUS
  <1> HIDE DEF Here, i
  <1>10. /\ bgs' \in [Battleground -> BattlegroundState]
         /\ \A c \in Battleground : bgs'[c].status = bgs[c].status
         /\ bgs'[b].players = bgs[b].players \ leaving /\ bgs'[b].invited = i
         /\ \A c \in Battleground \ {b} : bgs'[c].players = bgs[c].players
                                          /\ bgs'[c].invited = bgs[c].invited
    <2> DEFINE n == [bgs[b] EXCEPT !.players = @ \ leaving, !.invited = i]
    <2>1. bgs \in [Battleground -> BattlegroundState] /\ bgs[b] \in BattlegroundState
      BY <1>2 DEF TypeInv
    <2>2. n \in BattlegroundState /\ n.status = bgs[b].status
          /\ n.players = bgs[b].players \ leaving /\ n.invited = i
      BY <1>5, <2>1 DEF BattlegroundState
    <2>3. bgs' = [bgs EXCEPT ![b] = n]
      BY <1>1, <2>1 DEF BattlegroundState
    <2> HIDE DEF n
    <2>4. bgs' \in [Battleground -> BattlegroundState]
          /\ \A c \in Battleground : bgs'[c] = IF c = b THEN n ELSE bgs[c]
      BY <2>1, <2>2, <2>3
    <2> QED
      BY <2>2, <2>4
  <1>11. freeSlots' \in Seq(Battleground) /\ \A x \in ToSet(freeSlots') : x = b \/ x \in ToSet(freeSlots)
    <2>1. freeSlots \in Seq(Battleground)
      BY <1>2 DEF TypeInv
    <2>3. <<b>> \o freeSlots \in Seq(Battleground)
          /\ ToSet(<<b>> \o freeSlots) = {b} \cup ToSet(freeSlots)
      BY <2>1, FrontSeq
    <2> QED
      BY <1>1, <2>1, <2>3
  <1>12. ASSUME NEW c \in Battleground
         PROVE  /\ Heads(c) = InvitedIn(queue, c) \cup Way(c) \cup bgs[c].players
                /\ Heads(c)' = InvitedIn(queue, c) \cup Way(c) \cup bgs'[c].players
    <2>1. \A r \in Player : r \in Way(c)' <=> r \in Way(c)
      BY <1>3, <1>4, <1>7, <1>8 DEF Way
    <2>2. Way(c)' = Way(c)
      BY <2>1 DEF Way
    <2> QED
      BY <2>2 DEF Heads, HeadsIn
  <1>13. Heads(b)' = Heads(b) \ leaving /\ leaving \in SUBSET Heads(b)
    <2>1. \A r \in leaving : r \notin InvitedIn(queue, b) /\ r \notin Way(b)
      <3>1. InvitedIn(queue, b) \subseteq QueuedIn(queue)
        BY <1>2, QueuedIs
      <3> QED
        BY <1>4, <3>1, QueuedPlayersAre DEF Way
    <2>2. bgs'[b].players = bgs[b].players \ leaving
      BY <1>10
    <2>3. Heads(b) = InvitedIn(queue, b) \cup Way(b) \cup bgs[b].players
          /\ Heads(b)' = InvitedIn(queue, b) \cup Way(b) \cup bgs'[b].players
      BY <1>12
    <2> QED
      BY <2>1, <2>2, <2>3
  <1>14. \A c \in Battleground \ {b} : Heads(c)' = Heads(c)
    BY <1>10, <1>12
  <1>15. TypeInv'
    <2>1. /\ m_events \in Seq(Event) /\ serial \in Nat
          /\ drift \in [Battleground -> [Team -> Int]] /\ moves \in Nat /\ unwatched \subseteq Player
      BY <1>2 DEF TypeInv
    <2>2. QueueType(m_QueuedGroups')
      BY <1>2
    <2> QED
      BY <1>7, <1>10, <1>11, <2>1, <2>2 DEF TypeInv, QueueType
  <1>16. SlotHeld'
    <2> SUFFICES ASSUME NEW r \in QueuedPlayers PROVE queueId'[r] /\ place'[r] # "offline"
      BY <1>6 DEF SlotHeld
    <2>1. r \in Player /\ ~ Here(r)
      BY <1>2, <1>4, <1>8, TypesAre
    <2>2. queueId[r] /\ place[r] # "offline"
      BY DEF IInv, SlotHeld
    <2> QED
      BY <1>7, <2>1, <2>2
  <1>17. Ported'
    <2> SUFFICES ASSUME NEW r \in Player, place'[r] = "loading", bgId'[r] # 0
                 PROVE  queueId'[r] /\ r \notin QueuedPlayers' /\ inviteId'[r] = bgId'[r]
      BY DEF Ported
    <2>1. ~ Here(r)
      BY <1>7
    <2>2. queueId[r] /\ r \notin QueuedPlayers /\ inviteId[r] = bgId[r]
      BY <1>7, <2>1 DEF IInv, Ported
    <2> QED
      BY <1>6, <1>7, <2>1, <2>2
  <1>18. Inside'
    <2> SUFFICES ASSUME NEW c \in Battleground, NEW r \in bgs'[c].players
                 PROVE  /\ Exists(c)' /\ bgId'[r] = c /\ r \notin QueuedPlayers'
                        /\ place'[r] # "loading"
                        /\ place'[r] = "world" => queueId'[r]
      BY DEF Inside
    <2>0. r \in bgs[c].players /\ ~ (c = b /\ r \in leaving)
      BY <1>10
    <2>1. /\ Exists(c) /\ bgId[r] = c /\ r \notin QueuedPlayers
          /\ place[r] # "loading"
          /\ place[r] = "world" => queueId[r]
      BY <2>0 DEF IInv, Inside
    <2>2. r \in Player /\ ~ Here(r)
      BY <1>2, <1>4, <1>8, <2>0, <2>1, TypesAre
    <2>3. Exists(c)'
      BY <1>10, <2>1 DEF Exists
    <2> QED
      BY <1>6, <1>7, <2>1, <2>2, <2>3
  <1>19. ToldIn(m_QueuedGroups', inviteId')
    <2>1. \A g \in Groups(queue) : \A r \in g.players : ~ Here(r) /\ r \in Player
      BY <1>2, <1>4, <1>8, TypesAre DEF QueuedPlayers
    <2>2. \A g \in Groups(queue) : \A r \in g.players : inviteId'[r] \in {0, g.invited}
      BY <1>7, <2>1 DEF IInv, ToldIn
    <2> QED
      BY <2>2 DEF ToldIn
  <1>20. ASSUME NEW c \in Battleground PROVE Accounted(c)'
    <2>1. CASE c # b
      <3>1. bgs'[c].status = bgs[c].status /\ bgs'[c].invited = bgs[c].invited /\ Heads(c)' = Heads(c)
        BY <1>10, <1>14, <2>1
      <3> QED
        BY <3>1 DEF IInv, Accounted
    <2>2. CASE c = b
      <3> DEFINE h == Heads(b)
                 n == bgs[b].invited
                 f == drift[b]
                 st == bgs[b].status
      <3>1. Matches(st, n, h, f) /\ h \in SUBSET Player /\ f \in [Team -> Int]
        BY <1>2, TypesAre, HeadsAre DEF IInv, Accounted
      <3>2. i = [t \in Team |-> (n[t] - Cardinality(leaving \cap Members(t))) % UInt]
            /\ leaving \in SUBSET h /\ Created(st)
        BY <1>4, <1>9, <1>13
      <3>3. bgs'[b].status = st /\ bgs'[b].invited = i /\ Heads(b)' = h \ leaving /\ drift'[b] = f
        BY <1>10, <1>13
      <3> HIDE DEF h, n, f, st
      <3>4. Accounts(n, h, f)
        BY <3>1, <3>2 DEF Matches
      <3>5. Accounts(i, h \ leaving, f)
        BY <3>1, <3>2, <3>4, AccountsWithout
      <3> QED
        BY <2>2, <3>2, <3>3, <3>5 DEF Accounted, Matches, Created
    <2> QED
      BY <2>1, <2>2
  <1>21. FreeExist'
    <2> SUFFICES ASSUME NEW x \in ToSet(freeSlots') PROVE Created(bgs'[x].status)
      BY DEF FreeExist
    <2>1. x \in Battleground
      BY <1>11, SetOfSeq
    <2>2. Created(bgs[x].status)
      BY <1>4, <1>11 DEF IInv, FreeExist
    <2> QED
      BY <1>10, <2>1, <2>2
  <1>22. IInv'
    BY <1>15, <1>16, <1>17, <1>18, <1>19, <1>20, <1>21 DEF IInv, OneGroup, ToldIn, Watched
  <1>23. Frame
    <2>1. moves \in Nat /\ \A c \in Battleground, t \in Team : drift[c][t] \in Int
      BY <1>2, TypesAre DEF TypeInv
    <2>2. \A c \in Battleground : Heads(c)' \subseteq Heads(c)
      BY <1>13, <1>14
    <2> QED
      BY <1>10, <2>1, <2>2 DEF Frame
  <1> QED
    BY <1>22, <1>23

\* Leaving a battleground keeps the invariant.
LEMMA LeaveBattlegroundInv ==
    ASSUME QueueAssumption, IInv, NEW p \in Player, LeaveBattleground(p) PROVE IInv' /\ Frame
  <1> DEFINE x == {p}
  <1>1. PICK b \in Battleground : p \in bgs[b].players /\ RemovePlayerAtLeave(b, x)
    BY DEF LeaveBattleground, InsideOf
  <1>2. /\ m_QueuedGroups' = m_QueuedGroups /\ m_events' = m_events /\ serial' = serial
        /\ drift' = drift /\ unwatched' = unwatched /\ moves' = moves
    BY DEF LeaveBattleground, history
  <1>3. x \in SUBSET bgs[b].players /\ x # {}
    BY <1>1
  <1> HIDE DEF x
  <1> QED
    BY <1>1, <1>2, <1>3, AtLeaveInv

\* Battleground::Update taking out who is offline for too long keeps the
\* invariant.
LEMMA RemoveOfflineInv ==
    ASSUME QueueAssumption, IInv, NEW b \in Battleground, RemoveOffline(b) PROVE IInv' /\ Frame
  <1> DEFINE x == {Head(m_OfflineQueue[b])}
  <1>1. /\ RemovePlayerAtLeave(b, x) /\ x \in SUBSET bgs[b].players /\ x # {}
        /\ m_QueuedGroups' = m_QueuedGroups /\ m_events' = m_events /\ serial' = serial
        /\ drift' = drift /\ unwatched' = unwatched /\ moves' = moves
    BY DEF RemoveOffline, history
  <1> HIDE DEF x
  <1> QED
    BY <1>1, AtLeaveInv

\* Battleground::Update sending everybody home keeps the invariant.
LEMMA RemoveAllInv ==
    ASSUME QueueAssumption, IInv, NEW b \in Battleground, RemoveAll(b) PROVE IInv' /\ Frame
  <1> DEFINE x == bgs[b].players
  <1>1. /\ RemovePlayerAtLeave(b, x) /\ x \in SUBSET bgs[b].players /\ x # {}
        /\ m_QueuedGroups' = m_QueuedGroups /\ m_events' = m_events /\ serial' = serial
        /\ drift' = drift /\ unwatched' = unwatched /\ moves' = moves
    BY DEF RemoveAll, history
  <1> HIDE DEF x
  <1> QED
    BY <1>1, AtLeaveInv

\* The invariant of the state is the invariant an update starts with.
LEMMA WorkStart ==
    ASSUME QueueAssumption, IInv PROVE Setting /\ WorkInv(Work)
  <1>1. TypeInv
    BY DEF IInv
  <1>2. Setting
    BY <1>1, InvApart DEF Setting, TypeInv
  <1> DEFINE w == Work
  <1>3. /\ w.queue = m_QueuedGroups /\ w.bgs = bgs /\ w.events = m_events /\ w.free = freeSlots
        /\ w.inviteId = inviteId /\ w.drift = drift /\ w.unwatched = unwatched
    BY DEF Work
  <1>4. WorkType(w)
    BY <1>1 DEF WorkType, Work, TypeInv, QueueType
  <1> HIDE DEF w
  <1>5. Kept(w)
    <2>1. QueuedIn(w.queue) = QueuedPlayers
      BY <1>3, QueuedPlayersAre
    <2>2. \A b \in Battleground, t \in Team : drift[b][t] <= drift[b][t]
      BY <1>1, TypesAre
    <2> QED
      BY <1>3, <2>1, <2>2 DEF Kept
  <1>6. ASSUME NEW b \in Battleground PROVE Kind(w, b)
    <2>1. Matches(bgs[b].status, bgs[b].invited, Heads(b), drift[b])
      BY DEF IInv, Accounted
    <2>2. HeadsIn(w.queue, w.bgs, b) = Heads(b)
      BY <1>3 DEF Heads
    <2>3. bgs[b].status = "none" => b \notin ToSet(freeSlots)
      BY DEF IInv, FreeExist, Created
    <2> QED
      BY <1>3, <2>1, <2>2, <2>3 DEF Kind, Matches
  <1>7. OneGroup(w.queue) /\ Watched(w.queue, w.events, w.unwatched) /\ ToldIn(w.queue, w.inviteId)
    BY <1>3 DEF IInv
  <1> QED
    BY <1>2, <1>4, <1>5, <1>6, <1>7 DEF WorkInv, w

\* BattlegroundQueue::BattlegroundQueueUpdate keeps the invariant.
LEMMA BattlegroundQueueUpdateInv ==
    ASSUME QueueAssumption, IInv, BattlegroundQueueUpdate PROVE IInv' /\ Frame
  <1>1. PICK late : /\ m_QueuedGroups' = Updated(late).queue /\ bgs' = Updated(late).bgs
                    /\ m_events' = Updated(late).events /\ freeSlots' = Updated(late).free
                    /\ inviteId' = Updated(late).inviteId /\ drift' = Updated(late).drift
                    /\ unwatched' = Updated(late).unwatched
                    /\ serial' = serial + 1 \/ serial' = serial
    BY DEF BattlegroundQueueUpdate
  <1> DEFINE w == Updated(late)
  <1>2. WorkInv(w)
    BY WorkStart, UpdatedIs
  <1>3. TypeInv
    BY DEF IInv
  <1>4. place' = place /\ bgId' = bgId /\ queueId' = queueId /\ moves' = moves
    BY DEF BattlegroundQueueUpdate
  <1>5. /\ m_QueuedGroups' = w.queue /\ bgs' = w.bgs /\ m_events' = w.events /\ freeSlots' = w.free
        /\ inviteId' = w.inviteId /\ drift' = w.drift /\ unwatched' = w.unwatched
    BY <1>1
  <1> HIDE DEF w
  <1>6. /\ QueueType(w.queue)
        /\ w.bgs \in [Battleground -> BattlegroundState]
        /\ w.events \in Seq(Event) /\ w.free \in Seq(Battleground)
        /\ w.inviteId \in [Player -> Ids]
        /\ w.drift \in [Battleground -> [Team -> Int]]
        /\ w.unwatched \in SUBSET Player
    BY <1>2, WorkFields DEF WorkInv
  <1>7. /\ QueuedIn(w.queue) = QueuedPlayers
        /\ \A b \in Battleground :
             /\ w.bgs[b].players = bgs[b].players
             /\ \/ w.bgs[b].status = bgs[b].status
                \/ bgs[b].status = "none" /\ w.bgs[b].status = "wait_join"
        /\ \A p \in Player \ QueuedPlayers : w.inviteId[p] = inviteId[p]
        /\ \A b \in Battleground, t \in Team : w.drift[b][t] <= drift[b][t]
    BY <1>2 DEF WorkInv, Kept
  <1>8. QueuedPlayers' = QueuedPlayers
    BY <1>5, <1>7 DEF QueuedPlayers, QueuedIn
  <1>9. \A b \in Battleground : Heads(b)' = HeadsIn(w.queue, w.bgs, b)
    <2> SUFFICES ASSUME NEW b \in Battleground PROVE Heads(b)' = HeadsIn(w.queue, w.bgs, b)
      OBVIOUS
    <2>1. Way(b)' = Way(b)
      BY <1>4 DEF Way
    <2> QED
      BY <1>5, <2>1 DEF Heads, HeadsIn
  <1>10. TypeInv'
    <2>1. /\ place \in [Player -> {"world", "loading", "offline"}] /\ bgId \in [Player -> Ids]
          /\ queueId \in [Player -> BOOLEAN] /\ moves \in Nat /\ serial \in Nat
      BY <1>3 DEF TypeInv
    <2>2. serial' \in Nat
      BY <1>1, <2>1
    <2> QED
      BY <1>4, <1>5, <1>6, <2>1, <2>2 DEF TypeInv, QueueType
  <1>11. SlotHeld'
    BY <1>4, <1>8 DEF IInv, SlotHeld
  <1>12. Ported'
    <2> SUFFICES ASSUME NEW r \in Player, place[r] = "loading", bgId[r] # 0
                 PROVE  queueId[r] /\ r \notin QueuedPlayers' /\ inviteId'[r] = bgId[r]
      BY <1>4 DEF Ported
    <2>1. queueId[r] /\ r \notin QueuedPlayers /\ inviteId[r] = bgId[r]
      BY DEF IInv, Ported
    <2> QED
      BY <1>5, <1>7, <1>8, <2>1
  <1>13. Inside'
    <2> SUFFICES ASSUME NEW c \in Battleground, NEW r \in bgs[c].players
                 PROVE  /\ Exists(c)' /\ bgId[r] = c /\ r \notin QueuedPlayers'
                        /\ place[r] # "loading"
                        /\ place[r] = "world" => queueId[r]
      BY <1>4, <1>5, <1>7 DEF Inside
    <2>1. /\ Exists(c) /\ bgId[r] = c /\ r \notin QueuedPlayers
          /\ place[r] # "loading"
          /\ place[r] = "world" => queueId[r]
      BY DEF IInv, Inside
    <2>2. w.bgs[c].status = bgs[c].status
      BY <1>7, <2>1 DEF Exists
    <2>3. Exists(c)'
      BY <1>5, <2>1, <2>2 DEF Exists
    <2> QED
      BY <1>8, <2>1, <2>3
  <1>14. ASSUME NEW b \in Battleground PROVE Accounted(b)'
    <2>1. Kind(w, b)
      BY <1>2 DEF WorkInv
    <2>2. Heads(b)' = HeadsIn(w.queue, w.bgs, b) /\ bgs'[b] = w.bgs[b] /\ drift'[b] = w.drift[b]
      BY <1>5, <1>9
    <2>3. Matches(w.bgs[b].status, w.bgs[b].invited, HeadsIn(w.queue, w.bgs, b), w.drift[b])
      BY <2>1 DEF Kind, Matches
    <2> QED
      BY <2>2, <2>3 DEF Accounted
  <1>15. FreeExist'
    <2> SUFFICES ASSUME NEW x \in ToSet(w.free) PROVE Created(w.bgs[x].status)
      BY <1>5 DEF FreeExist
    <2>1. x \in Battleground
      BY <1>6, SetOfSeq
    <2>2. Kind(w, x)
      BY <1>2, <2>1 DEF WorkInv
    <2>3. w.bgs[x].status = bgs[x].status \/ w.bgs[x].status = "wait_join"
      BY <1>7, <2>1
    <2>4. w.bgs[x].status # "none"
      BY <2>2 DEF Kind
    <2>5. w.bgs[x].status # "deleted"
      BY <2>2, <2>3 DEF Kind, IInv, FreeExist, Created
    <2> QED
      BY <2>4, <2>5 DEF Created
  <1>16. IInv'
    <2>1. OneGroup(w.queue) /\ Watched(w.queue, w.events, w.unwatched) /\ ToldIn(w.queue, w.inviteId)
      BY <1>2 DEF WorkInv
    <2>2. /\ OneGroup(m_QueuedGroups') /\ Watched(m_QueuedGroups', m_events', unwatched')
          /\ ToldIn(m_QueuedGroups', inviteId')
      BY <1>5, <2>1
    <2> QED
      BY <1>10, <1>11, <1>12, <1>13, <1>14, <1>15, <2>2 DEF IInv, OneGroup, ToldIn, Watched
  <1>17. Frame
    <2>1. moves \in Nat
      BY <1>3 DEF TypeInv
    <2>2. ASSUME NEW b \in Battleground, bgs'[b].status = "deleted"
          PROVE  bgs[b].status = "deleted" /\ Heads(b)' \subseteq Heads(b) /\ drift'[b] = drift[b]
      <3>0. bgs[b].status = "deleted"
        BY <1>5, <1>7, <2>2
      <3>1. w.bgs[b].status = "deleted" /\ w.bgs[b].players = bgs[b].players
        BY <1>5, <1>7, <2>2
      <3>2. Kind(w, b)
        BY <1>2 DEF WorkInv
      <3>3. w.drift[b] = drift[b] /\ InvitedIn(w.queue, b) = InvitedIn(m_QueuedGroups, b)
        BY <3>1, <3>2 DEF Kind
      <3>4. Heads(b)' = Heads(b)
        BY <1>9, <3>1, <3>3 DEF Heads, HeadsIn
      <3> QED
        BY <1>5, <3>0, <3>3, <3>4
    <2>3. ASSUME NEW b \in Battleground, NEW t \in Team
          PROVE  drift'[b][t] - moves' <= drift[b][t] - moves
      <3>1. drift[b][t] \in Int /\ w.drift[b][t] \in Int /\ w.drift[b][t] <= drift[b][t]
        BY <1>3, <1>6, <1>7, TypesAre
      <3>2. drift'[b][t] = w.drift[b][t]
        BY <1>5
      <3> QED
        BY <1>4, <2>1, <3>1, <3>2
    <2> QED
      BY <1>4, <2>1, <2>2, <2>3 DEF Frame
  <1> QED
    BY <1>16, <1>17

\* A step of something else keeps the invariant.
LEMMA StutterInv ==
    ASSUME QueueAssumption, IInv, UNCHANGED vars PROVE IInv' /\ Frame
  <1>1. /\ m_events' = m_events /\ unwatched' = unwatched /\ m_QueuedGroups' = m_QueuedGroups
        /\ serial' = serial /\ bgs' = bgs /\ freeSlots' = freeSlots /\ place' = place
        /\ bgId' = bgId /\ queueId' = queueId /\ inviteId' = inviteId /\ drift' = drift
        /\ moves' = moves
    BY DEF vars, queueVars, bgVars, playerVars, history
  <1>2. /\ m_events' \in Seq(Event) /\ unwatched' \subseteq Player
        /\ Watched(m_QueuedGroups, m_events', unwatched')
    BY <1>1 DEF IInv, TypeInv
  <1> QED
    BY <1>1, <1>2, PassedInv

\* Every step keeps the invariant.
LEMMA NextInv ==
    ASSUME QueueAssumption, IInv, [Next]_vars PROVE IInv' /\ Frame
  <1>1. ASSUME NEW p \in Player, Handle(p) PROVE IInv' /\ Frame
    <2>1. CASE JoinAlone(p)
      BY <2>1, JoinAloneInv
    <2>2. ASSUME NEW party \in Parties, JoinAsGroup(p, party) PROVE IInv' /\ Frame
      BY <2>2, JoinAsGroupInv
    <2>3. CASE EnterBattle(p)
      BY <2>3, EnterBattleInv
    <2>4. CASE LeaveQueue(p)
      BY <2>4, LeaveQueueInv
    <2>5. CASE ChangeMap(p)
      BY <2>5, ChangeMapInv
    <2>6. CASE WorldportAck(p)
      BY <2>6, WorldportAckInv
    <2>7. CASE LeaveBattleground(p)
      BY <2>7, LeaveBattlegroundInv
    <2>8. CASE LogoutPlayer(p)
      BY <2>8, LogoutPlayerInv
    <2>9. CASE Login(p)
      BY <2>9, LoginInv
    <2> QED
      BY <1>1, <2>1, <2>2, <2>3, <2>4, <2>5, <2>6, <2>7, <2>8, <2>9 DEF Handle
  <1>2. ASSUME NEW b \in Battleground, UpdateBattleground(b) PROVE IInv' /\ Frame
    BY <1>2, UpdateEmptyInv, UpdateStatusInv, RemoveOfflineInv, RemoveAllInv DEF UpdateBattleground
  <1>3. ASSUME NEW p \in Player, RemoveEvent(p) PROVE IInv' /\ Frame
    BY <1>3, RemoveEventInv
  <1>4. CASE BattlegroundQueueUpdate
    BY <1>4, BattlegroundQueueUpdateInv
  <1>5. CASE EndTick
    BY <1>5, EndTickInv
  <1>6. CASE UNCHANGED vars
    BY <1>6, StutterInv
  <1> QED
    BY <1>1, <1>2, <1>3, <1>4, <1>5, <1>6 DEF Next, Tick

\* The invariant of the queue, the battlegrounds and the players, for any
\* players, parties and settings: nobody is in two groups, on the way into a
\* battleground without its slot, or told of an invitation that is not his, and
\* the invited counters account for everybody.
THEOREM QueueInvariant == Spec => []IInv
  <1>1. Init => IInv
    BY QueueAssumption, InitInv
  <1>2. IInv /\ [Next]_vars => IInv'
    BY QueueAssumption, NextInv
  <1> QED
    BY <1>1, <1>2, PTL DEF Spec

\* What the properties count are the heads of one side.
LEMMA HeadcountIs ==
    ASSUME QueueAssumption, TypeInv, NEW b \in Battleground, NEW t \in Team
    PROVE  Headcount(b, t) = Cardinality(Heads(b) \cap Members(t))
  <1> DEFINE x == Invited(b, t) \cup OnTheWay(b, t) \cup (bgs[b].players \cap Members(t))
             y == Heads(b) \cap Members(t)
  <1>1. Members(t) \subseteq Player
    BY Sides
  <1>2. Invited(b, t) = Members(t) \cap InvitedIn(m_QueuedGroups, b)
    BY DEF Invited, InvitedGroups, InvitedIn
  <1>3. \A p : p \in OnTheWay(b, t) <=> p \in Members(t) \cap Way(b)
    BY <1>1 DEF OnTheWay, Way
  <1>4. Heads(b) = InvitedIn(m_QueuedGroups, b) \cup Way(b) \cup bgs[b].players
    BY DEF Heads, HeadsIn
  <1>5. \A p : p \in x <=> p \in y
    BY <1>2, <1>3, <1>4
  <1>6. x = y
    <2> HIDE DEF x, y
    <2> QED
      BY <1>5
  <1>7. Cardinality(x) = Cardinality(y)
    BY <1>6
  <1> QED
    BY <1>7 DEF Headcount

\* The invited counter of every battleground is the number of those invited,
\* on the way and inside, but for the drift, modulo 2^32: every change of one of
\* the three that InviteGroupToBG, RemovePlayer, RemovePlayerAtLeave and the login
\* make changes the counter with it.
THEOREM EveryHeadIsCounted == Spec => []InvitedCount
  <1>1. IInv => InvitedCount
    <2> SUFFICES ASSUME IInv, NEW b \in Battleground, NEW t \in Team, Exists(b)
                 PROVE  bgs[b].invited[t] = (Headcount(b, t) + drift[b][t]) % UInt
      BY DEF InvitedCount
    <2>1. TypeInv /\ Accounted(b)
      BY DEF IInv
    <2>2. Accounts(bgs[b].invited, Heads(b), drift[b])
      BY <2>1, ExistsIs DEF Accounted, Matches
    <2>3. Headcount(b, t) = Cardinality(Heads(b) \cap Members(t))
      BY QueueAssumption, <2>1, HeadcountIs
    <2> QED
      BY <2>2, <2>3 DEF Accounts
  <1> QED
    BY <1>1, QueueInvariant, PTL

\* Who is invited has a BGQueueRemoveEvent ahead for this very invitation,
\* unless he was between two maps.
THEOREM EveryInvitationExpires == Spec => []InvitationExpires
  <1>1. IInv => InvitationExpires
    <2> SUFFICES ASSUME IInv, NEW b \in Battleground, NEW g \in InvitedGroups(b),
                        NEW p \in g.players \ unwatched
                 PROVE  \E i \in DOMAIN m_events : /\ p \in m_events[i].players
                                                   /\ m_events[i].bg = b /\ m_events[i].time = g.time
      BY DEF InvitationExpires
    <2>1. g \in Groups(m_QueuedGroups) /\ g.invited = b /\ b # 0
      BY DEF InvitedGroups, Battleground
    <2>2. PICK e \in ToSet(m_events) : p \in e.players /\ e.bg = b /\ e.time = g.time
      BY <2>1 DEF IInv, Watched
    <2> QED
      BY <2>2 DEF ToSet
  <1> QED
    BY <1>1, QueueInvariant, PTL

\* The drift is bounded by the moves, and nobody is left to a battleground that
\* was deleted.
PresentIInv ==
    /\ IInv
    /\ moves <= MaxMoves
    /\ \A b \in Battleground, t \in Team :
         /\ drift[b][t] <= moves
         /\ bgs[b].status = "deleted" /\ drift[b][t] >= 0 => Heads(b) \cap Members(t) = {}

\* Nobody moves more often than MaxMoves.
LEMMA MovesBounded ==
    ASSUME QueueAssumption, TypeInv, moves <= MaxMoves, [Next]_vars PROVE moves' <= MaxMoves
  <1>1. moves \in Nat /\ MaxMoves \in Nat
    BY DEF TypeInv, QueueAssumption
  <1>2. moves' = moves \/ (moves < MaxMoves /\ moves' = moves + 1)
    <2>1. ASSUME NEW p \in Player, Handle(p)
          PROVE  moves' = moves \/ (moves < MaxMoves /\ moves' = moves + 1)
      <3>1. CASE JoinAlone(p) \/ \E party \in Parties : JoinAsGroup(p, party)
        BY <3>1 DEF JoinAlone, JoinAsGroup, AddGroup
      <3>2. CASE EnterBattle(p) \/ LeaveQueue(p)
        BY <3>2 DEF EnterBattle, LeaveQueue
      <3>3. CASE ChangeMap(p) \/ LogoutPlayer(p)
        BY <3>3 DEF ChangeMap, LogoutPlayer
      <3>4. CASE WorldportAck(p)
        BY <3>4 DEF WorldportAck
      <3>5. CASE LeaveBattleground(p)
        BY <3>5 DEF LeaveBattleground
      <3>6. CASE Login(p)
        BY <3>6 DEF Login
      <3> QED
        BY <2>1, <3>1, <3>2, <3>3, <3>4, <3>5, <3>6 DEF Handle
    <2>2. ASSUME NEW b \in Battleground, UpdateBattleground(b) PROVE moves' = moves
      BY <2>2 DEF UpdateBattleground, UpdateEmpty, UpdateStatus, RemoveOffline, RemoveAll
    <2>3. ASSUME NEW p \in Player, RemoveEvent(p) PROVE moves' = moves
      BY <2>3 DEF RemoveEvent
    <2>4. CASE BattlegroundQueueUpdate \/ EndTick
      BY <2>4 DEF BattlegroundQueueUpdate, EndTick
    <2>5. CASE UNCHANGED vars
      BY <2>5 DEF vars
    <2> QED
      BY <2>1, <2>2, <2>3, <2>4, <2>5 DEF Next, Tick
  <1> QED
    BY <1>1, <1>2

\* Every step keeps it that nobody is left to a deleted battleground.
LEMMA PresentInv ==
    ASSUME QueueAssumption, Cardinality(Player) + MaxMoves < UInt, PresentIInv, [Next]_vars
    PROVE  PresentIInv'
  <1>1. IInv /\ TypeInv /\ moves <= MaxMoves
    BY DEF PresentIInv, IInv
  <1>2. IInv' /\ Frame
    BY <1>1, NextInv
  <1>3. moves' <= MaxMoves
    BY <1>1, MovesBounded
  <1>4. /\ moves \in Nat /\ moves' \in Nat /\ MaxMoves \in Nat /\ UInt \in Nat
        /\ Cardinality(Player) \in Nat
    BY <1>1, <1>2, Counted DEF Frame, QueueAssumption
  <1>5. ASSUME NEW b \in Battleground, NEW t \in Team PROVE drift'[b][t] <= moves'
    <2>1. drift[b][t] \in Int /\ drift'[b][t] \in Int
      BY <1>1, <1>2 DEF IInv, TypeInv
    <2>2. drift[b][t] <= moves /\ drift'[b][t] - moves' <= drift[b][t] - moves
      BY <1>2 DEF PresentIInv, Frame
    <2> QED
      BY <1>4, <2>1, <2>2
  <1>6. ASSUME NEW b \in Battleground, NEW t \in Team,
               bgs'[b].status = "deleted", drift'[b][t] >= 0
        PROVE  Heads(b)' \cap Members(t) = {}
    <2>1. /\ bgs[b].status = "deleted" \/ Deserted(b)
          /\ Heads(b)' \subseteq Heads(b) /\ drift'[b] = drift[b]
      BY <1>2, <1>6 DEF Frame
    <2>2. CASE bgs[b].status = "deleted"
      BY <1>6, <2>1, <2>2 DEF PresentIInv
    <2>3. CASE Deserted(b)
      <3> DEFINE h == Heads(b)
                 c == bgs[b].invited
                 d == drift[b]
      <3>1. Accounts(c, h, d) /\ c[t] = 0
        BY <1>1, <2>3 DEF IInv, Accounted, Matches, Deserted, NobodyInvited
      <3>2. h \in SUBSET Player /\ d \in [Team -> Int] /\ d[t] \in Int
        BY <1>1, HeadsAre, TypesAre
      <3>3. d[t] <= moves /\ d[t] >= 0
        BY <1>6, <2>1 DEF PresentIInv
      <3> HIDE DEF h, c, d
      <3>4. Cardinality(Player) + d[t] < UInt
        BY <1>1, <1>4, <3>2, <3>3
      <3>5. h \cap Members(t) = {}
        BY <3>1, <3>2, <3>3, <3>4, NobodyAccounted
      <3> QED
        BY <2>1, <3>5 DEF h
    <2> QED
      BY <2>1, <2>2, <2>3
  <1> QED
    BY <1>2, <1>3, <1>5, <1>6 DEF PresentIInv

\* Battleground::Update deletes no battleground while somebody whose side did
\* not lose count is invited, on the way or inside, and none that is offered to
\* the queue. The counter must not wrap to zero: fewer heads and moves than a
\* counter has values.
THEOREM PresentWhileNeeded ==
    ASSUME Cardinality(Player) + MaxMoves < UInt
    PROVE  Spec => []BattlegroundPresent
  <1>1. Init => PresentIInv
    <2> SUFFICES ASSUME Init PROVE PresentIInv
      OBVIOUS
    <2>1. IInv
      BY QueueAssumption, InitInv
    <2>2. moves = 0 /\ MaxMoves \in Nat
      BY QueueAssumption DEF Init, QueueAssumption
    <2>3. \A b \in Battleground : bgs[b].status = "none" /\ \A t \in Team : drift[b][t] = 0
      BY DEF Init, NoBattleground
    <2> QED
      BY <2>1, <2>2, <2>3 DEF PresentIInv
  <1>2. PresentIInv /\ [Next]_vars => PresentIInv'
    BY QueueAssumption, PresentInv
  <1>3. PresentIInv => BattlegroundPresent
    <2> SUFFICES ASSUME PresentIInv, NEW b \in Battleground, NEW t \in Team,
                        bgs[b].status = "deleted", drift[b][t] >= 0
                 PROVE  Headcount(b, t) = 0 /\ ~ Contains(freeSlots, b)
      BY DEF BattlegroundPresent
    <2>1. IInv /\ TypeInv
      BY DEF PresentIInv, IInv
    <2>2. Headcount(b, t) = 0
      <3>1. Heads(b) \cap Members(t) = {}
        BY DEF PresentIInv
      <3>2. Cardinality({}) = 0
        BY FS_EmptySet
      <3> QED
        BY QueueAssumption, <2>1, <3>1, <3>2, HeadcountIs
    <2>3. b \notin ToSet(freeSlots)
      BY <2>1 DEF IInv, FreeExist, Created
    <2>4. Contains(freeSlots, b) <=> b \in ToSet(freeSlots)
      BY <2>1, ContainsIs DEF TypeInv
    <2> QED
      BY <2>2, <2>3, <2>4
  <1> QED
    BY <1>1, <1>2, <1>3, PTL DEF Spec

-----------------------------------------------------------------------------
(* Pools that are short enough.                                            *)
\* The groups of one side, and their pools with at most m players.
SideGroup(t) == {g \in Group : g.players \subseteq Members(t)}
Short(t, m) == {pool \in Seq(SideGroup(t)) : PlayerCount(pool) <= m}
\* The players of a pool.
InPool(pool) == UNION {pool[i].players : i \in DOMAIN pool}

\* PlayerCount of a pool is the number of the players in its groups.
LEMMA PoolCount ==
    ASSUME QueueAssumption, NEW pool \in Seq(Group)
    PROVE  /\ InPool(pool) \in SUBSET Player /\ IsFiniteSet(InPool(pool))
           /\ PlayerCount(pool) = Cardinality(InPool(pool)) /\ PlayerCount(pool) \in Nat
  <1>1. \A i \in DOMAIN pool : pool[i].players \in SUBSET Player
    <2>1. \A i \in DOMAIN pool : pool[i] \in Group
      OBVIOUS
    <2> QED
      BY <2>1 DEF Group
  <1>2. InPool(pool) \in SUBSET Player
    BY <1>1 DEF InPool
  <1>3. PlayerCount(pool) = Cardinality(InPool(pool))
    BY DEF PlayerCount, InPool
  <1> QED
    BY <1>2, <1>3, Counted

\* A short pool holds groups of its side, and at most m players.
LEMMA ShortIs ==
    ASSUME QueueAssumption, NEW t \in Team, NEW m \in Int, NEW pool \in Short(t, m)
    PROVE  /\ pool \in Seq(SideGroup(t)) /\ pool \in Seq(Group)
           /\ PlayerCount(pool) \in Nat /\ PlayerCount(pool) <= m
  <1>1. SideGroup(t) \subseteq Group
    BY DEF SideGroup
  <1>2. pool \in Seq(SideGroup(t)) /\ PlayerCount(pool) <= m
    BY DEF Short
  <1>3. pool \in Seq(Group)
    BY <1>1, <1>2
  <1> QED
    BY <1>2, <1>3, PoolCount

\* Fewer groups, fewer players.
LEMMA FewerGroups ==
    ASSUME QueueAssumption, NEW pool \in Seq(Group), NEW less \in Seq(Group),
           \A i \in DOMAIN less : \E j \in DOMAIN pool : less[i] = pool[j]
    PROVE  PlayerCount(less) <= PlayerCount(pool)
  <1>1. InPool(less) \subseteq InPool(pool)
    BY DEF InPool
  <1>2. Cardinality(InPool(less)) <= Cardinality(InPool(pool))
    BY <1>1, PoolCount, FS_Subset
  <1> QED
    BY <1>2, PoolCount

\* A group more adds at most its players.
LEMMA OneMoreGroup ==
    ASSUME QueueAssumption, NEW pool \in Seq(Group), NEW g \in Group
    PROVE  /\ PlayerCount(Append(pool, g)) <= PlayerCount(pool) + Cardinality(g.players)
           /\ Cardinality(g.players) \in Nat /\ PlayerCount(pool) \in Nat
  <1> DEFINE more == Append(pool, g)
             a == InPool(pool)
             x == g.players
  <1>1. more \in Seq(Group) /\ DOMAIN more = 1 .. Len(pool) + 1 /\ DOMAIN pool = 1 .. Len(pool)
        /\ Len(pool) \in Nat /\ more[Len(pool) + 1] = g /\ \A i \in 1 .. Len(pool) : more[i] = pool[i]
    OBVIOUS
  <1>2. IsFiniteSet(a) /\ PlayerCount(pool) = Cardinality(a)
    BY PoolCount
  <1>3. IsFiniteSet(x)
    BY Counted DEF Group
  <1>4. PlayerCount(more) = Cardinality(InPool(more))
    BY <1>1, PoolCount
  <1> HIDE DEF more
  <1>5. \A i : i \in 1 .. Len(pool) + 1 <=> i \in 1 .. Len(pool) \/ i = Len(pool) + 1
    BY <1>1
  <1>6. \A p : p \in InPool(more) <=> \E i \in 1 .. Len(pool) + 1 : p \in more[i].players
    BY <1>1 DEF InPool
  <1>7. \A p : p \in a <=> \E i \in 1 .. Len(pool) : p \in pool[i].players
    BY <1>1 DEF InPool
  <1>8. InPool(more) = a \cup x
    <2> HIDE DEF a
    <2>1. \A p : p \in InPool(more) <=> p \in a \/ p \in x
      BY <1>1, <1>5, <1>6, <1>7
    <2> QED
      BY <2>1
  <1> HIDE DEF a, x
  <1>9. Cardinality(a \cup x) = Cardinality(a) + Cardinality(x) - Cardinality(a \cap x)
    BY <1>2, <1>3, FS_Union
  <1>10. Cardinality(a) \in Nat /\ Cardinality(x) \in Nat /\ Cardinality(a \cap x) \in Nat
    BY <1>2, <1>3, FS_CardinalityType, FS_Intersection
  <1>11. Cardinality(a \cup x) <= Cardinality(a) + Cardinality(x)
    BY <1>9, <1>10
  <1> QED
    BY <1>2, <1>4, <1>8, <1>10, <1>11 DEF more, x

\* AddGroup of a selection pool goes no further than the desired number.
LEMMA AddedShort ==
    ASSUME QueueAssumption, NEW t \in Team, NEW m \in Int, NEW desired \in Int, desired <= m,
           NEW pool \in Short(t, m), NEW g \in SideGroup(t)
    PROVE  Added(pool, g, desired) \in Short(t, m)
  <1>1. CASE CanAdd(pool, g, desired)
    <2> DEFINE more == Append(pool, g)
    <2>1. more \in Seq(SideGroup(t)) /\ Added(pool, g, desired) = more
      BY <1>1 DEF Added, Short
    <2>2. pool \in Seq(Group) /\ g \in Group
      BY ShortIs DEF SideGroup
    <2>3. /\ PlayerCount(more) <= PlayerCount(pool) + Cardinality(g.players)
          /\ Cardinality(g.players) \in Nat /\ PlayerCount(pool) \in Nat
      BY <2>2, OneMoreGroup
    <2>4. desired >= PlayerCount(pool) + Cardinality(g.players)
      BY <1>1 DEF CanAdd
    <2>5. PlayerCount(more) \in Nat
      <3>1. more \in Seq(Group)
        BY <2>2
      <3> HIDE DEF more
      <3> QED
        BY <3>1, PoolCount
    <2>6. PlayerCount(more) <= m
      BY <2>3, <2>4, <2>5
    <2> HIDE DEF more
    <2> QED
      BY <2>1, <2>6 DEF Short
  <1>2. CASE ~ CanAdd(pool, g, desired)
    BY <1>2 DEF Added
  <1> QED
    BY <1>1, <1>2

\* One step of a scan keeps a pool short.
LEMMA ScanStepShort ==
    ASSUME QueueAssumption, NEW t \in Team, NEW m \in Int, NEW desired \in Int, desired <= m,
           NEW s, s.pool \in Short(t, m), NEW g \in SideGroup(t), NEW n
    PROVE  ScanStep(g, n, s, desired).pool \in Short(t, m)
  <1>1. Added(s.pool, g, desired) \in Short(t, m)
    BY AddedShort
  <1> QED
    BY <1>1 DEF ScanStep

\* A scan keeps a pool short.
LEMMA ScanShort ==
    ASSUME QueueAssumption, NEW t \in Team, NEW m \in Int, NEW desired \in Int, desired <= m,
           NEW queue \in Seq(SideGroup(t)), NEW index, NEW pool \in Short(t, m)
    PROVE  Scan(queue, index, pool, desired).pool \in Short(t, m)
  <1> DEFINE N == Len(queue)
  <1>1. PICK f : ScanUpto(queue, index, pool, desired, Len(queue), f)
                 /\ Scan(queue, index, pool, desired) = f[Len(queue)]
    BY ScanDefined
  <1> DEFINE T == {n \in 0 .. N : f[n].pool \in Short(t, m)}
  <1>2. N \in Nat /\ \A n \in 1 .. N : queue[n] \in SideGroup(t)
    OBVIOUS
  <1>3. f[0].pool \in Short(t, m)
    BY <1>1, <1>2 DEF ScanUpto
  <1>4. ASSUME NEW n \in 1 .. N
        PROVE  f[n] = ScanStep(queue[n], n, f[n - 1], desired)
    <2>1. n \in 0 .. N /\ n # 0
      BY <1>2
    <2> QED
      BY <1>1, <2>1 DEF ScanUpto
  <1>5. \A n : n \in T <=> n \in 0 .. N /\ f[n].pool \in Short(t, m)
    OBVIOUS
  <1> HIDE DEF N, T
  <1>6. ASSUME NEW n \in 0 .. N - 1, n \in T PROVE n + 1 \in T
    <2> DEFINE k == n + 1
    <2>1. k \in 1 .. N /\ k - 1 = n
      BY <1>2
    <2>2. queue[k] \in SideGroup(t) /\ f[n].pool \in Short(t, m)
      BY <1>2, <1>5, <1>6, <2>1
    <2>3. f[k] = ScanStep(queue[k], k, f[n], desired)
      BY <1>4, <2>1
    <2> HIDE DEF k
    <2>4. f[k].pool \in Short(t, m)
      BY <2>2, <2>3, ScanStepShort
    <2>5. k \in T
      BY <1>2, <1>5, <2>1, <2>4
    <2> QED
      BY <2>5 DEF k
  <1>7. \A i \in 0 .. N : i \in T
    <2>1. N \in Nat /\ 0 \in T
      BY <1>2, <1>3, <1>5
    <2>2. \A n \in 0 .. N - 1 : n \in T => n + 1 \in T
      BY <1>6
    <2> QED
      BY <2>1, <2>2, Induction
  <1> QED
    BY <1>1, <1>2, <1>5, <1>7 DEF N

\* KickGroup keeps a pool short.
LEMMA KickGroupShort ==
    ASSUME QueueAssumption, NEW t \in Team, NEW m \in Int, NEW pool \in Short(t, m), NEW size
    PROVE  KickGroup(pool, size).pool \in Short(t, m)
  <1>1. CASE pool = <<>>
    BY <1>1 DEF KickGroup
  <1>2. CASE pool # <<>>
    <2> DEFINE i == KickedIndex(pool, size)
               less == RemoveAt(pool, i)
               N == Len(pool)
    <2>1. /\ pool \in Seq(SideGroup(t)) /\ pool \in Seq(Group)
          /\ PlayerCount(pool) \in Nat /\ PlayerCount(pool) <= m
      BY ShortIs
    <2>2. i \in 1 .. N
      BY <1>2, <2>1, KickedIs
    <2>3. KickGroup(pool, size).pool = less
      BY <1>2 DEF KickGroup
    <2> HIDE DEF i
    <2>4. less \in Seq(SideGroup(t)) /\ less \in Seq(Group)
      BY <2>1, <2>2, RemoveAtIs
    <2>5. \A k \in DOMAIN less : \E j \in DOMAIN pool : less[k] = pool[j]
      <3> DEFINE a == SubSeq(pool, 1, i - 1)
                 b == SubSeq(pool, i + 1, N)
      <3>1. less = a \o b
        BY DEF RemoveAt
      <3>2. /\ Len(a) = i - 1 /\ Len(b) = N - i /\ N \in Nat
            /\ \A k \in 1 .. i - 1 : a[k] = pool[k]
            /\ \A k \in 1 .. N - i : b[k] = pool[i + k]
        BY <2>1, <2>2
      <3>3. a \in Seq(Group)
        BY <2>1, <2>2
      <3>b. b \in Seq(Group)
        BY <2>1, <2>2
      <3> HIDE DEF a, b, less
      <3>4. /\ DOMAIN less = 1 .. Len(a) + Len(b)
            /\ \A k \in 1 .. Len(a) + Len(b) :
                 less[k] = IF k <= Len(a) THEN a[k] ELSE b[k - Len(a)]
        BY <3>1, <3>3, <3>b
      <3>5. ASSUME NEW k \in DOMAIN less PROVE \E j \in DOMAIN pool : less[k] = pool[j]
        <4>1. k \in 1 .. N - 1 /\ DOMAIN pool = 1 .. N /\ N \in Nat /\ i \in Int
          BY <2>1, <2>2, <3>2, <3>4
        <4>2. CASE k <= i - 1
          <5>1. k \in 1 .. i - 1 /\ k \in 1 .. N
            BY <4>1, <4>2, <2>2
          <5>2. less[k] = pool[k]
            BY <3>2, <3>4, <4>2, <5>1
          <5> QED
            BY <4>1, <5>1, <5>2
        <4>3. CASE ~ (k <= i - 1)
          <5> DEFINE j == k - (i - 1)
          <5>1. j \in 1 .. N - i /\ i + j = k + 1 /\ k + 1 \in 1 .. N
            BY <4>1, <4>3, <2>2
          <5>2. less[k] = b[j]
            BY <3>2, <3>4, <4>3
          <5>3. b[j] = pool[k + 1]
            <6>1. b[j] = pool[i + j]
              BY <3>2, <5>1
            <6> QED
              BY <5>1, <6>1
          <5> QED
            BY <4>1, <5>1, <5>2, <5>3
        <4> QED
          BY <4>2, <4>3
      <3> QED
        BY <3>5
    <2> HIDE DEF less
    <2>6. PlayerCount(less) <= PlayerCount(pool) /\ PlayerCount(less) \in Nat
      BY <2>1, <2>4, <2>5, FewerGroups, PoolCount
    <2>7. PlayerCount(less) <= m
      BY <2>1, <2>6
    <2> QED
      BY <2>3, <2>4, <2>7 DEF Short
  <1> QED
    BY <1>1, <1>2

\* The pools of both sides are within the free slots.
ShortPools(pools, free) == \A t \in Team : pools[t] \in Short(t, free[t])
\* Each list holds groups of its side.
SideLists(lists) == \A t \in Team : lists[t] \in Seq(SideGroup(t))

\* One round of the balancing keeps the pools within the free slots: the side
\* that loses a group is filled again by the room of the other side only.
LEMMA BalanceStepShort ==
    ASSUME QueueAssumption, NEW queue, SideLists(queue), NEW free \in [Team -> Nat],
           NEW s, ShortPools(s.pools, free)
    PROVE  ShortPools(BalanceStep(queue, free, s).pools, free)
  <1> DEFINE left == [t \in Team |-> free[t] - PlayerCount(s.pools[t])]
             low == IF left["alliance"] < left["horde"] THEN "alliance" ELSE "horde"
             high == Other(low)
             gap == left[high] - left[low]
             kicked == KickGroup(s.pools[low], gap)
             room == IF free[low] >= left[high] THEN free[low] - left[high] ELSE 0
             refilled == IF kicked.more THEN Scan(queue[low], s.index[low], kicked.pool, room)
                         ELSE [pool |-> kicked.pool, index |-> s.index[low]]
             emptied == refilled.pool = <<>>
             stop == emptied /\ free[low] <= left[high] + 1
             r == BalanceStep(queue, free, s)
             other == KickGroup(s.pools[high], gap).pool
             q == queue[low]
             ix == s.index[low]
             p == s.pools[low]
             o == s.pools[high]
             kp == kicked.pool
             m == free[low]
             n == free[high]
             lh == left[high]
  <1>1. low \in Team /\ high \in Team /\ \A t \in Team : t = low \/ t = high
    BY DEF Team, Other
  <1>a. low # high
    BY DEF Team, Other
  <1>2. r = s \/ (r.pools[low] = refilled.pool /\ r.pools[high] \in {other, s.pools[high]})
    <2> DEFINE done == s.done \/ gap <= 1 \/ \A t \in Team : s.pools[t] = <<>>
               pools == [t \in Team |->
                 IF t = low THEN refilled.pool
                 ELSE IF emptied /\ ~stop THEN KickGroup(s.pools[high], gap).pool
                 ELSE s.pools[high]]
               ind == [s.index EXCEPT ![low] = refilled.index]
    <2>1. r = IF done THEN s ELSE [pools |-> pools, index |-> ind, done |-> stop]
      BY DEF BalanceStep
    <2> HIDE DEF done, r, ind, stop
    <2>2. r = s \/ r.pools = pools
      BY <2>1
    <2> HIDE DEF emptied, refilled, gap, high, low
    <2>3. pools[low] = refilled.pool /\ pools[high] \in {other, s.pools[high]}
      BY <1>1, <1>a
    <2> QED
      BY <2>2, <2>3
  <1>b. lh = n - PlayerCount(o)
    BY <1>1
  <1> HIDE DEF r, gap, low, high, left, lh
  <1>c. m \in Nat /\ n \in Nat /\ m \in Int /\ n \in Int
    BY <1>1
  <1>3. p \in Short(low, m) /\ o \in Short(high, n)
    BY <1>1 DEF ShortPools
  <1> HIDE DEF p, o, m, n
  <1>d. PlayerCount(o) \in Nat /\ PlayerCount(o) <= n
    BY <1>1, <1>3, <1>c, ShortIs
  <1>e. room \in Int /\ room <= m
    <2>1. lh \in Int /\ lh >= 0
      BY <1>b, <1>c, <1>d
    <2>2. room = IF m >= lh THEN m - lh ELSE 0
      BY DEF m, lh
    <2> QED
      BY <1>c, <2>1, <2>2
  <1> HIDE DEF room
  <1>4. other \in Short(high, n)
    <2>1. other = KickGroup(o, gap).pool
      BY DEF o
    <2> HIDE DEF other
    <2> QED
      BY <1>1, <1>3, <1>c, <2>1, KickGroupShort
  <1>5. kp \in Short(low, m)
    <2>1. kp = KickGroup(p, gap).pool
      BY DEF p
    <2> HIDE DEF kp
    <2> QED
      BY <1>1, <1>3, <1>c, <2>1, KickGroupShort
  <1>6. refilled.pool \in Short(low, m)
    <2>1. refilled = IF kicked.more THEN Scan(q, ix, kp, room) ELSE [pool |-> kp, index |-> ix]
      BY DEF p
    <2>2. q \in Seq(SideGroup(low))
      BY <1>1 DEF SideLists
    <2> HIDE DEF q, ix, kp, kicked, refilled
    <2>3. Scan(q, ix, kp, room).pool \in Short(low, m)
      BY <1>1, <1>5, <1>c, <1>e, <2>2, ScanShort
    <2> QED
      BY <1>5, <2>1, <2>3
  <1> HIDE DEF refilled, other
  <1>7. CASE r = s
    BY <1>7 DEF r
  <1>8. CASE r.pools[low] = refilled.pool /\ r.pools[high] \in {other, s.pools[high]}
    <2>1. r.pools[low] \in Short(low, m) /\ r.pools[high] \in Short(high, n)
      BY <1>3, <1>4, <1>6, <1>8 DEF o
    <2>2. r.pools[low] \in Short(low, free[low]) /\ r.pools[high] \in Short(high, free[high])
      BY <2>1 DEF m, n
    <2> QED
      BY <1>1, <2>2 DEF r, ShortPools
  <1> QED
    BY <1>2, <1>7, <1>8

\* The empty pool is short.
LEMMA EmptyShort ==
    ASSUME QueueAssumption, NEW t \in Team, NEW m \in Nat
    PROVE  <<>> \in Short(t, m)
  <1> DEFINE e == <<>>
  <1>1. e \in Seq(Group) /\ e \in Seq(SideGroup(t)) /\ DOMAIN e = {}
    OBVIOUS
  <1> HIDE DEF e
  <1>2. InPool(e) = {}
    BY <1>1 DEF InPool
  <1>3. PlayerCount(e) = 0
    BY <1>1, <1>2, PoolCount, FS_EmptySet
  <1>4. e \in Short(t, m)
    BY <1>1, <1>3 DEF Short
  <1> QED
    BY <1>4 DEF e

\* FillPlayersToBG selects no more players of a side than there are free slots
\* for it.
LEMMA FillPlayersShort ==
    ASSUME QueueAssumption, NEW queue, SideLists(queue), NEW bg,
           \A t \in Team : GetFreeSlotsForTeam(bg, t) \in Nat
    PROVE  \A t \in Team : FillPlayersToBG(queue, bg)[t] \in Short(t, GetFreeSlotsForTeam(bg, t))
  <1> DEFINE free == [t \in Team |-> GetFreeSlotsForTeam(bg, t)]
             first == [t \in Team |-> Scan(queue[t], 1, <<>>, free[t])]
             N == Cardinality(Player)
             balanced[n \in 0 .. Cardinality(Player)] ==
               IF n = 0 THEN [pools |-> [t \in Team |-> first[t].pool],
                              index |-> [t \in Team |-> first[t].index], done |-> FALSE]
               ELSE BalanceStep(queue, free, balanced[n - 1])
  <1>1. FillPlayersToBG(queue, bg) =
          IF InvitationType = 0 THEN [t \in Team |-> first[t].pool]
          ELSE balanced[Cardinality(Player)].pools
    BY DEF FillPlayersToBG
  <1>2. N \in Nat
    BY Counted
  <1>a. free \in [Team -> Nat]
    OBVIOUS
  <1>3. \A t \in Team : first[t].pool \in Short(t, free[t])
    <2> SUFFICES ASSUME NEW t \in Team PROVE first[t].pool \in Short(t, free[t])
      OBVIOUS
    <2> DEFINE q == queue[t]
               e == <<>>
               r == free[t]
               o == 1
    <2>1. q \in Seq(SideGroup(t)) /\ first[t] = Scan(q, o, e, r)
      BY DEF SideLists
    <2>2. r \in Nat /\ r \in Int /\ r <= r
      BY <1>a
    <2> HIDE DEF r
    <2>3. e \in Short(t, r)
      BY <2>2, EmptyShort
    <2> HIDE DEF q, e, o, first
    <2>4. Scan(q, o, e, r).pool \in Short(t, r)
      BY <2>1, <2>2, <2>3, ScanShort
    <2> QED
      BY <2>1, <2>4 DEF r
  <1>b. \A t \in Team : free[t] = GetFreeSlotsForTeam(bg, t)
    OBVIOUS
  <1> HIDE DEF free, first
  <1>4. PICK g : BalanceUpto(queue, free, first, Cardinality(Player), g)
    BY <1>2, BalanceExists
  <1>5. balanced = [n \in 0 .. Cardinality(Player) |->
          IF n = 0 THEN [pools |-> [t \in Team |-> first[t].pool],
                         index |-> [t \in Team |-> first[t].index], done |-> FALSE]
          ELSE BalanceStep(queue, free, balanced[n - 1])]
    BY <1>4 DEF BalanceUpto, Filled
  <1> DEFINE T == {n \in 0 .. N : ShortPools(balanced[n].pools, free)}
  <1> HIDE DEF balanced
  <1>6. balanced[0].pools = [t \in Team |-> first[t].pool]
    BY <1>2, <1>5
  <1>7. ASSUME NEW n \in 1 .. N PROVE balanced[n] = BalanceStep(queue, free, balanced[n - 1])
    <2>1. n \in 0 .. Cardinality(Player) /\ n # 0
      BY <1>2
    <2> QED
      BY <1>5, <2>1
  <1>8. \A n : n \in T <=> n \in 0 .. N /\ ShortPools(balanced[n].pools, free)
    OBVIOUS
  <1> HIDE DEF T, N
  <1>9. 0 \in T
    BY <1>2, <1>3, <1>6, <1>8 DEF ShortPools
  <1>10. ASSUME NEW n \in 0 .. N - 1, n \in T PROVE n + 1 \in T
    <2> DEFINE k == n + 1
    <2>1. k \in 1 .. N /\ k - 1 = n /\ k \in 0 .. N
      BY <1>2
    <2> DEFINE s == balanced[n]
    <2>2. balanced[k] = BalanceStep(queue, free, s)
      BY <1>7, <2>1
    <2>3. ShortPools(s.pools, free)
      BY <1>8, <1>10
    <2> HIDE DEF k, s
    <2>4. ShortPools(balanced[k].pools, free)
      BY <1>a, <2>2, <2>3, BalanceStepShort
    <2> QED
      BY <1>8, <2>1, <2>4 DEF k
  <1>11. \A i \in 0 .. N : i \in T
    <2>1. \A n \in 0 .. N - 1 : n \in T => n + 1 \in T
      BY <1>10
    <2> QED
      BY <1>2, <1>9, <2>1, Induction
  <1>12. ShortPools(balanced[Cardinality(Player)].pools, free)
    BY <1>2, <1>8, <1>11 DEF N
  <1>13. \A t \in Team : FillPlayersToBG(queue, bg)[t] \in Short(t, free[t])
    BY <1>1, <1>3, <1>12 DEF ShortPools
  <1> QED
    BY <1>13, <1>b

\* The lists of a side hold groups of that side.
SideQueue(queue) == \A k \in Kinds : SideLists(queue[k])

\* A group that loses a player, or gets an invitation, stays on its side.
LEMMA SameSide ==
    ASSUME NEW t \in Team, NEW g \in SideGroup(t), NEW p, NEW selected, NEW b \in Ids, serial \in Nat
    PROVE  Smaller(g, p) \in SideGroup(t) /\ Chosen(g, selected, b) \in SideGroup(t)
  <1>1. g \in Group /\ g.players \subseteq Members(t)
    BY DEF SideGroup
  <1>2. Smaller(g, p) \in Group /\ Smaller(g, p).players = g.players \ {p}
    BY <1>1, SmallerIs
  <1>3. Chosen(g, selected, b) \in Group /\ Chosen(g, selected, b).players = g.players
    BY <1>1, ChosenIs
  <1> QED
    BY <1>1, <1>2, <1>3 DEF SideGroup

\* RemovePlayer leaves every group on its side.
LEMMA WithoutPlayerSide ==
    ASSUME NEW queue, QueueType(queue), SideQueue(queue), NEW p, serial \in Nat
    PROVE  SideQueue(WithoutPlayer(queue, p))
  <1> DEFINE r(k, t) == [i \in DOMAIN queue[k][t] |->
                            [queue[k][t][i] EXCEPT !.players = @ \ {p}]]
             q == WithoutPlayer(queue, p)
  <1>1. q = [k \in Kinds |-> [t \in Team |-> NonEmpty(r(k, t))]]
    BY GroupsAre DEF WithoutPlayer
  <1>2. ASSUME NEW k \in Kinds, NEW t \in Team PROVE r(k, t) \in Seq(SideGroup(t))
    <2> DEFINE s == queue[k][t]
               c == r(k, t)
    <2>1. s \in Seq(SideGroup(t))
      BY DEF SideQueue, SideLists
    <2>2. c = [i \in DOMAIN s |-> Smaller(s[i], p)]
      BY DEF Smaller
    <2> HIDE DEF s, c, r
    <2>3. DOMAIN s = 1 .. Len(s) /\ Len(s) \in Nat /\ \A i \in 1 .. Len(s) : s[i] \in SideGroup(t)
      BY <2>1
    <2>4. 0 \in Ids
      BY QueueAssumption DEF Ids, QueueAssumption
    <2>5. \A i \in 1 .. Len(s) : Smaller(s[i], p) \in SideGroup(t)
      BY <2>3, <2>4, SameSide
    <2>6. c \in Seq(SideGroup(t))
      BY <2>2, <2>3, <2>5
    <2> QED
      BY <2>6 DEF c
  <1> HIDE DEF q, r
  <1>3. \A k \in Kinds, t \in Team : NonEmpty(r(k, t)) \in Seq(SideGroup(t))
    BY <1>2, NonEmptyIs
  <1>4. \A k \in Kinds, t \in Team : q[k][t] \in Seq(SideGroup(t))
    BY <1>1, <1>3
  <1> QED
    BY <1>4 DEF q, SideQueue, SideLists

\* InviteGroupToBG leaves every group on its side.
LEMMA InviteSide ==
    ASSUME NEW queue, QueueType(queue), SideQueue(queue), NEW selected, NEW b \in Ids, serial \in Nat
    PROVE  SideQueue(Invite(queue, selected, b))
  <1> DEFINE r(k, t) == [i \in DOMAIN queue[k][t] |-> Chosen(queue[k][t][i], selected, b)]
             q == Invite(queue, selected, b)
  <1>1. q = [k \in Kinds |-> [t \in Team |-> r(k, t)]]
    BY GroupsAre DEF Invite, Chosen
  <1>2. ASSUME NEW k \in Kinds, NEW t \in Team PROVE r(k, t) \in Seq(SideGroup(t))
    <2> DEFINE s == queue[k][t]
               c == r(k, t)
    <2>1. s \in Seq(SideGroup(t))
      BY DEF SideQueue, SideLists
    <2>2. c = [i \in DOMAIN s |-> Chosen(s[i], selected, b)]
      OBVIOUS
    <2> HIDE DEF s, c, r
    <2>3. DOMAIN s = 1 .. Len(s) /\ Len(s) \in Nat /\ \A i \in 1 .. Len(s) : s[i] \in SideGroup(t)
      BY <2>1
    <2>5. \A i \in 1 .. Len(s) : Chosen(s[i], selected, b) \in SideGroup(t)
      BY <2>3, SameSide
    <2>6. c \in Seq(SideGroup(t))
      BY <2>2, <2>3, <2>5
    <2> QED
      BY <2>6 DEF c
  <1> HIDE DEF q, r
  <1>4. \A k \in Kinds, t \in Team : q[k][t] \in Seq(SideGroup(t))
    BY <1>1, <1>2
  <1> QED
    BY <1>4 DEF q, SideQueue, SideLists

\* CheckPremadeMatch moves a group from one list of its side to the other.
LEMMA PremadeMovedSide ==
    ASSUME NEW queue, QueueType(queue), SideQueue(queue), NEW late
    PROVE  SideQueue(PremadeMoved(queue, late))
  <1> DEFINE q == PremadeMoved(queue, late)
             Moves(t) == /\ queue["premade"][t] # <<>>
                         /\ queue["premade"][t][1].invited = 0
                         /\ \/ t \in late
                            \/ Cardinality(queue["premade"][t][1].players) < MinPlayersPerTeam
             from(t) == Tail(queue["premade"][t])
             to(t) == <<queue["premade"][t][1]>> \o queue["normal"][t]
  <1>1. q = [premade |-> [t \in Team |-> IF Moves(t) THEN from(t) ELSE queue["premade"][t]],
             normal |-> [t \in Team |-> IF Moves(t) THEN to(t) ELSE queue["normal"][t]]]
    BY DEF PremadeMoved
  <1>2. \A t \in Team : Moves(t) => queue["premade"][t] # <<>>
    OBVIOUS
  <1> HIDE DEF Moves
  <1>3. ASSUME NEW t \in Team, Moves(t)
        PROVE  from(t) \in Seq(SideGroup(t)) /\ to(t) \in Seq(SideGroup(t))
    <2> DEFINE s == queue["premade"][t]
               n == queue["normal"][t]
               e == s[1]
    <2>1. s \in Seq(SideGroup(t)) /\ n \in Seq(SideGroup(t)) /\ s # <<>>
      BY <1>2, <1>3 DEF Kinds, SideQueue, SideLists
    <2> HIDE DEF s, n
    <2>2. Tail(s) \in Seq(SideGroup(t)) /\ e \in SideGroup(t)
      BY <2>1, HeadTailSet
    <2> HIDE DEF e
    <2>3. <<e>> \o n \in Seq(SideGroup(t))
      BY <2>1, <2>2, FrontSeq
    <2> QED
      BY <2>2, <2>3 DEF s, n, e
  <1> HIDE DEF q, from, to
  <1>4. \A t \in Team : /\ q["premade"][t] = IF Moves(t) THEN from(t) ELSE queue["premade"][t]
                        /\ q["normal"][t] = IF Moves(t) THEN to(t) ELSE queue["normal"][t]
    BY <1>1
  <1>5. \A t \in Team : /\ queue["premade"][t] \in Seq(SideGroup(t))
                        /\ queue["normal"][t] \in Seq(SideGroup(t))
    BY DEF Kinds, SideQueue, SideLists
  <1>6. \A t \in Team : q["premade"][t] \in Seq(SideGroup(t)) /\ q["normal"][t] \in Seq(SideGroup(t))
    BY <1>3, <1>4, <1>5
  <1> QED
    BY <1>6 DEF q, SideQueue, SideLists, Kinds

\* AddGroup puts a group of one side into a list of this side.
LEMMA WithGroupSide ==
    ASSUME NEW queue, QueueType(queue), SideQueue(queue), NEW kind \in Kinds, NEW t \in Team,
           NEW g \in SideGroup(t)
    PROVE  SideQueue(WithGroup(queue, kind, t, g))
  <1> DEFINE q == WithGroup(queue, kind, t, g)
             more == Append(queue[kind][t], g)
  <1>1. \A k \in Kinds, u \in Team :
          q[k][u] = IF k = kind /\ u = t THEN more ELSE queue[k][u]
    BY DEF WithGroup, QueueType
  <1>2. more \in Seq(SideGroup(t))
    <2> DEFINE s == queue[kind][t]
    <2>1. s \in Seq(SideGroup(t))
      BY DEF SideQueue, SideLists
    <2> HIDE DEF s
    <2>2. Append(s, g) \in Seq(SideGroup(t))
      BY <2>1
    <2> QED
      BY <2>2 DEF s
  <1> HIDE DEF q, more
  <1>3. ASSUME NEW k \in Kinds, NEW u \in Team PROVE q[k][u] \in Seq(SideGroup(u))
    <2>1. queue[k][u] \in Seq(SideGroup(u))
      BY DEF SideQueue, SideLists
    <2>2. CASE k = kind /\ u = t
      BY <1>1, <1>2, <2>2
    <2>3. CASE ~ (k = kind /\ u = t)
      <3>1. q[k][u] = queue[k][u]
        BY <1>1, <2>3
      <3> QED
        BY <2>1, <3>1
    <2> QED
      BY <2>2, <2>3
  <1> QED
    BY <1>3 DEF q, SideQueue, SideLists

\* GetFreeSlotsForTeam of a running battleground: within the places of the
\* side, and by no more than the other side is ahead, or one.
LEMMA FreeSlotsAre ==
    ASSUME QueueAssumption, NEW bg \in BattlegroundState, NEW t \in Team
    PROVE  /\ GetFreeSlotsForTeam(bg, t) \in Nat
           /\ bg.status = "in_progress" /\ GetFreeSlotsForTeam(bg, t) > 0 =>
                /\ bg.invited[t] + GetFreeSlotsForTeam(bg, t) <= MaxPlayersPerTeam
                /\ bg.invited[t] + GetFreeSlotsForTeam(bg, t) <= bg.invited[Other(t)] + 1
  <1> DEFINE mine == bg.invited[t]
             theirs == bg.invited[Other(t)]
             in == Cardinality(bg.players \cap Members(t))
             otherIn == Cardinality(bg.players \cap Members(Other(t)))
             diff == Difference(mine, theirs)
             diff2 == IF mine < MaxPlayersPerTeam THEN MaxPlayersPerTeam - mine ELSE 0
             diff3 == IF in > otherIn /\ mine <= MinPlayersPerTeam
                        THEN MinPlayersPerTeam - mine + 1 ELSE Difference(in, otherIn)
             free == GetFreeSlotsForTeam(bg, t)
             min == MinOf(MinOf(diff, diff2), diff3)
  <1>1. free = IF bg.status = "wait_join" THEN diff2
               ELSE IF bg.status = "in_progress" THEN min ELSE 0
    BY DEF GetFreeSlotsForTeam
  <1>2. mine \in Nat /\ theirs \in Nat
    BY DEF BattlegroundState, Team, Other
  <1>3. in \in Nat /\ otherIn \in Nat
    <2>1. bg.players \in SUBSET Player /\ Other(t) \in Team
      BY DEF BattlegroundState, Team, Other
    <2> DEFINE x == bg.players
    <2> HIDE DEF x
    <2>2. Cardinality(x \cap Members(t)) \in Nat /\ Cardinality(x \cap Members(Other(t))) \in Nat
      BY <2>1, SideCount DEF x
    <2> QED
      BY <2>2 DEF x
  <1>4. MaxPlayersPerTeam \in Nat /\ MinPlayersPerTeam \in Nat
    BY DEF QueueAssumption
  <1> HIDE DEF mine, theirs, in, otherIn, free
  <1>5. diff \in Nat /\ Difference(in, otherIn) \in Nat
    BY <1>2, <1>3 DEF Difference
  <1>6. diff2 \in Nat /\ (diff2 > 0 => mine + diff2 <= MaxPlayersPerTeam)
    BY <1>2, <1>4
  <1>7. diff > 0 => mine + diff <= theirs + 1
    BY <1>2 DEF Difference
  <1> DEFINE other == Difference(in, otherIn)
  <1>8. diff3 \in Nat
    <2>1. other \in Nat
      BY <1>5
    <2> HIDE DEF other
    <2>2. diff3 = IF in > otherIn /\ mine <= MinPlayersPerTeam
                        THEN MinPlayersPerTeam - mine + 1 ELSE other
      BY DEF other
    <2> QED
      BY <1>2, <1>4, <2>1, <2>2
  <1> HIDE DEF diff, diff2, diff3
  <1>9. min \in Nat /\ min <= diff /\ min <= diff2
    BY <1>5, <1>6, <1>8 DEF MinOf
  <1> HIDE DEF min
  <1>10. free \in Nat
    BY <1>1, <1>6, <1>9
  <1>11. ASSUME bg.status = "in_progress", free > 0
         PROVE  mine + free <= MaxPlayersPerTeam /\ mine + free <= theirs + 1
    <2>1. free = min
      BY <1>1, <1>11
    <2> QED
      BY <1>2, <1>4, <1>5, <1>6, <1>7, <1>9, <1>11, <2>1
  <1> QED
    BY <1>10, <1>11 DEF free, mine, theirs

\* InviteToBG counts at most the players of the pool of a side for it.
LEMMA FoundInPool ==
    ASSUME QueueAssumption, NEW pools, NEW m, NEW t \in Team,
           \A u \in Team : pools[u] \in Seq(SideGroup(u)),
           NEW found, found \subseteq UNION SelectedIn(pools)
    PROVE  /\ Cardinality(found \cap Members(t)) \in Nat
           /\ Cardinality(found \cap Members(t)) <= PlayerCount(pools[t])
           /\ PlayerCount(pools[t]) \in Nat
  <1> DEFINE x == found \cap Members(t)
             pool == pools[t]
  <1>1. pool \in Seq(Group)
    <2>1. SideGroup(t) \subseteq Group /\ pool \in Seq(SideGroup(t))
      BY DEF SideGroup
    <2> HIDE DEF pool
    <2> QED
      BY <2>1
  <1>2. x \subseteq InPool(pool)
    <2> SUFFICES ASSUME NEW p \in found, p \in Members(t) PROVE p \in InPool(pool)
      OBVIOUS
    <2>1. PICK u \in Team : \E i \in DOMAIN pools[u] : p \in pools[u][i].players
      BY DEF SelectedIn
    <2>2. PICK i \in DOMAIN pools[u] : p \in pools[u][i].players
      BY <2>1
    <2>3. pools[u][i] \in SideGroup(u)
      <3> DEFINE s == pools[u]
      <3>1. s \in Seq(SideGroup(u)) /\ i \in DOMAIN s
        OBVIOUS
      <3> HIDE DEF s
      <3>2. s[i] \in SideGroup(u)
        BY <3>1
      <3> QED
        BY <3>2 DEF s
    <2>4. p \in Members(u) /\ p \in Player
      BY <2>2, <2>3, Sides DEF SideGroup
    <2>5. u = t
      BY <2>4, Sides
    <2> QED
      BY <2>2, <2>5 DEF InPool
  <1> HIDE DEF x, pool
  <1>3. IsFiniteSet(InPool(pool)) /\ PlayerCount(pool) = Cardinality(InPool(pool))
        /\ PlayerCount(pool) \in Nat
    BY <1>1, PoolCount
  <1>4. Cardinality(x) <= Cardinality(InPool(pool)) /\ IsFiniteSet(x)
    BY <1>2, <1>3, FS_Subset
  <1> QED
    BY <1>3, <1>4, FS_CardinalityType DEF x, pool

\* A running battleground b with these counters favours no side that was not
\* behind when the update began.
FairTo(b, invited) ==
    bgs[b].status = "in_progress" => \A t \in Team :
        /\ invited[t] >= bgs[b].invited[t]
        /\ invited[t] > bgs[b].invited[t] => invited[t] <= invited[Other(t)] + 1

\* More players, but no more than there are free slots for.
LEMMA FairMore ==
    ASSUME QueueAssumption, NEW b \in Battleground, bgs[b] \in BattlegroundState,
           NEW bg \in BattlegroundState, bg.status = bgs[b].status,
           \A t \in Team : bg.invited[t] < UInt,
           FairTo(b, bg.invited), NEW found,
           \A t \in Team : /\ Cardinality(found \cap Members(t)) \in Nat
                           /\ Cardinality(found \cap Members(t)) <= GetFreeSlotsForTeam(bg, t)
    PROVE  FairTo(b, Increased(bg.invited, found))
  <1> SUFFICES ASSUME bgs[b].status = "in_progress"
               PROVE  FairTo(b, Increased(bg.invited, found))
    BY DEF FairTo
  <1> DEFINE c == bg.invited
             d == Increased(c, found)
             n(t) == Cardinality(found \cap Members(t))
             z == bgs[b].invited
             free(t) == GetFreeSlotsForTeam(bg, t)
  <1>1. c \in [Team -> Nat] /\ z \in [Team -> Nat]
    BY DEF BattlegroundState
  <1>2. MaxPlayersPerTeam \in Nat /\ UInt \in Nat /\ UInt > 0 /\ MaxPlayersPerTeam < UInt
    BY DEF QueueAssumption
  <1>3. \A t \in Team : d[t] = (c[t] + n(t)) % UInt
    BY DEF Increased
  <1>4. \A t \in Team : /\ free(t) \in Nat
                        /\ free(t) > 0 => /\ c[t] + free(t) <= MaxPlayersPerTeam
                                          /\ c[t] + free(t) <= c[Other(t)] + 1
    BY FreeSlotsAre
  <1>5. \A t \in Team : n(t) \in Nat /\ n(t) <= free(t) /\ c[t] \in Nat /\ c[t] < UInt
    BY <1>1
  <1>6. \A t \in Team : /\ c[t] >= z[t]
                        /\ c[t] > z[t] => c[t] <= c[Other(t)] + 1
    BY DEF FairTo
  <1> HIDE DEF c, d, n, z, free
  <1>7. ASSUME NEW t \in Team PROVE d[t] = c[t] + n(t)
    <2> DEFINE x == c[t] + n(t)
    <2>1. x \in Nat /\ x < UInt
      BY <1>2, <1>4, <1>5
    <2>2. d[t] = x % UInt
      BY <1>3
    <2> HIDE DEF x
    <2>3. x % UInt = x
      BY <1>2, <2>1, ModSame
    <2> QED
      BY <2>2, <2>3 DEF x
  <1>8. ASSUME NEW t \in Team
        PROVE  d[t] >= z[t] /\ (d[t] > z[t] => d[t] <= d[Other(t)] + 1)
    <2>1. Other(t) \in Team
      BY DEF Team, Other
    <2>2. d[t] = c[t] + n(t) /\ d[Other(t)] = c[Other(t)] + n(Other(t))
      BY <1>7, <2>1
    <2>3. z[t] \in Nat /\ c[t] \in Nat /\ c[Other(t)] \in Nat /\ n(t) \in Nat /\ n(Other(t)) \in Nat
      BY <1>1, <1>5, <2>1
    <2>4. d[t] >= z[t]
      BY <1>6, <2>2, <2>3
    <2>5. CASE n(t) = 0
      BY <1>6, <2>2, <2>3, <2>4, <2>5
    <2>6. CASE n(t) > 0
      BY <1>4, <1>5, <2>2, <2>3, <2>4, <2>6
    <2> QED
      BY <2>3, <2>5, <2>6
  <1> QED
    BY <1>8 DEF FairTo, c, d, z

\* What an update keeps about the sides.
SideWork(w) ==
    /\ SideQueue(w.queue)
    /\ \A b \in Battleground : FairTo(b, w.bgs[b].invited)

\* The counters of battleground b go up.
Raised(battlegrounds, b, found) == [battlegrounds EXCEPT ![b].invited = Increased(@, found)]

\* InviteToBG: the groups stay on their sides, and the counters of one
\* battleground go up by players of the pools.
LEMMA InviteToBGSide ==
    ASSUME serial \in Nat, NEW w, WorkInv(w), SideWork(w), NEW b \in Battleground, NEW pools
    PROVE  /\ SideQueue(InviteToBG(w, pools, b).queue)
           /\ \E found \in SUBSET (UNION SelectedIn(pools)) :
                InviteToBG(w, pools, b).bgs = Raised(w.bgs, b, found)
  <1> DEFINE u == InviteToBG(w, pools, b)
             selected == SelectedIn(pools)
             invitees == UNION selected
             found == {p \in invitees : FindPlayer(p)}
             queue == w.queue
  <1>1. u.queue = Invite(queue, selected, b)
    BY DEF InviteToBG, SelectedIn
  <1>2. u.bgs = Raised(w.bgs, b, found)
    BY DEF InviteToBG, SelectedIn, Raised
  <1>3. QueueType(queue) /\ SideQueue(queue) /\ b \in Ids
    BY WorkFields DEF WorkInv, SideWork, Battleground, Ids
  <1>4. found \in SUBSET invitees
    OBVIOUS
  <1> HIDE DEF u, selected, found, queue
  <1>5. SideQueue(Invite(queue, selected, b))
    BY <1>3, InviteSide
  <1> QED
    BY <1>1, <1>2, <1>4, <1>5 DEF u, selected

\* The counters of a battleground that exists are below 2^32.
LEMMA CountsAre ==
    ASSUME QueueAssumption, NEW w, WorkInv(w), NEW b \in Battleground, Created(w.bgs[b].status)
    PROVE  \A t \in Team : w.bgs[b].invited[t] < UInt
  <1>1. Accounts(w.bgs[b].invited, HeadsIn(w.queue, w.bgs, b), w.drift[b])
    BY DEF WorkInv, Kind
  <1> SUFFICES ASSUME NEW t \in Team PROVE w.bgs[b].invited[t] < UInt
    OBVIOUS
  <1> DEFINE h == HeadsIn(w.queue, w.bgs, b)
             d == w.drift[b][t]
             x == Cardinality(h \cap Members(t)) + d
             c == w.bgs[b].invited[t]
  <1>2. c = x % UInt
    BY <1>1 DEF Accounts
  <1>3. h \in SUBSET Player
    <2>1. /\ QueueType(w.queue) /\ w.bgs \in [Battleground -> BattlegroundState]
      BY WorkFields DEF WorkInv
    <2>2. InvitedIn(w.queue, b) \in SUBSET Player
      <3> DEFINE queue == w.queue
      <3>1. QueueType(queue)
        BY <2>1
      <3> HIDE DEF queue
      <3>2. InvitedIn(queue, b) \in SUBSET Player
        BY <3>1, QueuedIs
      <3> QED
        BY <3>2 DEF queue
    <2> QED
      BY <2>1, <2>2 DEF HeadsIn, Way, BattlegroundState
  <1>4. d \in Int
    BY WorkFields DEF WorkInv
  <1> HIDE DEF h, d, c
  <1>5. Cardinality(h \cap Members(t)) \in Nat
    BY <1>3, SideCount
  <1>6. x \in Int
    BY <1>4, <1>5
  <1> HIDE DEF x
  <1>7. x % UInt \in 0 .. UInt - 1
    BY <1>6, Sides, ModIs
  <1>8. UInt \in Nat
    BY Sides
  <1> QED
    BY <1>2, <1>7, <1>8 DEF c

\* Filling one battleground with free slots is fair to its sides.
LEMMA FillBattlegroundSide ==
    ASSUME Setting, TypeInv, NEW w, WorkInv(w), SideWork(w), NEW b \in Battleground
    PROVE  SideWork(FillBattleground(w, b))
  <1> DEFINE normal == w.queue["normal"]
             bg == w.bgs[b]
             pools == FillPlayersToBG(normal, bg)
             u == InviteToBG(w, pools, b)
             r == FillBattleground(w, b)
  <1>1. CASE w.bgs[b].status \notin {"wait_join", "in_progress"}
    BY <1>1 DEF FillBattleground
  <1>2. CASE w.bgs[b].status \in {"wait_join", "in_progress"}
    <2>1. r.queue = u.queue /\ r.bgs = u.bgs
      <3> HIDE DEF u
      <3>1. r = IF HasFreeSlots(u.bgs[b]) THEN u ELSE [u EXCEPT !.free = Without(@, b)]
        BY <1>2 DEF FillBattleground, u
      <3> QED
        BY <3>1
    <2>2. SideLists(normal)
      BY DEF SideWork, SideQueue, Kinds
    <2>3. bg \in BattlegroundState /\ bgs[b] \in BattlegroundState
          /\ w.bgs \in [Battleground -> BattlegroundState]
      BY WorkFields DEF WorkInv, TypeInv
    <2> HIDE DEF normal, bg
    <2>4. \A t \in Team : GetFreeSlotsForTeam(bg, t) \in Nat
      BY <2>3, FreeSlotsAre DEF Setting
    <2>5. \A t \in Team : pools[t] \in Short(t, GetFreeSlotsForTeam(bg, t))
      BY <2>2, <2>4, FillPlayersShort DEF Setting
    <2> HIDE DEF pools
    <2>6. PICK found \in SUBSET (UNION SelectedIn(pools)) :
            u.bgs = Raised(w.bgs, b, found)
      BY InviteToBGSide DEF Setting
    <2>7. SideQueue(u.queue)
      BY InviteToBGSide DEF Setting
    <2> HIDE DEF u
    <2>8. \A t \in Team : /\ Cardinality(found \cap Members(t)) \in Nat
                          /\ Cardinality(found \cap Members(t)) <= GetFreeSlotsForTeam(bg, t)
      <3> SUFFICES ASSUME NEW t \in Team
                   PROVE  /\ Cardinality(found \cap Members(t)) \in Nat
                          /\ Cardinality(found \cap Members(t)) <= GetFreeSlotsForTeam(bg, t)
        OBVIOUS
      <3> DEFINE n == Cardinality(found \cap Members(t))
                 k == PlayerCount(pools[t])
                 m == GetFreeSlotsForTeam(bg, t)
      <3>1. \A v \in Team : pools[v] \in Seq(SideGroup(v))
        BY <2>5 DEF Short
      <3>2. n \in Nat /\ n <= k /\ k \in Nat
        BY <2>6, <3>1, FoundInPool DEF Setting
      <3>3. k <= m /\ m \in Nat
        BY <2>4, <2>5 DEF Short
      <3> HIDE DEF n, k, m
      <3>4. n \in Nat /\ n <= m
        BY <3>2, <3>3
      <3> QED
        BY <3>4 DEF n, m
    <2>9. FairTo(b, Increased(bg.invited, found))
      <3>1. CASE bgs[b].status # "in_progress"
        BY <3>1 DEF FairTo
      <3>2. CASE bgs[b].status = "in_progress"
        <4>1. bg.status = bgs[b].status
          BY <3>2 DEF WorkInv, Kept, bg
        <4>2. Created(w.bgs[b].status)
          BY <1>2 DEF Created
        <4>3. \A t \in Team : bg.invited[t] < UInt
          BY <4>2, CountsAre DEF Setting, bg
        <4>4. FairTo(b, bg.invited)
          BY DEF SideWork, bg
        <4> QED
          BY <2>3, <2>8, <4>1, <4>3, <4>4, FairMore DEF Setting
      <3> QED
        BY <3>1, <3>2
    <2>10. ASSUME NEW c \in Battleground PROVE FairTo(c, u.bgs[c].invited)
      <3>1. CASE c = b
        <4>1. u.bgs[b].invited = Increased(bg.invited, found)
          BY <2>3, <2>6 DEF bg, BattlegroundState, Raised
        <4> QED
          BY <2>9, <3>1, <4>1
      <3>2. CASE c # b
        <4>1. u.bgs[c] = w.bgs[c]
          BY <2>3, <2>6, <3>2 DEF Raised
        <4> QED
          BY <4>1 DEF SideWork
      <3> QED
        BY <3>1, <3>2
    <2> QED
      BY <2>1, <2>7, <2>10 DEF SideWork
  <1> QED
    BY <1>1, <1>2

\* Filling all of them is.
LEMMA FillBattlegroundsSide ==
    ASSUME Setting, TypeInv, NEW w, WorkInv(w), SideWork(w)
    PROVE  SideWork(FillBattlegrounds(w))
  <1> DEFINE N == Len(w.free)
  <1>1. w.free \in Seq(Battleground)
    BY WorkFields DEF WorkInv
  <1>2. N \in Nat /\ \A n \in 1 .. N : w.free[n] \in Battleground
    BY <1>1
  <1>3. PICK f : FillUpto(w, Len(w.free), f) /\ FillBattlegrounds(w) = f[Len(w.free)]
    BY <1>2, FillDefined
  <1>4. f[0] = w
    BY <1>2, <1>3 DEF FillUpto
  <1>5. ASSUME NEW n \in 1 .. N
        PROVE  f[n] = FillBattleground(f[n - 1], w.free[n])
    <2>1. n \in 0 .. N /\ n # 0
      BY <1>2
    <2> QED
      BY <1>3, <2>1 DEF FillUpto
  <1> DEFINE T == {n \in 0 .. N : WorkInv(f[n]) /\ SideWork(f[n])}
  <1>6. \A n : n \in T <=> n \in 0 .. N /\ WorkInv(f[n]) /\ SideWork(f[n])
    OBVIOUS
  <1> HIDE DEF N, T
  <1>7. ASSUME NEW n \in 0 .. N - 1, n \in T PROVE n + 1 \in T
    <2> DEFINE k == n + 1
               b == w.free[k]
               v == f[n]
    <2>1. k \in 1 .. N /\ k - 1 = n /\ k \in 0 .. N
      BY <1>2
    <2>2. /\ b \in Battleground /\ f[k] = FillBattleground(v, b)
          /\ WorkInv(v) /\ SideWork(v)
      BY <1>2, <1>5, <1>6, <1>7, <2>1
    <2> HIDE DEF k, b, v
    <2>3. WorkInv(f[k]) /\ SideWork(f[k])
      BY <2>2, FillBattlegroundIs, FillBattlegroundSide
    <2> QED
      BY <1>6, <2>1, <2>3 DEF k
  <1>8. \A i \in 0 .. N : i \in T
    <2>1. 0 \in T
      BY <1>2, <1>4, <1>6
    <2>2. \A n \in 0 .. N - 1 : n \in T => n + 1 \in T
      BY <1>7
    <2> QED
      BY <1>2, <2>1, <2>2, Induction
  <1> QED
    BY <1>2, <1>3, <1>6, <1>8 DEF N

\* A new battleground is none of those that were running.
LEMMA StartNewSide ==
    ASSUME Setting, NEW w, WorkInv(w), SideWork(w), ~ CannotCreate(w),
           NEW pools, TeamPools(pools, Groups(w.queue))
    PROVE  SideWork(StartNewBattleground(w, pools))
  <1> DEFINE F == Fresh(w)
             b == CHOOSE c \in Fresh(w) : \A d \in Fresh(w) : c <= d
             v == WithNew(w, b)
             u == InviteToBG(v, pools, b)
             r == StartNewBattleground(w, pools)
  <1>1. F \in SUBSET Nat /\ F # {}
    BY DEF Fresh, Battleground, CannotCreate
  <1>2. b \in F
    <2> HIDE DEF F
    <2>1. \E c \in F : \A d \in F : c <= d
      BY <1>1, Least
    <2>2. (CHOOSE c \in F : \A d \in F : c <= d) \in F
      BY <2>1
    <2> QED
      BY <2>2 DEF F
  <1> HIDE DEF b
  <1>3. b \in Battleground /\ w.bgs[b].status = "none"
    BY <1>2 DEF Fresh
  <1>4. r.queue = u.queue /\ r.bgs = u.bgs
    BY DEF StartNewBattleground, WithNew, b
  <1> HIDE DEF F, v, r
  <1>5. WorkInv(v) /\ v.queue = w.queue
    BY <1>3, WithNewIs DEF v
  <1>6. w.bgs \in [Battleground -> BattlegroundState] /\ v.bgs \in [Battleground -> BattlegroundState]
    BY <1>5, WorkFields DEF WorkInv
  <1>7. bgs[b].status # "in_progress"
    BY <1>3 DEF WorkInv, Kept
  <1>8. \A c \in Battleground : c # b => v.bgs[c] = w.bgs[c]
    <2>1. v.bgs = [w.bgs EXCEPT ![b].status = "wait_join"]
      BY <1>6 DEF v, WithNew, WorkInv, WorkType
    <2> QED
      BY <1>6, <2>1
  <1>9. SideWork(v)
    <2>1. ASSUME NEW c \in Battleground PROVE FairTo(c, v.bgs[c].invited)
      <3>1. CASE c = b
        BY <1>7, <3>1 DEF FairTo
      <3>2. CASE c # b
        BY <1>8, <3>2 DEF SideWork
      <3> QED
        BY <3>1, <3>2
    <2> QED
      BY <1>5, <2>1 DEF SideWork
  <1>10. PICK found \in SUBSET (UNION SelectedIn(pools)) : u.bgs = Raised(v.bgs, b, found)
    BY <1>3, <1>5, <1>9, InviteToBGSide DEF Setting
  <1>11. SideQueue(u.queue)
    BY <1>3, <1>5, <1>9, InviteToBGSide DEF Setting
  <1> HIDE DEF u
  <1>12. ASSUME NEW c \in Battleground PROVE FairTo(c, u.bgs[c].invited)
    <2>1. CASE c = b
      BY <1>7, <2>1 DEF FairTo
    <2>2. CASE c # b
      <3>1. u.bgs[c] = v.bgs[c]
        BY <1>6, <1>10, <2>2 DEF Raised
      <3> QED
        BY <1>9, <3>1 DEF SideWork
    <2> QED
      BY <2>1, <2>2
  <1> QED
    BY <1>4, <1>11, <1>12 DEF SideWork, r

\* CheckPremadeMatch and CheckNormalMatch change no running battleground.
LEMMA StartMatchesSide ==
    ASSUME Setting, NEW w, WorkInv(w), SideWork(w), NEW late
    PROVE  SideWork(StartMatches(w, late))
  <1> DEFINE premade == PremadePools(w.queue)
             moved == PremadeMoved(w.queue, late)
             v == IF premade = NobodySelected
                    THEN WithQueue(w, moved)
                    ELSE StartNewBattleground(w, premade)
             normal == NormalPools(v.queue)
  <1>1. StartMatches(w, late) =
          IF premade # NobodySelected /\ CannotCreate(w) THEN w
          ELSE IF normal = NobodySelected \/ CannotCreate(v) THEN v
          ELSE StartNewBattleground(v, normal)
    BY DEF StartMatches, WithQueue
  <1>2. QueueType(w.queue)
    BY WorkFields DEF WorkInv
  <1>3. QueueType(moved) /\ Groups(moved) = Groups(w.queue) /\ SideQueue(moved)
    <2> DEFINE queue == w.queue
    <2>1. QueueType(queue) /\ moved = PremadeMoved(queue, late) /\ SideQueue(queue)
      BY <1>2 DEF SideWork
    <2> HIDE DEF queue, moved
    <2> QED
      BY <2>1, PremadeMovedIs, PremadeMovedSide DEF queue
  <1>4. WorkInv(WithQueue(w, moved)) /\ SideWork(WithQueue(w, moved))
    <2> HIDE DEF moved
    <2>1. WorkInv(WithQueue(w, moved))
      BY <1>3, WithQueueIs
    <2>2. WithQueue(w, moved).queue = moved /\ WithQueue(w, moved).bgs = w.bgs
      BY DEF WithQueue, WorkInv, WorkType
    <2> QED
      BY <1>3, <2>1, <2>2 DEF SideWork
  <1>5. TeamPools(premade, Groups(w.queue))
    <2> DEFINE queue == w.queue
    <2>1. QueueType(queue) /\ premade = PremadePools(queue)
      BY <1>2
    <2> HIDE DEF queue, premade
    <2> QED
      BY <2>1, PremadePoolsAre DEF queue
  <1> HIDE DEF premade, moved
  <1>6. CASE premade # NobodySelected /\ CannotCreate(w)
    BY <1>1, <1>6
  <1>7. CASE ~ (premade # NobodySelected /\ CannotCreate(w))
    <2>1. WorkInv(v) /\ SideWork(v)
      <3>1. CASE premade = NobodySelected
        BY <1>4, <3>1
      <3>2. CASE premade # NobodySelected
        <4>1. ~ CannotCreate(w)
          BY <1>7, <3>2
        <4>2. WorkInv(StartNewBattleground(w, premade)) /\ SideWork(StartNewBattleground(w, premade))
          BY <1>5, <4>1, StartNewIs, StartNewSide
        <4> QED
          BY <3>2, <4>2
      <3> QED
        BY <3>1, <3>2
    <2> HIDE DEF v
    <2>2. QueueType(v.queue)
      BY <2>1, WorkFields DEF WorkInv
    <2>3. TeamPools(normal, Groups(v.queue))
      <3> DEFINE queue == v.queue
      <3>1. QueueType(queue) /\ normal = NormalPools(queue)
        BY <2>2
      <3> HIDE DEF queue, normal
      <3> QED
        BY <3>1, NormalPoolsAre DEF queue
    <2> HIDE DEF normal
    <2>4. CASE normal = NobodySelected \/ CannotCreate(v)
      BY <1>1, <1>7, <2>1, <2>4
    <2>5. CASE ~ (normal = NobodySelected \/ CannotCreate(v))
      <3>1. SideWork(StartNewBattleground(v, normal))
        BY <2>1, <2>3, <2>5, StartNewSide
      <3> QED
        BY <1>1, <1>7, <2>5, <3>1
    <2> QED
      BY <2>4, <2>5
  <1> QED
    BY <1>6, <1>7

\* The whole update is fair to the sides of the running battlegrounds.
LEMMA UpdatedSide ==
    ASSUME Setting, TypeInv, WorkInv(Work), SideQueue(m_QueuedGroups), NEW late
    PROVE  SideWork(Updated(late))
  <1> DEFINE w == Work
             v == FillBattlegrounds(w)
  <1>1. Updated(late) = IF Groups(m_QueuedGroups) = {} THEN w
                        ELSE StartMatches(v, late)
    BY DEF Updated, Work
  <1>2. SideWork(w)
    <2>1. w.queue = m_QueuedGroups /\ w.bgs = bgs
      BY DEF Work
    <2>2. \A b \in Battleground : FairTo(b, bgs[b].invited)
      <3>1. \A b \in Battleground, t \in Team : bgs[b].invited[t] \in Nat
        BY TypesAre
      <3> QED
        BY <3>1 DEF FairTo
    <2> QED
      BY <2>1, <2>2 DEF SideWork
  <1> HIDE DEF w
  <1>3. WorkInv(w)
    BY DEF w
  <1>4. WorkInv(v) /\ SideWork(v)
    BY <1>2, <1>3, FillBattlegroundsIs, FillBattlegroundsSide
  <1> HIDE DEF v
  <1>5. SideWork(StartMatches(v, late))
    BY <1>4, StartMatchesSide
  <1> QED
    BY <1>1, <1>2, <1>5

\* The groups of the queue are in the lists of their side.
SideInv == IInv /\ SideQueue(m_QueuedGroups)

\* An update leaves every group on its side, and invites into a running
\* battleground by what the other side is ahead.
LEMMA UpdateSide ==
    ASSUME QueueAssumption, SideInv, BattlegroundQueueUpdate
    PROVE  /\ SideQueue(m_QueuedGroups')
           /\ \A b \in Battleground : FairTo(b, bgs'[b].invited)
  <1>1. PICK late : m_QueuedGroups' = Updated(late).queue /\ bgs' = Updated(late).bgs
    BY DEF BattlegroundQueueUpdate
  <1>2. Setting /\ WorkInv(Work) /\ TypeInv /\ SideQueue(m_QueuedGroups)
    BY WorkStart DEF SideInv, IInv
  <1>3. SideWork(Updated(late))
    BY <1>2, UpdatedSide
  <1> DEFINE w == Updated(late)
  <1> HIDE DEF w
  <1>4. m_QueuedGroups' = w.queue /\ bgs' = w.bgs /\ SideWork(w)
    BY <1>1, <1>3 DEF w
  <1> QED
    BY <1>4 DEF SideWork

\* RemovePlayer leaves the groups on their sides.
LEMMA RemovePlayerSide ==
    ASSUME QueueAssumption, SideInv, NEW p, NEW dec, RemovePlayer(p, dec)
    PROVE  SideQueue(m_QueuedGroups')
  <1>1. QueueType(m_QueuedGroups) /\ SideQueue(m_QueuedGroups) /\ serial \in Nat
    BY DEF SideInv, IInv, TypeInv
  <1>2. m_QueuedGroups' = WithoutPlayer(m_QueuedGroups, p)
    BY DEF RemovePlayer
  <1> QED
    BY <1>1, <1>2, WithoutPlayerSide

\* AddGroup puts a party, or a single player, into a list of its side.
LEMMA AddGroupSide ==
    ASSUME QueueAssumption, SideInv, NEW players \in SUBSET Player, players # {}, NEW kind \in Kinds,
           NEW u \in Team, players \subseteq Members(u), AddGroup(players, kind)
    PROVE  SideQueue(m_QueuedGroups')
  <1> DEFINE leader == CHOOSE p \in players : TRUE
             t == TeamOf(leader)
             g == NewGroup(players)
  <1>1. leader \in players
    OBVIOUS
  <1>2. t = u
    <2> HIDE DEF leader
    <2> QED
      BY <1>1, Sides
  <1>3. m_QueuedGroups' = WithGroup(m_QueuedGroups, kind, t, g)
    BY DEF AddGroup, WithGroup
  <1>4. QueueType(m_QueuedGroups) /\ SideQueue(m_QueuedGroups)
    BY DEF SideInv, IInv, TypeInv
  <1>5. g \in SideGroup(u)
    <2>1. 0 \in Ids
      BY DEF Ids, QueueAssumption
    <2> QED
      BY <2>1 DEF NewGroup, SideGroup, Group
  <1> HIDE DEF g, t
  <1> QED
    BY <1>2, <1>3, <1>4, <1>5, WithGroupSide

\* Every step leaves every group on its side.
LEMMA SideNext ==
    ASSUME QueueAssumption, SideInv, [Next]_vars PROVE SideInv'
  <1>1. IInv'
    BY NextInv DEF SideInv
  <1>2. SideQueue(m_QueuedGroups')
    <2>0. CASE m_QueuedGroups' = m_QueuedGroups
      BY <2>0 DEF SideInv
    <2>1. ASSUME NEW p \in Player, Handle(p) PROVE SideQueue(m_QueuedGroups')
      <3>1. CASE JoinAlone(p)
        <4>1. {p} \in SUBSET Player /\ {p} # {} /\ AddGroup({p}, "normal") /\ "normal" \in Kinds
          BY <3>1 DEF JoinAlone, Kinds
        <4>2. TeamOf(p) \in Team /\ {p} \subseteq Members(TeamOf(p))
          BY Sides
        <4> QED
          BY <4>1, <4>2, AddGroupSide
      <3>2. ASSUME NEW party \in Parties, JoinAsGroup(p, party) PROVE SideQueue(m_QueuedGroups')
        <4> DEFINE kind == IF Cardinality(party) >= MinPlayersPerTeam THEN "premade" ELSE "normal"
        <4>1. p \in party /\ AddGroup(party, kind) /\ kind \in Kinds
          BY <3>2 DEF JoinAsGroup, Kinds
        <4>2. party \subseteq AlliancePlayers \/ party \subseteq HordePlayers
          BY DEF QueueAssumption
        <4>3. party \in SUBSET Player /\ party # {}
          BY <4>1, <4>2 DEF Player
        <4>4. \E u \in Team : party \subseteq Members(u)
          BY <4>2 DEF Team, Members
        <4> HIDE DEF kind
        <4> QED
          BY <4>1, <4>3, <4>4, AddGroupSide
      <3>3. CASE EnterBattle(p) \/ LeaveQueue(p) \/ LogoutPlayer(p)
        BY <3>3, RemovePlayerSide DEF EnterBattle, LeaveQueue, LogoutPlayer
      <3>4. CASE ChangeMap(p) \/ WorldportAck(p)
        BY <2>0, <3>4 DEF ChangeMap, WorldportAck, queueVars
      <3>5. CASE LeaveBattleground(p)
        BY <2>0, <3>5 DEF LeaveBattleground
      <3>6. CASE Login(p)
        BY <2>0, <3>6 DEF Login, queueVars
      <3> QED
        BY <2>1, <3>1, <3>2, <3>3, <3>4, <3>5, <3>6 DEF Handle
    <2>2. ASSUME NEW b \in Battleground, UpdateBattleground(b) PROVE SideQueue(m_QueuedGroups')
      BY <2>0, <2>2 DEF UpdateBattleground, UpdateEmpty, UpdateStatus, RemoveOffline, RemoveAll,
                        queueVars
    <2>3. ASSUME NEW p \in Player, RemoveEvent(p) PROVE SideQueue(m_QueuedGroups')
      <3>1. RemovePlayer(p, TRUE) \/ m_QueuedGroups' = m_QueuedGroups
        BY <2>3 DEF RemoveEvent
      <3> QED
        BY <2>0, <3>1, RemovePlayerSide
    <2>4. CASE BattlegroundQueueUpdate
      BY <2>4, UpdateSide
    <2>5. CASE EndTick
      BY <2>0, <2>5 DEF EndTick, queueVars
    <2>6. CASE UNCHANGED vars
      BY <2>0, <2>6 DEF vars, queueVars
    <2> QED
      BY <2>1, <2>2, <2>3, <2>4, <2>5, <2>6 DEF Next, Tick
  <1> QED
    BY <1>1, <1>2 DEF SideInv, SideQueue

\* Only an update gives invitations a new number.
LEMMA OnlyUpdate ==
    ASSUME [Next]_vars, serial' # serial PROVE BattlegroundQueueUpdate
  <1>1. ASSUME NEW p \in Player, Handle(p) PROVE serial' = serial
    <2>1. CASE JoinAlone(p) \/ \E party \in Parties : JoinAsGroup(p, party)
      BY <2>1 DEF JoinAlone, JoinAsGroup, AddGroup
    <2>2. CASE EnterBattle(p) \/ LeaveQueue(p)
      BY <2>2 DEF EnterBattle, LeaveQueue
    <2>3. CASE ChangeMap(p) \/ LogoutPlayer(p)
      BY <2>3 DEF ChangeMap, LogoutPlayer, queueVars
    <2>4. CASE WorldportAck(p)
      BY <2>4 DEF WorldportAck, queueVars
    <2>5. CASE LeaveBattleground(p)
      BY <2>5 DEF LeaveBattleground
    <2>6. CASE Login(p)
      BY <2>6 DEF Login, queueVars
    <2> QED
      BY <1>1, <2>1, <2>2, <2>3, <2>4, <2>5, <2>6 DEF Handle
  <1>2. ASSUME NEW b \in Battleground, UpdateBattleground(b) PROVE serial' = serial
    BY <1>2 DEF UpdateBattleground, UpdateEmpty, UpdateStatus, RemoveOffline, RemoveAll, queueVars
  <1>3. ASSUME NEW p \in Player, RemoveEvent(p) PROVE serial' = serial
    BY <1>3 DEF RemoveEvent
  <1>4. CASE EndTick
    BY <1>4 DEF EndTick, queueVars
  <1>5. CASE UNCHANGED vars
    BY <1>5 DEF vars, queueVars
  <1> QED
    BY <1>1, <1>2, <1>3, <1>4, <1>5 DEF Next, Tick

\* BattlegroundQueueUpdate invites into a running battleground only what
\* GetFreeSlotsForTeam leaves for a side: nobody who puts his side more than
\* one ahead of the other.
THEOREM InvitationsAreBalanced == Spec => BalancedInvitations
  <1>1. Init => SideInv
    <2> SUFFICES ASSUME Init PROVE SideInv
      OBVIOUS
    <2>1. IInv
      BY QueueAssumption, InitInv
    <2>2. SideQueue(m_QueuedGroups)
      BY DEF Init, SideQueue, SideLists, Kinds
    <2> QED
      BY <2>1, <2>2 DEF SideInv
  <1>2. SideInv /\ [Next]_vars => SideInv'
    BY QueueAssumption, SideNext
  <1>3. SideInv /\ [Next]_vars =>
          [\A b \in Battleground, t \in Team :
             bgs[b].status = "in_progress" /\ serial' # serial
                 /\ bgs'[b].invited[t] > bgs[b].invited[t]
             => bgs'[b].invited[t] <= bgs'[b].invited[Other(t)] + 1]_vars
    <2> SUFFICES ASSUME SideInv, [Next]_vars, NEW b \in Battleground, NEW t \in Team,
                        bgs[b].status = "in_progress", serial' # serial,
                        bgs'[b].invited[t] > bgs[b].invited[t]
                 PROVE  bgs'[b].invited[t] <= bgs'[b].invited[Other(t)] + 1
      OBVIOUS
    <2>1. BattlegroundQueueUpdate
      BY OnlyUpdate
    <2>2. FairTo(b, bgs'[b].invited)
      BY QueueAssumption, <2>1, UpdateSide
    <2> QED
      BY <2>2 DEF FairTo
  <1> QED
    BY <1>1, <1>2, <1>3, PTL DEF Spec, BalancedInvitations
=============================================================================
