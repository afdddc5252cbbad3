-------------------------- MODULE BattlegroundQueue --------------------------
(***************************************************************************)
(* The queue of one unrated battleground type in one level bracket: joining *)
(* alone or as a party, the invitations of BattlegroundQueueUpdate, their   *)
(* expiry, entering through the two-step far teleport, leaving, logging out *)
(* and in, and the life of the battlegrounds themselves.                    *)
(*                                                                          *)
(* All of it runs in the world thread.  A tick of BattlegroundMgr::Update   *)
(* (every battleground, then the expiry events, then the scheduled queue    *)
(* update) is not interleaved with the handlers of the sessions: `phase'    *)
(* says where in the tick the thread is.                                    *)
(*                                                                          *)
(* A group of the queue is identified by its players: m_QueuedPlayers[p]    *)
(* .GroupInfo is the group that holds p.                                    *)
(***************************************************************************)
EXTENDS Integers, Sequences, FiniteSets, SequencesExt

CONSTANTS
    AlliancePlayers, HordePlayers,      \* the characters of the two sides
    Parties,            \* the parties of one side that may queue together
    MinPlayersPerTeam, MaxPlayersPerTeam,
    InvitationType,     \* CONFIG_BATTLEGROUND_INVITATION_TYPE
    NumBattlegrounds,   \* bound: battlegrounds created in a behaviour
    MaxInvites,         \* bound: queue updates that invite somebody
    Movers,             \* bound: the players who change maps and log out
    MaxMoves,           \* bound: how often they do
    UInt                \* 2^32, the modulus of the invited counters

Player == AlliancePlayers \cup HordePlayers

ASSUME QueueAssumption ==
    /\ AlliancePlayers \cap HordePlayers = {} /\ IsFiniteSet(Player)
    /\ \A g \in Parties : Cardinality(g) <= MaxPlayersPerTeam
    /\ \A g \in Parties : g \in SUBSET AlliancePlayers \/ g \in SUBSET HordePlayers
    /\ MinPlayersPerTeam \in Nat \ {0} /\ MaxPlayersPerTeam \in Nat
    /\ MinPlayersPerTeam <= MaxPlayersPerTeam
    /\ InvitationType \in Nat /\ NumBattlegrounds \in Nat /\ MaxInvites \in Nat
    /\ Movers \subseteq Player /\ MaxMoves \in Nat
    /\ UInt \in Nat /\ UInt > 2 * MaxPlayersPerTeam

Team == {"alliance", "horde"}
TeamOf(p) == IF p \in AlliancePlayers THEN "alliance" ELSE "horde"
Other(t) == IF t = "alliance" THEN "horde" ELSE "alliance"
Members(t) == IF t = "alliance" THEN AlliancePlayers ELSE HordePlayers
Battleground == 1 .. NumBattlegrounds

VARIABLES
    m_QueuedGroups,  \* [premade | normal] -> [team] -> sequence of groups
    m_events,        \* pending removal events, one batch per invited group
    scheduled,       \* m_QueueUpdateScheduler holds this queue
    bgs,             \* the battlegrounds: status, m_Players, invited counters
    freeSlots,       \* BGFreeSlotQueue
    m_OfflineQueue,  \* of each battleground
    place,           \* of each player: world, loading (far teleport) or offline
    bgId,            \* m_bgData.bgInstanceID, 0 for none
    queueId,         \* the player holds the queue's slot
    inviteId,        \* invitedToInstance of that slot
    serial,          \* numbers the inviting updates: stands for the time
    phase,           \* 0 sessions, b: battleground b is updated, else the events are
    moves,           \* map changes and logouts so far, see MaxMoves
    drift,           \* history: what the invited counters got wrong
    unwatched        \* history: invited players no removal event will reach

playerVars == <<place, bgId, queueId, inviteId>>
queueVars == <<m_QueuedGroups, m_events, scheduled, serial>>
bgVars == <<bgs, freeSlots, m_OfflineQueue>>
history == <<drift, unwatched>>
vars == <<queueVars, bgVars, playerVars, history, moves, phase>>

NoBattleground == [status |-> "none", players |-> {}, invited |-> [t \in Team |-> 0]]

Init ==
    /\ m_QueuedGroups = [k \in {"premade", "normal"} |-> [t \in Team |-> <<>>]]
    /\ m_events = <<>>
    /\ scheduled = FALSE
    /\ bgs = [b \in Battleground |-> NoBattleground]
    /\ freeSlots = <<>>
    /\ m_OfflineQueue = [b \in Battleground |-> <<>>]
    /\ place = [p \in Player |-> "world"]
    /\ bgId = [p \in Player |-> 0]
    /\ queueId = [p \in Player |-> FALSE]
    /\ inviteId = [p \in Player |-> 0]
    /\ serial = 0
    /\ phase = 0
    /\ moves = 0
    /\ drift = [b \in Battleground |-> [t \in Team |-> 0]]
    /\ unwatched = {}

-----------------------------------------------------------------------------
(* Lookups *)

Exists(b) == b \in Battleground /\ bgs[b].status \notin {"none", "deleted"}

\* ObjectAccessor::FindPlayer: only a player who is in the world
FindPlayer(p) == place[p] = "world"

Groups(queue) == UNION {ToSet(queue[k][t]) : k \in DOMAIN queue, t \in Team}

\* The elements of a sequence that are in S, in their order.
Only(seq, S) ==
    LET only[n \in 0 .. Len(seq)] ==
          IF n = 0 THEN <<>>
          ELSE IF seq[n] \in S THEN Append(only[n - 1], seq[n]) ELSE only[n - 1]
    IN  only[Len(seq)]

Without(seq, e) == Only(seq, ToSet(seq) \ {e})
NonEmpty(groups) == Only(groups, {g \in ToSet(groups) : g.players # {}})

QueuedPlayers == UNION {g.players : g \in Groups(m_QueuedGroups)}
GroupInfo(p) == CHOOSE g \in Groups(m_QueuedGroups) : p \in g.players

IsPlayerInvited(p, b, time) ==
    /\ p \in QueuedPlayers
    /\ GroupInfo(p).invited = b /\ GroupInfo(p).time = time

-----------------------------------------------------------------------------
(* BattlegroundQueue::RemovePlayer *)

WithoutPlayer(queue, p) ==
    [k \in DOMAIN queue |-> [t \in Team |->
        NonEmpty([i \in DOMAIN queue[k][t] |->
                     [queue[k][t][i] EXCEPT !.players = @ \ {p}]])]]

Decreased(invited, t, n) == [invited EXCEPT ![t] = (@ - n) % UInt]

InvitedToBattleground(p) == p \in QueuedPlayers /\ Exists(GroupInfo(p).invited)

\* mutant: also when the player enters the battleground
CountsAlways(p, decreaseInvitedCount) == InvitedToBattleground(p)
CountsOut(p, decreaseInvitedCount) == decreaseInvitedCount /\ InvitedToBattleground(p)

RemovePlayer(p, decreaseInvitedCount) ==
    /\ m_QueuedGroups' = WithoutPlayer(m_QueuedGroups, p)
    /\ unwatched' = unwatched \ {p}
    /\ bgs' = IF CountsOut(p, decreaseInvitedCount)
                THEN [bgs EXCEPT ![GroupInfo(p).invited].invited =
                                     Decreased(@, TeamOf(p), 1)]
                ELSE bgs

-----------------------------------------------------------------------------
(* Handlers of a session *)

NewGroup(players) == [players |-> players, invited |-> 0, time |-> 0]

AddGroup(players, kind) ==
    LET t == TeamOf(CHOOSE p \in players : TRUE)
    IN  /\ m_QueuedGroups' = [m_QueuedGroups EXCEPT ![kind][t] = Append(@, NewGroup(players))]
        /\ queueId' = [p \in Player |-> p \in players \/ queueId[p]]
        /\ inviteId' = [p \in Player |-> IF p \in players THEN 0 ELSE inviteId[p]]
        /\ scheduled' = TRUE
        /\ UNCHANGED <<m_events, serial, bgVars, place, bgId, history, moves, phase>>

\* HandleBattlemasterJoinOpcode without a group
JoinAlone(p) ==
    /\ phase = 0 /\ place[p] = "world"
    /\ bgId[p] = 0
    /\ ~queueId[p]
    /\ AddGroup({p}, "normal")

\* HandleBattlemasterJoinOpcode by the leader of a party
JoinAsGroup(leader, party) ==
    /\ phase = 0 /\ place[leader] = "world"
    /\ leader \in party
    /\ bgId[leader] = 0
    /\ \A p \in party : place[p] # "offline" /\ ~queueId[p]
    /\ AddGroup(party, IF Cardinality(party) >= MinPlayersPerTeam THEN "premade" ELSE "normal")

\* HandleBattleFieldPortOpcode, action 1: enter the battleground
EnterBattle(p) ==
    /\ phase = 0 /\ place[p] = "world"
    /\ queueId[p] /\ p \in QueuedPlayers
    /\ Exists(GroupInfo(p).invited)
    /\ inviteId[p] # 0
    /\ bgId' = [bgId EXCEPT ![p] = GroupInfo(p).invited]
    /\ place' = [place EXCEPT ![p] = "loading"]
    /\ RemovePlayer(p, FALSE)
    /\ UNCHANGED <<m_events, scheduled, serial, freeSlots, m_OfflineQueue,
                   queueId, inviteId, drift, moves, phase>>

\* HandleBattleFieldPortOpcode, action 0: leave the queue
LeaveQueue(p) ==
    /\ phase = 0 /\ place[p] = "world"
    /\ queueId[p] /\ p \in QueuedPlayers
    /\ queueId' = [queueId EXCEPT ![p] = FALSE]
    /\ inviteId' = [inviteId EXCEPT ![p] = 0]
    /\ RemovePlayer(p, TRUE)
    /\ scheduled' = TRUE
    /\ UNCHANGED <<m_events, serial, freeSlots, m_OfflineQueue, place, bgId, drift, moves, phase>>

\* Player::TeleportTo another map, outside the battlegrounds
ChangeMap(p) ==
    /\ phase = 0 /\ place[p] = "world" /\ bgId[p] = 0
    /\ p \in Movers /\ moves < MaxMoves /\ moves' = moves + 1
    /\ place' = [place EXCEPT ![p] = "loading"]
    /\ UNCHANGED <<queueVars, bgVars, bgId, queueId, inviteId, history, phase>>

\* HandleMoveWorldportAckOpcode: to an ordinary map, to the battleground
\* the player was ported to, or to the homebind when that one is gone
WorldportAck(p) ==
    /\ phase = 0 /\ place[p] = "loading"
    /\ IF bgId[p] # 0 /\ ~Exists(bgId[p])
         THEN /\ bgId' = [bgId EXCEPT ![p] = 0]
              /\ UNCHANGED <<place, bgs>>
         ELSE /\ place' = [place EXCEPT ![p] = "world"]
              /\ bgs' = IF bgId[p] # 0 /\ inviteId[p] = bgId[p]
                          THEN [bgs EXCEPT ![bgId[p]].players = @ \cup {p}]
                          ELSE bgs
              /\ UNCHANGED bgId
    /\ UNCHANGED <<queueVars, freeSlots, m_OfflineQueue, queueId, inviteId, history, moves, phase>>

-----------------------------------------------------------------------------
(* Leaving a battleground *)

Open(b) == bgs[b].status \in {"wait_join", "in_progress"}

\* Battleground::RemovePlayerAtLeave for the participants `leaving'; the
\* players in the world go back to the place they came from
RemovePlayerAtLeave(b, leaving) ==
    LET Here(p) == p \in leaving /\ FindPlayer(p)
    IN  /\ bgs' = [bgs EXCEPT ![b].players = @ \ leaving,
                    ![b].invited = [t \in Team |->
                        (@[t] - Cardinality(leaving \cap Members(t))) % UInt]]
        /\ freeSlots' = IF Open(b) /\ ~Contains(freeSlots, b)
                          THEN <<b>> \o freeSlots ELSE freeSlots
        /\ scheduled' = (scheduled \/ Open(b))
        /\ queueId' = [p \in Player |-> queueId[p] /\ ~Here(p)]
        /\ inviteId' = [p \in Player |-> IF Here(p) THEN 0 ELSE inviteId[p]]
        /\ bgId' = [p \in Player |-> IF Here(p) THEN 0 ELSE bgId[p]]
        /\ place' = [p \in Player |-> IF Here(p) THEN "loading" ELSE place[p]]

InsideOf(p) == {b \in Battleground : p \in bgs[b].players}

\* HandleBattlefieldLeaveOpcode, or a teleport to any other map
LeaveBattleground(p) ==
    /\ phase = 0 /\ place[p] = "world"
    /\ \E b \in InsideOf(p) :
        /\ bgId[p] = b
        /\ RemovePlayerAtLeave(b, {p})
    /\ UNCHANGED <<m_QueuedGroups, m_events, serial, m_OfflineQueue, history, moves, phase>>

-----------------------------------------------------------------------------
(* Logging out and in *)

\* WorldSession::LogoutPlayer: a participant is put on the offline queue, the
\* slot is cleared, the player leaves the queue, and a pending far teleport is
\* finished with the slot already cleared, so that nobody adds the player
LogoutPlayer(p) ==
    /\ phase = 0 /\ place[p] # "offline"
    /\ p \in Movers /\ moves < MaxMoves /\ moves' = moves + 1
    /\ place' = [place EXCEPT ![p] = "offline"]
    /\ queueId' = [queueId EXCEPT ![p] = FALSE]
    /\ inviteId' = [inviteId EXCEPT ![p] = 0]
    /\ RemovePlayer(p, TRUE)
    /\ m_OfflineQueue' = [b \in Battleground |->
         IF b \in InsideOf(p) THEN Append(m_OfflineQueue[b], p) ELSE m_OfflineQueue[b]]
    /\ drift' = IF place[p] = "loading" /\ Exists(bgId[p])
                  THEN [drift EXCEPT ![bgId[p]][TeamOf(p)] = @ + 1]
                  ELSE drift
    /\ UNCHANGED <<m_events, scheduled, serial, freeSlots, bgId, phase>>

\* Player::LoadFromDB: back into the battleground that still counts the
\* player, unless it is over
Login(p) ==
    /\ phase = 0 /\ place[p] = "offline"
    /\ place' = [place EXCEPT ![p] = "world"]
    /\ LET b == bgId[p]
           at_bg == Exists(b) /\ p \in bgs[b].players
           back == at_bg /\ bgs[b].status # "wait_leave"
       IN  /\ queueId' = [queueId EXCEPT ![p] = back]
           /\ inviteId' = [inviteId EXCEPT ![p] = IF back THEN b ELSE 0]
           /\ bgId' = [bgId EXCEPT ![p] = IF back THEN b ELSE 0]
           /\ m_OfflineQueue' = IF back
                THEN [m_OfflineQueue EXCEPT ![b] = Without(@, p)]
                ELSE m_OfflineQueue
           /\ bgs' = IF at_bg /\ ~back
                THEN [bgs EXCEPT ![b].players = @ \ {p},
                                 ![b].invited = Decreased(@, TeamOf(p), 1)]
                ELSE bgs
    /\ UNCHANGED <<queueVars, freeSlots, history, moves, phase>>

-----------------------------------------------------------------------------
(* Selection pools: sequences of groups *)

PlayerCount(pool) == Cardinality(UNION {pool[i].players : i \in DOMAIN pool})
Uninvited(queue) == Only(queue, {g \in ToSet(queue) : g.invited = 0})

\* SelectionPool::AddGroup: the pool afterwards, and its result
CanAdd(pool, g, desired) ==
    g.invited = 0 /\ desired >= PlayerCount(pool) + Cardinality(g.players)
Added(pool, g, desired) == IF CanAdd(pool, g, desired) THEN Append(pool, g) ELSE pool
AddMore(pool, g, desired) == CanAdd(pool, g, desired) \/ PlayerCount(pool) < desired

\* one turn of such a loop, at the n-th group
ScanStep(g, n, s, desired) ==
    IF s.index = n /\ AddMore(s.pool, g, desired)
      THEN [pool |-> Added(s.pool, g, desired), index |-> n + 1]
      ELSE s

\* the loops `for (; index < count && AddGroup(*itr, desired); index++)'
Scan(queue, index, pool, desired) ==
    LET scanned[n \in 0 .. Len(queue)] ==
          IF n = 0 THEN [pool |-> pool, index |-> index]
          ELSE ScanStep(queue[n], n, scanned[n - 1], desired)
    IN  scanned[Len(queue)]

Near(m, n) == m - n \in -1 .. 1

\* SelectionPool::KickGroup: the last group of about that size, else the last
\* of the largest ones
KickedIndex(pool, size) ==
    LET Size(i) == Cardinality(pool[i].players)
        near == {i \in DOMAIN pool : Near(Size(i), size)}
        largest == {i \in DOMAIN pool : \A j \in DOMAIN pool : Size(i) >= Size(j)}
        from == IF near # {} THEN near ELSE largest
    IN  CHOOSE i \in from : \A j \in from : i >= j

KickGroup(pool, size) ==
    IF pool = <<>> THEN [pool |-> pool, more |-> TRUE]
    ELSE LET i == KickedIndex(pool, size)
         IN  [pool |-> RemoveAt(pool, i), more |-> Cardinality(pool[i].players) > size + 1]

MinOf(m, n) == IF m < n THEN m ELSE n

\* room by the difference of the sides: one more when they are equal
Difference(mine, theirs) ==
    IF theirs = mine THEN 1 ELSE IF theirs > mine THEN theirs - mine ELSE 0

\* Battleground::GetFreeSlotsForTeam
GetFreeSlotsForTeam(bg, t) ==
    LET mine == bg.invited[t]
        theirs == bg.invited[Other(t)]
        in == Cardinality(bg.players \cap Members(t))
        otherIn == Cardinality(bg.players \cap Members(Other(t)))
        diff == Difference(mine, theirs)
        diff2 == IF mine < MaxPlayersPerTeam THEN MaxPlayersPerTeam - mine ELSE 0
        diff3 == IF in > otherIn /\ mine <= MinPlayersPerTeam
                   THEN MinPlayersPerTeam - mine + 1 ELSE Difference(in, otherIn)
    IN  IF bg.status = "wait_join" THEN diff2
        ELSE IF bg.status = "in_progress" THEN MinOf(MinOf(diff, diff2), diff3)
        ELSE 0

\* one turn of the balancing loop of FillPlayersToBG: kick from the side with
\* less room left, and from the other one when that leaves nobody
BalanceStep(queue, free, s) ==
    LET left == [t \in Team |-> free[t] - PlayerCount(s.pools[t])]
        low == IF left["alliance"] < left["horde"] THEN "alliance" ELSE "horde"
        high == Other(low)
        gap == left[high] - left[low]
        kicked == KickGroup(s.pools[low], gap)
        room == IF free[low] >= left[high] THEN free[low] - left[high] ELSE 0
        refilled == IF kicked.more THEN Scan(queue[low], s.index[low], kicked.pool, room)
                    ELSE [pool |-> kicked.pool, index |-> s.index[low]]
        emptied == refilled.pool = <<>>
        stop == emptied /\ free[low] <= left[high] + 1
    IN  IF s.done \/ gap <= 1 \/ \A t \in Team : s.pools[t] = <<>> THEN s
        ELSE [pools |-> [t \in Team |->
                 IF t = low THEN refilled.pool
                 ELSE IF emptied /\ ~stop THEN KickGroup(s.pools[high], gap).pool
                 ELSE s.pools[high]],
              index |-> [s.index EXCEPT ![low] = refilled.index],
              done |-> stop]

\* mutant: filled like a new battleground, whoever is in it
FillAsNew(queue, bg) == [t \in Team |-> Scan(queue[t], 1, <<>>, MaxPlayersPerTeam).pool]

\* BattlegroundQueue::FillPlayersToBG
FillPlayersToBG(queue, bg) ==
    LET free == [t \in Team |-> GetFreeSlotsForTeam(bg, t)]
        first == [t \in Team |-> Scan(queue[t], 1, <<>>, free[t])]
        balanced[n \in 0 .. Cardinality(Player)] ==
          IF n = 0 THEN [pools |-> [t \in Team |-> first[t].pool],
                         index |-> [t \in Team |-> first[t].index], done |-> FALSE]
          ELSE BalanceStep(queue, free, balanced[n - 1])
    IN  IF InvitationType = 0 THEN [t \in Team |-> first[t].pool]
        ELSE balanced[Cardinality(Player)].pools

NobodySelected == [t \in Team |-> <<>>]

\* the first part of BattlegroundQueue::CheckPremadeMatch: premade against premade
PremadePools(queue) ==
    LET first == [t \in Team |-> Uninvited(queue["premade"][t])[1]]
        premade == [t \in Team |-> Added(<<>>, first[t], MaxPlayersPerTeam)]
        maxPlayers == MinOf(PlayerCount(premade["alliance"]), PlayerCount(premade["horde"]))
    IN  IF \E t \in Team : Uninvited(queue["premade"][t]) = <<>> THEN NobodySelected
        ELSE [t \in Team |->
                 Scan(Uninvited(queue["normal"][t]), 1, premade[t], maxPlayers).pool]

\* the second part: a premade group that waited too long (`late') or shrank
\* moves to the front of the normal queue
PremadeMoved(queue, late) ==
    LET Moves(t) == /\ queue["premade"][t] # <<>>
                    /\ queue["premade"][t][1].invited = 0
                    /\ \/ t \in late
                       \/ Cardinality(queue["premade"][t][1].players) < MinPlayersPerTeam
    IN  [premade |-> [t \in Team |-> IF Moves(t) THEN Tail(queue["premade"][t])
                                     ELSE queue["premade"][t]],
         normal |-> [t \in Team |-> IF Moves(t)
                                      THEN <<queue["premade"][t][1]>> \o queue["normal"][t]
                                      ELSE queue["normal"][t]]]

\* its first loop: groups until they are enough players
EnoughStep(g, s) ==
    IF PlayerCount(s.pool) >= MinPlayersPerTeam THEN s
    ELSE [pool |-> Added(s.pool, g, MaxPlayersPerTeam), index |-> s.index + 1]
Enough(waiting) ==
    LET taken[n \in 0 .. Len(waiting)] ==
          IF n = 0 THEN [pool |-> <<>>, index |-> 1]
          ELSE EnoughStep(waiting[n], taken[n - 1])
    IN  taken[Len(waiting)]

\* BattlegroundQueue::CheckNormalMatch: the pools of a new match, or nobody
NormalPools(queue) ==
    LET waiting == [t \in Team |-> Uninvited(queue["normal"][t])]
        enough == [t \in Team |-> Enough(waiting[t])]
        count == [t \in Team |-> PlayerCount(enough[t].pool)]
        j == IF count["horde"] < count["alliance"] THEN "horde" ELSE "alliance"
        more == Scan(waiting[j], enough[j].index, enough[j].pool, count[Other(j)]).pool
        balanced == [t \in Team |-> IF t = j THEN more ELSE enough[t].pool]
    IN  IF \E t \in Team : count[t] < MinPlayersPerTeam THEN NobodySelected
        ELSE IF InvitationType = 0 THEN [t \in Team |-> enough[t].pool]
        ELSE IF PlayerCount(balanced["horde"]) - PlayerCount(balanced["alliance"]) \in -2 .. 2
          THEN balanced ELSE NobodySelected

-----------------------------------------------------------------------------
(* BattlegroundQueue::BattlegroundQueueUpdate *)

\* mutant: the event is created before removeInviteTime is set
EventsAtJoinTime(pool, found, b) ==
    [i \in DOMAIN pool |->
        [players |-> pool[i].players \cap found, bg |-> b, time |-> pool[i].time]]
\* a BGQueueRemoveEvent for every player who is found
RemoveEvents(pool, found, b) ==
    [i \in DOMAIN pool |->
        [players |-> pool[i].players \cap found, bg |-> b, time |-> serial + 1]]

\* the groups of the selected players
Invite(queue, selected, b) ==
    [k \in DOMAIN queue |-> [t \in Team |-> [i \in DOMAIN queue[k][t] |->
        IF queue[k][t][i].players \in selected
          THEN [queue[k][t][i] EXCEPT !.invited = b, !.time = serial + 1]
          ELSE queue[k][t][i]]]]

Increased(invited, found) ==
    [t \in Team |-> (invited[t] + Cardinality(found \cap Members(t))) % UInt]
Skipped(wrong, missing) == [t \in Team |-> wrong[t] - Cardinality(missing \cap Members(t))]

\* InviteGroupToBG for every selected group.  A player who is not in the world
\* is skipped: the group is invited, but he is neither counted nor told, and
\* no event will remove him.  w: what the update has changed so far.
InviteToBG(w, pools, b) ==
    LET selected == UNION {{pools[t][i].players : i \in DOMAIN pools[t]} : t \in Team}
        invitees == UNION selected
        found == {p \in invitees : FindPlayer(p)}
        batch == RemoveEvents(pools["alliance"] \o pools["horde"], found, b)
    IN  [queue |-> Invite(w.queue, selected, b),
         bgs |-> [w.bgs EXCEPT ![b].invited = Increased(@, found)],
         events |-> w.events \o NonEmpty(batch),
         free |-> w.free,
         inviteId |-> [p \in Player |-> IF p \in found THEN b ELSE w.inviteId[p]],
         drift |-> [w.drift EXCEPT ![b] = Skipped(@, invitees \ found)],
         unwatched |-> w.unwatched \cup (invitees \ found)]

HasFreeSlots(bg) == Cardinality(bg.players) < 2 * MaxPlayersPerTeam

\* one battleground of the free slot queue
FillBattleground(w, b) ==
    LET u == InviteToBG(w, FillPlayersToBG(w.queue["normal"], w.bgs[b]), b)
    IN  IF w.bgs[b].status \notin {"wait_join", "in_progress"} THEN w
        ELSE IF HasFreeSlots(u.bgs[b]) THEN u
        ELSE [u EXCEPT !.free = Without(@, b)]

FillBattlegrounds(w) ==
    LET filled[n \in 0 .. Len(w.free)] ==
          IF n = 0 THEN w ELSE FillBattleground(filled[n - 1], w.free[n])
    IN  filled[Len(w.free)]

Fresh(w) == {b \in Battleground : w.bgs[b].status = "none"}

\* CreateNewBattleground, InviteGroupToBG, StartBattleground
StartNewBattleground(w, pools) ==
    LET b == CHOOSE c \in Fresh(w) : \A d \in Fresh(w) : c <= d
        created == [w EXCEPT !.bgs[b].status = "wait_join"]
    IN  [InviteToBG(created, pools, b) EXCEPT !.free = <<b>> \o @]

CannotCreate(w) == Fresh(w) = {}

\* the premade match and then the normal match; `late': the sides whose first
\* premade group waited longer than CONFIG_BATTLEGROUND_PREMADE_GROUP_WAIT_FOR_MATCH
StartMatches(w, late) ==
    LET premade == PremadePools(w.queue)
        v == IF premade = NobodySelected
               THEN [w EXCEPT !.queue = PremadeMoved(@, late)]
               ELSE StartNewBattleground(w, premade)
        normal == NormalPools(v.queue)
    IN  IF premade # NobodySelected /\ CannotCreate(w) THEN w
        ELSE IF normal = NobodySelected \/ CannotCreate(v) THEN v
        ELSE StartNewBattleground(v, normal)

Updated(late) ==
    LET w == [queue |-> m_QueuedGroups, bgs |-> bgs, events |-> m_events, free |-> freeSlots,
              inviteId |-> inviteId, drift |-> drift, unwatched |-> unwatched]
    IN  IF Groups(m_QueuedGroups) = {} THEN w
        ELSE StartMatches(FillBattlegrounds(w), late)

\* mutant: one side is enough
OneSideUninvited(bg) == \E t \in Team : bg.invited[t] = 0
NobodyInvited(bg) == \A t \in Team : bg.invited[t] = 0

\* Battleground::Update may leave the battleground as it is, unless it is
\* empty and nobody is invited
MayIdle(b) == ~Exists(b) \/ bgs[b].players # {} \/ ~NobodyInvited(bgs[b])

\* the loop of BattlegroundMgr::Update stands at b: those between `phase' and
\* b were left as they are.  A tick that changes nothing is no step.
AtBattleground(b) ==
    /\ phase < b
    /\ \A c \in phase + 1 .. b - 1 : MayIdle(c)
AtQueue == phase = NumBattlegrounds + 1 \/ AtBattleground(NumBattlegrounds + 1)

BattlegroundQueueUpdate ==
    /\ AtQueue
    /\ scheduled
    /\ serial < MaxInvites
    /\ \E late \in SUBSET {t \in Team : m_QueuedGroups["premade"][t] # <<>>} :
       \E w \in {Updated(late)} :
         /\ m_QueuedGroups' = w.queue
         /\ bgs' = w.bgs
         /\ m_events' = w.events
         /\ freeSlots' = w.free
         /\ inviteId' = w.inviteId
         /\ drift' = w.drift
         /\ unwatched' = w.unwatched
         /\ serial' = IF w.events # m_events \/ w.unwatched # unwatched
                        THEN serial + 1 ELSE serial
    /\ scheduled' = FALSE
    /\ phase' = 0
    /\ UNCHANGED <<m_OfflineQueue, place, bgId, queueId, moves>>

-----------------------------------------------------------------------------
(* The rest of the tick: BattlegroundMgr::Update *)

\* Battleground::Update of a battleground that nobody is in
UpdateEmpty(b) ==
    /\ AtBattleground(b) /\ ~MayIdle(b)
    /\ bgs' = [bgs EXCEPT ![b].status = "deleted"]
    /\ freeSlots' = Without(freeSlots, b)
    /\ phase' = b
    /\ UNCHANGED <<queueVars, m_OfflineQueue, playerVars, history, moves>>

\* Battleground::Update when a timer is over: the doors open (_ProcessJoin), or
\* one side wins or is alone (EndBattleground)
UpdateStatus(b) ==
    /\ AtBattleground(b) /\ bgs[b].players # {} /\ Open(b)
    /\ IF bgs[b].status = "wait_join"
         THEN /\ bgs' = [bgs EXCEPT ![b].status = "in_progress"]
              /\ UNCHANGED freeSlots
         ELSE /\ bgs' = [bgs EXCEPT ![b].status = "wait_leave"]
              /\ freeSlots' = Without(freeSlots, b)
    /\ phase' = b
    /\ UNCHANGED <<queueVars, m_OfflineQueue, playerVars, history, moves>>

\* _ProcessOfflineQueue: the player at the head of the offline queue has been
\* away for MAX_OFFLINE_TIME
RemoveOffline(b) ==
    /\ AtBattleground(b) /\ bgs[b].status = "in_progress"
    /\ m_OfflineQueue[b] # <<>> /\ Head(m_OfflineQueue[b]) \in bgs[b].players
    /\ RemovePlayerAtLeave(b, {Head(m_OfflineQueue[b])})
    /\ m_OfflineQueue' = [m_OfflineQueue EXCEPT ![b] = Tail(@)]
    /\ phase' = b
    /\ UNCHANGED <<m_QueuedGroups, m_events, serial, history, moves>>

\* _ProcessLeave: TIME_AUTOCLOSE_BATTLEGROUND is over
RemoveAll(b) ==
    /\ AtBattleground(b) /\ bgs[b].status = "wait_leave" /\ bgs[b].players # {}
    /\ RemovePlayerAtLeave(b, bgs[b].players)
    /\ phase' = b
    /\ UNCHANGED <<m_QueuedGroups, m_events, serial, m_OfflineQueue, history, moves>>

UpdateBattleground(b) == UpdateEmpty(b) \/ UpdateStatus(b) \/ RemoveOffline(b) \/ RemoveAll(b)

\* BGQueueRemoveEvent::Execute for a player of the oldest invitation
RemoveEvent(p) ==
    /\ AtQueue /\ phase' = NumBattlegrounds + 1
    /\ m_events # <<>> /\ p \in Head(m_events).players
    /\ m_events' = IF Head(m_events).players = {p} THEN Tail(m_events)
                   ELSE [m_events EXCEPT ![1].players = @ \ {p}]
    /\ LET b == Head(m_events).bg
           invited == IsPlayerInvited(p, b, Head(m_events).time)
       IN  IF FindPlayer(p) /\ queueId[p] /\ invited
             THEN /\ queueId' = [queueId EXCEPT ![p] = FALSE]
                  /\ inviteId' = [inviteId EXCEPT ![p] = 0]
                  /\ RemovePlayer(p, TRUE)
                  /\ scheduled' = (scheduled \/ (Exists(b) /\ bgs[b].status # "wait_leave"))
             ELSE /\ unwatched' = IF invited THEN unwatched \cup {p} ELSE unwatched
                  /\ UNCHANGED <<queueId, inviteId, m_QueuedGroups, bgs, scheduled>>
    /\ UNCHANGED <<serial, freeSlots, m_OfflineQueue, place, bgId, drift, moves>>

\* no update is scheduled for this queue (or the bound is reached)
EndTick ==
    /\ phase # 0 /\ AtQueue
    /\ ~scheduled \/ serial = MaxInvites
    /\ phase' = 0
    /\ UNCHANGED <<queueVars, bgVars, playerVars, history, moves>>

Handle(p) ==
    \/ JoinAlone(p) \/ (\E party \in Parties : JoinAsGroup(p, party))
    \/ EnterBattle(p) \/ LeaveQueue(p) \/ ChangeMap(p) \/ WorldportAck(p)
    \/ LeaveBattleground(p) \/ LogoutPlayer(p) \/ Login(p)

Tick ==
    \/ \E b \in Battleground : UpdateBattleground(b)
    \/ \E p \in Player : RemoveEvent(p)
    \/ BattlegroundQueueUpdate
    \/ EndTick

Next == Tick \/ \E p \in Player : Handle(p)

Spec == Init /\ [][Next]_vars

-----------------------------------------------------------------------------
(* Properties *)

\* The players of side t that battleground b has to keep a place for: invited
\* and still in the queue, on the way, or inside (also while disconnected).
InvitedGroups(b) == {g \in Groups(m_QueuedGroups) : g.invited = b}
Invited(b, t) == Members(t) \cap UNION {g.players : g \in InvitedGroups(b)}
OnTheWay(b, t) == {p \in Members(t) : place[p] = "loading" /\ bgId[p] = b}
Headcount(b, t) ==
    Cardinality(Invited(b, t) \cup OnTheWay(b, t) \cup (bgs[b].players \cap Members(t)))

\* m_InvitedAlliance and m_InvitedHorde are the number of players who are
\* invited, on the way or inside, except for exactly two mistakes of the code:
\* a player who is between two maps when his group is invited is not counted
\* (InviteGroupToBG skips him), and one who logs out on the way into the
\* battleground stays counted for ever (LogoutPlayer clears his slot before it
\* finishes the teleport).
InvitedCount ==
    \A b \in Battleground, t \in Team :
        Exists(b) => bgs[b].invited[t] = (Headcount(b, t) + drift[b][t]) % UInt

\* Inviting to a battleground that has started never lets one side get two
\* ahead of the other by the invited counters (Battleground::GetFreeSlotsForTeam,
\* BattlegroundQueueUpdate), whoever left, expired or was invited in between.
BalancedInvitations ==
    [][\A b \in Battleground, t \in Team :
         bgs[b].status = "in_progress" /\ serial' # serial
             /\ bgs'[b].invited[t] > bgs[b].invited[t]
         => bgs'[b].invited[t] <= bgs'[b].invited[Other(t)] + 1]_vars

\* A player who is invited has a removal event for this very invitation ahead
\* (BGQueueRemoveEvent), unless he was between two maps when he was invited or
\* when the event was executed: that player stays invited until he acts.
InvitationExpires ==
    \A b \in Battleground : \A g \in InvitedGroups(b) : \A p \in g.players \ unwatched :
        \E i \in DOMAIN m_events :
            p \in m_events[i].players /\ m_events[i].bg = b /\ m_events[i].time = g.time

\* A battleground is not deleted under somebody who is invited to it, on the
\* way to it or inside, as long as nobody was skipped when it invited.
BattlegroundPresent ==
    \A b \in Battleground, t \in Team :
        bgs[b].status = "deleted" /\ drift[b][t] >= 0 =>
            Headcount(b, t) = 0 /\ ~Contains(freeSlots, b)
=============================================================================
