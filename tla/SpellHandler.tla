---------------------------- MODULE SpellHandler ----------------------------
(***************************************************************************)
(* The item opcodes of WorldSession (Handlers/SpellHandler.cpp) for one    *)
(* player, and the character database they talk to.                        *)
(*                                                                         *)
(* CMSG_OPEN_ITEM on a wrapped gift does not unwrap it: it queues the      *)
(* query CHAR_SEL_CHARACTER_GIFT_BY_ITEM and binds the item's position and *)
(* guid to HandleOpenWrappedItemCallback, which runs later from the        *)
(* session's query processor.  Between the two the player can move items, *)
(* open the gift again, log out or the server can stop.  The callback      *)
(* either destroys a gift without a record or unwraps it and commits the   *)
(* saved inventory together with CHAR_DEL_GIFT in one transaction.         *)
(*                                                                         *)
(* The database runs its asynchronous work in order, one task at a time    *)
(* (one async worker, the default of CharacterDatabase.WorkerThreads):     *)
(* the queue `queue` holds queries and transactions not yet run, and       *)
(* `results` the answered queries whose callbacks have not run yet.        *)
(* Moving items (Player::SwapItem), the periodic save (Player::SaveToDB)   *)
(* and loading the character at login live outside this repository and   *)
(* are the environment's actions.                                          *)
(***************************************************************************)
EXTENDS Naturals, Sequences

CONSTANTS
    Items,          \* item guids of the player's inventory
    Slots,          \* inventory positions (bag, slot)
    Wrapper,        \* the entry of a wrapped gift (the wrapping paper)
    Wrapped0,       \* items wrapped when the character is created
    Orphans,        \* wrapped items whose character_gifts row is missing
    LootItems,      \* entries whose template has ITEM_FLAG_HAS_LOOT
    BindOnUse,      \* entries with Bonding BIND_WHEN_USE / PICKED_UP / QUEST
    MaxQueue,       \* bound on the database queue and on pending results
    NoItem,         \* model value: no item (no loot sent, no gift row deleted)
    NoRow           \* model value: CHAR_SEL_CHARACTER_GIFT_BY_ITEM found nothing

NoSlot == 0         \* the position of an item that was destroyed

ASSUME
    /\ Orphans \subseteq Wrapped0 /\ Wrapped0 \subseteq Items
    /\ Wrapper \notin Items /\ NoSlot \notin Slots
    /\ NoItem \notin Items /\ NoRow \notin Items
    /\ MaxQueue \in Nat \ {0}

(* An item of the inventory: where it is, its entry (a gift keeps its     *)
(* contents' entry in character_gifts and shows the wrapper's), the       *)
(* ITEM_FIELD_FLAG_WRAPPED and soulbound flags.                           *)
ItemRec == [pos: Slots \cup {NoSlot}, entry: Items \cup {Wrapper},
            wrapped: BOOLEAN, bound: BOOLEAN]

\* Database tasks: the gift query, and a transaction that saves the
\* inventory and deletes the gift row of `del` (NoItem when it deletes none).
Select == [kind: {"select"}, pos: Slots, guid: Items]
Commit == [kind: {"commit"}, items: [Items -> ItemRec], del: Items \cup {NoItem}]
Result == [pos: Slots, guid: Items, row: Items \cup {NoRow}]

VARIABLES
    mem,        \* [Items -> ItemRec]: the Item objects of the Player
    online,     \* GetPlayer() is not null
    db,         \* [Items -> ItemRec]: character_inventory / item_instance
    gifts,      \* [Items -> Items \cup {NoRow}]: character_gifts.entry
    queue,      \* Seq(Select \cup Commit): async tasks not yet run
    results,    \* Seq(Result): answered queries, callbacks not yet run
    lootGuid    \* the item whose loot was last sent (Player::SendLoot)

vars == <<mem, online, db, gifts, queue, results, lootGuid>>

TypeOK ==
    /\ mem \in [Items -> ItemRec] /\ db \in [Items -> ItemRec]
    /\ online \in BOOLEAN
    /\ gifts \in [Items -> Items \cup {NoRow}]
    /\ queue \in Seq(Select \cup Commit) /\ Len(queue) <= MaxQueue
    /\ results \in Seq(Result) /\ Len(results) <= MaxQueue
    /\ lootGuid \in Items \cup {NoItem}

(* Every item starts in a slot of its own; a gift has the wrapper's entry *)
(* and, unless it is an orphan, a character_gifts row with its contents.  *)
Init ==
    /\ \E place \in [Items -> Slots] :
         /\ \A i, j \in Items : i # j => place[i] # place[j]
         /\ mem = [i \in Items |->
                    [pos |-> place[i],
                     entry |-> IF i \in Wrapped0 THEN Wrapper ELSE i,
                     wrapped |-> i \in Wrapped0, bound |-> FALSE]]
    /\ db = mem
    /\ gifts = [i \in Items |-> IF i \in Wrapped0 \ Orphans THEN i ELSE NoRow]
    /\ online = TRUE
    /\ queue = <<>> /\ results = <<>>
    /\ lootGuid = NoItem

\* Player::GetItemByPos: the item at a position, if any.
ItemAt(s) == {i \in Items : mem[i].pos = s}
IsWrapped(i) == mem[i].wrapped

Enqueue(task) ==
    /\ Len(queue) < MaxQueue
    /\ queue' = Append(queue, task)

(***************************************************************************)
(* WorldSession::HandleUseItemOpcode.  The client names a position and    *)
(* the guid it believes is there; the handler refuses an empty position  *)
(* and a different item, and binds a bind-on-use item that is not bound   *)
(* yet before it casts the item's spell (the cast, CastItemUseSpell, lives *)
(* in Player).  The checks on the template, the equipped state, CanUseItem, *)
(* arenas and combat do not read the state modelled here.                  *)
(***************************************************************************)
HandleUseItemOpcode(s, itemGUID) ==
    /\ online
    /\ ItemAt(s) = {itemGUID}
    /\ IF mem[itemGUID].entry \in BindOnUse /\ ~mem[itemGUID].bound
         THEN mem' = [mem EXCEPT ![itemGUID].bound = TRUE]
         ELSE UNCHANGED mem
    /\ UNCHANGED <<online, db, gifts, queue, results, lootGuid>>

(***************************************************************************)
(* WorldSession::HandleOpenItemOpcode.  An item that is neither a         *)
(* container (ITEM_FLAG_HAS_LOOT) nor wrapped is refused; a wrapped one   *)
(* queues the gift query bound to (pos, guid); a container sends its loot. *)
(* Charmed, dead and locked cases are early returns that change nothing.   *)
(***************************************************************************)
HandleOpenItemOpcode(s) ==
    /\ online
    /\ \E item \in ItemAt(s) :
         /\ mem[item].entry \in LootItems \/ IsWrapped(item)
         /\ IF IsWrapped(item)
              THEN /\ Enqueue([kind |-> "select", pos |-> s, guid |-> item])
                   /\ UNCHANGED lootGuid
              ELSE /\ lootGuid' = item
                   /\ UNCHANGED queue
    /\ UNCHANGED <<mem, online, db, gifts, results>>

\* Mutant: the callback trusts the position and skips the guid comparison.
OpenWrappedItem_NoGuidCheck(item, r) ==
    IF ~IsWrapped(item)
      THEN UNCHANGED <<mem, queue>>
    ELSE IF r.row = NoRow
      THEN /\ mem' = [mem EXCEPT ![item].pos = NoSlot]
           /\ UNCHANGED queue
    ELSE LET unwrapped == [mem EXCEPT ![item].entry = r.row,
                                      ![item].wrapped = FALSE,
                                      ![item].bound = FALSE]
         IN /\ mem' = unwrapped
            /\ Enqueue([kind |-> "commit", items |-> unwrapped, del |-> r.guid])

\* Mutant: CHAR_DEL_GIFT is committed on its own before the inventory save.
OpenWrappedItem_SplitCommit(item, r) ==
    IF item # r.guid \/ ~IsWrapped(item)
      THEN UNCHANGED <<mem, queue>>
    ELSE IF r.row = NoRow
      THEN /\ mem' = [mem EXCEPT ![item].pos = NoSlot]
           /\ UNCHANGED queue
    ELSE LET unwrapped == [mem EXCEPT ![item].entry = r.row,
                                      ![item].wrapped = FALSE,
                                      ![item].bound = FALSE]
         IN /\ mem' = unwrapped
            /\ Len(queue) + 2 <= MaxQueue
            /\ queue' = queue \o
                 <<[kind |-> "commit", items |-> mem, del |-> r.guid],
                   [kind |-> "commit", items |-> unwrapped, del |-> NoItem]>>

(***************************************************************************)
(* WorldSession::HandleOpenWrappedItemCallback, once it has found `item`  *)
(* at the position it was bound to.  A different item there (the gift was *)
(* swapped) or one no longer wrapped (the gift was opened already) is left *)
(* alone; a gift whose row is missing is destroyed (Player::DestroyItem);  *)
(* otherwise the item takes the entry and flags of the row (a gift is     *)
(* never soulbound, so neither are the saved flags), and the inventory is *)
(* saved with CHAR_DEL_GIFT in one transaction.                            *)
(***************************************************************************)
OpenWrappedItem(item, r) ==
    IF item # r.guid \/ ~IsWrapped(item)
      THEN UNCHANGED <<mem, queue>>
    ELSE IF r.row = NoRow
      THEN /\ mem' = [mem EXCEPT ![item].pos = NoSlot]
           /\ UNCHANGED queue
    ELSE LET unwrapped == [mem EXCEPT ![item].entry = r.row,
                                      ![item].wrapped = FALSE,
                                      ![item].bound = FALSE]
         IN /\ mem' = unwrapped
            /\ Enqueue([kind |-> "commit", items |-> unwrapped, del |-> r.guid])

\* The callback run by the session's query processor for the oldest answer;
\* with no player (logged out) or nothing at the position it returns.
HandleOpenWrappedItemCallback ==
    /\ results # <<>>
    /\ results' = Tail(results)
    /\ LET r == Head(results) IN
         IF online /\ ItemAt(r.pos) # {}
           THEN \E item \in ItemAt(r.pos) : OpenWrappedItem(item, r)
           ELSE UNCHANGED <<mem, queue>>
    /\ UNCHANGED <<online, db, gifts, lootGuid>>

(***************************************************************************)
(* The database worker runs the oldest task: a query reads the gift row   *)
(* as it is now and hands the answer to the session; a transaction writes *)
(* the saved inventory and deletes the gift row, both at once.            *)
(***************************************************************************)
DatabaseWorker ==
    /\ queue # <<>>
    /\ queue' = Tail(queue)
    /\ LET t == Head(queue) IN
         IF t.kind = "select"
           THEN /\ Len(results) < MaxQueue
                /\ results' = Append(results, [pos |-> t.pos, guid |-> t.guid,
                                               row |-> gifts[t.guid]])
                /\ UNCHANGED <<db, gifts>>
           ELSE /\ db' = t.items
                /\ gifts' = IF t.del = NoItem THEN gifts
                            ELSE [gifts EXCEPT ![t.del] = NoRow]
                /\ UNCHANGED results
    /\ UNCHANGED <<mem, online, lootGuid>>

(***************************************************************************)
(* The environment.  Player::SwapItem moves the item at s1 to s2 and      *)
(* whatever was at s2 to s1; Player::SaveToDB queues the inventory; a     *)
(* logout saves and leaves the session without a player; a login loads    *)
(* the character after every earlier task has run; a server stop loses    *)
(* the queue, the answers and the memory (reloaded at the next login).    *)
(***************************************************************************)
SwapItem(s1, s2) ==
    /\ online /\ s1 # s2 /\ ItemAt(s1) # {}
    /\ mem' = [i \in Items |->
                 CASE mem[i].pos = s1 -> [mem[i] EXCEPT !.pos = s2]
                   [] mem[i].pos = s2 -> [mem[i] EXCEPT !.pos = s1]
                   [] OTHER -> mem[i]]
    /\ UNCHANGED <<online, db, gifts, queue, results, lootGuid>>

SaveToDB ==
    /\ online
    /\ Enqueue([kind |-> "commit", items |-> mem, del |-> NoItem])
    /\ UNCHANGED <<mem, online, db, gifts, results, lootGuid>>

LogoutPlayer ==
    /\ online
    /\ Enqueue([kind |-> "commit", items |-> mem, del |-> NoItem])
    /\ online' = FALSE
    /\ UNCHANGED <<mem, db, gifts, results, lootGuid>>

LoginPlayer ==
    /\ ~online /\ queue = <<>>
    /\ mem' = db
    /\ online' = TRUE
    /\ UNCHANGED <<db, gifts, queue, results, lootGuid>>

ServerCrash ==
    /\ online
    /\ online' = FALSE /\ queue' = <<>> /\ results' = <<>>
    /\ UNCHANGED <<mem, db, gifts, lootGuid>>

Next ==
    \/ \E s \in Slots, g \in Items : HandleUseItemOpcode(s, g)
    \/ \E s \in Slots : HandleOpenItemOpcode(s)
    \/ HandleOpenWrappedItemCallback
    \/ DatabaseWorker
    \/ \E s1, s2 \in Slots : SwapItem(s1, s2)
    \/ SaveToDB \/ LogoutPlayer \/ LoginPlayer \/ ServerCrash

Spec == Init /\ [][Next]_vars

-----------------------------------------------------------------------------
(* A gift keeps its contents: an item that was wrapped with a gift row     *)
(* never shows up wrapped, in memory while the player is online or in the  *)
(* database, without that row.  The callback deletes the row only in the   *)
(* transaction that saves the unwrapped item, so no order of opens, moves, *)
(* logouts and server stops separates the two.                             *)
GiftKept ==
    \A i \in Items \ Orphans :
      /\ db[i].wrapped /\ db[i].pos # NoSlot => gifts[i] = i
      /\ online /\ IsWrapped(i) /\ mem[i].pos # NoSlot => gifts[i] = i

(* An opened gift holds its own contents: the callback applies the row it  *)
(* read for the guid it was bound to, so no item ever takes the entry kept *)
(* for another item, even when the gift was swapped while the query ran.   *)
OwnContents ==
    \A i \in Items : mem[i].entry \in {Wrapper, i} /\ db[i].entry \in {Wrapper, i}

(* The callback destroys an item only when it is a gift whose row really  *)
(* is missing: a second CMSG_OPEN_ITEM answered after the first unwrap     *)
(* deleted the row must not destroy the opened item.                       *)
DestroysOnlyOrphans ==
    [][\A i \in Items :
         online /\ mem[i].pos # NoSlot /\ mem'[i].pos = NoSlot
           => IsWrapped(i) /\ i \in Orphans]_vars

=============================================================================
