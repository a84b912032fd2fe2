--------------------------------- MODULE Items ---------------------------------
(***************************************************************************)
(* The items of one user of the stage (StageServer/User/Items), between    *)
(* his packets, the logic of the room, which decides whether something is  *)
(* equipped, and his mail box.                                             *)
(*                                                                         *)
(* Items keeps one request that the logic has not answered                 *)
(* (itemRequirement).  Moves are refused meanwhile; letters and items that *)
(* are given to the user do not look at it.  An answer carries no more     *)
(* than a Boolean, and is taken for that of the request there is.          *)
(*                                                                         *)
(* GetItem and SetItem address bags and equipment alike (bag 0 is the      *)
(* equipment), and so does items here.  Items are distinct and do not      *)
(* stack.  What takes the mutex of the user is one step.                   *)
(***************************************************************************)
EXTENDS Integers, Sequences, FiniteSets

CONSTANTS
  Item,
  Slots,      \* the slots of the bags, in the order they are filled
  Position,   \* of the equipment
  Part,       \* EquipParts
  partOf,     \* EquipParts of an item
  equippable, \* IsEquippable: the positions a part may be worn at
  None,       \* nobody wears, nothing lies there, no request, no letter
  MaxLate,    \* bound: answers that rooms the user has left still owe him
  MaxPending, \* bound: those, letters without an answer, and answers that have not
              \* unlocked, together
  MaxMailed   \* bound: items that letters have taken or are to take

Slot == 1 .. Slots
Place == Slot \cup Position
Request == [isEquip : BOOLEAN, slot : Slot, position : Position]
Command == [info : Item \cup {None}, where : Position]
Letter == [from : Place, item : Item]

ASSUME ItemsAssumption ==
  /\ Slots \in Nat /\ MaxLate \in Nat /\ MaxPending \in Nat /\ MaxMailed \in Nat
  /\ Position \cap Slot = {}
  /\ partOf \in [Item -> Part]
  /\ equippable \in [Part -> SUBSET Position]
  /\ None \notin Item \cup Request \cup Letter

VARIABLES
  items,       \* inventory and equip
  requirement, \* itemRequirement
  locked,      \* m_IsItemLocked
  room,        \* m_Room and m_Player: "in" a room, "out", and with a room but without a
               \* player: "joining" one or "parting" from one
  alone,       \* history: the request there is was made without a player
  commands,    \* the queue of the logic of his room
  answer,      \* of the logic, on its way to ItemEquipped
  late,        \* what rooms he has left have still to answer
  worn,        \* the equipment of his player in the logic
  loaded,      \* PlayerData.Equipments of the player has its positions
  letter,      \* sendBufferAttachedItemPositions, and what was read there
  sending,     \* what the letters take that have no answer yet
  unlocking,   \* answers of the mail box that are about to unlock
  trading,     \* a trade of his is under way
  given,       \* history: items he has ever had
  mailed,      \* history: items that letters have taken elsewhere
  up,          \* FALSE once undefined behaviour ended the process
  met          \* history: see Met

logic == <<commands, answer, late, worn, loaded>>
mailbox == <<letter, sending, unlocking, mailed>>
vars == <<items, requirement, alone, locked, room, logic, mailbox, trading, given, up, met>>

\* filled: an item was given to him in the slot that waits for what he takes off.
\* crossed: he mailed what a request is about, or his items were unlocked with a letter
\* under way.  worn: he mailed what he wears.  parted: he has left a room.
Met == {"filled", "crossed", "worn", "parted"}

TypeOK ==
  /\ items \in [Place -> Item \cup {None}]
  /\ requirement \in Request \cup {None}
  /\ locked \in BOOLEAN /\ trading \in BOOLEAN /\ alone \in BOOLEAN
  /\ room \in {"in", "parting", "out", "joining"}
  /\ commands \in Seq(Command) /\ Len(commands) <= MaxLate + 1
  /\ answer \in {"none", "yes", "no"}
  /\ late \in 0 .. MaxLate
  /\ worn \in [Position -> Item \cup {None}] /\ loaded \in BOOLEAN
  /\ letter \in Letter \cup {None} /\ sending \subseteq Item /\ unlocking \in Nat
  /\ given \subseteq Item /\ mailed \subseteq Item
  /\ up \in BOOLEAN
  /\ met \subseteq Met

\* IsEquippable for the part of the item.
Fits(i, p) == p \in equippable[partOf[i]]

Possessed == {items[x] : x \in Place} \ {None}

\* In the room the data base's record is loaded for: each item once, equipment where it
\* fits, and the player made from it.
Init ==
  /\ items \in [Place -> Item \cup {None}]
  /\ \A x, y \in Place : items[x] = items[y] /\ items[x] # None => x = y
  /\ \A p \in Position : items[p] # None => Fits(items[p], p)
  /\ given = Possessed
  /\ requirement = None /\ alone = FALSE /\ locked = FALSE /\ room = "in"
  /\ commands = <<>> /\ answer = "none" /\ late = 0
  /\ worn = [p \in Position |-> items[p]] /\ loaded = TRUE
  /\ letter = None /\ sending = {} /\ unlocking = 0 /\ mailed = {}
  /\ trading = FALSE
  /\ up = TRUE /\ met = {}
-----------------------------------------------------------------------------
\* Packets MoveItem.

\* Mutated: a request that is under way does not matter.
Moves_Anyway == up /\ ~locked

\* Locked items close the connection, a request under way refuses the move.
Moves == up /\ ~locked /\ requirement = None

Swapped(x, y) == [items EXCEPT ![x] = items[y], ![y] = items[x]]

MoveItems(s, t) ==
  /\ Moves
  /\ items' = Swapped(s, t)
  /\ UNCHANGED <<requirement, alone, locked, room, logic, mailbox, trading, given, up, met>>

\* ItemsEquip: the command is queued in the logic of the room, and the request stands
\* until the answer.  Out of rooms it is refused.  While he leaves a room or joins one,
\* m_Player is a deleted player: the process ends, or the command names nobody.
ItemsEquip(request, info) ==
  /\ requirement' = request
  /\ alone' = (room # "in")
  /\ \/ /\ room = "in"
        /\ commands' = Append(commands, [info |-> info, where |-> request.position])
        /\ UNCHANGED up
     \/ room \in {"parting", "joining"} /\ up' \in BOOLEAN /\ UNCHANGED commands
  /\ UNCHANGED <<items, locked, room, answer, late, worn, loaded, mailbox, trading, given, met>>

\* An item goes only where the same part is worn, if any is.
RequirePutOnEquip(s, p) ==
  /\ items[s] # None
  /\ items[p] # None => partOf[items[s]] = partOf[items[p]]
  /\ ItemsEquip([isEquip |-> TRUE, slot |-> s, position |-> p], items[s])

\* Inventory to equipment.  Items knows his player.
PutOn(s, p) ==
  /\ Moves /\ room = "in"
  /\ items[s] # None /\ Fits(items[s], p)
  /\ RequirePutOnEquip(s, p)

\* Equipment to inventory: an exchange if something lies there.
TakeOff(p, s) ==
  /\ Moves
  /\ items[p] # None
  /\ \/ RequirePutOnEquip(s, p)
     \/ items[s] = None /\ ItemsEquip([isEquip |-> FALSE, slot |-> s, position |-> p], None)
-----------------------------------------------------------------------------
\* The logic.

\* What it does to its own equipment, and whether it says it has: it also says no where
\* PlayerData.Equipments has no such position.
Equips(c) ==
  \/ /\ c.info # None
     /\ worn' = [worn EXCEPT ![c.where] = c.info]
     /\ answer' = IF loaded THEN "yes" ELSE "no"
  \/ /\ c.info # None                              \* not able to wear it
     /\ answer' = "no" /\ UNCHANGED worn
  \/ /\ c.info = None
     /\ worn' = [worn EXCEPT ![c.where] = None]
     /\ answer' = IF worn[c.where] # None /\ loaded THEN "yes" ELSE "no"

\* at(where) of an empty Equipments throws for the first position.
ProcessEquip ==
  /\ up /\ commands # <<>> /\ answer = "none"
  /\ \/ Equips(Head(commands)) /\ UNCHANGED up
     \/ ~loaded /\ up' = FALSE /\ UNCHANGED <<worn, answer>>
  /\ commands' = Tail(commands)
  /\ UNCHANGED <<items, requirement, alone, locked, room, late, loaded, mailbox, trading, given, met>>
-----------------------------------------------------------------------------
\* Answers.

\* Mutated: what was worn stays where it is, and is put into the slot as well.
EquipPutOned_Copies(r) ==
  items' = IF items[r.slot] = None THEN items ELSE [items EXCEPT ![r.slot] = items[r.position]]

\* What lies in the slot now is put on.
EquipPutOned(r) == items' = IF items[r.slot] = None THEN items ELSE Swapped(r.slot, r.position)

\* Mutated: what was worn is not put into the slot.
EquipTakeOffed_Deletes(r) == items' = [items EXCEPT ![r.position] = None]

\* It is deleted first, and stored only if the slot is still empty.
EquipTakeOffed(r) ==
  items' = IF items[r.position] # None /\ items[r.slot] = None
           THEN Swapped(r.slot, r.position)
           ELSE [items EXCEPT ![r.position] = None]

\* The request there is is cleared, whatever the answer (Releaser).
ItemEquiped(succeed) ==
  /\ requirement' = None /\ alone' = FALSE
  /\ \/ (~succeed \/ requirement = None) /\ UNCHANGED items
     \/ /\ succeed /\ requirement # None
        /\ IF requirement.isEquip THEN EquipPutOned(requirement) ELSE EquipTakeOffed(requirement)

ItemEquipped ==
  /\ up /\ answer # "none"
  /\ ItemEquiped(answer = "yes")
  /\ answer' = "none"
  /\ UNCHANGED <<locked, room, commands, late, worn, loaded, mailbox, trading, given, up, met>>

\* A room he has left still finds him: PartUser erases his serial in the data base, and
\* the room knows him by that of his player.  The player is deleted.
LateAnswer ==
  /\ up /\ late > 0
  /\ late' = late - 1
  /\ \/ \E succeed \in BOOLEAN : ItemEquiped(succeed) /\ UNCHANGED up
     \/ up' = FALSE /\ UNCHANGED <<items, requirement, alone>>
  /\ UNCHANGED <<locked, room, commands, answer, worn, loaded, mailbox, trading, given, met>>
-----------------------------------------------------------------------------
\* Rooms.

Owed == Len(commands) + (IF answer = "none" THEN 0 ELSE 1)

Pending == late + Cardinality(sending) + unlocking

\* Mutated: DeletePlayer forgets the request.
PlayerDeleted_KeepsRequest ==
  /\ up /\ room = "in" /\ late + Owed <= MaxLate /\ Pending + Owed <= MaxPending
  /\ room' = "parting"
  /\ late' = late + Owed
  /\ commands' = <<>> /\ answer' = "none"
  /\ worn' = [p \in Position |-> None] /\ loaded' = FALSE
  /\ met' = met \cup {"parted"}
  /\ UNCHANGED <<items, requirement, alone, locked, mailbox, trading, given, up>>

\* RoomParted clears the equipment he is to be made with and deletes the player, without
\* the mutex of the user.  The logic was told before (Part); a request between the two
\* would name nobody, and is cleared here.
PlayerDeleted ==
  /\ up /\ room = "in" /\ late + Owed <= MaxLate /\ Pending + Owed <= MaxPending
  /\ room' = "parting"
  /\ requirement' = None /\ alone' = FALSE
  /\ late' = late + Owed
  /\ commands' = <<>> /\ answer' = "none"
  /\ worn' = [p \in Position |-> None] /\ loaded' = FALSE
  /\ met' = met \cup {"parted"}
  /\ UNCHANGED <<items, locked, mailbox, trading, given, up>>

\* m_Room is cleared afterwards; what he has asked for meanwhile stays.
RoomParted ==
  /\ up /\ room = "parting"
  /\ room' = "out"
  /\ UNCHANGED <<items, requirement, alone, locked, logic, mailbox, trading, given, up, met>>

RoomJoined ==
  /\ up /\ room = "out"
  /\ room' = "joining"
  /\ UNCHANGED <<items, requirement, alone, locked, logic, mailbox, trading, given, up, met>>

PlayerCreated ==
  /\ up /\ room = "joining"
  /\ room' = "in"
  /\ requirement' = None /\ alone' = FALSE
  /\ UNCHANGED <<items, locked, logic, mailbox, trading, given, up, met>>
-----------------------------------------------------------------------------
\* What does not look at the request.

FindEmptySlot(s) == items[s] = None /\ \A t \in Slot : items[t] = None => s <= t

\* Fishing, or the command of an administrator.
ItemAcquired(i, s) ==
  /\ up /\ room # "out"
  /\ i \notin given /\ FindEmptySlot(s)
  /\ items' = [items EXCEPT ![s] = i]
  /\ given' = given \cup {i}
  /\ met' = met \cup (IF requirement # None /\ ~requirement.isEquip /\ requirement.slot = s
                      THEN {"filled"} ELSE {})
  /\ UNCHANGED <<requirement, alone, locked, room, logic, mailbox, trading, up>>

\* What is buffered is one item.  RequestMailList and the other requests that set Idle let
\* a letter go while another is under way; it takes over the buffer.  (Bound: such letters
\* differ in their items.)
Attaches(x) ==
  /\ up /\ ~locked
  /\ items[x] # None /\ items[x] \notin sending
  /\ Pending < MaxPending /\ Cardinality(mailed \cup sending) < MaxMailed
  /\ letter' = [from |-> x, item |-> items[x]]
  /\ sending' = sending \cup {items[x]}
  /\ met' = met \cup (IF requirement # None /\ x \in {requirement.slot, requirement.position}
                      THEN {"crossed"} ELSE {})
                \cup (IF x \in Position THEN {"worn"} ELSE {})
  /\ UNCHANGED <<items, requirement, alone, room, logic, unlocking, mailed, trading, given, up>>

\* Mutated: the items are not locked for the time of the request.
SendMail_NoLock(x) == Attaches(x) /\ UNCHANGED locked

SendMail(x) == Attaches(x) /\ locked' = TRUE

\* ItemDrop: whatever lies where the buffer says is removed.
MailAnswered(i) ==
  /\ up /\ i \in sending
  /\ items' = IF letter = None THEN items ELSE [items EXCEPT ![letter.from] = None]
  /\ mailed' = mailed \cup {i}
  /\ sending' = sending \ {i} /\ letter' = None /\ unlocking' = unlocking + 1
  /\ UNCHANGED <<requirement, alone, locked, room, logic, trading, given, up, met>>

\* The service has refused, which leaves the buffer as it is, or takes the letter back.
MailNotSent(i) ==
  /\ up /\ i \in sending
  /\ sending' = sending \ {i} /\ unlocking' = unlocking + 1
  /\ letter' = None \/ (sending' # {} /\ letter' = letter)
  /\ UNCHANGED <<items, requirement, alone, locked, room, logic, mailed, trading, given, up, met>>

Unlocked == met' = met \cup (IF letter # None THEN {"crossed"} ELSE {})

\* The end of DBSendMail, without the mutex.
Unlock ==
  /\ up /\ unlocking > 0
  /\ locked' = FALSE /\ unlocking' = unlocking - 1
  /\ Unlocked
  /\ UNCHANGED <<items, requirement, alone, room, logic, letter, sending, mailed, trading, given, up>>

\* A trade locks the items of both sides, and unlocks them, whoever else has done so.
TradeBegins ==
  /\ up /\ ~trading
  /\ trading' = TRUE /\ locked' = TRUE
  /\ UNCHANGED <<items, requirement, alone, room, logic, mailbox, given, up, met>>

TradeEnds ==
  /\ up /\ trading
  /\ trading' = FALSE /\ locked' = FALSE
  /\ Unlocked
  /\ UNCHANGED <<items, requirement, alone, room, logic, mailbox, given, up>>
-----------------------------------------------------------------------------
Next ==
  \/ \E s, t \in Slot : MoveItems(s, t)
  \/ \E s \in Slot, p \in Position : PutOn(s, p) \/ TakeOff(p, s)
  \/ ProcessEquip \/ ItemEquipped \/ LateAnswer
  \/ PlayerDeleted \/ RoomParted \/ RoomJoined \/ PlayerCreated
  \/ \E i \in Item, s \in Slot : ItemAcquired(i, s)
  \/ \E x \in Place : SendMail(x)
  \/ \E i \in Item : MailAnswered(i) \/ MailNotSent(i)
  \/ Unlock
  \/ TradeBegins \/ TradeEnds

Spec == Init /\ [][Next]_vars
-----------------------------------------------------------------------------
\* Properties.

\* No item is in two places, whatever answers come late or cross with letters and gifts:
\* every way of moving one takes it from where it was (EquipPutOned, EquipTakeOffed, MoveItems).
NoDuplicate == \A x, y \in Place : items[x] = items[y] /\ items[x] # None => x = y

\* Nothing is lost between bag, equipment and letters, unless the slot that waits for what
\* is taken off was filled (EquipTakeOffed), or the letter took something else (ItemDrop).
NothingLost ==
  met \cap {"filled", "crossed"} = {} => given \subseteq Possessed \cup mailed

\* He does not keep what he has mailed, unless the letter and a request were about the same
\* place, or his items were unlocked before the letter was answered (SendMail, ItemDrop).
MailedIsGone == "crossed" \notin met => mailed \cap Possessed = {}

\* What he wears fits where he wears it, although the answer equips what lies in the slot
\* by then, whatever was asked for (EquipPutOned).
WornFits ==
  "crossed" \notin met =>
    \A p \in Position : items[p] # None => Fits(items[p], p)

\* With no request under way the logic's equipment is that of Items, until he leaves a
\* room or mails what he wears or is about to wear (ProcessEquip, ItemEquiped).
LogicAgrees ==
  requirement = None /\ met \cap {"crossed", "worn", "parted"} = {} =>
    \A p \in Position : worn[p] = items[p]

\* A request never waits for nothing while he is in a room: the logic still owes an answer,
\* whatever rooms he has left before.  No request outlives the player it was made with, and
\* none that was made without one outlives the time without (ItemsEquip, DeletePlayer,
\* SetPlayer, ItemEquiped); that one has no answer to come, and blocks his moves so long.
RequirementPending ==
  up /\ requirement # None => IF room = "in" THEN ~alone /\ Owed > 0 ELSE alone
================================================================================
