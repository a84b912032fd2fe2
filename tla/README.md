# LuniaAsio in TLA+

LuniaAsio is an emulator of the servers of the game Lunia: a **lobby server** (login, list of
characters), a **stage server** (rooms in which the game is played) and the libraries both use.
This directory holds TLA+ models of its concurrent core, the TLC configurations that check them on
small instances, and proofs, checked by TLAPS, for instances of any size. Paths are relative to `src/`.

## 1. The system

| part | state | operations | who runs them |
|---|---|---|---|
| Database connector `Network/AspApi/AspApi.h` | `ref` (multiset of serials with a request under way), the `Caller` objects | `Initialize`, `Request` (four overloads), `Open` (exchange, answer, callback) | any thread; answers and callbacks on the pool |
| Thread pool `Core/Utils/ThreadPool.h` | queue, `mutex`+`cv`, `isDone`, `isStop`, one flag per thread | `push`, the worker loop, `resize`, `stop`, `clear_queue`, destructor | clients, workers, one controller |
| User registry `LobbyServer/UserRegistry.h` | the maps of temporary and of authenticated users, two id counters, `m_usersMutex` | `MakeUser`, `RemoveUser`, `AuthenticateUser`, `NextAlivePingForAll` | io thread, pool threads, keep-alive thread |
| Session `LobbyServer/User.cpp`, `PacketHandlers.cpp` | id, account name, two flags, character list, `mtx` | three packet handlers, four callbacks, `Terminate`, pings | io thread, pool threads, keep-alive thread |
| TCP session `Network/Tcp/Client.cpp`, `Network/Crypt` | socket, `m_buffer`, receive buffer with its cursor, stream keys | `Read`, `ReceivedSome`, `OnReceived`, `Parse`, `Send`, `Close` | io thread, the stage's thread per packet, and whoever sends |
| Stage user manager `StageServer/User/UserManager.cpp` | temporary and permanent users, two mutexes | `MakeUser`, `AuthenticateUser`, `RemoveUser`, lookups | one detached thread per packet |
| Stage rooms `StageServer/Room/*` | a room's users, states and counters; updater threads | join, part, stage change, capacity, update | updater threads, packet threads |
| Stage trade `StageServer/User/Services/TradeManager.cpp` | the set of `TradeInfo` (offer, ready and confirm flags of one side) under `cs`; the users' items, money and item locks | request, add, ready, confirm, cancel | packet threads |
| Other stage services (stores, mail, guilds, families, fishing, quests) | per user | requests to the web service and their answers | packet threads, pool threads |
| Items `StageServer/User/Items/*` | slots of bags and equipment, the request the logic has not answered, the item lock | move, put on, take off, acquire, drop; answers | packet threads, updater threads, pool threads |
| Game logic `Logic/*`, data `Info/*` | the simulation of a stage; tables | `Update` | updater threads |

How they interact: a packet that reaches the io thread is parsed by the session and dispatched to a
handler. A handler that needs the database makes a request of the connector, which constructs a
`Caller` (sender, the sender's serial, callback) and, unless it is a duplicate, pushes the exchange
to the thread pool. The pool thread that performs the exchange looks the serial up again and runs the callback,
which reads and changes the session and the registry and often makes the next request. Shared state
is `ref` (under `cs`), the registry's maps (under `m_usersMutex`, but for `MakeUser`), and the
sessions (under `mtx`, but for the packet handlers and one of the callbacks).

What is hard, and therefore what the models are about:

- callbacks of one session on several threads of the pool, beside the packets of the same session and the keep-alive thread;
- a session's serial changes (login gives it a permanent id) while requests made under the old one are under way;
- answers out of order, to the wrong entry of a multiset, or to a sender that changed meanwhile; time-outs;
- mutexes taken in different orders, and accesses that take none;
- a trade that reads and changes the goods of two users under the mutex of one, and shares their item lock with the mail boxes;
- reads into one buffer, packets cut anywhere, a stream cipher whose key must follow the bytes, and threads that read a packet from the buffer while it is moved;
- answers of the logic that only say yes or no, for a request the user may have left behind with the room;
- wake-ups of the pool lost between the queue's own mutex and that of the condition variable; stopping it while tasks are pushed, popped or run.

`PROJECT.json` lists the hazards one by one, at their lines, with the properties that cover them.

## 2. The modules

| module | models | proofs |
|---|---|---|
| `RequestTable` | abstract: what a user of the connector may rely on | |
| `DBConnector` | the connector | `DBConnectorProofs` |
| `Lobby` | registry, sessions, packet handlers, keep-alive, composed with `DB == INSTANCE DBConnector` | `LobbyProofs` |
| `ThreadPool` | the pool | `ThreadPoolProofs` |
| `Trade` | trades between users of the stage, with what their mail boxes do to the same goods | `TradeProofs` |
| `ClientTcp` | what a TCP session of either server receives, from the bytes to the packets' handlers | `ClientTcpProofs` |
| `Items` | the items of a user, between his packets, the logic of his room and his mail box | `ItemsProofs` |
| | the sum of a function over any finite domain, for the money of `Trade` | `SumTheorems` |
| `MCDBConnector`, `MCLobby`, `MCThreadPool`, `MCTrade`, `MCClientTcp`, `MCItems` | instances for TLC | |

Definitions with an underscore in their name (`Enter_NoTest`, `Notify_NoLock`, ...) are **mutated
forms** of the definition that follows them: a plausible bug, under which the property they are
listed with in `PROJECT.json` is violated. No specification uses them.

### DBConnector

A member of `Call` is the name of a `Caller` object; its record holds the members the code branches
on, and a `phase`: *made* (constructed by `Request`), *sent* (accepted, its serial in `ref`),
*answered* (its serial taken out of `ref`), *running* (in the callback). A name is *free* again when
the object is deleted, so `Call` bounds how many exist at a time and not how many are made.

| action | code |
|---|---|
| `Make` | the constructor of `Caller`: the serial is read once, outside the lock |
| `Submit`, `Enter` | the critical section of `Request` (`cancelByDuplication`, insertion into `ref`), `Open` up to the push |
| `Respond` | `Open`, after the exchange: find and erase *one* entry of the serial in `ref` |
| `Dispatch`, `Wanted` | `Caller::Call`: strict callers are skipped when the sender's serial has changed |
| `Return`, `Chain` | the callback returns, or makes its follow-up request in tail position |
| `SetSerial` | the sender's `GetUniqueSerial()` changes |

`ref` is a `std::multiset`, here a count per serial. The serial of a request without a sender is 0,
as in the code, and 0 is also the first permanent id. Two classes of requests are left out: those
without a `Caller` do not touch the connector's state; the callback's own effects belong to the
client (`Lobby`).

`RequestTable` is the contract: a slot is idle, pending or answered, an exclusive request is accepted
only while no request of its serial is pending, and a pending request is never dropped. It has no
counts; `Table == INSTANCE RequestTable WITH slot <- ...` maps the phases to the stages.

### Lobby

Threads: *io* (`MakeUser`, packets; `io` holds the `Caller` between the construction and the critical
section of `Request`), *pool* (the callback of each `Caller`; `pc` says where it is), *keep-alive*
(`keepAlive` says which loop it is in and what is left of it). `usersMutex` and `mtx` hold the
owners of the mutexes. Accesses the code makes without a mutex are single steps. Where several
acquisitions matter to the order they happen in they are steps of their own: `WantsRemoval` →
`TerminateUnderLock` (mtx, then m_usersMutex) and `AuthenticateUser` → `SetId` (m_usersMutex, then
mtx). The keep-alive thread looks at the size of the map of temporary users without a mutex (`WakeUp`,
`UserRegistry.h:106`), and takes m_usersMutex afterwards (`BeginPass`), when the map may be empty.

Undefined behaviour is a choice: `MakeUser` inserts into a map without the mutex (`Racing`: the
insertion takes effect, or its entry is lost and the session goes on (`lost`), or the process ends, `up' = FALSE`);
`Evict` erases the entry the range-for stands on (the loop goes on, or the process ends); two flags of a new `User`
have any value. A packet whose read had completed when the socket was closed is handled all the same (`Receives`).

Abstractions: an account is a name; an answer of the service is *ok*, *refused* (the callback calls
`Terminate`) or *ignored* (it ends or throws before it changes anything), and `ReplyTo` says which
answers a callback can get; the contents of the character list, wording and packets to the peer are
left out. Temporary ids count down from 0xFFFFFFFF in the code and from -1 here.

### ThreadPool

Each queue operation is one step, since the queue has its own mutex; flags, `isDone` and `isStop` are
atomics and are read and written one by one. `Predicate` is the predicate of `cv.wait`, which pops
under `mutex`; `Decide` reads `isDone` and the flag after it, then waits or leaves. `hand` is `_f`, `notifying` the
pushes between `q.push` and `notify_one`. One controller calls `resize` and `stop`, as the header
demands; its operations are broken at every access as well (`Flag`, `AllFlagged`, `ClearOne`,
`Cleared`, `NotifyAll`, `Join`, `Stopped`). `pushed`, `ran`, `dropped`, `promised` are history.

### Trade

A handler of a trade takes the mutex of its user and then `cs`; no handler takes a user's mutex while
it holds `cs`, so what is done under both is one step. `RequestTrade` looks at the item lock before it
has `cs`, hence two steps (`RequestTrade`, `RequestGoesOn`). `Confirm` of the second user starts the
exchange, which works on the goods of both users with the mutex of one, so its accesses are steps: `Validate`
(`IsCriticalInvalidForExchange`, `validateBlankSlot`), `Check` (money and overflow), `Debit`, `Credit`, `Drop`.
`cs = [by |-> u, at |-> ...]` says who holds `cs` between them.

Undefined behaviour is a choice here too. `Cancel` locks `cs` again when `RequestTrade`, `ReadyToTrade` or
`ConfirmTrade` call it (`CancelAgain`: it goes on, waits for ever, or the process ends). The destructor
of `AutoLock` unlocks through a reference to a constructor parameter (`Unlocks`: the process ends, or any
user, as many as there are infos erased, is unlocked).

Meanwhile users move items (`MoveItem`, which honours the item lock) and use their mail boxes: `SendMail` and
`RetrieveAttached` lock the items and wait for an answer; the answers take or bring goods and unlock.
`RetrieveAttached` does not look at the lock; `MailNotRetrieved` leaves the items locked; `Unlock` is the end of
`DBSendMail`, after its mutex has been given back.

Letters may overlap. `RequestMailList`, `DisposeMail` and `DisposeReadMails` set the waiting state without looking at it,
and their answers, like that of a rollback, set it to idle: `Idles`. Request and answer are one step, since all that
happens between them is that other requests are refused. From then on the next letter may go while
the answer to the first is under way: `sending`, `retrieving` and `unlocking` say which answers and unlocks are still to come, and
`sendBuffer` is what the latest letter left there, which is what any answer takes.

The handlers ask `IsConnected` of both sides, and the mail box does before it hands anything out. `gone` are the users of whom it
says no. `RequestTrade`, `ReadyToTrade` and `ConfirmTrade` then cancel (`Left`; `Abandon` is that branch of `ConfirmTrade`, which comes before it looks at the answer), and the
answer of a letter is rolled back: nothing changes hands and the mail box waits for the rollback (`MailAnswered`). At this commit `IsConnected`
is a stub that returns true (`User.cpp:1076`), so that no execution takes these branches; `MaxGone = 0` is the program as it is.

Abstractions: no item is stackable, all may be traded, pets are left out; packets to the peers and
the closing of connections after an invalid packet are left out; users are in a room throughout
(leaving one does not end a trade in the code). `Drop` gives nothing to the receiver: `User::ItemAcquire`
(`User.cpp:2641`) is a stub that returns false, and nobody looks at the result, so at this commit
the items of a completed trade are gone. `ItemAdd`, which a letter's items go through, is a stub as well.
Amounts are numbers modulo `Width`, in the code 2^32.

History: `disturbed` (users in a trade whose lock or items something else has changed), `total` (the users' money
by the mail boxes' account), `raced` (a mail box paid somebody while his exchange was going on).

### ClientTcp

The bytes are positions in the peer's stream: `ends` says where his packets end, `arrived` how much the
kernel has. `m_buffer` holds what reads bring, `data`, `length` and `io.total` are the receive buffer and the cursor
of the parser, `key` is how far the stream cipher has advanced, so that a byte is read right when its position
is the key's. `reads` counts outstanding reads, `completions` those that wait for the io thread.

| action | code |
|---|---|
| `Send`, `Disconnect` | the peer |
| `Complete` | a read completes, with any number of bytes up to `ReadLength` |
| `ReceivedSome`, `PeerCloses`, `CloseSocket` | `Client.cpp:36-53`: `Append`, the call of `OnReceived`, errors |
| `ParseInClear`, `ParseTranslated`, `Rollback`, `TooShort`, `InvalidSize` | one turn of the loop of `OnReceived` |
| `LobbyParse`, `StageParse`, `StartThread` | the `Parse` of each server: the lobby dispatches at once and starts a read, the stage starts a detached thread |
| `Leave` | `Remove` of what was parsed, and the next read |
| `Handle` | the detached thread reads the packet from the receive buffer, wherever that has moved to |

What the code does and the model therefore does: the lobby's `Parse` returns the whole length it was given
(`User.cpp:57`), so that packets that arrive together are lost after the first, and leaves the key behind; the lobby has two reads
outstanding (`:56`); the first header is in the clear and arrives whole or is taken for something else; the loop
ends when a packet is not there in full, but with 1 or 2 bytes left after a parsed one it turns for ever
(`Client.cpp:64`, `:90`, *stuck*); a buffer that is full closes the socket. `FramesInOrder` is about
the stage, `LobbyKeepsUp` says when the lobby keeps up: while the peer waits for the answer to each packet.
`AloneIntact` says the same of the stage's threads, `Delivered` that such a peer's packets are handled.

Abstractions: what a packet that is read wrongly does is to dispatch nothing or to end the process; the
contents, and packets that are sent, are left out.

### Items

`items` maps a slot of a bag or a position of the equipment to what lies there (bag 0 is the equipment in the
code). `requirement` is `itemRequirement`: while there is one, moves are refused. A request to put on or
take off (`PutOn`, `TakeOff`, `ItemsEquip`) queues a command in the logic, which changes its own equipment
(`worn`, `ProcessEquip`) and answers yes or no (`ItemEquipped`). `locked` is the item lock that letters and
trades share.

| action | code |
|---|---|
| `MoveItems`, `PutOn`, `TakeOff` | the three branches of `Items::MoveItems` |
| `ProcessEquip`, `ItemEquipped` | `Logic::ProcessEquip` and the listener it calls, which waits for the user's mutex |
| `EquipPutOned`, `EquipTakeOffed` | what a yes does |
| `PlayerDeleted`, `RoomParted` | leaving a room: `DeletePlayer` clears the request and deletes the player, then the room is forgotten; neither under the user's mutex |
| `RoomJoined`, `PlayerCreated` | joining one makes another player, some time later, and clears the request |
| `LateAnswer` | a room he has left answers: it erased him by a serial he is not found by (`Room.cpp:477`) |
| `ItemAcquired` | fishing, and the administrator's command |
| `SendMail`, `MailAnswered`, `MailNotSent`, `Unlock` | letters, which remember a position |
| `TradeBegins`, `TradeEnds` | a trade's lock, as `Trade` has it |

The module starts with a user who is in a room (at this commit nobody gets into one, see section 5). After he has left one,
`PlayerData.Equipments` is empty (`User.cpp:2966`) and `at(where)` throws for the first position, or the logic
says no: `loaded`. Using the deleted player is undefined behaviour: the answer is delivered, or the process ends. A request made
between `PlayerDeleted` and `RoomParted`, or while he joins a room, goes through the deleted player as well: the process ends, or the
command names nobody and no answer will come (`alone`). One made between the call that tells the logic of his leaving (`Room::Part`) and
`DeletePlayer` is cleared by it, so the two are one step. `RoomParted` of `User` has no caller at this commit, which makes all of this a statement
about the handler as it is written. Letters overlap as in `Trade`: `sending` are the items of letters without an answer, and the buffer
(`letter`) is that of the latest.

History: `given`, `mailed`, `alone`, and `met`, which names what the code allows to go wrong, so that the properties say
what holds besides: *filled* (a gift lies in the slot that waits for what is taken off, which is then lost),
*crossed* (a letter and a request are about one place, or a lock was undone under a letter), *worn* (a letter took
what he wears, of which the logic hears nothing), *parted*.

Abstractions: items do not stack and are distinct; moves within the equipment and its swaps are always refused by the code; what a
trade exchanges is in `Trade`.

## 3. What is checked

| run | instance | question |
|---|---|---|
| `connector` | 2 senders, serials 0 and 1, 2 callers | do the counts stay exact, do exclusive requests exclude each other, is every accepted request's answer reported, is `RequestTable` implemented, is a request called back? |
| `lobby_session` | 1 session, 2 accounts, 2 callers, id 0 | does the lobby use the connector as specified; do callbacks end? |
| `lobby_registry` | 2 sessions, 2 callers, ids 0..1 | are ids unique, is every open session found under its id, is nobody in both maps; is a request dropped only on account of another of the same session? |
| `lobby_keep_alive` | 3 sessions, 1 caller, ids 0..1 | is each authenticated session that is silent closed, also when one of two is erased under the loop? |
| `lobby_deadlock` | 1 session, 2 callers | *violation*: see below |
| `pool` | 2 threads, 2 tasks | is a task lost or run twice, is a wake-up lost, do `resize` and `stop` return, does `stop(true)` keep its promise? |
| `pool_destructor` | 2 threads, 2 tasks | *violation*: see below |
| `trade` | 2 users, 2 slots each, 1 item, money modulo 2 with limit 1; 2 letters, or 1 and a closed connection | does the exchange take what was put up, is no money made or lost? |
| `trade_three` | 3 users, 1 slot each, 2 items, money modulo 4 with limit 2; 2 closed connections | has a trade always two sides, does what a user is ready for stand, is everything exchanged confirmed by both? |
| `tcp` | lobby or stage; 3 packets of 2, 3 or 5 units, 8 units in all, reads of 3, a buffer of 5 | is each packet parsed once and in order, with the right key, however the stream is cut; is one read outstanding; are threads handed intact memory? |
| `items` | 3 items of two kinds, 2 slots, 1 position, one late answer, two letters that may overlap | is an item doubled, lost, kept after it was mailed or worn where it does not fit; do logic and items agree; can a request wait for nothing? |
| `trade_item_lock` | 2 users, 1 slot each | *violation*: see below |

The three violations:

- **`trade_item_lock`**. `TradeInfo` keeps an `AutoLock`, "a way to keep item lock during the trade"
  (`TradeManager.h:74`). The answer of the mail box unlocks the items in the middle of a trade
  (`MailBoxManager.cpp:944`, `:1102`). `TakesWhatIsOffered` is what does hold: the validation before the exchange
  catches what was changed earlier, so that only a partner who was disturbed *during* the trade can lose
  something he did not put up.

- **`lobby_deadlock`**. The connector warns its users to "avoid dead-lock problem"
  (`AspApi.h:65`). `Authorize` and `CharacterListed` call `Terminate` with `mtx` held and
  need `m_usersMutex`; `AuthenticateUser` holds `m_usersMutex` and calls `SetId`, which needs
  `mtx`. A login and a second-password check of one session suffice. The other liveness properties
  of the lobby are therefore stated up to `LockCycle`, so that they say what holds besides.
- **`pool_destructor`**. Comments promise that the destructor waits for all queued functions
  (`ThreadPool.h:77`, `:138`). It joins the threads in the pool, then deletes what is queued. With no
  threads left (or none from the start, `hardware_concurrency()` may return 0), a task that was pushed is deleted
  without having been run. `DrainKeepsPromise` is what does hold: with at least one thread
  in the pool the promise is kept for every push that has returned.

**Bounds, and why they are enough.** Each is a constant given in a cfg.
*connector*: an exclusive request conflicts with one other request; a serial is changed from one to another and
back; neither operations nor replies are looked at. What more senders, serials or callers
could add is covered by the proofs, which bound none of them.
*lobby_session*: two requests of one session under way are what every race of callbacks needs; the permanent id is the
same number as the serial of requests without a sender; two account names let a login be replaced under way.
*lobby_registry*: two sessions, the least number that can share an id or be confused in a map, and
two callbacks, beside the io and keep-alive threads; two ids let both sessions be authenticated, or one of them twice. It uses symmetry of users and of callers, which
is sound: no property is a liveness property and no definition orders either. Of the two flags of a new user, which have no
initial value, `waitingOnAlivePing` is true in this run and `isAuthenticated` is false (`StartsAs`): the other value of the first brings his
eviction forward by one pass, that of the second is read by `RemoveUser` only, where it makes no difference while his id is temporary, since nobody is
found under it. The other runs of the lobby have both values of both.
*lobby_keep_alive*: two sessions get a permanent id, so that a pass that erases one has another to visit, and a third is there to keep
`m_usersByUserId` non-empty. They connect in the order of their names (`InOrder`), which stands in for the symmetry that
a liveness property forbids. `Packet` selects which packets come; `MaxUserId` bounds how many
second-password checks can succeed (guard `IdsLeft`).
*pool*: one thread can wait while the other works, is flagged or is detached; two pushes can both be
between queue and notification. A task is pushed once, a worker started once.

*trade*: two slots let an item be moved away from where it was put up and be put back; one unit of money is the limit, so that
two payments to one user wrap. Two letters (`MaxMails`) are the least that overlap, one is the least that unlocks
a trade, and one connection closes (`MaxGone`), the last two together counted by `MaxEvents`. *trade_three*: the third user is the one whose request crosses
a trade of the other two; two items in a slot each let a bag be full, so that `validateBlankSlot` can fail; of the sums of two
amounts one passes the limit and one wraps. Letters touch no info, hence none here. Both use
symmetry of users, slots and items, which is sound: no property is a liveness property and no definition
orders them.
*tcp*: a unit is two bytes, so that a length is one unit and a header two. Packets of two and three units leave a
length alone or a length and a byte behind; one of five fills the buffer, and does not fit beside what
another left. Three packets let one be cut by two reads and follow one that was parsed in the same loop. *items*: two rings, to exchange,
and a fish, which fits nowhere; with two slots the bag can be full and the slot that waits can be filled. One late
answer (`MaxLate`) is taken for that of another request. Two letters can overlap (`MaxPending`, which counts late answers too), and two items be
mailed (`MaxMailed`). The proofs bound none of these. It uses symmetry of the rings,
which is sound for the same reasons.

**Deadlock.** It is checked for the connector. In the lobby, the pool, the trade, the items and the TCP sessions it is off: peers need
not send anything, a process can have ended, every task of the instance can have been run.

**Fairness.** *Pool and callbacks*: the operating system schedules threads (weak fairness), and a thread that
finds a mutex free again and again gets it (strong fairness, for every step that takes a mutex).
*Exchanges* end: cpr is given a time-out of 5 s. *Keep-alive*: the thread sleeps 30 s and tries
again. *Pool*: tasks end. *TCP sessions*: the kernel delivers what was sent, and threads are scheduled. *Trades, items*: none, no property is a liveness property. Nothing is assumed of peers, of the callers of `push`, `resize` and `stop`, or
of the choice among answers.

## 4. What is proved

For all values of the constants, from the assumptions `ConnectorAssumption`, `LobbyAssumption`, `PoolAssumption`,
`TradeAssumption`, `NoTradeAssumption`, `TcpAssumption` and `ItemsAssumption` only (the special values are none of the ordinary ones, serials are integers with 0 among
them, sets of callers, users, threads, tasks are finite, a receive buffer is larger than a read and no packet shorter than its header).

*DBConnectorProofs.* `TypeCorrect`; `RefCountsPendingAlways`; `OneExclusivePendingAlways`; `AnswersReported`;
`Refinement` (`Spec => ImplementsTable`). The invariant is `Inv == TypeOK /\ RefCountsPending`,
inductive as it stands. Its proof rests on three lemmas on what one caller's change of phase does to
the number of callers under way (`CountSent`, `CountAnswered`, `CountSame`). Exactness of the counts
gives that the answer of an accepted request always finds an entry (`EntryOfSent`), hence `AnswersReported`; and that an
entry that is absent means no request is under way (`AdmittedAlone`), hence
`OneExclusivePendingAlways` and the acceptance step of the refinement. The answer erases *some* entry of the
serial: that this is harmless is exactly what counting shows.

*LobbyProofs.* `IdsUniqueAlways`. `IdsUnique` is not inductive: nothing in it says that the next id
is new. The invariant adds that every id handed out lies behind its counter: temporary ids above `curTempUserId`,
permanent ids below `curUserId` (`IdsBehindCounters`). That suffices because the increment
and the assignment happen in one step under `m_usersMutex`.
`TypeCorrect`. `TypeInv` says besides who has connected: their number is how far the temporary counter has gone, and the
permanent one leaves an id for every user not yet authorised (`Bounds`), so that ids do not run out; callers belong to
connected users, and one that is inside a callback has its request running (`Callers`).
`ConnectorImplemented` is the refinement: each action of the lobby is, on the connector's variables, an action of
`DBConnector` or a stutter. With it, `Connector == INSTANCE DBConnectorProofs` carries over to the lobby what is proved of the connector,
once `Granted` has shown that the lobby's users, ids and callers are as `ConnectorAssumption` wants them: `RequestsCounted`, `RequestsReported` and
`LobbyUsesATable` (the two refinements composed: to its sessions the connector is a `RequestTable`). `OneAtATimeAlways` adds which requests
are exclusive (`Exclusive`: all but those for key settings): under one id, one login, list or password check is under way,
whatever packets arrive in the meantime.
`SessionRegisteredAlways` and `OneRegistryAlways` share `RegInv`. Neither is inductive: `AuthenticateUser` erases a user under its
temporary id and inserts it under its new one before `SetId` gives it that id. The invariant adds who holds `m_usersMutex` between the two
(`Locks`), where the user is then (`Moving`), and that an entry of the temporary map stands under its user's id
(`UnderOwnId`), without which the erasure could hit another's.
`DroppedForAnotherAlways` is about what the connector's comparison of serials means for a session: a request that is turned down as a
duplicate is turned down for another request *of the same session* that is under way, although ids change between requests and
`ref` holds no more than counts. It takes three things together: the counts are exact, so that an entry of a serial has a request
behind it (`RequestsCounted`); a serial belongs to one user for good, so that this request is of the same session (`SerialsOwned`, which
needs every id handed out to be new: `IdsFresh`); and the login that a list follows is not itself counted any more.
`SessionRegisteredAlways` excepts the sessions whose entry the race of `MakeUser` has lost.

*ThreadPoolProofs.* `TypeCorrect` (with the strengthening that a running worker has a task),
`NoLostWakeupAlways`, `ConservedAlways` and `DrainKeepsPromiseAlways`. The invariant of the second adds who holds `mutex` and that a worker that
decides to wait has seen the queue empty but for pushes that are still to notify. `ConservedInv` adds that a thread with a
task in its hand is about to run it. `DrainInv` joins both to where the controller is (`Phases`, `Flagged`), to
what a thread knows that found nothing (`FoundNothing`), and to what follows when a thread has returned for `isDone`
(`NoneLeft`): what is still queued is being pushed, so it is not among the tasks promised.
`StopIsHeardAlways`: a thread that waits although it is told to finish is going to be notified by the controller, and whoever is joined has been told.
This is the safety half of `ControllerReturns`, for any number of threads; its invariant adds that `stop(false)` flags every thread (`Told`), and that
a thread that decides to wait, holding `mutex`, has seen neither flag.

*TradeProofs.* `TypeCorrect`, `AlwaysPaired`, `AlwaysAgreed`, `AlwaysOffersStand`, `AlwaysTakesWhatIsOffered`, `MoneyAlwaysConserved`,
`AlwaysPaysWhatIsOffered`.
The invariant `IInv` says that the infos come in pairs, that nobody is asked to confirm before both are ready (`Consistent`),
and that an exchange has two confirmed sides (`Exchanging`). `Paired` alone is not inductive: an exchange
ends by erasing the infos of the one who holds `cs` and of his partner, which needs them to be there; and
`Agreed` needs pairs, since adding to an offer takes readiness from the partner as the other side sees him.
`Consistent` takes the infos as a parameter, because a handler may cancel from infos it has
already changed. For `TakesWhatIsOffered` two more parts are needed: a trader nobody has disturbed has
his items locked (`Held`), and from the validation on his slots hold what he put up (`Validated`);
`MoveItem` is what needs `Held`, and the mutex of the user who exchanges is what keeps his own mail box away.
`MoneyConserved` says nothing while one has paid and the other has not been paid; the invariant says what is missing then, the difference of
the offers (`Accounts`, with `Due`), and that what `Check` found, enough money on one side and room for it on the other,
holds until `Debit` and `Credit` use it (`Paying`), so that neither `% Width` cuts anything off.
`AlwaysPaysWhatIsOffered` says it user by user: counting a payment half done as done (`Holds`), a user's money changes by the answers to his letters (`Answered`), and by
exchanges that he and his partner have confirmed, for both at once and by the difference of the offers.

*SumTheorems.* That changing one value of a function changes its sum by the difference (`SumChanges`), over any finite
domain: `Trade` holds the money of all to be `SumFunction(money)`. `SumFunction` chooses its recursive function, so its existence has to be shown too
(`SumsExist`). The induction over finite sets is an argument about a smallest counterexample (`MinimalSubset`), which needs no
theorem with an operator parameter.

*ClientTcpProofs.* `TypeCorrect`, `AlwaysFramesInOrder`, `AlwaysOneReadOutstanding`, `AlwaysNothingTruncated`,
`AlwaysAloneIntact`, `AlwaysLobbyKeepsUp`, `StallsNever`. The invariant follows the bytes of the stage's stream: what lies in the receive buffer behind the cursor
is what comes after the bytes translated so far, what a completed read has put into `m_buffer` comes after that
(`Bytes`), and what is left when the loop ends is less than a packet (`Fits`). From it each test of a length is
about the packet that is next. `InFlight` adds, for a peer who waits, where the one thread finds its packet.
The lobby keeps no bytes between reads, so `LobbyKeepsUp` needs another invariant: of a peer who waits, one packet at a time is on
its way, and all of it is in one place, `m_buffer` or the receive buffer (`OnItsWay`); what has been parsed is what has been handled, and the key follows
the bytes after the first packet (`Serving`). Peers that do not wait, and packets that arrive in pieces, are excluded by the
property: `Parse` drops what comes with a packet.
`NeverStalls` is the safety half of `Delivered`: who waits and has packets to come has a completed read to look at, or a read outstanding
and bytes to come (`Outstanding`).

*ItemsProofs.* All seven properties of the run. Each of the two things that rely on the contents of a place is given the reason
why they stay: a letter's lock (`LetterStays`, which also says that as long as nothing crosses there is one letter under way, the one in the buffer) and a request's refusal of moves (`RequestStands`).
`RequirementPending` needs that a request made while there is a player is cleared with him, and one made without him (`alone`) by the room he joins next. `Debts` counts the
answers rooms owe, of which a late one may clear a request; `InStep` says how far the logic is with the request, in every
stage of its way. Three lemmas on how items change (`SwappedItems`, `DroppedItem`, `GivenItem`) keep the steps short, and
`AnswerItems` is one argument for the answers of both rooms.

The theorems `RequestsCounted`, `RequestsReported`, `LobbyUsesATable`, `OneAtATimeAlways`, `AlwaysPaysWhatIsOffered`, `StopIsHeardAlways` and `StallsNever` have no run
of their own: the first three follow from what the run `connector` and those of the lobby check, the others sharpen a property a run checks
(`OneExclusivePending`, `MoneyConserved`) or are the safety half of one (`ControllerReturns`, `Delivered`).

Model-checked only: `Delivered`, `CalledBack`, `CallbackEnds`, `SilentSessionsClosed`, `Taken`, `ControllerReturns`, which are liveness under
fairness and out of the prover's reach. Every safety property and every action property that a passing run checks is proved.

## 5. What is not modelled

- Connector: requests without a `Caller`; the text of requests and answers.
- Pool: `nWaiting` (read by `n_idle()` only, which nobody calls), the public `pop()`, moving pools.
- Lobby: handlers that are commented out in `PacketHandlers.cpp`, the contents of character lists,
  the shutdown of the keep-alive thread.
- Trade: stackable items, pets, leaving a room during a trade, and a mail box's
  payment between `GetMoney` and `SetMoney` of the exchange (`Debit` and `Credit` are a step each; `MoneyConserved`
  excludes payments during an exchange altogether). Mail boxes: `waitingState` is read and reset just outside
  the user's mutex in the code and together with it here. Lists, reading and disposing of letters, and rollbacks, are there only as what
  they do to `waitingState` and to the goods (`Idles`, `MailAnswered`); stamps, `SendMailSelf`, the items of a letter that is emptied
  (`User::ItemAdd` is a stub) and the player stores are left out.
- TCP: accepting connections, the flood checker (no session calls it), and sending. `Send` gives `async_send` a buffer on
  its own stack (`User.cpp:50`), which is undefined behaviour whatever the rest does.
- Items: stacks, pets, enchanting, using (`Room::ItemUsed` throws "Missing implementation"), dropping, loading and saving;
  parting from a room while still joining it.
- Rooms: a room's thread index is an unsigned 16-bit number that is 65535 when there is none, and is tested with `< 0`
  (`RoomManager.cpp:69`, `:103`, `:139`): no room is ever given to an updater, and the first user to join one indexes
  `m_Threads` with 65535 (`RoomUpdateManager.cpp:126`). `RoomUpdater.cpp:105` erases within a range-for. What would be
  modelled is not what this commit does.
- User manager of the stage: `AuthenticateUser` writes `m_tempUsers` without its mutex, and `RemoveUser` may let the last reference to a user go
  while it holds that user's own lock (`UserManager.cpp:143-183`), both of which is undefined behaviour.
- Player stores: `Buy` takes the mutexes of buyer and host in an order that another sale can invert, but returns
  early, since `User::ItemAdd(ItemEx)` is a stub. Guilds, families, fishing, quests: requests of one user and their answers.
- `AngelScript`, `httplib`, `json`, LZMA are third-party code, `Protocol` is generated field lists; together with the
  simulation of the game (`Logic`, `Info`) they are most of the lines of the repository.
- Game logic (floating-point simulation, scripts), game data, configuration, logging, protocol
  serialisers: sequential and stateless, or far beyond what can be enumerated. Third-party code.

## 6. Plan

Done: connector with its contract, the lobby on top of it, the thread pool, trades with the mail boxes' part in them, the
TCP sessions, the items of a user; their first or main proofs.

Next, in this order:

1. An abstract channel (a queue of packets) that the stage's `ClientTcp` implements, and `Lobby` composed with it.
2. Rooms, once the thread index is mended: life cycle, counters and capacity, updater threads; `Items` on top of them.
3. The user manager with a thread per packet: lock order, lookup against removal.
4. A trade as an atomic swap, which waits for `ItemAcquire` to be written; stores for the same reason.
