--------------------------------- MODULE Trade ---------------------------------
(***************************************************************************)
(* Trades between two users of a stage: TradeManager                       *)
(* (StageServer/User/Services/TradeManager.cpp), with what meets a trade   *)
(* half-way: the user's mail box (MailBoxManager.cpp), which shares the    *)
(* item lock, the items and the money, and the user's own moves of items.  *)
(*                                                                         *)
(* Every packet is handled on a thread of its own.  A handler of a trade   *)
(* takes the mutex of its user, then cs; nobody takes a user's mutex while *)
(* holding cs.  What it does under both is one step, but for the exchange  *)
(* at the end: it works on the items and the money of both users and holds *)
(* the mutex of one, so its accesses are steps of their own.               *)
(*                                                                         *)
(* Of the mail box the letters that carry money or items are here, without *)
(* stamps and with the postage counted as part of the money; its other     *)
(* requests only as what they do to waitingState (Idles).  That state,     *)
(* which the code reads and resets just outside the user's mutex, changes  *)
(* here together with what the mutex covers.                               *)
(*                                                                         *)
(* A connection that closes tells the trades nothing: the packets received *)
(* before are still handled, and the handlers ask IsConnected themselves.  *)
(* It is a stub that returns true at this commit, so that MaxGone = 0 is   *)
(* the program of today; more shows what its callers do once it is not.    *)
(***************************************************************************)
EXTENDS Integers, FiniteSets, Functions

CONSTANTS User, Nobody,
          Position,       \* slots of a user's bag
          Item, NoItem,   \* items; none is stackable (MaxCnt = 1), all are tradable
          NoTrade,
          Width,          \* amounts of money are uint32: numbers modulo Width
          GoldMaxLimit,
          Gold,           \* the users' money at first
          MaxMails,       \* bound: letters sent or emptied in a behaviour
          MaxGone,        \* bound: users whose connection closes
          MaxEvents       \* bound: letters and closed connections, together

ASSUME TradeAssumption ==
  /\ IsFiniteSet(User) /\ Nobody \notin User
  /\ NoItem \notin Item
  /\ Width \in Nat /\ GoldMaxLimit \in Nat /\ GoldMaxLimit < Width
  /\ Gold \subseteq 0 .. GoldMaxLimit
  /\ MaxMails \in Nat /\ MaxGone \in Nat /\ MaxEvents \in Nat

Amount == 0 .. Width - 1
Bag == [Position -> Item \cup {NoItem}]

\* TradeInfo.  Slots is what was put up, by position.
Info == [Target : User, Slots : Bag, Money : Amount, IsReady : BOOLEAN,
         IsConfirm : {"None", "Wait", "Confirm", "Cancel"}]

ASSUME NoTradeAssumption == NoTrade \notin Info

VARIABLES
  guests,                \* users with a guest id
  gone,                  \* users of whom IsConnected says false
  infos,                 \* the set of TradeInfo, by trader
  bag, money,            \* the users' items and money
  isItemLocked,
  waitingState,          \* mail box: Idle, or the kind of the latest request
  sendBuffer,            \* what the latest letter takes
  sending, retrieving,   \* answers to come: of letters sent, their number; of letters
                         \* emptied, by the money in them
  unlocking,             \* unlocks still to come after answers
  asking,                \* whom a user asks for a trade, his handler waiting for cs
  cs,                    \* the handler that holds cs across steps: whose, and where
  mails,
  up,                    \* FALSE once undefined behaviour ended the process
  disturbed,             \* history: users whose lock or items something else than
                         \* their trade changed since it began
  total, raced           \* history: the users' money by the mail boxes' account; a
                         \* mail box paid somebody while an exchange of his was going on

mailBox == <<waitingState, sendBuffer, sending, retrieving, unlocking, mails>>
history == <<disturbed, total, raced>>
vars == <<guests, gone, asking, infos, bag, money, isItemLocked, mailBox, cs, up, history>>

Free == [by |-> Nobody, at |-> "free"]
NoLetter == [items |-> {}, money |-> 0]
Waits == {"Idle", "WaitSendMail", "WaitRetrieveAttached", "WaitRollback"}
EmptyBag == [p \in Position |-> NoItem]

\* Types.  Nobody asks himself for a trade or trades with himself.
TypeOK ==
  /\ guests \subseteq User /\ gone \subseteq User
  /\ infos \in [User -> Info \cup {NoTrade}]
  /\ \A u \in User : infos[u] # NoTrade => infos[u].Target # u
  /\ bag \in [User -> Bag] /\ money \in [User -> Amount]
  /\ isItemLocked \in [User -> BOOLEAN]
  /\ waitingState \in [User -> Waits]
  /\ sendBuffer \in [User -> [items : SUBSET Position, money : Amount]]
  /\ sending \in [User -> Nat] /\ retrieving \in [User -> SUBSET Amount]
  /\ unlocking \in [User -> Nat]
  /\ asking \in [User -> User \cup {Nobody}] /\ \A u \in User : asking[u] # u
  /\ cs \in [by : User \cup {Nobody},
             at : {"free", "validate", "check", "debit", "credit", "drop", "stuck"}]
  /\ mails \in Nat
  /\ up \in BOOLEAN
  /\ disturbed \in SUBSET User
  /\ raced \in BOOLEAN

\* Users who have joined a room, finished loading and are in state ACTIVE; an item is
\* in one place.
Init ==
  /\ guests \in SUBSET User /\ gone = {}
  /\ infos = [u \in User |-> NoTrade]
  /\ bag \in [User -> Bag]
  /\ \A u, v \in User, p, q \in Position :
       bag[u][p] # NoItem /\ bag[u][p] = bag[v][q] => u = v /\ p = q
  /\ money \in [User -> Gold]
  /\ isItemLocked = [u \in User |-> FALSE]
  /\ waitingState = [u \in User |-> "Idle"]
  /\ sendBuffer = [u \in User |-> NoLetter]
  /\ sending = [u \in User |-> 0] /\ retrieving = [u \in User |-> {}]
  /\ unlocking = [u \in User |-> 0]
  /\ asking = [u \in User |-> Nobody]
  /\ cs = Free
  /\ mails = 0
  /\ up = TRUE
  /\ disturbed = {}
  /\ total = SumFunction(money) /\ raced = FALSE
-----------------------------------------------------------------------------
\* Infos and their end.

Trading(u) == infos[u] # NoTrade
Partner(u) == infos[u].Target
Pair(u) == IF Trading(u) THEN {u, Partner(u)} ELSE {}

NewInfo(v) == [Target |-> v, Slots |-> EmptyBag, Money |-> 0, IsReady |-> FALSE,
               IsConfirm |-> "None"]

Offer(i) == <<i.Slots, i.Money>>
Offered(i) == {p \in Position : i.Slots[p] # NoItem}

\* Mutated form of Erased: only the info of the user who cancels is erased.
Erased_OwnOnly(I, u) == [I EXCEPT ![u] = NoTrade]

Erased(I, u) == [w \in User |-> IF w \in Pair(u) THEN NoTrade ELSE I[w]]

\* Erasing the infos unlocks through references to parameters of a constructor that
\* has returned long ago: the process ends, or whoever the memory refers to is unlocked.
Unlocks(u) ==
  \/ /\ up' = FALSE
     /\ UNCHANGED <<isItemLocked, disturbed>>
  \/ /\ UNCHANGED up
     /\ \E S \in SUBSET User :
          /\ Cardinality(S) <= Cardinality(Pair(u))
          /\ isItemLocked' = [w \in User |-> isItemLocked[w] /\ w \notin S]
          /\ disturbed' = (disturbed \cup S) \ Pair(u)

Ends(I, u) == /\ infos' = Erased(I, u)
              /\ cs' = Free
              /\ Unlocks(u)

\* Cancel called with cs held (the infos being I by then): locking a std::mutex again
\* goes on, waits for ever, or ends the process.
CancelAgain(I, u) ==
  \/ Ends(I, u)
  \/ /\ infos' = I
     /\ cs' = [by |-> u, at |-> "stuck"]
     /\ UNCHANGED <<isItemLocked, disturbed, up>>
  \/ /\ infos' = I
     /\ cs' = Free
     /\ up' = FALSE
     /\ UNCHANGED <<isItemLocked, disturbed>>

\* A handler of u gets the mutex of u; and cs too.
HasMutex(u) == up /\ cs.by # u /\ asking[u] = Nobody
Handles(u) == HasMutex(u) /\ cs = Free

KeepsGoods == UNCHANGED <<guests, gone, asking, bag, money, mailBox, total, raced>>
KeepsInfoLocks == UNCHANGED <<isItemLocked, cs, up, disturbed>>
-----------------------------------------------------------------------------
\* The packets of a trade.  A packet whose validation fails closes the connection of
\* its user, which changes nothing here.

\* Mutated form of Valid: the target may be the user himself.
Valid_Self(u, v) == ~isItemLocked[u]

Valid(u, v) == u # v /\ ~isItemLocked[u]

\* Somebody the trade of u needs is no longer connected.
Left(u) == Pair(u) \cap gone # {}

\* Whether the items are locked is looked at before cs is had.
RequestTrade(u, v) ==
  /\ HasMutex(u)
  /\ Valid(u, v)
  /\ asking' = [asking EXCEPT ![u] = v]
  /\ UNCHANGED <<guests, gone, infos, bag, money, isItemLocked, mailBox, cs, up, history>>

RequestGoesOn(u) ==
  LET v == asking[u] IN
  /\ up /\ cs = Free
  /\ v # Nobody
  /\ asking' = [asking EXCEPT ![u] = Nobody]
  /\ UNCHANGED <<guests, gone, bag, money, mailBox, total, raced>>
  /\ \/ /\ Trading(u)
        /\ CancelAgain(infos, u)
     \/ /\ ~Trading(u) /\ ~Trading(v)
        /\ {u, v} \cap (guests \cup gone) # {}
        /\ CancelAgain(infos, u)
     \/ /\ ~Trading(u) /\ Trading(v)
        /\ UNCHANGED infos /\ KeepsInfoLocks
     \/ /\ ~Trading(u) /\ ~Trading(v)
        /\ {u, v} \cap (guests \cup gone) = {}
        /\ infos' = [infos EXCEPT ![u] = NewInfo(v), ![v] = NewInfo(u)]
        /\ isItemLocked' = [isItemLocked EXCEPT ![u] = TRUE, ![v] = TRUE]
        /\ disturbed' = disturbed \ {u, v}
        /\ UNCHANGED <<cs, up>>

\* Mutated form of Changeable: neither the confirmation nor the readiness is looked at.
Changeable_Always(u) == Trading(u)

Changeable(u) == Trading(u) /\ infos[u].IsConfirm = "None" /\ ~infos[u].IsReady

AddTradeItem(u, p) ==
  /\ Handles(u)
  /\ Changeable(u)
  /\ bag[u][p] # NoItem
  /\ infos[u].Slots[p] = NoItem
  /\ infos' = [infos EXCEPT ![u].Slots[p] = bag[u][p], ![u].IsReady = FALSE,
                            ![Partner(u)].IsReady = FALSE]
  /\ KeepsGoods /\ KeepsInfoLocks

\* Mutated form of AddTradeMoney: the partner stays ready.
AddTradeMoney_KeepsReady(u, m) ==
  /\ Handles(u)
  /\ Changeable(u)
  /\ m <= money[u]
  /\ infos' = [infos EXCEPT ![u].Money = m, ![u].IsReady = FALSE]
  /\ KeepsGoods /\ KeepsInfoLocks

AddTradeMoney(u, m) ==
  /\ Handles(u)
  /\ Changeable(u)
  /\ m <= money[u]
  /\ infos' = [infos EXCEPT ![u].Money = m, ![u].IsReady = FALSE,
                            ![Partner(u)].IsReady = FALSE]
  /\ KeepsGoods /\ KeepsInfoLocks

NothingOffered(u) == \A w \in Pair(u) : Offered(infos[w]) = {} /\ infos[w].Money = 0

\* The second of the two to be ready asks both to confirm.
ReadyToTrade(u) ==
  /\ Handles(u)
  /\ Trading(u) /\ ~infos[u].IsReady
  /\ LET t == Partner(u)
         I == [infos EXCEPT ![u].IsReady = TRUE]
     IN  \/ /\ Left(u) \/ (infos[t].IsReady /\ NothingOffered(u))
            /\ CancelAgain(I, u)
         \/ /\ ~Left(u) /\ ~infos[t].IsReady
            /\ infos' = I
            /\ KeepsInfoLocks
         \/ /\ ~Left(u) /\ infos[t].IsReady /\ ~NothingOffered(u)
            /\ infos' = [I EXCEPT ![u].IsConfirm = "Wait", ![t].IsConfirm = "Wait"]
            /\ KeepsInfoLocks
  /\ UNCHANGED <<guests, gone, asking, bag, money, mailBox, total, raced>>

CancelTrade(u) ==
  /\ Handles(u)
  /\ Trading(u)
  /\ Ends(infos, u)
  /\ KeepsGoods

\* An answer to the request to confirm, asked for or not, is the end of a trade whose
\* users are not both connected.
Abandon(u) ==
  /\ Handles(u)
  /\ Trading(u) /\ Left(u)
  /\ CancelAgain(infos, u)
  /\ KeepsGoods

Refuse(u) ==
  /\ Handles(u)
  /\ Trading(u) /\ ~Left(u) /\ infos[u].IsConfirm = "Wait"
  /\ LET I == [infos EXCEPT ![u].IsConfirm = "Cancel"]
     IN  IF infos[Partner(u)].IsConfirm # "Cancel"
         THEN CancelAgain(I, u)
         ELSE infos' = I /\ KeepsInfoLocks
  /\ KeepsGoods

\* The second of the two to confirm goes on with the exchange.
Confirm(u) ==
  /\ Handles(u)
  /\ Trading(u) /\ ~Left(u) /\ infos[u].IsConfirm = "Wait"
  /\ infos' = [infos EXCEPT ![u].IsConfirm = "Confirm"]
  /\ cs' = IF infos[Partner(u)].IsConfirm = "Confirm"
           THEN [by |-> u, at |-> "validate"] ELSE cs
  /\ KeepsGoods
  /\ UNCHANGED <<isItemLocked, disturbed, up>>
-----------------------------------------------------------------------------
\* The exchange, on the thread of u.

At(u, step) == up /\ cs = [by |-> u, at |-> step]

GoesOn(u, step) == /\ cs' = [by |-> u, at |-> step]
                   /\ UNCHANGED <<infos, isItemLocked, disturbed, up>>

IsCriticalInvalidForExchange(w) ==
  \/ money[w] < infos[w].Money
  \/ \E p \in Offered(infos[w]) : bag[w][p] # infos[w].Slots[p]

Blank(w) == {p \in Position : bag[w][p] = NoItem}

validateBlankSlot(w) ==
  LET t == Partner(w)
  IN  Cardinality(Blank(t)) + Cardinality(Offered(infos[t]))
        >= Cardinality(Offered(infos[w]))

Validate(u) ==
  /\ At(u, "validate")
  /\ IF \E w \in Pair(u) : IsCriticalInvalidForExchange(w) \/ ~validateBlankSlot(w)
     THEN CancelAgain(infos, u)
     ELSE GoesOn(u, IF infos[u].Money = infos[Partner(u)].Money THEN "drop" ELSE "check")
  /\ KeepsGoods

Dorner(u) == IF infos[u].Money > infos[Partner(u)].Money THEN u ELSE Partner(u)
Receiver(u) == infos[Dorner(u)].Target
TradeMoney(u) == infos[Dorner(u)].Money - infos[Receiver(u)].Money

\* Mutated form of Overflows: whether the sum wraps is not looked at.
Overflows_LimitOnly(m, x) == (m + x) % Width > GoldMaxLimit

Overflows(m, x) == m > (m + x) % Width \/ (m + x) % Width > GoldMaxLimit

Check(u) ==
  /\ At(u, "check")
  /\ LET m == TradeMoney(u) IN
     \/ money[Dorner(u)] < m /\ CancelAgain(infos, u)
     \/ /\ money[Dorner(u)] >= m
        /\ IF Overflows(money[Receiver(u)], m) THEN Ends(infos, u) ELSE GoesOn(u, "debit")
  /\ KeepsGoods

\* Reading and writing an amount is one step: a payment of the mail box that comes in
\* between is one that comes during the exchange (raced).
Debit(u) ==
  /\ At(u, "debit")
  /\ money' = [money EXCEPT ![Dorner(u)] = (@ - TradeMoney(u)) % Width]
  /\ GoesOn(u, "credit")
  /\ UNCHANGED <<guests, gone, asking, bag, mailBox, total, raced>>

Credit(u) ==
  /\ At(u, "credit")
  /\ money' = [money EXCEPT ![Receiver(u)] = (@ + TradeMoney(u)) % Width]
  /\ GoesOn(u, "drop")
  /\ UNCHANGED <<guests, gone, asking, bag, mailBox, total, raced>>

\* ItemDrop empties the slots, whatever is in them.  ItemAcquire, which should give the
\* items to the other user, is a stub that returns false; nobody looks at the result.
Drop(u) ==
  /\ At(u, "drop")
  /\ bag' = [w \in User |->
               IF w \in Pair(u)
               THEN [p \in Position |-> IF p \in Offered(infos[w]) THEN NoItem ELSE bag[w][p]]
               ELSE bag[w]]
  /\ Ends(infos, u)
  /\ UNCHANGED <<guests, gone, asking, money, mailBox, total, raced>>
-----------------------------------------------------------------------------
\* What else users do with their items and money meanwhile, under their own mutex.

\* Mutated form of MoveItem: the item lock is not looked at.
MoveItem_Unchecked(u, p, q) ==
  /\ HasMutex(u)
  /\ bag' = [bag EXCEPT ![u] = [@ EXCEPT ![p] = bag[u][q], ![q] = bag[u][p]]]
  /\ UNCHANGED <<guests, gone, asking, infos, money, isItemLocked, mailBox, cs, up, history>>

MoveItem(u, p, q) ==
  /\ HasMutex(u)
  /\ ~isItemLocked[u]
  /\ bag' = [bag EXCEPT ![u] = [@ EXCEPT ![p] = bag[u][q], ![q] = bag[u][p]]]
  /\ UNCHANGED <<guests, gone, asking, infos, money, isItemLocked, mailBox, cs, up, history>>

RequestsMail(u, state) ==
  /\ HasMutex(u)
  /\ waitingState[u] = "Idle" /\ u \notin guests
  /\ mails < MaxMails /\ mails + Cardinality(gone) < MaxEvents
  /\ mails' = mails + 1
  /\ waitingState' = [waitingState EXCEPT ![u] = state]
  /\ isItemLocked' = [isItemLocked EXCEPT ![u] = TRUE]
  /\ UNCHANGED <<guests, gone, asking, infos, bag, money, unlocking, cs, up, history>>

\* A letter without a stamp: at most one item.  What it takes is buffered, over what an
\* earlier letter left there.
SendMail(u, S, m) ==
  /\ ~isItemLocked[u]
  /\ Cardinality(S) <= 1 /\ \A p \in S : bag[u][p] # NoItem
  /\ m <= money[u]
  /\ RequestsMail(u, "WaitSendMail")
  /\ sendBuffer' = [sendBuffer EXCEPT ![u] = [items |-> S, money |-> m]]
  /\ sending' = [sending EXCEPT ![u] = @ + 1]
  /\ UNCHANGED retrieving

\* Whether the items are locked already is not looked at.  (Bound: the letters a user
\* empties at a time differ in their money.)
RetrieveAttached(u, m) ==
  /\ (money[u] + m) % Width <= GoldMaxLimit
  /\ m \notin retrieving[u]
  /\ RequestsMail(u, "WaitRetrieveAttached")
  /\ retrieving' = [retrieving EXCEPT ![u] = @ \cup {m}]
  /\ UNCHANGED <<sendBuffer, sending>>

\* RequestMailList, DisposeMail and DisposeReadMails do not look at waitingState, and
\* their answers set Idle, as DBRollback does: whatever answers are still to come, the
\* next letter may go.  Their request and its answer are one step, as all that happens
\* between the two is that other requests are refused.
Idles(u) ==
  /\ up
  /\ u \notin guests
  /\ waitingState[u] # "Idle"
  /\ waitingState' = [waitingState EXCEPT ![u] = "Idle"]
  /\ UNCHANGED <<guests, gone, asking, infos, bag, money, isItemLocked, sendBuffer, sending,
                 retrieving, unlocking, mails, cs, up, history>>

InExchange(u) == cs.at \notin {"free", "stuck"} /\ u \in Pair(cs.by)

\* A successful answer: items leave u, and money leaves or reaches him; but for a user
\* who is gone the letter is taken back, and nothing changes hands.
MailAnswered(u, items, m) ==
  LET took == IF u \in gone THEN {} ELSE items
      paid == IF u \in gone THEN 0 ELSE m
  IN  /\ bag' = [bag EXCEPT ![u] = [p \in Position |-> IF p \in took THEN NoItem ELSE @[p]]]
      /\ money' = [money EXCEPT ![u] = (@ + paid) % Width]
      /\ total' = total + money'[u] - money[u]
      /\ raced' = (raced \/ (paid # 0 /\ InExchange(u)))
      /\ disturbed' = IF Trading(u) THEN disturbed \cup {u} ELSE disturbed
      /\ waitingState' = [waitingState EXCEPT ![u] = IF u \in gone THEN "WaitRollback" ELSE "Idle"]
      /\ UNCHANGED <<guests, gone, asking, infos, cs, up, mails>>

\* An error of the service.
MailFailed(u) ==
  /\ waitingState' = [waitingState EXCEPT ![u] = "Idle"]
  /\ UNCHANGED <<guests, gone, asking, infos, bag, money, isItemLocked, sendBuffer, mails,
                 cs, up, history>>

\* DBSendMail.  The letter is out: the items and the money of the buffer are taken, the
\* money if it is still there.  The unlock comes later, without the mutex.
MailSent(u) ==
  /\ HasMutex(u)
  /\ sending[u] > 0
  /\ sending' = [sending EXCEPT ![u] = @ - 1]
  /\ MailAnswered(u, sendBuffer[u].items,
                  IF sendBuffer[u].money <= money[u] THEN 0 - sendBuffer[u].money ELSE 0)
  /\ sendBuffer' = [sendBuffer EXCEPT ![u] = IF sending[u] = 1 THEN NoLetter
                                             ELSE [@ EXCEPT !.items = {}]]
  /\ unlocking' = [unlocking EXCEPT ![u] = @ + 1]
  /\ UNCHANGED <<isItemLocked, retrieving>>

MailNotSent(u) ==
  /\ up
  /\ sending[u] > 0
  /\ sending' = [sending EXCEPT ![u] = @ - 1]
  /\ MailFailed(u)
  /\ unlocking' = [unlocking EXCEPT ![u] = @ + 1]
  /\ UNCHANGED retrieving

Unlock(u) ==
  /\ up
  /\ unlocking[u] > 0
  /\ unlocking' = [unlocking EXCEPT ![u] = @ - 1]
  /\ isItemLocked' = [isItemLocked EXCEPT ![u] = FALSE]
  /\ disturbed' = IF Trading(u) THEN disturbed \cup {u} ELSE disturbed
  /\ UNCHANGED <<guests, gone, asking, infos, bag, money, waitingState, sendBuffer, sending,
                 retrieving, mails, cs, up, total, raced>>

\* DBRetrieveAttached: the money of the letter, or none when it is no longer there.  The
\* items it brings are left out: User::ItemAdd is a stub.
MailRetrieved(u, m) ==
  /\ HasMutex(u)
  /\ m \in retrieving[u]
  /\ retrieving' = [retrieving EXCEPT ![u] = @ \ {m}]
  /\ \E paid \in {m, 0} : MailAnswered(u, {}, paid)
  /\ isItemLocked' = [isItemLocked EXCEPT ![u] = FALSE]
  /\ UNCHANGED <<sendBuffer, sending, unlocking>>

\* An error is not followed by an unlock; nor is the answer to a user who is gone when
\* the letter is no longer buffered.
MailNotRetrieved(u, m) ==
  /\ up
  /\ m \in retrieving[u]
  /\ retrieving' = [retrieving EXCEPT ![u] = @ \ {m}]
  /\ MailFailed(u)
  /\ UNCHANGED <<sending, unlocking>>

Disconnects(u) ==
  /\ up
  /\ u \notin gone
  /\ Cardinality(gone) < MaxGone /\ mails + Cardinality(gone) < MaxEvents
  /\ gone' = gone \cup {u}
  /\ UNCHANGED <<guests, asking, infos, bag, money, isItemLocked, mailBox, cs, up, history>>
-----------------------------------------------------------------------------
Packets(u) ==
  \/ \E v \in User : RequestTrade(u, v)
  \/ RequestGoesOn(u)
  \/ \E p \in Position : AddTradeItem(u, p)
  \/ \E m \in Amount : AddTradeMoney(u, m)
  \/ ReadyToTrade(u) \/ CancelTrade(u) \/ Abandon(u) \/ Refuse(u) \/ Confirm(u)

Exchange(u) == Validate(u) \/ Check(u) \/ Debit(u) \/ Credit(u) \/ Drop(u)

Otherwise(u) ==
  \/ \E p, q \in Position : MoveItem(u, p, q)
  \/ \E S \in SUBSET Position, m \in Amount : SendMail(u, S, m)
  \/ \E m \in Amount : RetrieveAttached(u, m) \/ MailRetrieved(u, m) \/ MailNotRetrieved(u, m)
  \/ Idles(u) \/ MailSent(u) \/ MailNotSent(u) \/ Unlock(u)
  \/ Disconnects(u)

Next == \E u \in User : Packets(u) \/ Exchange(u) \/ Otherwise(u)

Spec == Init /\ [][Next]_vars
-----------------------------------------------------------------------------
\* A trade has two sides, each with the other as its target: requests that cross and
\* cancellations of either side never leave one side behind.
Paired ==
  \A u \in User : Trading(u) => Trading(Partner(u)) /\ Partner(Partner(u)) = u

\* Whoever is asked to confirm has declared himself ready, and so has his partner; an
\* exchange goes on only while both have confirmed.
Agreed ==
  \A u \in User : Trading(u) =>
    /\ infos[u].IsConfirm # "None" => \A w \in Pair(u) : infos[w].IsReady
    /\ InExchange(u) => \A w \in Pair(u) : infos[w].IsConfirm = "Confirm"

\* What a user has declared himself ready for, his own offer and his partner's, is what
\* changes hands: neither changes while he stays ready.
OffersStand ==
  [][\A u \in User : \A w \in Pair(u) :
       Trading(u)' /\ infos[u].IsReady /\ infos'[u].IsReady =>
         Offer(infos'[w]) = Offer(infos[w])]_vars

\* No money is made or lost by exchanges, their check for overflow included, except
\* when a mail box pays the partner while the exchange is at his money.
MoneyConserved ==
  up /\ cs.at # "credit" /\ ~raced => SumFunction(money) = total

\* The slots an exchange empties hold the very items that were put up: for the user
\* whose mutex it holds, and for a partner whose items nothing else has unlocked or
\* taken since the trade began.
TakesWhatIsOffered ==
  [][\A u \in User : At(u, "drop") /\ cs' # cs =>
       \A w \in Pair(u) : (w = u \/ w \notin disturbed) =>
         \A p \in Offered(infos[w]) : bag[w][p] = infos[w].Slots[p]]_vars

\* TradeInfo keeps an AutoLock, "a way to keep item lock during the trade": the items
\* of a user in a trade are locked.
ItemLockKept == \A u \in User : Trading(u) => isItemLocked[u]
=============================================================================
