------------------------------ MODULE TradeProofs ------------------------------
(***************************************************************************)
(* Proofs about Trade, for any set of users, slots, items and amounts.     *)
(*                                                                         *)
(* The invariants say things of pairs of infos, and of the infos of the    *)
(* two users of an exchange; the inductive invariant is what they say of   *)
(* the infos (Consistent), of who holds cs (Exchanging), and the types of  *)
(* everything else.  Consistent and Exchanging take the infos as a         *)
(* parameter: a handler that cancels does so from infos it has changed.    *)
(* Money: what an exchange has taken and not yet given is Due, and what    *)
(* Check found of the two amounts holds until they are changed (Paying).   *)
(***************************************************************************)
EXTENDS Trade, SumTheorems

States == {"free", "validate", "check", "debit", "credit", "drop", "stuck"}

Consistent(I) ==
  /\ I \in [User -> Info \cup {NoTrade}]
  /\ \A u \in User : I[u] # NoTrade =>
       /\ I[u].Target # u
       /\ I[I[u].Target] # NoTrade
       /\ I[I[u].Target].Target = u
       /\ I[u].IsConfirm # "None" => I[u].IsReady /\ I[I[u].Target].IsReady

Exchanging(I, c) ==
  c.at \notin {"free", "stuck"} =>
    /\ c.by \in User
    /\ I[c.by] # NoTrade
    /\ I[c.by].IsConfirm = "Confirm"
    /\ I[I[c.by].Target].IsConfirm = "Confirm"

Goods == /\ bag \in [User -> Bag]
         /\ money \in [User -> Amount]

MailBox == /\ waitingState \in [User -> Waits]
           /\ sendBuffer \in [User -> [items : SUBSET Position, money : Amount]]
           /\ sending \in [User -> Nat] /\ retrieving \in [User -> SUBSET Amount]
           /\ unlocking \in [User -> Nat]
           /\ mails \in Nat
           /\ raced \in BOOLEAN

Locks == /\ isItemLocked \in [User -> BOOLEAN]
         /\ cs \in [by : User \cup {Nobody}, at : States]
         /\ up \in BOOLEAN
         /\ disturbed \in SUBSET User

Requests == /\ guests \subseteq User /\ gone \subseteq User
            /\ asking \in [User -> User \cup {Nobody}]
            /\ \A u \in User : asking[u] # u

IInv == /\ Consistent(infos)
        /\ Exchanging(infos, cs)
        /\ Goods /\ MailBox /\ Locks /\ Requests

-----------------------------------------------------------------------------
\* The inductive invariant says what TypeOK, Paired and Agreed say.
LEMMA IInvImplies == ASSUME IInv PROVE TypeOK /\ Paired /\ Agreed
<1> USE DEF IInv, Consistent, Exchanging
<1>1. TypeOK
  BY DEF TypeOK, Goods, MailBox, Locks, Requests, States
<1>2. Paired
  BY DEF Paired, Trading, Partner, Info
<1>3. Agreed
  <2> SUFFICES ASSUME NEW u \in User, Trading(u)
               PROVE  /\ infos[u].IsConfirm # "None" => \A w \in Pair(u) : infos[w].IsReady
                      /\ InExchange(u) => \A w \in Pair(u) : infos[w].IsConfirm = "Confirm"
    BY DEF Agreed
  <2>1. Pair(u) = {u, Partner(u)}
    BY DEF Pair
  <2>2. infos[u].IsConfirm # "None" => \A w \in Pair(u) : infos[w].IsReady
    BY <2>1 DEF Trading, Partner
  <2>3. ASSUME InExchange(u) PROVE \A w \in Pair(u) : infos[w].IsConfirm = "Confirm"
    <3>1. u \in Pair(cs.by) /\ cs.by \in User /\ Trading(cs.by)
      BY <2>3 DEF InExchange, Trading
    <3>2. u = cs.by \/ u = Partner(cs.by)
      BY <3>1 DEF Pair
    <3>3. Pair(u) = {cs.by, Partner(cs.by)}
      BY <2>1, <3>1, <3>2 DEF Trading, Partner
    <3> QED BY <2>3, <3>3 DEF InExchange, Partner
  <2> QED BY <2>2, <2>3
<1> QED BY <1>1, <1>2, <1>3

\* Amounts of money stay amounts: what a sum or a difference is modulo Width.
LEMMA AmountMod == ASSUME NEW m \in Int PROVE m % Width \in Amount
  BY TradeAssumption DEF Amount

\* Erasing the infos of a user and his partner leaves pairs behind.
LEMMA ErasedConsistent ==
  ASSUME IInv, NEW u \in User, NEW I,
         I \in [User -> Info \cup {NoTrade}],
         \A w \in User \ Pair(u) : I[w] = infos[w]
  PROVE  Consistent(Erased(I, u))
<1> DEFINE J == Erased(I, u)
<1>1. J \in [User -> Info \cup {NoTrade}]
  BY DEF Erased
<1>2. ASSUME NEW w \in User, J[w] # NoTrade
      PROVE  /\ J[w].Target # w
             /\ J[J[w].Target] # NoTrade
             /\ J[J[w].Target].Target = w
             /\ J[w].IsConfirm # "None" => J[w].IsReady /\ J[J[w].Target].IsReady
  <2>1. w \notin Pair(u) /\ J[w] = infos[w]
    BY <1>2 DEF Erased
  <2>2. infos[w] # NoTrade /\ infos[w].Target \in User
    BY <1>2, <2>1 DEF IInv, Consistent, Info
  <2>3. infos[w].Target \notin Pair(u)
    BY <2>1, <2>2 DEF IInv, Consistent, Pair, Trading, Partner, Info
  <2>4. J[infos[w].Target] = infos[infos[w].Target]
    BY <2>2, <2>3 DEF Erased
  <2> QED BY <2>1, <2>2, <2>4 DEF IInv, Consistent
<1> QED BY <1>1, <1>2 DEF Consistent

\* A handler that erases the infos leaves cs free and pairs behind.
LEMMA EndsKeeps ==
  ASSUME IInv, NEW u \in User, NEW I,
         I \in [User -> Info \cup {NoTrade}],
         \A w \in User \ Pair(u) : I[w] = infos[w],
         Ends(I, u)
  PROVE  Consistent(infos') /\ Exchanging(infos', cs') /\ Locks'
<1>1. Consistent(infos')
  BY ErasedConsistent DEF Ends
<1>2. Exchanging(infos', cs')
  BY DEF Ends, Free, Exchanging
<1>3. Locks'
  <2>1. isItemLocked' \in [User -> BOOLEAN] /\ disturbed' \in SUBSET User /\ up' \in BOOLEAN
    BY DEF Ends, Unlocks, IInv, Locks
  <2>2. cs' \in [by : User \cup {Nobody}, at : States]
    BY DEF Ends, Free, States
  <2> QED BY <2>1, <2>2 DEF Locks
<1> QED BY <1>1, <1>2, <1>3

\* And so does one that cancels a second time, unless it waits for ever.
LEMMA CancelAgainKeeps ==
  ASSUME IInv, NEW u \in User, NEW I,
         Consistent(I),
         \A w \in User \ Pair(u) : I[w] = infos[w],
         CancelAgain(I, u)
  PROVE  Consistent(infos') /\ Exchanging(infos', cs') /\ Locks'
<1>1. CASE Ends(I, u)
  BY <1>1, EndsKeeps DEF Consistent
<1>2. CASE infos' = I /\ cs' = [by |-> u, at |-> "stuck"]
           /\ UNCHANGED <<isItemLocked, disturbed, up>>
  BY <1>2 DEF Exchanging, Locks, IInv, States
<1>3. CASE infos' = I /\ cs' = Free /\ up' = FALSE /\ UNCHANGED <<isItemLocked, disturbed>>
  BY <1>3 DEF Exchanging, Locks, IInv, States, Free
<1> QED BY <1>1, <1>2, <1>3 DEF CancelAgain

\* Steps that leave the goods, the mail boxes and the requests alone.
LEMMA KeepsGoodsKeeps == ASSUME IInv, KeepsGoods PROVE Goods' /\ MailBox' /\ Requests'
  BY DEF KeepsGoods, IInv, Goods, MailBox, Requests, mailBox

-----------------------------------------------------------------------------
\* The packets.

LEMMA RequestTradeKeeps ==
  ASSUME IInv, NEW u \in User, NEW v \in User, RequestTrade(u, v) PROVE IInv'
<1> USE DEF RequestTrade, IInv, history
<1>1. Consistent(infos') /\ Exchanging(infos', cs')
  OBVIOUS
<1>2. Goods' /\ MailBox' /\ Locks'
  BY DEF Goods, MailBox, Locks, mailBox
<1>3. Requests'
  BY DEF Requests, Valid
<1> QED BY <1>1, <1>2, <1>3

LEMMA RequestGoesOnKeeps ==
  ASSUME IInv, NEW u \in User, RequestGoesOn(u) PROVE IInv'
<1> DEFINE v == asking[u]
<1>1. v \in User /\ v # u
  BY DEF RequestGoesOn, IInv, Requests
<1>2. Goods' /\ MailBox'
  BY DEF RequestGoesOn, IInv, Goods, MailBox, mailBox
<1>3. Requests'
  BY TradeAssumption DEF RequestGoesOn, IInv, Requests
<1>4. Consistent(infos') /\ Exchanging(infos', cs') /\ Locks'
  <2>1. CASE CancelAgain(infos, u)
    BY <2>1, CancelAgainKeeps DEF IInv
  <2>2. CASE UNCHANGED infos /\ KeepsInfoLocks
    BY <2>2 DEF KeepsInfoLocks, IInv, Locks
  <2>3. CASE /\ ~Trading(u) /\ ~Trading(v)
             /\ infos' = [infos EXCEPT ![u] = NewInfo(v), ![v] = NewInfo(u)]
             /\ isItemLocked' = [isItemLocked EXCEPT ![u] = TRUE, ![v] = TRUE]
             /\ disturbed' = disturbed \ {u, v}
             /\ UNCHANGED <<cs, up>>
    <3>1. Locks'
      BY <1>1, <2>3 DEF IInv, Locks
    <3>2. Exchanging(infos', cs')
      BY <2>3, <1>1 DEF RequestGoesOn, Free, Exchanging
    <3>3. NewInfo(u) \in Info /\ NewInfo(v) \in Info
      BY <1>1, TradeAssumption DEF NewInfo, Info, Bag, EmptyBag, Amount
    <3>4. infos' \in [User -> Info \cup {NoTrade}]
      BY <1>1, <2>3, <3>3 DEF IInv, Consistent
    <3>5. ASSUME NEW w \in User, infos'[w] # NoTrade
          PROVE  /\ infos'[w].Target # w
                 /\ infos'[infos'[w].Target] # NoTrade
                 /\ infos'[infos'[w].Target].Target = w
                 /\ infos'[w].IsConfirm # "None" =>
                      infos'[w].IsReady /\ infos'[infos'[w].Target].IsReady
      <4>1. infos'[u] = NewInfo(v) /\ infos'[v] = NewInfo(u)
        BY <1>1, <2>3 DEF IInv, Consistent
      <4>2. CASE w \in {u, v}
        BY <4>1, <4>2, <1>1, <3>3, NoTradeAssumption DEF NewInfo
      <4>3. CASE w \notin {u, v}
        <5>1. infos'[w] = infos[w]
          BY <1>1, <2>3, <4>3 DEF IInv, Consistent
        <5>2. infos[w].Target \in User /\ infos[w].Target \notin {u, v}
          BY <2>3, <3>5, <5>1 DEF IInv, Consistent, Trading, Info
        <5>3. infos'[infos[w].Target] = infos[infos[w].Target]
          BY <1>1, <2>3, <5>2 DEF IInv, Consistent
        <5> QED BY <3>5, <5>1, <5>3 DEF IInv, Consistent
      <4> QED BY <4>2, <4>3
    <3> QED BY <3>1, <3>2, <3>4, <3>5 DEF Consistent
  <2> QED BY <2>1, <2>2, <2>3 DEF RequestGoesOn
<1> QED BY <1>2, <1>3, <1>4 DEF IInv
\* Infos that change for the two users of a trade, neither for another target, and
\* where nobody is asked to confirm before both are ready.
LEMMA PairUpdate ==
  ASSUME IInv, NEW u \in User, Trading(u), NEW J,
         J \in [User -> Info \cup {NoTrade}],
         \A w \in User \ Pair(u) : J[w] = infos[w],
         \A w \in Pair(u) : J[w] \in Info /\ J[w].Target = infos[w].Target,
         \A w \in Pair(u) : J[w].IsConfirm # "None" => \A x \in Pair(u) : J[x].IsReady
  PROVE  Consistent(J)
<1> DEFINE t == Partner(u)
<1>1. /\ t \in User /\ t # u /\ Trading(t) /\ infos[t].Target = u
      /\ Pair(u) = {u, t} /\ infos[u].Target = t
  BY DEF IInv, Consistent, Trading, Partner, Pair, Info
<1>2. ASSUME NEW w \in User, J[w] # NoTrade
      PROVE  /\ J[w].Target # w
             /\ J[J[w].Target] # NoTrade
             /\ J[J[w].Target].Target = w
             /\ J[w].IsConfirm # "None" => J[w].IsReady /\ J[J[w].Target].IsReady
  <2>1. CASE w \in {u, t}
    <3>1. J[u].Target = t /\ J[t].Target = u /\ J[u] # NoTrade /\ J[t] # NoTrade
      BY <1>1, NoTradeAssumption
    <3> QED BY <1>1, <2>1, <3>1
  <2>2. CASE w \notin {u, t}
    <3>1. J[w] = infos[w]
      BY <1>1, <2>2
    <3>2. infos[w].Target \in User /\ infos[w].Target \notin {u, t}
      BY <1>1, <1>2, <2>2, <3>1 DEF IInv, Consistent, Info
    <3>3. J[infos[w].Target] = infos[infos[w].Target]
      BY <1>1, <3>2
    <3> QED BY <1>2, <3>1, <3>3 DEF IInv, Consistent
  <2> QED BY <2>1, <2>2
<1> QED BY <1>2 DEF Consistent

\* A trade's two sides, and their infos.
LEMMA Sides ==
  ASSUME IInv, NEW u \in User, Trading(u)
  PROVE  /\ Partner(u) \in User /\ Partner(u) # u
         /\ Trading(Partner(u)) /\ infos[Partner(u)].Target = u
         /\ infos[u] \in Info /\ infos[Partner(u)] \in Info
         /\ Pair(u) = {u, Partner(u)}
  BY DEF IInv, Consistent, Trading, Partner, Pair, Info

LEMMA AddTradeItemKeeps ==
  ASSUME IInv, NEW u \in User, NEW p \in Position, AddTradeItem(u, p) PROVE IInv'
<1> DEFINE t == Partner(u)
<1>1. Trading(u) /\ cs = Free /\ infos[u].IsConfirm = "None" /\ ~infos[u].IsReady
  BY DEF AddTradeItem, Changeable, Handles
<1>s. /\ t \in User /\ t # u /\ Trading(t) /\ infos[t].Target = u
      /\ infos[u] \in Info /\ infos[t] \in Info /\ Pair(u) = {u, t}
      /\ infos \in [User -> Info \cup {NoTrade}]
  BY <1>1, Sides DEF IInv, Consistent
<1>2. infos[t].IsConfirm = "None"
  BY <1>1, <1>s DEF IInv, Consistent, Trading, Partner
<1>3. bag[u][p] \in Item
  BY DEF AddTradeItem, IInv, Goods, Bag
<1>4. /\ infos'[u] = [infos[u] EXCEPT !.Slots[p] = bag[u][p], !.IsReady = FALSE]
      /\ infos'[t] = [infos[t] EXCEPT !.IsReady = FALSE]
      /\ \A w \in User \ Pair(u) : infos'[w] = infos[w]
  BY <1>s DEF AddTradeItem
<1>5. infos'[u] \in Info /\ infos'[t] \in Info
  <2>1. infos[u].Slots \in Bag /\ [infos[u].Slots EXCEPT ![p] = bag[u][p]] \in Bag
    BY <1>3, <1>s DEF Info, Bag
  <2>2. infos'[u] = [infos[u] EXCEPT !.Slots = [infos[u].Slots EXCEPT ![p] = bag[u][p]],
                                     !.IsReady = FALSE]
    BY <1>4, <1>s DEF Info
  <2> QED BY <1>4, <1>s, <2>1, <2>2 DEF Info
<1>6. infos' \in [User -> Info \cup {NoTrade}]
  BY <1>5, <1>4, <1>s DEF AddTradeItem
<1>7. Consistent(infos')
  <2>1. infos'[u].Target = infos[u].Target /\ infos'[t].Target = infos[t].Target
    BY <1>4, <1>s DEF Info
  <2>2. infos'[u].IsConfirm = "None" /\ infos'[t].IsConfirm = "None"
    BY <1>1, <1>2, <1>4, <1>s DEF Info
  <2> QED BY <1>1, <1>4, <1>5, <1>6, <2>1, <2>2, <1>s, PairUpdate
<1>8. Exchanging(infos', cs') /\ Locks'
  BY <1>1 DEF AddTradeItem, KeepsInfoLocks, Exchanging, Free, IInv, Locks
<1> QED BY <1>7, <1>8, KeepsGoodsKeeps DEF AddTradeItem, IInv

LEMMA AddTradeMoneyKeeps ==
  ASSUME IInv, NEW u \in User, NEW m \in Amount, AddTradeMoney(u, m) PROVE IInv'
<1> DEFINE t == Partner(u)
<1>1. Trading(u) /\ cs = Free /\ infos[u].IsConfirm = "None" /\ ~infos[u].IsReady
  BY DEF AddTradeMoney, Changeable, Handles
<1>s. /\ t \in User /\ t # u /\ Trading(t) /\ infos[t].Target = u
      /\ infos[u] \in Info /\ infos[t] \in Info /\ Pair(u) = {u, t}
      /\ infos \in [User -> Info \cup {NoTrade}]
  BY <1>1, Sides DEF IInv, Consistent
<1>2. infos[t].IsConfirm = "None"
  BY <1>1, <1>s DEF IInv, Consistent, Trading, Partner
<1>4. /\ infos'[u] = [infos[u] EXCEPT !.Money = m, !.IsReady = FALSE]
      /\ infos'[t] = [infos[t] EXCEPT !.IsReady = FALSE]
      /\ \A w \in User \ Pair(u) : infos'[w] = infos[w]
  BY <1>s DEF AddTradeMoney
<1>5. infos'[u] \in Info /\ infos'[t] \in Info
  BY <1>4, <1>s DEF Info
<1>6. infos' \in [User -> Info \cup {NoTrade}]
  BY <1>5, <1>4, <1>s DEF AddTradeMoney
<1>7. Consistent(infos')
  <2>1. infos'[u].Target = infos[u].Target /\ infos'[t].Target = infos[t].Target
    BY <1>4, <1>s DEF Info
  <2>2. infos'[u].IsConfirm = "None" /\ infos'[t].IsConfirm = "None"
    BY <1>1, <1>2, <1>4, <1>s DEF Info
  <2> QED BY <1>1, <1>4, <1>5, <1>6, <2>1, <2>2, <1>s, PairUpdate
<1>8. Exchanging(infos', cs') /\ Locks'
  BY <1>1 DEF AddTradeMoney, KeepsInfoLocks, Exchanging, Free, IInv, Locks
<1> QED BY <1>7, <1>8, KeepsGoodsKeeps DEF AddTradeMoney, IInv

LEMMA ReadyToTradeKeeps ==
  ASSUME IInv, NEW u \in User, ReadyToTrade(u) PROVE IInv'
<1> DEFINE t == Partner(u)
           I == [infos EXCEPT ![u].IsReady = TRUE]
           W == [I EXCEPT ![u].IsConfirm = "Wait", ![t].IsConfirm = "Wait"]
<1>1. Trading(u) /\ cs = Free /\ ~infos[u].IsReady
  BY DEF ReadyToTrade, Handles
<1>s. /\ t \in User /\ t # u /\ Trading(t) /\ infos[t].Target = u
      /\ infos[u] \in Info /\ infos[t] \in Info /\ Pair(u) = {u, t}
      /\ infos \in [User -> Info \cup {NoTrade}]
  BY <1>1, Sides DEF IInv, Consistent
<1>2. infos[u].IsConfirm = "None" /\ infos[t].IsConfirm = "None"
  BY <1>1, <1>s DEF IInv, Consistent, Trading, Partner
<1>3. Goods' /\ MailBox' /\ Requests'
  BY KeepsGoodsKeeps DEF ReadyToTrade, KeepsGoods
<1>4. /\ I[u] = [infos[u] EXCEPT !.IsReady = TRUE]
      /\ \A w \in User \ {u} : I[w] = infos[w]
      /\ I \in [User -> Info \cup {NoTrade}]
  BY <1>s DEF Info
<1>5. I[u] \in Info /\ I[u].Target = t /\ I[u].IsConfirm = "None" /\ I[u].IsReady
  BY <1>1, <1>2, <1>4, <1>s DEF Info, Partner
<1>6. Consistent(I)
  <2>1. \A w \in Pair(u) : I[w] \in Info /\ I[w].Target = infos[w].Target
                           /\ I[w].IsConfirm = "None"
    BY <1>1, <1>2, <1>4, <1>5, <1>s DEF Partner
  <2> QED BY <1>1, <1>4, <2>1, <1>s, PairUpdate
<1>7. CASE infos' = I /\ KeepsInfoLocks
  BY <1>1, <1>3, <1>6, <1>7 DEF KeepsInfoLocks, Exchanging, Free, IInv, Locks
<1>8. CASE CancelAgain(I, u)
  BY <1>1, <1>3, <1>4, <1>6, <1>8, <1>s, CancelAgainKeeps DEF IInv
<1>9. CASE infos[t].IsReady /\ infos' = W /\ KeepsInfoLocks
  <2>1. /\ W[u] = [I[u] EXCEPT !.IsConfirm = "Wait"]
        /\ W[t] = [infos[t] EXCEPT !.IsConfirm = "Wait"]
        /\ \A w \in User \ Pair(u) : W[w] = infos[w]
    BY <1>1, <1>4, <1>s
  <2>2. W[u] \in Info /\ W[t] \in Info /\ W[u].Target = infos[u].Target
        /\ W[t].Target = infos[t].Target /\ W[u].IsReady /\ W[t].IsReady
    BY <1>1, <1>5, <1>9, <2>1, <1>s DEF Info, Partner
  <2>3. W \in [User -> Info \cup {NoTrade}]
    BY <1>1, <1>4, <2>2, <1>s
  <2>4. \A w \in Pair(u) : /\ W[w] \in Info /\ W[w].Target = infos[w].Target
                          /\ \A x \in Pair(u) : W[x].IsReady
    BY <1>s, <2>2
  <2>5. Consistent(W)
    <3> HIDE DEF W
    <3> QED BY <1>1, <2>1, <2>3, <2>4, PairUpdate
  <2> QED BY <1>1, <1>3, <1>9, <2>5 DEF KeepsInfoLocks, Exchanging, Free, IInv, Locks
<1> QED BY <1>7, <1>8, <1>9 DEF ReadyToTrade
LEMMA CancelTradeKeeps ==
  ASSUME IInv, NEW u \in User, CancelTrade(u) PROVE IInv'
<1>1. Consistent(infos') /\ Exchanging(infos', cs') /\ Locks'
  BY EndsKeeps DEF CancelTrade, IInv, Consistent
<1> QED BY <1>1, KeepsGoodsKeeps DEF CancelTrade, IInv

LEMMA AbandonKeeps ==
  ASSUME IInv, NEW u \in User, Abandon(u) PROVE IInv'
<1>1. Consistent(infos') /\ Exchanging(infos', cs') /\ Locks'
  BY CancelAgainKeeps DEF Abandon, IInv
<1> QED BY <1>1, KeepsGoodsKeeps DEF Abandon, IInv

\* Answering the request to confirm changes IsConfirm of a user who waits.
LEMMA Answers ==
  ASSUME IInv, NEW u \in User, Trading(u), infos[u].IsConfirm = "Wait",
         NEW c \in {"Confirm", "Cancel"}
  PROVE  LET I == [infos EXCEPT ![u].IsConfirm = c]
         IN  /\ Consistent(I)
             /\ I[u] = [infos[u] EXCEPT !.IsConfirm = c]
             /\ \A w \in User \ {u} : I[w] = infos[w]
<1> DEFINE t == Partner(u)
           I == [infos EXCEPT ![u].IsConfirm = c]
<1>1. /\ t \in User /\ t # u /\ Trading(t) /\ infos[t].Target = u
      /\ infos[u] \in Info /\ infos[t] \in Info /\ Pair(u) = {u, t}
      /\ infos \in [User -> Info \cup {NoTrade}]
  BY Sides DEF IInv, Consistent
<1>2. infos[u].IsReady /\ infos[t].IsReady
  BY DEF IInv, Consistent, Trading, Partner
<1>3. /\ I[u] = [infos[u] EXCEPT !.IsConfirm = c]
      /\ \A w \in User \ {u} : I[w] = infos[w]
  BY <1>1
<1>4. I[u] \in Info /\ I[u].Target = infos[u].Target /\ I[u].IsReady
  BY <1>1, <1>2, <1>3 DEF Info
<1>5. I \in [User -> Info \cup {NoTrade}]
  BY <1>1, <1>3, <1>4
<1>6. \A w \in Pair(u) : /\ I[w] \in Info /\ I[w].Target = infos[w].Target
                        /\ \A x \in Pair(u) : I[x].IsReady
  BY <1>1, <1>2, <1>3, <1>4
<1>7. \A w \in User \ Pair(u) : I[w] = infos[w]
  BY <1>1, <1>3
<1>8. Consistent(I)
  <2> HIDE DEF I
  <2> QED BY <1>5, <1>6, <1>7, PairUpdate
<1> QED BY <1>3, <1>8

LEMMA RefuseKeeps == ASSUME IInv, NEW u \in User, Refuse(u) PROVE IInv'
<1> DEFINE I == [infos EXCEPT ![u].IsConfirm = "Cancel"]
<1>1. Consistent(I) /\ \A w \in User \ Pair(u) : I[w] = infos[w]
  <2>1. Trading(u) /\ infos[u].IsConfirm = "Wait" /\ u \in Pair(u)
    BY DEF Refuse, Pair
  <2>2. Consistent(I) /\ \A w \in User \ {u} : I[w] = infos[w]
    BY <2>1, Answers
  <2> QED BY <2>1, <2>2
<1>2. CASE CancelAgain(I, u)
  <2>1. Consistent(infos') /\ Exchanging(infos', cs') /\ Locks'
    <3> HIDE DEF I
    <3> QED BY <1>1, <1>2, CancelAgainKeeps
  <2> QED BY <2>1, KeepsGoodsKeeps DEF Refuse, IInv
<1>3. CASE infos' = I /\ KeepsInfoLocks
  <2>1. Consistent(infos') /\ Exchanging(infos', cs') /\ Locks'
    BY <1>1, <1>3 DEF KeepsInfoLocks, Refuse, Handles, Exchanging, Free, IInv, Locks
  <2> QED BY <2>1, KeepsGoodsKeeps DEF Refuse, IInv
<1> QED BY <1>2, <1>3 DEF Refuse

LEMMA ConfirmKeeps == ASSUME IInv, NEW u \in User, Confirm(u) PROVE IInv'
<1> DEFINE t == Partner(u)
<1>1. /\ Trading(u) /\ infos[u].IsConfirm = "Wait" /\ cs = Free
      /\ infos' = [infos EXCEPT ![u].IsConfirm = "Confirm"]
  BY DEF Confirm, Handles
<1>2. /\ Consistent(infos')
      /\ infos'[u] = [infos[u] EXCEPT !.IsConfirm = "Confirm"]
      /\ \A w \in User \ {u} : infos'[w] = infos[w]
  BY <1>1, Answers
<1>3. t \in User /\ t # u /\ infos[u] \in Info
  BY <1>1, Sides
<1>4. CASE infos[t].IsConfirm = "Confirm"
  <2>1. cs' = [by |-> u, at |-> "validate"]
    BY <1>4 DEF Confirm
  <2>2. infos'[u].Target = t /\ infos'[u].IsConfirm = "Confirm" /\ infos'[u] # NoTrade
    BY <1>2, <1>3, NoTradeAssumption DEF Info, Partner
  <2>3. infos'[t].IsConfirm = "Confirm"
    BY <1>2, <1>3, <1>4
  <2>4. Exchanging(infos', cs')
    BY <2>1, <2>2, <2>3 DEF Exchanging
  <2>5. Locks'
    BY <2>1 DEF Confirm, IInv, Locks, States
  <2> QED BY <1>2, <2>4, <2>5, KeepsGoodsKeeps DEF Confirm, IInv
<1>5. CASE infos[t].IsConfirm # "Confirm"
  <2>1. Exchanging(infos', cs') /\ Locks'
    BY <1>1, <1>5 DEF Confirm, Exchanging, Free, IInv, Locks
  <2> QED BY <1>2, <2>1, KeepsGoodsKeeps DEF Confirm, IInv
<1> QED BY <1>4, <1>5

-----------------------------------------------------------------------------
\* The exchange.

LEMMA GoesOnKeeps ==
  ASSUME IInv, NEW u \in User, NEW a, At(u, a), a \notin {"free", "stuck"},
         NEW b \in States \ {"free", "stuck"}, GoesOn(u, b)
  PROVE  Consistent(infos') /\ Exchanging(infos', cs') /\ Locks'
BY DEF At, GoesOn, IInv, Exchanging, Locks, States

\* The two users of the exchange, and the money that goes from one to the other.
LEMMA Exchanges ==
  ASSUME IInv, NEW u \in User, NEW a, At(u, a), a \notin {"free", "stuck"}
  PROVE  /\ Trading(u)
         /\ Dorner(u) \in User /\ Receiver(u) \in User
         /\ TradeMoney(u) \in Int
<1>1. Trading(u)
  BY DEF At, IInv, Exchanging, Trading
<1>2. Dorner(u) \in {u, Partner(u)} /\ Receiver(u) \in {u, Partner(u)}
  BY <1>1, Sides DEF Dorner, Receiver, Partner
<1>3. infos[u].Money \in Int /\ infos[Partner(u)].Money \in Int
  BY <1>1, Sides, TradeAssumption DEF Info, Amount
<1> QED BY <1>1, <1>2, <1>3, Sides DEF TradeMoney

LEMMA ValidateKeeps == ASSUME IInv, NEW u \in User, Validate(u) PROVE IInv'
<1>1. Consistent(infos') /\ Exchanging(infos', cs') /\ Locks'
  <2>1. CASE CancelAgain(infos, u)
    BY <2>1, CancelAgainKeeps DEF IInv
  <2>2. CASE GoesOn(u, "drop") \/ GoesOn(u, "check")
    BY <2>2, GoesOnKeeps DEF Validate, States
  <2> QED BY <2>1, <2>2 DEF Validate
<1> QED BY <1>1, KeepsGoodsKeeps DEF Validate, IInv

LEMMA CheckKeeps == ASSUME IInv, NEW u \in User, Check(u) PROVE IInv'
<1>1. Consistent(infos') /\ Exchanging(infos', cs') /\ Locks'
  <2>1. CASE CancelAgain(infos, u)
    BY <2>1, CancelAgainKeeps DEF IInv
  <2>2. CASE Ends(infos, u)
    BY <2>2, EndsKeeps DEF IInv, Consistent
  <2>3. CASE GoesOn(u, "debit")
    BY <2>3, GoesOnKeeps DEF Check, States
  <2> QED BY <2>1, <2>2, <2>3 DEF Check
<1> QED BY <1>1, KeepsGoodsKeeps DEF Check, IInv

LEMMA DebitKeeps == ASSUME IInv, NEW u \in User, Debit(u) PROVE IInv'
<1>1. Consistent(infos') /\ Exchanging(infos', cs') /\ Locks'
  BY GoesOnKeeps DEF Debit, States
<1>2. Dorner(u) \in User /\ TradeMoney(u) \in Int
  BY Exchanges DEF Debit
<1>3. money[Dorner(u)] \in Int
  BY <1>2 DEF IInv, Goods, Amount
<1>4. (money[Dorner(u)] - TradeMoney(u)) % Width \in Amount
  BY <1>2, <1>3, AmountMod
<1>5. Goods'
  BY <1>2, <1>4 DEF Debit, IInv, Goods
<1> QED BY <1>1, <1>5 DEF Debit, IInv, MailBox, Requests, mailBox

LEMMA CreditKeeps == ASSUME IInv, NEW u \in User, Credit(u) PROVE IInv'
<1>1. Consistent(infos') /\ Exchanging(infos', cs') /\ Locks'
  BY GoesOnKeeps DEF Credit, States
<1>2. Receiver(u) \in User /\ TradeMoney(u) \in Int
  BY Exchanges DEF Credit
<1>3. money[Receiver(u)] \in Int
  BY <1>2 DEF IInv, Goods, Amount
<1>4. (money[Receiver(u)] + TradeMoney(u)) % Width \in Amount
  BY <1>2, <1>3, AmountMod
<1>5. Goods'
  BY <1>2, <1>4 DEF Credit, IInv, Goods
<1> QED BY <1>1, <1>5 DEF Credit, IInv, MailBox, Requests, mailBox

LEMMA DropKeeps == ASSUME IInv, NEW u \in User, Drop(u) PROVE IInv'
<1>1. Consistent(infos') /\ Exchanging(infos', cs') /\ Locks'
  BY EndsKeeps DEF Drop, IInv, Consistent
<1>2. Goods'
  BY DEF Drop, IInv, Goods, Bag
<1> QED BY <1>1, <1>2 DEF Drop, IInv, MailBox, Requests, mailBox

-----------------------------------------------------------------------------
\* Everything else.

LEMMA MoveItemKeeps ==
  ASSUME IInv, NEW u \in User, NEW p \in Position, NEW q \in Position, MoveItem(u, p, q)
  PROVE  IInv'
<1>1. bag' \in [User -> Bag]
  BY DEF MoveItem, IInv, Goods, Bag
<1>2. Goods' /\ MailBox' /\ Locks' /\ Requests'
  BY <1>1 DEF MoveItem, IInv, Goods, MailBox, Locks, Requests, mailBox, history
<1> QED BY <1>2 DEF MoveItem, IInv

LEMMA RequestsMailKeeps ==
  ASSUME IInv, NEW u \in User,
         \/ \E S \in SUBSET Position, m \in Amount : SendMail(u, S, m)
         \/ \E m \in Amount : RetrieveAttached(u, m)
  PROVE  IInv'
<1>1. ASSUME NEW state \in Waits, RequestsMail(u, state)
      PROVE  /\ Goods' /\ Locks' /\ Requests' /\ UNCHANGED <<infos, cs>>
             /\ waitingState' \in [User -> Waits] /\ mails' \in Nat
             /\ UNCHANGED <<unlocking, raced>>
  BY <1>1 DEF RequestsMail, IInv, Goods, Locks, Requests, MailBox, history
<1>2. ASSUME NEW S \in SUBSET Position, NEW m \in Amount, SendMail(u, S, m) PROVE IInv'
  <2>1. RequestsMail(u, "WaitSendMail") /\ "WaitSendMail" \in Waits
    BY <1>2 DEF SendMail, Waits
  <2>2. /\ sendBuffer' \in [User -> [items : SUBSET Position, money : Amount]]
        /\ sending' \in [User -> Nat] /\ UNCHANGED retrieving
    BY <1>2 DEF SendMail, IInv, MailBox
  <2> QED BY <1>1, <2>1, <2>2 DEF IInv, MailBox
<1>3. ASSUME NEW m \in Amount, RetrieveAttached(u, m) PROVE IInv'
  <2>1. RequestsMail(u, "WaitRetrieveAttached") /\ "WaitRetrieveAttached" \in Waits
    BY <1>3 DEF RetrieveAttached, Waits
  <2>2. retrieving' \in [User -> SUBSET Amount] /\ UNCHANGED <<sendBuffer, sending>>
    BY <1>3 DEF RetrieveAttached, IInv, MailBox
  <2> QED BY <1>1, <2>1, <2>2 DEF IInv, MailBox
<1> QED BY <1>2, <1>3

\* What an answer changes of the goods, and of the state of the mail box.
LEMMA MailAnsweredKeeps ==
  ASSUME IInv, NEW u \in User, NEW S \in SUBSET Position, NEW m \in Int,
         MailAnswered(u, S, m), isItemLocked' \in [User -> BOOLEAN]
  PROVE  /\ Goods' /\ Locks' /\ Requests' /\ UNCHANGED <<infos, cs, mails>>
         /\ waitingState' \in [User -> Waits] /\ raced' \in BOOLEAN
<1> DEFINE paid == IF u \in gone THEN 0 ELSE m
<1>1. waitingState' \in [User -> Waits] /\ raced' \in BOOLEAN
  BY DEF MailAnswered, IInv, MailBox, Waits
<1>2. money[u] \in Int /\ paid \in Int
  BY DEF IInv, Goods, Amount
<1>3. (money[u] + paid) % Width \in Amount
  BY <1>2, AmountMod
<1>4. money' \in [User -> Amount]
  BY <1>3 DEF MailAnswered, IInv, Goods
<1>5. bag' \in [User -> Bag]
  BY DEF MailAnswered, IInv, Goods, Bag
<1>6. Locks' /\ Requests'
  BY DEF MailAnswered, IInv, Locks, Requests
<1> QED BY <1>1, <1>4, <1>5, <1>6 DEF MailAnswered, Goods

LEMMA AnswersKeep ==
  ASSUME IInv, NEW u \in User,
         MailSent(u) \/ \E m \in Amount : MailRetrieved(u, m)
  PROVE  IInv'
<1>1. /\ isItemLocked \in [User -> BOOLEAN] /\ sendBuffer[u].items \in SUBSET Position
      /\ sendBuffer[u].money \in Int /\ 0 - sendBuffer[u].money \in Int
      /\ Amount \subseteq Int /\ 0 \in Int
  BY DEF IInv, Locks, MailBox, Amount
<1>2. CASE MailSent(u)
  <2>1. NoLetter \in [items : SUBSET Position, money : Amount]
    BY TradeAssumption DEF NoLetter, Amount
  <2>2. [sendBuffer[u] EXCEPT !.items = {}] \in [items : SUBSET Position, money : Amount]
    BY DEF IInv, MailBox
  <2>3. sendBuffer' \in [User -> [items : SUBSET Position, money : Amount]]
    BY <1>2, <2>1, <2>2 DEF MailSent, IInv, MailBox
  <2>4. sending' \in [User -> Nat] /\ unlocking' \in [User -> Nat] /\ UNCHANGED retrieving
    BY <1>2 DEF MailSent, IInv, MailBox
  <2>5. isItemLocked' \in [User -> BOOLEAN]
    BY <1>1, <1>2 DEF MailSent
  <2>6. \E m \in Int : MailAnswered(u, sendBuffer[u].items, m)
    BY <1>1, <1>2 DEF MailSent
  <2> QED BY <1>1, <2>3, <2>4, <2>5, <2>6, MailAnsweredKeeps DEF IInv, MailBox
<1>3. ASSUME NEW m \in Amount, MailRetrieved(u, m) PROVE IInv'
  <2>1. /\ retrieving' \in [User -> SUBSET Amount] /\ isItemLocked' \in [User -> BOOLEAN]
        /\ UNCHANGED <<sendBuffer, sending, unlocking>>
    BY <1>1, <1>3 DEF MailRetrieved, IInv, MailBox
  <2>2. \E paid \in Int : MailAnswered(u, {}, paid)
    BY <1>1, <1>3 DEF MailRetrieved
  <2> QED BY <2>1, <2>2, MailAnsweredKeeps DEF IInv, MailBox
<1> QED BY <1>2, <1>3

LEMMA FailuresKeep ==
  ASSUME IInv, NEW u \in User,
         MailNotSent(u) \/ \E m \in Amount : MailNotRetrieved(u, m)
  PROVE  IInv'
<1>1. /\ sending' \in [User -> Nat] /\ unlocking' \in [User -> Nat]
      /\ retrieving' \in [User -> SUBSET Amount]
  BY DEF MailNotSent, MailNotRetrieved, IInv, MailBox
<1>2. MailFailed(u)
  BY DEF MailNotSent, MailNotRetrieved
<1>3. Goods' /\ Locks' /\ Requests' /\ UNCHANGED <<infos, cs>>
  BY <1>2 DEF MailFailed, IInv, Goods, Locks, Requests, history
<1>4. waitingState' \in [User -> Waits] /\ UNCHANGED <<sendBuffer, mails, raced>>
  BY <1>2 DEF MailFailed, IInv, MailBox, Waits, history
<1> QED BY <1>1, <1>3, <1>4 DEF IInv, MailBox

LEMMA IdlesKeeps == ASSUME IInv, NEW u \in User, Idles(u) PROVE IInv'
<1>1. Goods' /\ Locks' /\ Requests'
  BY DEF Idles, IInv, Goods, Locks, Requests, history
<1>2. MailBox'
  BY DEF Idles, IInv, MailBox, Waits, history
<1> QED BY <1>1, <1>2 DEF Idles, IInv

LEMMA UnlockKeeps == ASSUME IInv, NEW u \in User, Unlock(u) PROVE IInv'
<1>1. Goods' /\ MailBox' /\ Locks' /\ Requests'
  BY DEF Unlock, IInv, Goods, MailBox, Locks, Requests
<1> QED BY <1>1 DEF Unlock, IInv

LEMMA DisconnectsKeeps == ASSUME IInv, NEW u \in User, Disconnects(u) PROVE IInv'
<1>1. Goods' /\ MailBox' /\ Locks' /\ Requests'
  BY DEF Disconnects, IInv, Goods, MailBox, Locks, Requests, mailBox, history
<1> QED BY <1>1 DEF Disconnects, IInv

LEMMA Inductive == IInv /\ [Next]_vars => IInv'
<1> SUFFICES ASSUME IInv, [Next]_vars PROVE IInv'
  OBVIOUS
<1>1. CASE UNCHANGED vars
  BY <1>1 DEF vars, history, mailBox, IInv, Goods, MailBox, Locks, Requests
<1>2. ASSUME NEW u \in User, Packets(u) PROVE IInv'
  BY <1>2, RequestTradeKeeps, RequestGoesOnKeeps, AddTradeItemKeeps, AddTradeMoneyKeeps,
     ReadyToTradeKeeps, CancelTradeKeeps, AbandonKeeps, RefuseKeeps, ConfirmKeeps DEF Packets
<1>3. ASSUME NEW u \in User, Exchange(u) PROVE IInv'
  BY <1>3, ValidateKeeps, CheckKeeps, DebitKeeps, CreditKeeps, DropKeeps DEF Exchange
<1>4. ASSUME NEW u \in User, Otherwise(u) PROVE IInv'
  BY <1>4, MoveItemKeeps, RequestsMailKeeps, AnswersKeep, FailuresKeep, IdlesKeeps, UnlockKeeps,
     DisconnectsKeeps DEF Otherwise
<1> QED BY <1>1, <1>2, <1>3, <1>4 DEF Next

LEMMA Initially == Init => IInv
<1> SUFFICES ASSUME Init PROVE IInv
  OBVIOUS
<1>1. Consistent(infos) /\ Exchanging(infos, cs)
  BY DEF Init, Consistent, Exchanging, Free
<1>2. Goods
  <2>1. Gold \subseteq Amount
    BY TradeAssumption DEF Amount
  <2> QED BY <2>1 DEF Init, Goods
<1>3. MailBox
  <2>1. NoLetter \in [items : SUBSET Position, money : Amount]
    BY TradeAssumption DEF NoLetter, Amount
  <2> QED BY <2>1, TradeAssumption DEF Init, MailBox, Waits
<1>4. Locks /\ Requests
  BY TradeAssumption DEF Init, Locks, Requests, Free, States
<1> QED BY <1>1, <1>2, <1>3, <1>4 DEF IInv

-----------------------------------------------------------------------------
\* What the exchange takes.

Late == {"check", "debit", "credit", "drop"}

\* A user in a trade whom nothing else has disturbed has his items locked.
Held == \A u \in User : Trading(u) /\ u \notin disturbed => isItemLocked[u]

\* Once validated, the slots still hold what was put up.
Validated ==
  cs.at \in Late =>
    \A w \in Pair(cs.by) : (w = cs.by \/ w \notin disturbed) =>
      \A p \in Offered(infos[w]) : bag[w][p] = infos[w].Slots[p]

\* Ending a trade unlocks others only on record.
LEMMA EndsHeld ==
  ASSUME IInv, Held, NEW u \in User, NEW I,
         \A w \in User \ Pair(u) : I[w] = infos[w],
         Ends(I, u)
  PROVE  Held' /\ Validated'
<1>1. \A w \in User : infos'[w] # NoTrade => w \notin Pair(u) /\ Trading(w)
  BY DEF Ends, Erased, Trading
<1>2. Held'
  BY <1>1 DEF Ends, Unlocks, Held, Trading, IInv, Locks
<1>3. Validated'
  BY DEF Ends, Free, Validated, Late
<1> QED BY <1>2, <1>3

LEMMA CancelAgainHeld ==
  ASSUME IInv, Held, NEW u \in User, NEW I,
         \A w \in User \ Pair(u) : I[w] = infos[w],
         \A w \in User : I[w] # NoTrade => Trading(w),
         CancelAgain(I, u)
  PROVE  Held' /\ Validated'
<1>1. CASE Ends(I, u)
  BY <1>1, EndsHeld
<1>2. CASE infos' = I /\ cs' = [by |-> u, at |-> "stuck"]
           /\ UNCHANGED <<isItemLocked, disturbed, up>>
  BY <1>2 DEF Held, Validated, Late, Trading
<1>3. CASE infos' = I /\ cs' = Free /\ up' = FALSE /\ UNCHANGED <<isItemLocked, disturbed>>
  BY <1>3 DEF Held, Validated, Late, Trading, Free
<1> QED BY <1>1, <1>2, <1>3 DEF CancelAgain

LEMMA PacketsHeld ==
  ASSUME IInv, Held, Validated, NEW u \in User, Packets(u) PROVE Held' /\ Validated'
<1>1. ASSUME NEW v \in User, RequestTrade(u, v) PROVE Held' /\ Validated'
  BY <1>1 DEF RequestTrade, history, Held, Validated, Trading, Pair, Partner, Offered
<1>2. CASE RequestGoesOn(u)
  <2>1. asking[u] \in User
    BY <1>2 DEF RequestGoesOn, IInv, Requests
  <2>2. CASE CancelAgain(infos, u)
    BY <2>2, CancelAgainHeld DEF Trading
  <2>3. CASE UNCHANGED infos /\ KeepsInfoLocks
    BY <1>2, <2>3 DEF RequestGoesOn, KeepsInfoLocks, Held, Validated, Late, Free, Trading
  <2>4. CASE /\ infos' = [infos EXCEPT ![u] = NewInfo(asking[u]), ![asking[u]] = NewInfo(u)]
             /\ isItemLocked' = [isItemLocked EXCEPT ![u] = TRUE, ![asking[u]] = TRUE]
             /\ disturbed' = disturbed \ {u, asking[u]}
             /\ UNCHANGED <<cs, up>>
    BY <1>2, <2>1, <2>4
       DEF RequestGoesOn, Held, Validated, Late, Free, Trading, IInv, Locks, Consistent
  <2> QED BY <1>2, <2>2, <2>3, <2>4 DEF RequestGoesOn
<1>3. ASSUME NEW p \in Position, AddTradeItem(u, p) PROVE Held' /\ Validated'
  <2>1. Trading(u) /\ Trading(Partner(u)) /\ cs = Free
    BY <1>3, Sides DEF AddTradeItem, Changeable, Handles
  <2>2. \A w \in User : infos'[w] # NoTrade => Trading(w)
    BY <1>3, <2>1 DEF AddTradeItem, Trading, IInv, Consistent
  <2> QED BY <1>3, <2>1, <2>2
             DEF AddTradeItem, KeepsInfoLocks, Held, Validated, Late, Free, Trading
<1>4. ASSUME NEW m \in Amount, AddTradeMoney(u, m) PROVE Held' /\ Validated'
  <2>1. Trading(u) /\ Trading(Partner(u)) /\ cs = Free
    BY <1>4, Sides DEF AddTradeMoney, Changeable, Handles
  <2>2. \A w \in User : infos'[w] # NoTrade => Trading(w)
    BY <1>4, <2>1 DEF AddTradeMoney, Trading, IInv, Consistent
  <2> QED BY <1>4, <2>1, <2>2
             DEF AddTradeMoney, KeepsInfoLocks, Held, Validated, Late, Free, Trading
<1>5. CASE ReadyToTrade(u)
  <2> DEFINE I == [infos EXCEPT ![u].IsReady = TRUE]
             W == [I EXCEPT ![u].IsConfirm = "Wait", ![Partner(u)].IsConfirm = "Wait"]
  <2>1. Trading(u) /\ Trading(Partner(u)) /\ u \in Pair(u) /\ cs = Free
    BY <1>5, Sides DEF ReadyToTrade, Handles
  <2>2. \A w \in User : I[w] # NoTrade => Trading(w)
    BY <2>1 DEF Trading, IInv, Consistent
  <2>3. \A w \in User \ Pair(u) : I[w] = infos[w]
    BY <2>1 DEF IInv, Consistent
  <2>4. CASE CancelAgain(I, u)
    <3> HIDE DEF I
    <3> QED BY <2>2, <2>3, <2>4, CancelAgainHeld
  <2>5. CASE infos' \in {I, W} /\ KeepsInfoLocks
    BY <2>1, <2>5 DEF KeepsInfoLocks, Held, Validated, Late, Free, Trading, IInv, Consistent
  <2> QED BY <1>5, <2>4, <2>5 DEF ReadyToTrade
<1>6. CASE CancelTrade(u)
  BY <1>6, EndsHeld DEF CancelTrade
<1>7. CASE Refuse(u)
  <2> DEFINE I == [infos EXCEPT ![u].IsConfirm = "Cancel"]
  <2>1. Trading(u) /\ u \in Pair(u) /\ cs = Free
    BY <1>7 DEF Refuse, Handles, Pair
  <2>2. /\ \A w \in User : I[w] # NoTrade => Trading(w)
        /\ \A w \in User \ Pair(u) : I[w] = infos[w]
    BY <2>1 DEF Trading, IInv, Consistent
  <2>3. CASE CancelAgain(I, u)
    <3> HIDE DEF I
    <3> QED BY <2>2, <2>3, CancelAgainHeld
  <2>4. CASE infos' = I /\ KeepsInfoLocks
    BY <2>1, <2>2, <2>4 DEF KeepsInfoLocks, Held, Validated, Late, Free, Trading
  <2> QED BY <1>7, <2>3, <2>4 DEF Refuse
<1>8. CASE Confirm(u)
  BY <1>8 DEF Confirm, Handles, Held, Validated, Late, Free, Trading, IInv, Consistent
<1>9. CASE Abandon(u)
  BY <1>9, CancelAgainHeld DEF Abandon, Trading
<1> QED BY <1>1, <1>2, <1>3, <1>4, <1>5, <1>6, <1>7, <1>8, <1>9 DEF Packets

LEMMA ExchangeHeld ==
  ASSUME IInv, Held, Validated, NEW u \in User, Exchange(u) PROVE Held' /\ Validated'
<1>1. CASE Validate(u)
  <2>1. CASE CancelAgain(infos, u)
    BY <2>1, CancelAgainHeld DEF Trading
  <2>2. CASE /\ \A w \in Pair(u) : ~IsCriticalInvalidForExchange(w)
             /\ GoesOn(u, "drop") \/ GoesOn(u, "check")
    <3>1. \A w \in Pair(u) : \A p \in Offered(infos[w]) : bag[w][p] = infos[w].Slots[p]
      BY <2>2 DEF IsCriticalInvalidForExchange
    <3>2. cs'.by = u /\ UNCHANGED <<infos, bag, isItemLocked, disturbed>>
      BY <1>1, <2>2 DEF Validate, GoesOn, KeepsGoods
    <3> QED BY <3>1, <3>2 DEF Held, Validated, Trading, Pair, Partner, Offered
  <2> QED BY <1>1, <2>1, <2>2 DEF Validate
<1>2. CASE Check(u)
  <2>1. CASE CancelAgain(infos, u)
    BY <2>1, CancelAgainHeld DEF Trading
  <2>2. CASE Ends(infos, u)
    BY <2>2, EndsHeld
  <2>3. CASE GoesOn(u, "debit")
    BY <1>2, <2>3 DEF Check, At, GoesOn, KeepsGoods, Held, Validated, Late, Trading, Pair,
                      Partner, Offered
  <2> QED BY <1>2, <2>1, <2>2, <2>3 DEF Check
<1>3. CASE Debit(u) \/ Credit(u)
  BY <1>3 DEF Debit, Credit, At, GoesOn, Held, Validated, Late, Trading, Pair, Partner, Offered
<1>4. CASE Drop(u)
  BY <1>4, EndsHeld DEF Drop
<1> QED BY <1>1, <1>2, <1>3, <1>4 DEF Exchange
LEMMA OtherwiseHeld ==
  ASSUME IInv, Held, Validated, NEW u \in User, Otherwise(u) PROVE Held' /\ Validated'
<1> USE DEF Trading, Pair, Partner, Offered
<1>1. ASSUME NEW p \in Position, NEW q \in Position, MoveItem(u, p, q)
      PROVE  Held' /\ Validated'
  <2>1. UNCHANGED <<infos, isItemLocked, disturbed, cs>> /\ ~isItemLocked[u] /\ cs.by # u
    BY <1>1 DEF MoveItem, HasMutex, history
  <2>2. \A w \in User \ {u} : bag'[w] = bag[w]
    BY <1>1 DEF MoveItem, IInv, Goods
  <2>3. Held'
    BY <2>1 DEF Held
  <2>4. Validated'
    <3> SUFFICES ASSUME cs.at \in Late, NEW w \in Pair(cs.by), w = cs.by \/ w \notin disturbed,
                        NEW p1 \in Offered(infos[w])
                 PROVE  bag'[w][p1] = infos[w].Slots[p1]
      BY <2>1 DEF Validated
    <3>1. cs.by \in User /\ Trading(cs.by)
      BY DEF IInv, Exchanging, Late
    <3>2. w \in User /\ Trading(w)
      BY <3>1, Sides
    <3>3. w # u
      BY <2>1, <3>2 DEF Held
    <3> QED BY <2>2, <3>2, <3>3 DEF Validated
  <2> QED BY <2>3, <2>4
<1>2. ASSUME NEW state, RequestsMail(u, state) PROVE Held' /\ Validated'
  BY <1>2 DEF RequestsMail, history, Held, Validated, IInv, Locks
<1>3. ASSUME NEW S \in SUBSET Position, NEW m \in Int, MailAnswered(u, S, m),
             cs.by # u \/ S = {},
             \/ UNCHANGED isItemLocked
             \/ isItemLocked' = [isItemLocked EXCEPT ![u] = FALSE]
      PROVE  Held' /\ Validated'
  <2>1. /\ UNCHANGED <<infos, cs>>
        /\ disturbed' = IF Trading(u) THEN disturbed \cup {u} ELSE disturbed
    BY <1>3 DEF MailAnswered
  <2>2. Held'
    BY <1>3, <2>1 DEF Held, IInv, Locks
  <2>3. /\ \A w \in User \ {u} : bag'[w] = bag[w]
        /\ S = {} => bag' = bag
    BY <1>3 DEF MailAnswered, IInv, Goods, Bag
  <2>4. Validated'
    <3> SUFFICES ASSUME cs.at \in Late, NEW w \in Pair(cs.by), w = cs.by \/ w \notin disturbed',
                        NEW p \in Offered(infos[w])
                 PROVE  bag'[w][p] = infos[w].Slots[p]
      BY <2>1 DEF Validated
    <3>1. cs.by \in User /\ Trading(cs.by)
      BY DEF IInv, Exchanging, Late
    <3>2. w \in User /\ Trading(w)
      BY <3>1, Sides
    <3>3. bag[w][p] = infos[w].Slots[p]
      BY <2>1 DEF Validated
    <3>4. w # u \/ S = {}
      BY <1>3, <2>1, <3>2
    <3> QED BY <2>3, <3>2, <3>3, <3>4
  <2> QED BY <2>2, <2>4
<1>4. CASE MailSent(u) \/ \E m \in Amount : MailRetrieved(u, m)
  <2>1. /\ sendBuffer[u].items \in SUBSET Position /\ sendBuffer[u].money \in Int
        /\ 0 - sendBuffer[u].money \in Int /\ Amount \subseteq Int /\ 0 \in Int
    BY DEF IInv, MailBox, Amount
  <2>2. CASE MailSent(u)
    <3>1. \E m \in Int : MailAnswered(u, sendBuffer[u].items, m)
      BY <2>1, <2>2 DEF MailSent
    <3> QED BY <1>3, <2>1, <2>2, <3>1 DEF MailSent, HasMutex
  <2>3. CASE \E m \in Amount : MailRetrieved(u, m)
    <3>1. \E paid \in Int : MailAnswered(u, {}, paid)
      BY <2>1, <2>3 DEF MailRetrieved
    <3> QED BY <1>3, <2>3, <3>1 DEF MailRetrieved
  <2> QED BY <1>4, <2>2, <2>3
<1>5. CASE Unlock(u)
  BY <1>5 DEF Unlock, Held, Validated, IInv, Locks
<1>6. CASE \/ \E S \in SUBSET Position, m \in Amount : SendMail(u, S, m)
           \/ \E m \in Amount : RetrieveAttached(u, m)
  BY <1>2, <1>6 DEF SendMail, RetrieveAttached
<1>7. CASE \/ MailNotSent(u) \/ \E m \in Amount : MailNotRetrieved(u, m)
           \/ Idles(u) \/ Disconnects(u)
  <2>1. UNCHANGED <<infos, bag, isItemLocked, disturbed, cs>>
    BY <1>7 DEF MailNotSent, MailNotRetrieved, MailFailed, Idles, Disconnects, history
  <2> QED BY <2>1 DEF Held, Validated
<1> QED BY <1>1, <1>4, <1>5, <1>6, <1>7 DEF Otherwise

LEMMA HeldInductive ==
  IInv /\ Held /\ Validated /\ [Next]_vars => Held' /\ Validated'
<1> SUFFICES ASSUME IInv, Held, Validated, [Next]_vars PROVE Held' /\ Validated'
  OBVIOUS
<1>1. CASE UNCHANGED vars
  BY <1>1 DEF vars, history, Held, Validated, Trading, Pair, Partner, Offered
<1> QED BY <1>1, PacketsHeld, ExchangeHeld, OtherwiseHeld DEF Next

LEMMA HeldInitially == Init => Held /\ Validated
BY DEF Init, Held, Validated, Late, Free, Trading

-----------------------------------------------------------------------------
\* What users have declared themselves ready for.

Stands ==
  \A u \in User : \A w \in Pair(u) :
    Trading(u)' /\ infos[u].IsReady /\ infos'[u].IsReady => Offer(infos'[w]) = Offer(infos[w])

\* Offers stand when only the infos of one trade change, and neither of its users stays
\* ready or neither offer changes.
LEMMA Standing ==
  ASSUME IInv, NEW u \in User,
         \A w \in User \ Pair(u) : infos'[w] = infos[w],
         \/ \A x \in Pair(u) : infos'[x] = NoTrade \/ ~infos'[x].IsReady
         \/ \A w \in Pair(u) : Offer(infos'[w]) = Offer(infos[w])
  PROVE  Stands
<1> SUFFICES ASSUME NEW x \in User, NEW w \in Pair(x), Trading(x)', infos'[x].IsReady
             PROVE  Offer(infos'[w]) = Offer(infos[w])
  BY DEF Stands
<1>1. Trading(x) /\ w \in {x, Partner(x)} /\ w \in User
  BY Sides DEF Pair
<1>2. CASE x \in Pair(u)
  <2>1. Trading(u)
    BY <1>2 DEF Pair
  <2>2. Pair(x) = Pair(u)
    BY <1>1, <1>2, <2>1, Sides DEF Trading, Partner, Pair
  <2> QED BY <1>2, <2>2 DEF Trading
<1>3. CASE x \notin Pair(u)
  <2>1. w \notin Pair(u)
    BY <1>1, <1>3, Sides DEF Trading, Partner, Pair
  <2> QED BY <1>1, <2>1 DEF Offer
<1> QED BY <1>2, <1>3

\* A handler that erases the infos, or cancels a second time from infos of the same offers.
LEMMA EndsStanding ==
  ASSUME IInv, NEW u \in User, NEW I,
         \A w \in User \ Pair(u) : I[w] = infos[w],
         \A w \in Pair(u) : Offer(I[w]) = Offer(infos[w]),
         Ends(I, u) \/ CancelAgain(I, u)
  PROVE  Stands
<1>1. CASE Ends(I, u)
  <2>1. \A w \in User \ Pair(u) : infos'[w] = infos[w]
    BY <1>1 DEF Ends, Erased
  <2>2. \A w \in User \cap Pair(u) : infos'[w] = NoTrade
    BY <1>1 DEF Ends, Erased
  <2>3. Pair(u) \subseteq User
    BY Sides DEF Pair
  <2> QED BY <2>1, <2>2, <2>3, Standing
<1>2. CASE infos' = I
  BY <1>2, Standing
<1> QED BY <1>1, <1>2 DEF CancelAgain

LEMMA SameStanding == ASSUME UNCHANGED infos PROVE Stands
  BY DEF Stands, Offer

LEMMA PacketsStanding == ASSUME IInv, NEW u \in User, Packets(u) PROVE Stands
<1>1. ASSUME NEW v \in User, RequestTrade(u, v) PROVE Stands
  BY <1>1, SameStanding DEF RequestTrade
<1>2. CASE RequestGoesOn(u)
  <2>1. CASE CancelAgain(infos, u)
    BY <2>1, EndsStanding
  <2>2. CASE UNCHANGED infos
    BY <2>2, SameStanding
  <2>3. CASE /\ ~Trading(u) /\ ~Trading(asking[u])
             /\ infos' = [infos EXCEPT ![u] = NewInfo(asking[u]), ![asking[u]] = NewInfo(u)]
    <3>1. asking[u] \in User
      BY <1>2 DEF RequestGoesOn, IInv, Requests
    <3> SUFFICES ASSUME NEW x \in User, NEW w \in Pair(x) PROVE infos'[w] = infos[w]
      BY DEF Stands, Offer
    <3>2. Trading(x) /\ w \in {x, Partner(x)} /\ w \in User /\ Trading(w)
      BY Sides DEF Pair
    <3>3. w # u /\ w # asking[u]
      BY <2>3, <3>2
    <3> QED BY <2>3, <3>1, <3>2, <3>3 DEF IInv, Consistent
  <2> QED BY <1>2, <2>1, <2>2, <2>3 DEF RequestGoesOn
<1>3. ASSUME \/ \E p \in Position : AddTradeItem(u, p)
             \/ \E m \in Amount : AddTradeMoney(u, m)
      PROVE  Stands
  <2>1. Trading(u)
    BY <1>3 DEF AddTradeItem, AddTradeMoney, Changeable
  <2>2. /\ \A w \in User \ Pair(u) : infos'[w] = infos[w]
        /\ ~infos'[u].IsReady /\ ~infos'[Partner(u)].IsReady
    <3>1. /\ Partner(u) \in User /\ Partner(u) # u /\ Pair(u) = {u, Partner(u)}
          /\ infos[u] \in Info /\ infos[Partner(u)] \in Info
          /\ infos \in [User -> Info \cup {NoTrade}]
      BY <2>1, Sides DEF IInv, Consistent
    <3>2. ASSUME NEW p \in Position, AddTradeItem(u, p)
          PROVE  /\ infos'[u] = [infos[u] EXCEPT !.Slots[p] = bag[u][p], !.IsReady = FALSE]
                 /\ infos'[Partner(u)] = [infos[Partner(u)] EXCEPT !.IsReady = FALSE]
                 /\ \A w \in User \ Pair(u) : infos'[w] = infos[w]
      BY <3>1, <3>2 DEF AddTradeItem
    <3>3. ASSUME NEW m \in Amount, AddTradeMoney(u, m)
          PROVE  /\ infos'[u] = [infos[u] EXCEPT !.Money = m, !.IsReady = FALSE]
                 /\ infos'[Partner(u)] = [infos[Partner(u)] EXCEPT !.IsReady = FALSE]
                 /\ \A w \in User \ Pair(u) : infos'[w] = infos[w]
      BY <3>1, <3>3 DEF AddTradeMoney
    <3> QED BY <1>3, <3>1, <3>2, <3>3 DEF Info
  <2> QED BY <2>1, <2>2, Sides, Standing
<1>4. CASE ReadyToTrade(u) \/ Refuse(u) \/ Confirm(u)
  <2>1. Trading(u)
    BY <1>4 DEF ReadyToTrade, Refuse, Confirm
  <2>2. /\ Partner(u) \in User /\ Pair(u) = {u, Partner(u)} /\ Partner(u) # u
        /\ infos[u] \in Info /\ infos[Partner(u)] \in Info
        /\ infos \in [User -> Info \cup {NoTrade}]
    BY <2>1, Sides DEF IInv, Consistent
  <2> DEFINE Alike(I) == /\ \A w \in User \ Pair(u) : I[w] = infos[w]
                         /\ \A w \in Pair(u) : Offer(I[w]) = Offer(infos[w])
             R == [infos EXCEPT ![u].IsReady = TRUE]
             W == [R EXCEPT ![u].IsConfirm = "Wait", ![Partner(u)].IsConfirm = "Wait"]
             C == [infos EXCEPT ![u].IsConfirm = "Cancel"]
             D == [infos EXCEPT ![u].IsConfirm = "Confirm"]
  <2>3. Alike(R)
    BY <2>2 DEF Offer, Info
  <2>4. Alike(W)
    BY <2>2 DEF Offer, Info
  <2>5. Alike(C) /\ Alike(D)
    BY <2>2 DEF Offer, Info
  <2>6. infos' \in {R, W, C, D} \/ CancelAgain(R, u) \/ CancelAgain(C, u)
    BY <1>4 DEF ReadyToTrade, Refuse, Confirm
  <2> HIDE DEF R, W, C, D
  <2>7. CASE infos' \in {R, W, C, D}
    BY <2>3, <2>4, <2>5, <2>7, Standing
  <2>8. CASE CancelAgain(R, u) \/ CancelAgain(C, u)
    BY <2>3, <2>5, <2>8, EndsStanding
  <2> QED BY <2>6, <2>7, <2>8
<1>5. CASE CancelTrade(u) \/ Abandon(u)
  BY <1>5, EndsStanding DEF CancelTrade, Abandon
<1> QED BY <1>1, <1>2, <1>3, <1>4, <1>5 DEF Packets

LEMMA NextStanding == IInv /\ [Next]_vars => Stands
<1> SUFFICES ASSUME IInv, [Next]_vars PROVE Stands
  OBVIOUS
<1>1. CASE UNCHANGED vars
  BY <1>1, SameStanding DEF vars
<1>2. ASSUME NEW u \in User, Exchange(u) PROVE Stands
  <2>1. CancelAgain(infos, u) \/ Ends(infos, u) \/ UNCHANGED infos
    BY <1>2 DEF Exchange, Validate, Check, Debit, Credit, Drop, GoesOn
  <2> QED BY <2>1, EndsStanding, SameStanding
<1>3. ASSUME NEW u \in User, Otherwise(u) PROVE Stands
  <2>1. UNCHANGED infos
    BY <1>3 DEF Otherwise, MoveItem, SendMail, RetrieveAttached, RequestsMail, MailSent,
                MailNotSent, MailRetrieved, MailNotRetrieved, MailAnswered, MailFailed, Idles,
                Unlock, Disconnects
  <2> QED BY <2>1, SameStanding
<1> QED BY <1>1, <1>2, <1>3, PacketsStanding DEF Next

-----------------------------------------------------------------------------
\* Money.  While an exchange has taken from one user what it has not yet given to the
\* other, the users have that much less than the mail boxes account for; and what Check
\* found of the two amounts holds until they are changed.

Due == IF cs.at = "credit" THEN TradeMoney(cs.by) ELSE 0

Accounts == /\ total \in Int
            /\ up /\ ~raced => SumFunction(money) = total - Due

Paying ==
  up /\ ~raced /\ cs.at \in {"debit", "credit"} =>
    /\ cs.at = "debit" => TradeMoney(cs.by) <= money[Dorner(cs.by)]
    /\ money[Receiver(cs.by)] + TradeMoney(cs.by) < Width

\* The dorner is the one of the two who offers more, and the receiver the other.
LEMMA Payment ==
  ASSUME IInv, NEW u \in User, NEW a, At(u, a), a \notin {"free", "stuck"}
  PROVE  /\ Dorner(u) \in Pair(u) /\ Receiver(u) \in Pair(u) /\ Dorner(u) # Receiver(u)
         /\ Dorner(u) \in User /\ Receiver(u) \in User
         /\ TradeMoney(u) \in Nat
<1>1. Trading(u)
  BY Exchanges
<1>2. infos[u].Money \in Int /\ infos[Partner(u)].Money \in Int
  BY <1>1, Sides, TradeAssumption DEF Info, Amount
<1>3. CASE infos[u].Money > infos[Partner(u)].Money
  <2>1. Dorner(u) = u /\ Receiver(u) = Partner(u)
    BY <1>3 DEF Dorner, Receiver, Partner
  <2> QED BY <1>1, <1>2, <1>3, <2>1, Sides DEF TradeMoney
<1>4. CASE ~(infos[u].Money > infos[Partner(u)].Money)
  <2>1. Dorner(u) = Partner(u) /\ Receiver(u) = u
    BY <1>1, <1>4, Sides DEF Dorner, Receiver
  <2> QED BY <1>1, <1>2, <1>4, <2>1, Sides DEF TradeMoney
<1> QED BY <1>3, <1>4

\* Money that is not too much for the receiver is not too much for its 32 bits either.
LEMMA NoOverflow ==
  ASSUME NEW m \in Amount, NEW x \in Nat, x < Width, ~Overflows(m, x)
  PROVE  m + x < Width
<1>1. CASE m + x >= Width
  <2>1. m \in Nat /\ m < Width /\ Width \in Nat
    BY TradeAssumption DEF Amount
  <2>2. (m + x) % Width = m + x - Width
    BY <1>1, <2>1
  <2>3. m > (m + x) % Width
    BY <2>1, <2>2
  <2> QED BY <2>3 DEF Overflows
<1> QED BY <1>1, TradeAssumption DEF Amount

\* Small numbers do not wrap.
LEMMA SmallMod == ASSUME NEW n \in Nat, n < Width PROVE n % Width = n
  BY TradeAssumption

\* Steps that touch no money, and neither start nor leave the middle of a payment.
LEMMA MoneyAlone ==
  ASSUME IInv, Accounts, Paying, up' => up, ~raced' => ~raced, UNCHANGED <<money, total>>,
         \/ cs.at # "credit" /\ cs'.at \notin {"debit", "credit"}
         \/ UNCHANGED <<cs, infos>>
  PROVE  Accounts' /\ Paying'
<1>1. CASE cs.at # "credit" /\ cs'.at \notin {"debit", "credit"}
  BY <1>1 DEF Accounts, Paying, Due
<1>2. CASE UNCHANGED <<cs, infos>>
  BY <1>2 DEF Accounts, Paying, Due, TradeMoney, Dorner, Receiver, Partner
<1> QED BY <1>1, <1>2

\* A cancellation leaves cs free, or its handler waiting for ever.
LEMMA Cancelled ==
  ASSUME NEW u, NEW I, Ends(I, u) \/ CancelAgain(I, u)
  PROVE  cs'.at \in {"free", "stuck"}
BY DEF Ends, CancelAgain, Free

\* A packet other than the request for a trade finds cs free, and starts no payment.
LEMMA PacketsCs ==
  ASSUME NEW u \in User, Packets(u), ~(\E v \in User : RequestTrade(u, v))
  PROVE  cs = Free /\ cs'.at \in {"free", "stuck", "validate"}
<1>1. cs = Free
  BY DEF Packets, RequestGoesOn, AddTradeItem, AddTradeMoney, ReadyToTrade, CancelTrade,
              Abandon, Refuse, Confirm, Handles
<1>2. cs'.at \in {"free", "stuck", "validate"}
  <2>1. CASE RequestGoesOn(u)
    <3>1. CancelAgain(infos, u) \/ cs' = cs
      BY <2>1 DEF RequestGoesOn, KeepsInfoLocks
    <3> QED BY <1>1, <3>1, Cancelled DEF Free
  <2>2. CASE \/ \E p \in Position : AddTradeItem(u, p)
             \/ \E m \in Amount : AddTradeMoney(u, m)
    <3>1. KeepsInfoLocks
      BY <2>2 DEF AddTradeItem, AddTradeMoney
    <3> QED BY <1>1, <3>1 DEF KeepsInfoLocks, Free
  <2>3. CASE ReadyToTrade(u) \/ Refuse(u)
    <3>1. (\E I : CancelAgain(I, u)) \/ cs' = cs
      BY <2>3 DEF ReadyToTrade, Refuse, KeepsInfoLocks
    <3> QED BY <1>1, <3>1, Cancelled DEF Free
  <2>4. CASE CancelTrade(u) \/ Abandon(u)
    BY <2>4, Cancelled DEF CancelTrade, Abandon
  <2>5. CASE Confirm(u)
    BY <1>1, <2>5 DEF Confirm, Free
  <2> QED BY <2>1, <2>2, <2>3, <2>4, <2>5 DEF Packets
<1> QED BY <1>1, <1>2

LEMMA PacketsMoney ==
  ASSUME IInv, Accounts, Paying, NEW u \in User, Packets(u) PROVE Accounts' /\ Paying'
<1>1. up /\ UNCHANGED <<money, total, raced>>
  BY DEF Packets, RequestTrade, RequestGoesOn, AddTradeItem, AddTradeMoney, ReadyToTrade,
         CancelTrade, Abandon, Refuse, Confirm, Handles, HasMutex, KeepsGoods, history
<1>2. CASE \E v \in User : RequestTrade(u, v)
  BY <1>1, <1>2, MoneyAlone DEF RequestTrade
<1>3. CASE ~(\E v \in User : RequestTrade(u, v))
  <2>1. cs = Free /\ cs'.at \in {"free", "stuck", "validate"}
    BY <1>3, PacketsCs
  <2> QED BY <1>1, <2>1, MoneyAlone DEF Free
<1> QED BY <1>2, <1>3

\* Money paid to one user changes the sum by as much as it changes his.
LEMMA Paid ==
  ASSUME IInv, NEW u \in User, NEW m \in Amount, money' = [money EXCEPT ![u] = m]
  PROVE  /\ SumFunction(money) \in Int
         /\ SumFunction(money') = SumFunction(money) + (m - money[u])
<1>1. money \in [User -> Int] /\ m \in Int /\ IsFiniteSet(User)
  BY TradeAssumption DEF IInv, Goods, Amount
<1> QED BY <1>1, SumChanges

LEMMA DebitMoney ==
  ASSUME IInv, Accounts, Paying, NEW u \in User, Debit(u) PROVE Accounts' /\ Paying'
<1> DEFINE d == Dorner(u)  r == Receiver(u)  x == TradeMoney(u)
<1>1. d \in User /\ r \in User /\ d # r /\ x \in Nat
  BY Payment DEF Debit
<1>2. /\ cs = [by |-> u, at |-> "debit"] /\ cs' = [by |-> u, at |-> "credit"]
      /\ money' = [money EXCEPT ![d] = (money[d] - x) % Width]
      /\ UNCHANGED <<infos, total, raced, up>>
  BY DEF Debit, At, GoesOn
<1>3. Dorner(u)' = d /\ Receiver(u)' = r /\ TradeMoney(u)' = x
  BY <1>2 DEF Dorner, Receiver, TradeMoney, Partner
<1> HIDE DEF d, r, x
<1>4. money \in [User -> Amount] /\ money[d] \in Amount /\ money[d] \in Int
  BY <1>1, TradeAssumption DEF IInv, Goods, Amount
<1>5. /\ SumFunction(money) \in Int
      /\ SumFunction(money') = SumFunction(money) + (((money[d] - x) % Width) - money[d])
  <2>1. (money[d] - x) % Width \in Amount
    BY <1>1, <1>4, AmountMod
  <2> QED BY <1>1, <1>2, <2>1, Paid
<1>6. ASSUME up, ~raced PROVE x <= money[d] /\ money[r] + x < Width
  BY <1>2, <1>6 DEF Paying, d, r, x
<1>7. ASSUME up, ~raced PROVE (money[d] - x) % Width = money[d] - x
  <2>1. money[d] - x \in Nat /\ money[d] - x < Width
    BY <1>1, <1>4, <1>6, <1>7, TradeAssumption DEF Amount
  <2> QED BY <2>1, SmallMod
<1>8. Accounts'
  <2>1. Due = 0 /\ Due' = x
    BY <1>2, <1>3 DEF Due
  <2> QED BY <1>1, <1>2, <1>4, <1>5, <1>7, <2>1 DEF Accounts
<1>9. Paying'
  <2>1. money'[r] = money[r]
    BY <1>1, <1>2, <1>4
  <2> QED BY <1>2, <1>3, <1>6, <2>1 DEF Paying
<1> QED BY <1>8, <1>9

LEMMA CreditMoney ==
  ASSUME IInv, Accounts, Paying, NEW u \in User, Credit(u) PROVE Accounts' /\ Paying'
<1> DEFINE r == Receiver(u)  x == TradeMoney(u)
<1>1. r \in User /\ x \in Nat
  BY Payment DEF Credit
<1>2. /\ cs = [by |-> u, at |-> "credit"] /\ cs' = [by |-> u, at |-> "drop"]
      /\ money' = [money EXCEPT ![r] = (money[r] + x) % Width]
      /\ UNCHANGED <<total, raced, up>>
  BY DEF Credit, At, GoesOn
<1> HIDE DEF r, x
<1>3. money[r] \in Amount /\ money[r] \in Int
  BY <1>1, TradeAssumption DEF IInv, Goods, Amount
<1>4. /\ SumFunction(money) \in Int
      /\ SumFunction(money') = SumFunction(money) + (((money[r] + x) % Width) - money[r])
  <2>1. (money[r] + x) % Width \in Amount
    BY <1>1, <1>3, AmountMod
  <2> QED BY <1>1, <1>2, <2>1, Paid
<1>5. ASSUME up, ~raced PROVE (money[r] + x) % Width = money[r] + x
  <2>1. money[r] + x < Width
    BY <1>2, <1>5 DEF Paying, r, x
  <2> QED BY <1>1, <1>3, <2>1, TradeAssumption DEF Amount
<1>6. Accounts'
  <2>1. Due = x /\ Due' = 0
    BY <1>2 DEF Due, x
  <2> QED BY <1>1, <1>2, <1>3, <1>4, <1>5, <2>1 DEF Accounts
<1>7. Paying'
  BY <1>2 DEF Paying
<1> QED BY <1>6, <1>7

LEMMA ExchangeMoney ==
  ASSUME IInv, Accounts, Paying, NEW u \in User, Exchange(u) PROVE Accounts' /\ Paying'
<1>1. CASE Validate(u)
  <2>1. up /\ cs.at # "credit" /\ UNCHANGED <<money, total, raced>>
    BY <1>1 DEF Validate, At, KeepsGoods
  <2>2. cs'.at \in {"free", "stuck", "drop", "check"}
    BY <1>1, Cancelled DEF Validate, GoesOn
  <2> QED BY <2>1, <2>2, MoneyAlone
<1>2. CASE Check(u)
  <2>1. up /\ cs.at = "check" /\ cs.by = u /\ UNCHANGED <<money, total, raced>>
    BY <1>2 DEF Check, At, KeepsGoods
  <2>2. CASE CancelAgain(infos, u) \/ Ends(infos, u)
    BY <2>1, <2>2, Cancelled, MoneyAlone
  <2>3. CASE /\ money[Dorner(u)] >= TradeMoney(u)
             /\ ~Overflows(money[Receiver(u)], TradeMoney(u))
             /\ GoesOn(u, "debit")
    <3>1. cs'.by = u /\ cs'.at = "debit" /\ UNCHANGED <<infos, up>>
      BY <2>3 DEF GoesOn
    <3>2. Dorner(u) \in User /\ Receiver(u) \in User /\ TradeMoney(u) \in Nat
      BY <1>2, Payment DEF Check
    <3>3. money[Dorner(u)] \in Amount /\ money[Receiver(u)] \in Amount
      BY <3>2 DEF IInv, Goods
    <3>4. TradeMoney(u) <= money[Dorner(u)] /\ TradeMoney(u) < Width
      BY <2>3, <3>2, <3>3, TradeAssumption DEF Amount
    <3>5. money[Receiver(u)] + TradeMoney(u) < Width
      BY <2>3, <3>2, <3>3, <3>4, NoOverflow
    <3>6. UNCHANGED <<Dorner(u), Receiver(u), TradeMoney(u), money>>
      BY <2>1, <3>1 DEF Dorner, Receiver, TradeMoney, Partner
    <3>7. Accounts'
      BY <2>1, <3>1 DEF Accounts, Due
    <3>8. Paying'
      BY <3>1, <3>4, <3>5, <3>6 DEF Paying
    <3> QED BY <3>7, <3>8
  <2> QED BY <1>2, <2>2, <2>3 DEF Check
<1>3. CASE Debit(u) \/ Credit(u)
  BY <1>3, DebitMoney, CreditMoney
<1>4. CASE Drop(u)
  <2>1. up /\ cs.at # "credit" /\ UNCHANGED <<money, total, raced>>
    BY <1>4 DEF Drop, At
  <2>2. cs'.at \in {"free", "stuck"}
    BY <1>4, Cancelled DEF Drop
  <2> QED BY <2>1, <2>2, MoneyAlone
<1> QED BY <1>1, <1>2, <1>3, <1>4 DEF Exchange

\* An answer of the mail box is accounted for; one that pays a user in the middle of an
\* exchange of his is what raced says.
LEMMA AnswerMoney ==
  ASSUME IInv, Accounts, Paying, up, NEW u \in User, NEW S, NEW m \in Int,
         MailAnswered(u, S, m)
  PROVE  Accounts' /\ Paying'
<1> DEFINE paid == IF u \in gone THEN 0 ELSE m
<1>p. paid \in Int
  OBVIOUS
<1>1. money' = [money EXCEPT ![u] = (money[u] + paid) % Width] /\ UNCHANGED <<infos, cs, up>>
  BY DEF MailAnswered
<1>2. money \in [User -> Amount] /\ money[u] \in Amount /\ money[u] \in Int
  BY TradeAssumption DEF IInv, Goods, Amount
<1>3. total' = total + (((money[u] + paid) % Width) - money[u])
  BY <1>1, <1>2, <1>p, TradeAssumption DEF MailAnswered, Accounts
<1>4. /\ SumFunction(money) \in Int
      /\ SumFunction(money') = SumFunction(money) + (((money[u] + paid) % Width) - money[u])
  <2>1. (money[u] + paid) % Width \in Amount
    BY <1>2, <1>p, AmountMod
  <2> QED BY <1>1, <2>1, Paid
<1>5. (money[u] + paid) % Width \in Int
  BY <1>2, <1>p, TradeAssumption
<1>6. raced \in BOOLEAN /\ raced' = (raced \/ (paid # 0 /\ InExchange(u)))
  BY DEF MailAnswered, IInv, MailBox
<1> HIDE DEF paid
<1>7. UNCHANGED Due
  BY <1>1 DEF Due, TradeMoney, Dorner, Receiver, Partner
<1>8. cs.at = "credit" => TradeMoney(cs.by) \in Int
  <2> SUFFICES ASSUME cs.at = "credit" PROVE TradeMoney(cs.by) \in Int
    OBVIOUS
  <2>1. At(cs.by, "credit") /\ cs.by \in User
    BY DEF At, IInv, Exchanging, Locks
  <2> QED BY <2>1, Exchanges
<1>9. Accounts'
  <2>1. Due \in Int
    BY <1>8 DEF Due
  <2> QED BY <1>1, <1>2, <1>3, <1>4, <1>5, <1>6, <1>7, <2>1 DEF Accounts
<1>10. Paying'
  <2> SUFFICES ASSUME ~raced', cs.at \in {"debit", "credit"}
               PROVE  /\ cs.at = "debit" => TradeMoney(cs.by) <= money'[Dorner(cs.by)]
                      /\ money'[Receiver(cs.by)] + TradeMoney(cs.by) < Width
    BY <1>1 DEF Paying, TradeMoney, Dorner, Receiver, Partner
  <2>1. At(cs.by, cs.at) /\ cs.by \in User
    BY DEF At, IInv, Exchanging, Locks
  <2>2. Dorner(cs.by) \in Pair(cs.by) /\ Receiver(cs.by) \in Pair(cs.by)
    BY <2>1, Payment
  <2>3. paid = 0 \/ u \notin Pair(cs.by)
    BY <1>6 DEF InExchange
  <2>4. paid = 0 => money' = money
    <3> SUFFICES ASSUME paid = 0 PROVE money' = money
      OBVIOUS
    <3>1. (money[u] + paid) % Width = money[u]
      BY <1>2, TradeAssumption DEF Amount
    <3> QED BY <1>1, <1>2, <3>1
  <2>5. money'[Dorner(cs.by)] = money[Dorner(cs.by)] /\ money'[Receiver(cs.by)] = money[Receiver(cs.by)]
    <3>1. Dorner(cs.by) \in User /\ Receiver(cs.by) \in User
      BY <2>1, Payment
    <3> QED BY <1>1, <1>2, <2>2, <2>3, <2>4, <3>1
  <2> QED BY <1>6, <2>5 DEF Paying
<1> QED BY <1>9, <1>10

LEMMA OtherwiseMoney ==
  ASSUME IInv, Accounts, Paying, NEW u \in User, Otherwise(u) PROVE Accounts' /\ Paying'
<1>1. CASE ~(MailSent(u) \/ \E m \in Amount : MailRetrieved(u, m))
  <2>1. up /\ UNCHANGED <<money, total, raced, cs, infos>>
    BY <1>1 DEF Otherwise, MoveItem, SendMail, RetrieveAttached, RequestsMail, MailNotSent,
                MailNotRetrieved, MailFailed, Idles, Unlock, Disconnects, HasMutex, history
  <2> QED BY <2>1, MoneyAlone
<1>2. CASE MailSent(u) \/ \E m \in Amount : MailRetrieved(u, m)
  <2>1. sendBuffer[u].money \in Int /\ 0 - sendBuffer[u].money \in Int /\ Amount \subseteq Int
    BY TradeAssumption DEF IInv, MailBox, Amount
  <2>2. up /\ \E S : \E m \in Int : MailAnswered(u, S, m)
    BY <1>2, <2>1 DEF MailSent, MailRetrieved, HasMutex
  <2> QED BY <2>2, AnswerMoney
<1> QED BY <1>1, <1>2

LEMMA MoneyInductive == IInv /\ Accounts /\ Paying /\ [Next]_vars => Accounts' /\ Paying'
<1> SUFFICES ASSUME IInv, Accounts, Paying, [Next]_vars PROVE Accounts' /\ Paying'
  OBVIOUS
<1>1. CASE UNCHANGED vars
  BY <1>1, MoneyAlone DEF vars, history
<1> QED BY <1>1, PacketsMoney, ExchangeMoney, OtherwiseMoney DEF Next

LEMMA MoneyInitially == Init => Accounts /\ Paying
<1> SUFFICES ASSUME Init PROVE Accounts /\ Paying
  OBVIOUS
<1>1. money \in [User -> Int] /\ IsFiniteSet(User)
  <2>1. money \in [User -> Gold] /\ IsFiniteSet(User) /\ Gold \subseteq Int
    BY TradeAssumption DEF Init
  <2> QED BY <2>1
<1>2. SumFunction(money) \in Int /\ cs.at = "free"
  BY <1>1, SumIsInt DEF Init, Free
<1> QED BY <1>2 DEF Init, Accounts, Paying, Due

-----------------------------------------------------------------------------
\* Money, user by user.

\* What w owns: of a payment he is to receive, what the other has paid already.
Holds(w) == money[w] + IF cs.at = "credit" /\ w = Receiver(cs.by) THEN TradeMoney(cs.by) ELSE 0

\* What the partner of w offers, less what he offers himself.
Gain(w) == infos[Partner(w)].Money - infos[w].Money

\* An answer of the mail box of w: one fewer is to come.
Answered(w) == sending'[w] < sending[w] \/ retrieving'[w] # retrieving[w]

\* What a user owns changes by the answers to his letters, and by exchanges that he and
\* his partner have both confirmed: of the two at once, and by the difference of what they
\* offered.  (As MoneyConserved, but for payments in the middle of an exchange.)
PaysWhatIsOffered ==
  [][up /\ ~raced' =>
       \A w \in User : Holds(w)' # Holds(w) =>
         \/ Answered(w)
         \/ /\ Trading(w)
            /\ \A v \in Pair(w) : /\ infos[v].IsConfirm = "Confirm"
                                  /\ Holds(v)' = Holds(v) + Gain(v)]_vars
\* Steps that touch no money, and neither start nor leave the middle of a payment.
LEMMA HoldsAlone ==
  ASSUME NEW w, UNCHANGED money,
         \/ cs.at # "credit" /\ cs'.at # "credit"
         \/ UNCHANGED <<cs, infos>>
  PROVE  Holds(w)' = Holds(w)
<1>1. CASE cs.at # "credit" /\ cs'.at # "credit"
  BY <1>1 DEF Holds
<1>2. CASE UNCHANGED <<cs, infos>>
  BY <1>2 DEF Holds, TradeMoney, Dorner, Receiver, Partner
<1> QED BY <1>1, <1>2

\* What the dorner gives is what the receiver gains.
LEMMA Gains ==
  ASSUME IInv, NEW u \in User, NEW a, At(u, a), a \notin {"free", "stuck"}
  PROVE  /\ Pair(u) = {Dorner(u), Receiver(u)}
         /\ Gain(Dorner(u)) = 0 - TradeMoney(u) /\ Gain(Receiver(u)) = TradeMoney(u)
         /\ \A v \in Pair(u) : /\ Trading(v) /\ Pair(v) = Pair(u)
                               /\ infos[v].IsConfirm = "Confirm"
<1>1. Trading(u) /\ infos[u].IsConfirm = "Confirm" /\ infos[Partner(u)].IsConfirm = "Confirm"
  BY Exchanges DEF IInv, Exchanging, At, Partner, Trading
<1>2. /\ Trading(Partner(u)) /\ Partner(Partner(u)) = u /\ Partner(u) # u
      /\ infos[u].Money \in Int /\ infos[Partner(u)].Money \in Int
  <2>1. infos[u] \in Info /\ infos[Partner(u)] \in Info
    BY <1>1, Sides
  <2>2. infos[u].Money \in Int /\ infos[Partner(u)].Money \in Int
    BY <2>1, TradeAssumption DEF Info, Amount
  <2>3. Trading(Partner(u)) /\ Partner(Partner(u)) = u /\ Partner(u) # u
    BY <1>1, Sides DEF Partner
  <2> QED BY <2>2, <2>3
<1>3. Pair(u) = {u, Partner(u)} /\ Pair(Partner(u)) = {u, Partner(u)}
  BY <1>1, <1>2 DEF Pair
<1>4. \/ Dorner(u) = u /\ Receiver(u) = Partner(u)
      \/ Dorner(u) = Partner(u) /\ Receiver(u) = u
  BY <1>2 DEF Dorner, Receiver, Partner
<1>5. /\ Gain(Dorner(u)) = 0 - TradeMoney(u) /\ Gain(Receiver(u)) = TradeMoney(u)
  BY <1>2, <1>4 DEF Gain, TradeMoney
<1> QED BY <1>1, <1>2, <1>3, <1>4, <1>5

LEMMA DebitPays ==
  ASSUME IInv, Paying, ~raced, NEW u \in User, Debit(u), NEW w \in User, Holds(w)' # Holds(w)
  PROVE  /\ Trading(w)
         /\ \A v \in Pair(w) : /\ infos[v].IsConfirm = "Confirm"
                               /\ Holds(v)' = Holds(v) + Gain(v)
<1> DEFINE d == Dorner(u)  r == Receiver(u)  x == TradeMoney(u)
<1>1. d \in User /\ r \in User /\ d # r /\ x \in Nat
  BY Payment DEF Debit
<1>2. /\ up /\ cs = [by |-> u, at |-> "debit"] /\ cs' = [by |-> u, at |-> "credit"]
      /\ money' = [money EXCEPT ![d] = (money[d] - x) % Width]
      /\ UNCHANGED infos
  BY DEF Debit, At, GoesOn
<1>3. Receiver(u)' = r /\ TradeMoney(u)' = x
  BY <1>2 DEF Dorner, Receiver, TradeMoney, Partner
<1>4. /\ Pair(u) = {d, r} /\ Gain(d) = 0 - x /\ Gain(r) = x
      /\ \A v \in Pair(u) : Trading(v) /\ Pair(v) = Pair(u) /\ infos[v].IsConfirm = "Confirm"
  BY Gains DEF Debit
<1>5. x <= money[d]
  BY <1>2 DEF Paying
<1> HIDE DEF d, r, x
<1>6. money \in [User -> Amount] /\ \A v \in User : money[v] \in Int
  BY TradeAssumption DEF IInv, Goods, Amount
<1>7. (money[d] - x) % Width = money[d] - x
  <2>1. money[d] - x \in Nat /\ money[d] - x < Width
    BY <1>1, <1>5, <1>6, TradeAssumption DEF Amount
  <2> QED BY <2>1, SmallMod
<1>8. /\ money'[d] = money[d] - x /\ money'[r] = money[r]
      /\ \A v \in User : v \notin {d, r} => money'[v] = money[v]
  BY <1>1, <1>2, <1>6, <1>7
<1>9. ASSUME NEW v \in User, v \in {d, r} PROVE Holds(v)' = Holds(v) + Gain(v)
  <2>1. Holds(v) = money[v] /\ Holds(v)' = money'[v] + IF v = r THEN x ELSE 0
    BY <1>2, <1>3, <1>6 DEF Holds, r, x
  <2> QED BY <1>1, <1>4, <1>6, <1>8, <1>9, <2>1
<1>10. w \in {d, r}
  <2> SUFFICES ASSUME w \notin {d, r} PROVE FALSE
    OBVIOUS
  <2>1. Holds(w) = money[w] /\ Holds(w)' = money'[w]
    BY <1>2, <1>3, <1>6, <1>8 DEF Holds, r, x
  <2> QED BY <1>8, <2>1
<1> QED BY <1>1, <1>4, <1>9, <1>10

LEMMA CreditPays ==
  ASSUME IInv, Paying, ~raced, NEW u \in User, Credit(u), NEW w \in User
  PROVE  Holds(w)' = Holds(w)
<1> DEFINE r == Receiver(u)  x == TradeMoney(u)
<1>1. r \in User /\ x \in Nat
  BY Payment DEF Credit
<1>2. /\ up /\ cs = [by |-> u, at |-> "credit"] /\ cs' = [by |-> u, at |-> "drop"]
      /\ money' = [money EXCEPT ![r] = (money[r] + x) % Width]
  BY DEF Credit, At, GoesOn
<1>3. Holds(w) = money[w] + (IF w = r THEN x ELSE 0)
  BY <1>2 DEF Holds
<1>4. money[r] + x < Width
  BY <1>2 DEF Paying
<1> HIDE DEF r, x
<1>5. money \in [User -> Amount] /\ \A v \in User : money[v] \in Int /\ money[v] >= 0
  BY TradeAssumption DEF IInv, Goods, Amount
<1>6. (money[r] + x) % Width = money[r] + x
  BY <1>1, <1>4, <1>5, SmallMod
<1>7. Holds(w)' = money'[w]
  BY <1>1, <1>2, <1>5, <1>6 DEF Holds
<1> QED BY <1>1, <1>2, <1>3, <1>5, <1>6, <1>7

LEMMA PacketsHold ==
  ASSUME IInv, NEW u \in User, Packets(u), NEW w PROVE Holds(w)' = Holds(w)
<1>1. UNCHANGED money
  BY DEF Packets, RequestTrade, RequestGoesOn, AddTradeItem, AddTradeMoney, ReadyToTrade,
         CancelTrade, Abandon, Refuse, Confirm, KeepsGoods
<1>2. CASE \E v \in User : RequestTrade(u, v)
  BY <1>1, <1>2, HoldsAlone DEF RequestTrade
<1>3. CASE ~(\E v \in User : RequestTrade(u, v))
  BY <1>1, <1>3, PacketsCs, HoldsAlone DEF Free
<1> QED BY <1>2, <1>3

LEMMA PaysStep ==
  ASSUME IInv, Paying, [Next]_vars, ~raced', NEW w \in User, Holds(w)' # Holds(w)
  PROVE  \/ Answered(w)
         \/ /\ Trading(w)
            /\ \A v \in Pair(w) : /\ infos[v].IsConfirm = "Confirm"
                                  /\ Holds(v)' = Holds(v) + Gain(v)
<1>1. CASE UNCHANGED vars
  BY <1>1, HoldsAlone DEF vars
<1>2. ASSUME NEW u \in User, Packets(u) PROVE FALSE
  BY <1>2, PacketsHold
<1>3. ASSUME NEW u \in User, Validate(u) \/ Check(u) \/ Drop(u) PROVE cs'.at = "credit"
  <2>1. UNCHANGED money /\ cs.at # "credit"
    BY <1>3 DEF Validate, Check, Drop, At, KeepsGoods
  <2> QED BY <2>1, HoldsAlone
<1>4. ASSUME NEW u \in User, Validate(u) \/ Check(u) \/ Drop(u) PROVE FALSE
  <2>1. cs'.at # "credit"
    BY <1>4, Cancelled DEF Validate, Check, Drop, GoesOn
  <2> QED BY <1>3, <1>4, <2>1
<1>5. CASE \E u \in User : Debit(u)
  <2>1. ~raced
    BY <1>5 DEF Debit
  <2> QED BY <1>5, <2>1, DebitPays
<1>6. ASSUME NEW u \in User, Credit(u) PROVE FALSE
  <2>1. ~raced
    BY <1>6 DEF Credit
  <2> QED BY <1>6, <2>1, CreditPays
<1>7. ASSUME NEW u \in User, Otherwise(u),
             ~(MailSent(u) \/ \E m \in Amount : MailRetrieved(u, m))
      PROVE  FALSE
  <2>1. UNCHANGED <<money, cs, infos>>
    BY <1>7 DEF Otherwise, MoveItem, SendMail, RetrieveAttached, RequestsMail, MailNotSent,
                MailNotRetrieved, MailFailed, Idles, Unlock, Disconnects
  <2> QED BY <2>1, HoldsAlone
<1>8. ASSUME NEW u \in User, NEW S, NEW m, MailAnswered(u, S, m) PROVE w = u
  <2> SUFFICES ASSUME w # u PROVE FALSE
    OBVIOUS
  <2>1. money'[w] = money[w] /\ UNCHANGED <<cs, infos>>
    BY <1>8 DEF MailAnswered, IInv, Goods
  <2>2. Holds(w)' = Holds(w)
    BY <2>1 DEF Holds, TradeMoney, Dorner, Receiver, Partner
  <2> QED BY <2>2
<1>9. ASSUME NEW u \in User, MailSent(u) \/ \E m \in Amount : MailRetrieved(u, m)
      PROVE  Answered(w)
  <2>1. \E S, m : MailAnswered(u, S, m)
    BY <1>9 DEF MailSent, MailRetrieved
  <2>2. w = u
    BY <1>8, <2>1
  <2>3. sending \in [User -> Nat] /\ retrieving \in [User -> SUBSET Amount]
    BY DEF IInv, MailBox
  <2> QED BY <1>9, <2>2, <2>3 DEF MailSent, MailRetrieved, Answered
<1> QED BY <1>1, <1>2, <1>4, <1>5, <1>6, <1>7, <1>9 DEF Next, Exchange

-----------------------------------------------------------------------------
\* Theorems.

LEMMA Invariant == Spec => [](IInv /\ Held /\ Validated)
<1>1. Init => IInv /\ Held /\ Validated
  BY Initially, HeldInitially
<1>2. (IInv /\ Held /\ Validated) /\ [Next]_vars => (IInv /\ Held /\ Validated)'
  BY Inductive, HeldInductive
<1> QED BY <1>1, <1>2, PTL DEF Spec

\* Every state has the types of TradeInfo, of the users' goods and of their mail boxes;
\* RequestTrade never pairs a user with himself.
THEOREM TypeCorrect == Spec => []TypeOK
<1>1. IInv => TypeOK
  BY IInvImplies
<1> QED BY <1>1, Invariant, PTL

\* However requests, cancellations and refusals of any number of users cross, a trade
\* always has both of its sides (RequestTrade, Cancel, ConfirmTrade).
THEOREM AlwaysPaired == Spec => []Paired
<1>1. IInv => Paired
  BY IInvImplies
<1> QED BY <1>1, Invariant, PTL

\* Nobody is asked to confirm before both are ready, and nothing is exchanged before
\* both have confirmed (ReadyToTrade, ConfirmTrade).
THEOREM AlwaysAgreed == Spec => []Agreed
<1>1. IInv => Agreed
  BY IInvImplies
<1> QED BY <1>1, Invariant, PTL

\* The exchange takes from a user nothing but what he put up, as long as no answer of
\* his mail box has meddled with his items (ConfirmTrade, LockItems, MoveItem).
THEOREM AlwaysTakesWhatIsOffered == Spec => TakesWhatIsOffered
<1>1. IInv /\ Held /\ Validated /\ [Next]_vars =>
        [\A u \in User : At(u, "drop") /\ cs' # cs =>
           \A w \in Pair(u) : (w = u \/ w \notin disturbed) =>
             \A p \in Offered(infos[w]) : bag[w][p] = infos[w].Slots[p]]_vars
  BY DEF Validated, Late, At
<1> QED BY <1>1, Invariant, PTL DEF Spec, TakesWhatIsOffered

\* An offer a user has declared himself ready for does not change behind his back, his
\* partner's included: adding items or money takes readiness from both (AddTradeItem,
\* AddTradeMoney).
THEOREM AlwaysOffersStand == Spec => OffersStand
<1>1. IInv /\ [Next]_vars =>
        [\A u \in User : \A w \in Pair(u) :
           Trading(u)' /\ infos[u].IsReady /\ infos'[u].IsReady =>
             Offer(infos'[w]) = Offer(infos[w])]_vars
  BY NextStanding DEF Stands
<1> QED BY <1>1, Invariant, PTL DEF Spec, OffersStand

\* Over any number of trades and letters of any number of users, the exchange neither
\* makes nor loses money: what the debit takes the credit gives, neither of them wraps,
\* and the users have what their mail boxes account for (ConfirmTrade).
THEOREM MoneyAlwaysConserved == Spec => []MoneyConserved
<1>1. Init => Accounts /\ Paying
  BY MoneyInitially
<1>2. IInv /\ Accounts /\ Paying /\ [Next]_vars => (Accounts /\ Paying)'
  BY MoneyInductive
<1>3. Accounts => MoneyConserved
  BY DEF Accounts, Due, MoneyConserved
<1> QED BY <1>1, <1>2, <1>3, Invariant, PTL DEF Spec

\* A user's money changes by his letters and by exchanges he and his partner have
\* confirmed: by the difference of what the two offered, for both at once.
THEOREM AlwaysPaysWhatIsOffered == Spec => PaysWhatIsOffered
<1> DEFINE Pays == up /\ ~raced' =>
      \A w \in User : Holds(w)' # Holds(w) =>
        \/ Answered(w)
        \/ /\ Trading(w)
           /\ \A v \in Pair(w) : /\ infos[v].IsConfirm = "Confirm"
                                 /\ Holds(v)' = Holds(v) + Gain(v)
<1>1. Init => Accounts /\ Paying
  BY MoneyInitially
<1>2. IInv /\ Accounts /\ Paying /\ [Next]_vars => (Accounts /\ Paying)'
  BY MoneyInductive
<1>3. IInv /\ Paying /\ [Next]_vars => [Pays]_vars
  BY PaysStep
<1> QED BY <1>1, <1>2, <1>3, Invariant, PTL DEF Spec, PaysWhatIsOffered
=============================================================================
