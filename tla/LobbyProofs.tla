----------------------------- MODULE LobbyProofs -----------------------------
(***************************************************************************)
(* Proofs about Lobby, for every number of users, callers and accounts:    *)
(*   IdsUniqueAlways          each counter stays beyond the ids it has     *)
(*                            handed out (IdsBehindCounters);              *)
(*   TypeCorrect              whose request is at which step of which      *)
(*                            operation (TypeInv);                         *)
(*   ConnectorImplemented     a step of the lobby is a step of DBConnector *)
(*                            or none;                                     *)
(*   SessionRegisteredAlways, a user is in the map its authorisation says, *)
(*   OneRegistryAlways        but for the two mutexed regions that move it *)
(*                            (RegInv);                                    *)
(* What DBConnectorProofs shows of the connector is carried over by an     *)
(* instance of it (Connector), with ConnectorInv:                          *)
(*   RequestsCounted, RequestsReported   for the requests of the lobby;    *)
(*   LobbyUsesATable          the lobby implements RequestTable;           *)
(*   OneAtATimeAlways         under one id, one request but for those for  *)
(*                            the key settings;                            *)
(*   DroppedForAnotherAlways  a request dropped as a duplicate has another *)
(*                            of its session beside it (SerialsOwned).     *)
(***************************************************************************)
EXTENDS Lobby, FiniteSetTheorems, TLAPS

\* Temporary ids are negative and above m_curTempUserId, permanent ones are below
\* m_curUserId.
IdsBehindCounters ==
  /\ curTempUserId \in Int /\ curTempUserId < 0
  /\ curUserId \in Nat
  /\ userId \in [User -> Int \cup {NoId}]
  /\ \A u \in User : userId[u] # NoId =>
       IF userId[u] < 0 THEN userId[u] > curTempUserId ELSE userId[u] < curUserId

IdInv == IdsBehindCounters /\ IdsUnique

ids == <<userId, curTempUserId, curUserId>>

-----------------------------------------------------------------------------
\* Ids change in two places of the code only: where a User is made, and in SetId.
LEMMA IdsFrame ==
  ASSUME [Next]_vars
  PROVE  \/ \E u \in User : MakeUser(u)
         \/ \E c \in Call : SetId(c)
         \/ UNCHANGED ids
<1>1. ASSUME NEW u \in User, PeerCloses(u) \/ Head(u) PROVE UNCHANGED ids
  BY <1>1 DEF PeerCloses, Head, ids, registry
<1>2. ASSUME NEW u \in User, NEW c \in Call, NEW a \in Account, Auth(u, a, c)
      PROVE  UNCHANGED ids
  BY <1>2 DEF Auth, DB!Make, ids, registry
<1>3. ASSUME NEW u \in User, NEW c \in Call, CheckSecondPassword(u, c)
      PROVE  UNCHANGED ids
  BY <1>3 DEF CheckSecondPassword, DB!Make, ids, registry
<1>4. CASE IoSubmit
  BY <1>4 DEF IoSubmit, DB!Submit, ids, registry
<1>5. ASSUME NEW c \in Call, Answer(c) \/ Dispatch(c) PROVE UNCHANGED ids
  BY <1>5 DEF Answer, Dispatch, DB!Respond, DB!Dispatch, ids, registry
<1>6. ASSUME NEW c \in Call, Callback(c), ~SetId(c) PROVE UNCHANGED ids
  <2>1. ASSUME Ends(c) PROVE UNCHANGED ids
    BY <2>1 DEF Ends, DB!Return, ids, registry
  <2>2. ASSUME WantsRemoval(c) PROVE UNCHANGED ids
    BY <2>2 DEF WantsRemoval, ids, registry, session
  <2>3. ASSUME NEW o, NEW d, FollowUp(c, o, d) PROVE UNCHANGED ids
    BY <2>3 DEF FollowUp, DB!Chain, ids, registry
  <2>4. CASE Authorize(c)
    BY <2>4, <2>1, <2>2, <2>3 DEF Authorize
  <2>5. CASE CharacterListed(c)
    BY <2>5, <2>1, <2>2, <2>3 DEF CharacterListed
  <2>6. CASE TerminateUnderLock(c)
    BY <2>6 DEF TerminateUnderLock, DB!Return, ids
  <2>7. CASE KeyLoaded(c) \/ SecondPasswordRefused(c)
    BY <2>7, <2>1 DEF KeyLoaded, SecondPasswordRefused
  <2>8. CASE SecondPasswordFailed(c)
    BY <2>8 DEF SecondPasswordFailed, DB!Return, ids
  <2>9. CASE AuthenticateUser(c)
    BY <2>9 DEF AuthenticateUser, ids, session
  <2>10. CASE SecondPasswordChecked(c)
    BY <2>10 DEF SecondPasswordChecked, DB!Return, ids, registry
  <2> QED
    BY <1>6, <2>4, <2>5, <2>6, <2>7, <2>8, <2>9, <2>10 DEF Callback
<1>7. CASE Pass
  <2>1. ASSUME NEW u, NEW i, Ping(u, i) \/ Evict(u, i) PROVE UNCHANGED ids
    BY <2>1 DEF Ping, Evict, ids, registry
  <2>2. CASE Visit
    BY <2>1, <2>2 DEF Visit
  <2>3. CASE WakeUp \/ BeginPass \/ NextLoop \/ GoToSleep
    BY <2>3 DEF WakeUp, BeginPass, NextLoop, GoToSleep, ids, registry, session
  <2> QED
    BY <1>7, <2>2, <2>3 DEF Pass
<1>8. CASE UNCHANGED vars
  BY <1>8 DEF vars, ids, registry, session
<1> QED
  BY <1>1, <1>2, <1>3, <1>4, <1>5, <1>6, <1>7, <1>8 DEF Next, Io

LEMMA IdInvInit == Init => IdInv
<1> SUFFICES ASSUME Init PROVE IdInv
  OBVIOUS
<1>1. \A u \in User : userId[u] = NoId
  BY DEF Init
<1> QED
  BY <1>1 DEF Init, IdInv, IdsBehindCounters, IdsUnique

\* A fresh id is beyond the counter, so nobody has it; the counter moves on.
LEMMA IdInvStep == IdInv /\ [Next]_vars => IdInv'
<1> SUFFICES ASSUME IdInv, [Next]_vars PROVE IdInv'
  OBVIOUS
<1>1. ASSUME NEW u \in User, MakeUser(u) PROVE IdInv'
  <2>1. /\ userId' = [userId EXCEPT ![u] = curTempUserId]
        /\ curTempUserId' = curTempUserId - 1
        /\ curUserId' = curUserId
    BY <1>1 DEF MakeUser, NextTempUserId
  <2>2. \A w \in User : userId[w] # curTempUserId
    BY LobbyAssumption DEF IdInv, IdsBehindCounters
  <2>3. IdsBehindCounters'
    <3>1. \A w \in User : userId'[w] = IF w = u THEN curTempUserId ELSE userId[w]
      BY <2>1 DEF IdInv, IdsBehindCounters
    <3>2. userId' \in [User -> Int \cup {NoId}]
      <4> DEFINE T == Int \cup {NoId}
      <4>1. userId \in [User -> T] /\ curTempUserId \in T
        BY DEF IdInv, IdsBehindCounters
      <4> HIDE DEF T
      <4>2. userId' \in [User -> T]
        BY <2>1, <4>1
      <4> QED
        BY <4>2 DEF T
    <3>3. ASSUME NEW w \in User, userId'[w] # NoId
          PROVE  IF userId'[w] < 0 THEN userId'[w] > curTempUserId'
                                   ELSE userId'[w] < curUserId'
      <4>1. CASE w = u
        BY <2>1, <3>1, <4>1 DEF IdInv, IdsBehindCounters
      <4>2. CASE w # u
        <5>1. userId'[w] = userId[w] /\ userId[w] \in Int
          BY <3>1, <3>3, <4>2 DEF IdInv, IdsBehindCounters
        <5> QED
          BY <2>1, <3>3, <5>1 DEF IdInv, IdsBehindCounters
      <4> QED
        BY <4>1, <4>2
    <3> QED
      BY <2>1, <3>2, <3>3 DEF IdInv, IdsBehindCounters
  <2>4. IdsUnique'
    BY <2>1, <2>2, LobbyAssumption DEF IdInv, IdsBehindCounters, IdsUnique
  <2> QED
    BY <2>3, <2>4 DEF IdInv
<1>2. ASSUME NEW c \in Call, SetId(c) PROVE IdInv'
  <2> DEFINE u == call[c].sender
  <2>1. /\ userId' = [userId EXCEPT ![u] = curUserId]
        /\ curUserId' = curUserId + 1
        /\ curTempUserId' = curTempUserId
    BY <1>2 DEF SetId
  <2>2. \A w \in User : userId[w] # curUserId
    BY LobbyAssumption DEF IdInv, IdsBehindCounters
  <2> HIDE DEF u
  <2>3. IdsBehindCounters'
    <3>1. \A w \in User : userId'[w] = IF w = u THEN curUserId ELSE userId[w]
      BY <2>1 DEF IdInv, IdsBehindCounters
    <3>2. userId' \in [User -> Int \cup {NoId}]
      <4> DEFINE T == Int \cup {NoId}
      <4>1. userId \in [User -> T] /\ curUserId \in T
        BY DEF IdInv, IdsBehindCounters
      <4> HIDE DEF T
      <4>2. userId' \in [User -> T]
        BY <2>1, <4>1
      <4> QED
        BY <4>2 DEF T
    <3>3. ASSUME NEW w \in User, userId'[w] # NoId
          PROVE  IF userId'[w] < 0 THEN userId'[w] > curTempUserId'
                                   ELSE userId'[w] < curUserId'
      <4>1. CASE w = u
        BY <2>1, <3>1, <4>1 DEF IdInv, IdsBehindCounters
      <4>2. CASE w # u
        <5>1. userId'[w] = userId[w] /\ userId[w] \in Int
          BY <3>1, <3>3, <4>2 DEF IdInv, IdsBehindCounters
        <5> QED
          BY <2>1, <3>3, <5>1 DEF IdInv, IdsBehindCounters
      <4> QED
        BY <4>1, <4>2
    <3> QED
      BY <2>1, <3>2, <3>3 DEF IdInv, IdsBehindCounters
  <2>4. IdsUnique'
    BY <2>1, <2>2, LobbyAssumption DEF IdInv, IdsBehindCounters, IdsUnique
  <2> QED
    BY <2>3, <2>4 DEF IdInv
<1>3. CASE UNCHANGED ids
  BY <1>3 DEF ids, IdInv, IdsBehindCounters, IdsUnique
<1> QED
  BY IdsFrame, <1>1, <1>2, <1>3

\* No two sessions ever share an id, whatever order their callbacks run in.
THEOREM IdsUniqueAlways == Spec => []IdsUnique
<1>1. IdInv => IdsUnique
  BY DEF IdInv
<1> QED
  BY IdInvInit, IdInvStep, <1>1, PTL DEF Spec
-----------------------------------------------------------------------------
\* Types, together with what the connector and the registry rely on.

Connected == {u \in User : socket[u] # "none"}

\* The second-password checks that may yet take a permanent id.
Checking == {c \in Call : call[c].op = "Auth_2nd_Check" /\ pc[c] # "leave"}

\* Ids are handed out to users that connect; the registry knows no others.
Named == \A u \in User : u \in Connected <=> userId[u] # NoId

Entries == \A i \in Id : /\ usersByUserId[i] \in Connected \cup {NoUser}
                         /\ autorizedUsersByUserId[i] \in Connected \cup {NoUser}

\* A caller belongs to a user that has connected, and is within a callback only while
\* it runs.
Callers ==
  \A c \in Call :
    /\ call[c].phase = "free" => call[c] = DB!FreeCall
    /\ call[c].phase # "free" => call[c].sender \in Connected
    /\ pc[c] # "entry" => call[c].phase = "running"
    /\ pc[c] \in {"setId", "leave"} => call[c].op = "Auth_2nd_Check"

\* The counters stay within the ids there are.
Bounds == /\ curTempUserId = 0 - 1 - Cardinality(Connected)
          /\ curUserId + Cardinality(Checking) <= MaxUserId + 1

TypeInv == TypeOK /\ IdInv /\ Named /\ Entries /\ Callers /\ Bounds


LEMMA Ids == /\ Id \subseteq Int /\ 0 \in Id /\ NoId \notin Id
             /\ TempId \cup UserId = Id /\ TempId \cap UserId = {}
             /\ IsFiniteSet(User) /\ Cardinality(User) \in Nat
<1>1. Cardinality(User) \in Nat
  BY LobbyAssumption, FS_CardinalityType
<1>2. \A i \in TempId : i \in Int /\ i < 0
  BY <1>1 DEF TempId
<1>3. \A i \in UserId : i \in Int /\ i >= 0
  BY LobbyAssumption DEF UserId
<1>4. 0 \in UserId
  BY LobbyAssumption DEF UserId
<1>5. Id \subseteq Int
  BY <1>2, <1>3 DEF Id
<1>6. TempId \cap UserId = {}
  <2>1. ASSUME NEW i \in TempId, i \in UserId PROVE FALSE
    BY <1>2, <1>3, <2>1
  <2> QED
    BY <2>1
<1> QED
  BY <1>1, <1>4, <1>5, <1>6, LobbyAssumption DEF Id

LEMMA Counted ==
  /\ IsFiniteSet(Connected) /\ Cardinality(Connected) \in Nat
  /\ IsFiniteSet(Checking) /\ Cardinality(Checking) \in Nat
<1>1. Connected \subseteq User /\ Checking \subseteq Call
  BY DEF Connected, Checking
<1> QED
  BY <1>1, LobbyAssumption, FS_Subset, FS_CardinalityType

\* The id a new user gets is one of the temporary ids, and nobody has it.
LEMMA NewTempId ==
  ASSUME TypeInv, NEW u \in User, socket[u] = "none"
  PROVE  /\ curTempUserId \in TempId
         /\ \A w \in User : userId[w] # curTempUserId
<1>1. Cardinality(Connected) + 1 <= Cardinality(User)
  <2>1. u \notin Connected /\ Connected \cup {u} \subseteq User
    BY DEF Connected
  <2>2. Cardinality(Connected \cup {u}) = Cardinality(Connected) + 1
    BY <2>1, Counted, FS_AddElement
  <2> QED
    BY <2>1, <2>2, LobbyAssumption, FS_Subset
<1>2. curTempUserId \in TempId
  <2> DEFINE n == 1 + Cardinality(Connected)
  <2>1. curTempUserId = 0 - n /\ n \in 1 .. Cardinality(User)
    BY <1>1, Counted, Ids DEF TypeInv, Bounds
  <2> QED
    BY <2>1 DEF TempId
<1> QED
  BY <1>2, LobbyAssumption DEF TypeInv, IdInv, IdsBehindCounters

\* And so is the id of a check that has not taken it, among the permanent ones.
LEMMA IdLeft ==
  ASSUME TypeInv, Checking # {}
  PROVE  curUserId \in UserId /\ \A w \in User : userId[w] # curUserId
<1>1. Cardinality(Checking) >= 1
  BY Counted, FS_EmptySet
<1>2. curUserId \in UserId
  BY <1>1, Counted, LobbyAssumption DEF TypeInv, TypeOK, Bounds, UserId
<1> QED
  BY <1>2, LobbyAssumption DEF TypeInv, IdInv, IdsBehindCounters

LEMMA NewUserId ==
  ASSUME TypeInv, NEW c \in Call, pc[c] = "setId"
  PROVE  /\ curUserId \in UserId
         /\ \A w \in User : userId[w] # curUserId
         /\ call[c].phase = "running" /\ call[c].sender \in Connected /\ c \in Checking
<1>1. /\ c \in Checking /\ call[c].phase = "running" /\ call[c].sender \in Connected
  BY DEF TypeInv, Callers, Checking
<1> QED
  BY <1>1, IdLeft

\* Every step of the lobby is a step of the connector or none.
LEMMA ConnectorStep == ASSUME TypeInv, [Next]_vars PROVE [DB!Next]_(DB!vars)
<1>1. ASSUME NEW u \in User, MakeUser(u) PROVE DB!Next
  <2>1. DB!SetSerial(u, curTempUserId)
    BY <1>1, NewTempId DEF MakeUser, DB!SetSerial, connector
  <2> QED
    BY <1>1, <2>1, NewTempId DEF DB!Next, Id, MakeUser
<1>2. ASSUME NEW c \in Call, SetId(c) PROVE DB!Next
  <2>1. curUserId \in Id /\ call[c].sender \in User /\ \A w \in User : userId[w] # curUserId
    BY <1>2, NewUserId DEF SetId, Id, Connected
  <2>2. DB!SetSerial(call[c].sender, curUserId)
    BY <1>2, <2>1 DEF SetId, DB!SetSerial, connector
  <2> QED
    BY <2>1, <2>2 DEF DB!Next
<1>3. ASSUME NEW u \in User, NEW c \in Call,
             CheckSecondPassword(u, c) \/ \E a \in Account : Auth(u, a, c)
      PROVE  DB!Next
  <2>1. \E o \in Op : DB!Make(c, u, o, TRUE, TRUE)
    BY <1>3 DEF CheckSecondPassword, Auth, Op
  <2> QED
    BY <2>1 DEF DB!Next
<1>4. ASSUME IoSubmit PROVE DB!Next
  <2>1. io \in Call /\ DB!Submit(io)
    BY <1>4 DEF IoSubmit, TypeInv, TypeOK
  <2> QED
    BY <2>1 DEF DB!Next
<1>5. ASSUME NEW c \in Call, Answer(c) PROVE DB!Next
  <2>1. \E r \in Reply : DB!Respond(c, r)
    BY <1>5 DEF Answer, ReplyTo, Reply
  <2> QED
    BY <2>1 DEF DB!Next
<1>6. ASSUME NEW c \in Call, Dispatch(c) PROVE DB!Next
  BY <1>6 DEF Dispatch, DB!Next
<1>7. ASSUME NEW c \in Call, Callback(c), ~SetId(c) PROVE DB!Next \/ UNCHANGED DB!vars
  <2>1. ASSUME Ends(c) PROVE DB!Next
    BY <2>1 DEF Ends, DB!Next
  <2>2. ASSUME WantsRemoval(c) PROVE UNCHANGED DB!vars
    BY <2>2 DEF WantsRemoval, DB!vars, connector, session
  <2>3. ASSUME NEW o \in Op, NEW d \in BOOLEAN, FollowUp(c, o, d) PROVE DB!Next
    BY <2>3 DEF FollowUp, DB!Next
  <2>4. CASE Authorize(c) \/ CharacterListed(c)
    BY <2>4, <2>1, <2>2, <2>3 DEF Authorize, CharacterListed, Op
  <2>5. CASE TerminateUnderLock(c) \/ SecondPasswordFailed(c) \/ SecondPasswordChecked(c)
    <3>1. DB!Return(c)
      BY <2>5 DEF TerminateUnderLock, SecondPasswordFailed, SecondPasswordChecked
    <3> QED
      BY <3>1 DEF DB!Next
  <2>6. CASE KeyLoaded(c) \/ SecondPasswordRefused(c)
    BY <2>6, <2>1 DEF KeyLoaded, SecondPasswordRefused
  <2>7. CASE AuthenticateUser(c)
    BY <2>7 DEF AuthenticateUser, DB!vars, connector, session
  <2> QED
    BY <1>7, <2>4, <2>5, <2>6, <2>7 DEF Callback
<1>8. ASSUME NEW u \in User, PeerCloses(u) \/ Head(u) PROVE UNCHANGED DB!vars
  BY <1>8 DEF PeerCloses, Head, DB!vars, connector
<1>9. CASE Pass
  <2>1. ASSUME NEW u, NEW i, Ping(u, i) \/ Evict(u, i) PROVE UNCHANGED DB!vars
    BY <2>1 DEF Ping, Evict, DB!vars, connector
  <2>2. ASSUME Visit PROVE UNCHANGED DB!vars
    BY <2>1, <2>2 DEF Visit
  <2>3. ASSUME WakeUp \/ BeginPass \/ NextLoop \/ GoToSleep PROVE UNCHANGED DB!vars
    BY <2>3 DEF WakeUp, BeginPass, NextLoop, GoToSleep, DB!vars, connector, session
  <2> QED
    BY <1>9, <2>2, <2>3 DEF Pass
<1>10. CASE UNCHANGED vars
  BY <1>10 DEF vars, DB!vars, connector, session
<1> QED
  BY <1>1, <1>2, <1>3, <1>4, <1>5, <1>6, <1>7, <1>8, <1>9, <1>10 DEF Next, Io

\* So the connector's state keeps its types.
LEMMA CallerTypes ==
  /\ DB!FreeCall \in DB!Caller
  /\ \A k \in DB!Caller : /\ k.sender \in User \cup {NoUser} /\ k.serial \in Id
                          /\ [k EXCEPT !.phase = "sent"] \in DB!Caller
                          /\ [k EXCEPT !.phase = "running"] \in DB!Caller
                          /\ \A r \in Reply :
                               [k EXCEPT !.phase = "answered", !.reply = r] \in DB!Caller
BY Ids DEF DB!FreeCall, DB!Caller, DB!Phase

LEMMA NewCallType ==
  ASSUME DB!TypeOK, NEW u \in User \cup {NoUser}, NEW o \in Op, NEW d \in BOOLEAN,
         NEW x \in BOOLEAN, DB!CurrentSerial(u) # NoId
  PROVE  DB!NewCall(u, o, d, x) \in DB!Caller
<1>1. DB!CurrentSerial(u) \in Id
  BY Ids DEF DB!TypeOK, DB!CurrentSerial
<1> QED
  BY <1>1 DEF DB!NewCall, DB!Caller, DB!Phase

LEMMA EnterType ==
  ASSUME DB!TypeOK, NEW c \in Call, NEW k \in DB!Caller, DB!Enter(c, k),
         UNCHANGED <<ready, userId>>
  PROVE  DB!TypeOK'
<1>1. call' \in [Call -> DB!Caller]
  BY CallerTypes DEF DB!TypeOK, DB!Enter
<1>2. ref' \in [Id -> Nat]
  <2>1. k.serial \in Id /\ ref \in [Id -> Nat]
    BY CallerTypes DEF DB!TypeOK
  <2>2. ref[k.serial] + 1 \in Nat
    BY <2>1
  <2> QED
    BY <2>1, <2>2 DEF DB!Enter
<1> QED
  BY <1>1, <1>2 DEF DB!TypeOK

LEMMA ConnectorType == ASSUME DB!TypeOK, [DB!Next]_(DB!vars) PROVE DB!TypeOK'
<1>c. \A c \in Call : call[c] \in DB!Caller
  BY DEF DB!TypeOK
<1>1. CASE DB!Initialize
  BY <1>1 DEF DB!Initialize, DB!TypeOK
<1>2. ASSUME NEW u \in User, NEW v \in Id, DB!SetSerial(u, v) PROVE DB!TypeOK'
  BY <1>2 DEF DB!SetSerial, DB!TypeOK
<1>3. ASSUME NEW c \in Call, NEW u \in User \cup {NoUser}, NEW o \in Op,
             NEW d \in BOOLEAN, NEW x \in BOOLEAN, DB!Make(c, u, o, d, x)
      PROVE  DB!TypeOK'
  <2>1. DB!NewCall(u, o, d, x) \in DB!Caller
    BY <1>3, NewCallType DEF DB!Make
  <2> QED
    BY <1>3, <2>1 DEF DB!Make, DB!TypeOK
<1>4. ASSUME NEW c \in Call, DB!Submit(c) PROVE DB!TypeOK'
  BY <1>4, <1>c, EnterType DEF DB!Submit
<1>5. ASSUME NEW c \in Call, NEW r \in Reply, DB!Respond(c, r) PROVE DB!TypeOK'
  <2> DEFINE v == call[c].serial
             k == [call[c] EXCEPT !.phase = "answered", !.reply = r]
  <2>1. v \in Id /\ ref[v] \in Nat /\ k \in DB!Caller
    BY <1>c, CallerTypes DEF DB!TypeOK
  <2>2. CASE ref[v] > 0
    <3>1. call' = [call EXCEPT ![c] = k]
      BY <1>5, <2>2 DEF DB!Respond, DB!TypeOK
    <3> HIDE DEF k
    <3>2. call' \in [Call -> DB!Caller]
      BY <2>1, <3>1 DEF DB!TypeOK
    <3>3. ref' \in [Id -> Nat]
      BY <1>5, <2>1, <2>2 DEF DB!Respond, DB!TypeOK
    <3> QED
      BY <1>5, <3>2, <3>3 DEF DB!Respond, DB!TypeOK
  <2>3. CASE ~(ref[v] > 0)
    BY <1>5, <2>3, CallerTypes DEF DB!Respond, DB!TypeOK
  <2> QED
    BY <2>2, <2>3
<1>6. ASSUME NEW c \in Call, DB!Dispatch(c) PROVE DB!TypeOK'
  <2>1. call' \in [Call -> DB!Caller]
    BY <1>c, <1>6, CallerTypes DEF DB!Dispatch, DB!TypeOK
  <2> QED
    BY <1>6, <2>1 DEF DB!Dispatch, DB!TypeOK
<1>7. ASSUME NEW c \in Call, DB!Return(c) PROVE DB!TypeOK'
  BY <1>7, CallerTypes DEF DB!Return, DB!TypeOK
<1>8. ASSUME NEW c \in Call, NEW o \in Op, NEW d \in BOOLEAN, DB!Chain(c, o, d)
      PROVE  DB!TypeOK'
  <2>1. DB!NewCall(call[c].sender, o, d, TRUE) \in DB!Caller
    BY <1>c, <1>8, CallerTypes, NewCallType DEF DB!Chain
  <2> QED
    BY <1>8, <2>1, EnterType DEF DB!Chain
<1>9. CASE UNCHANGED DB!vars
  BY <1>9 DEF DB!vars, DB!TypeOK
<1> QED
  BY <1>1, <1>2, <1>3, <1>4, <1>5, <1>6, <1>7, <1>8, <1>9 DEF DB!Next

\* The keep-alive thread is within the critical section of a pass.
InPass == keepAlive.at \in {"authorized", "temporary"}

\* The types of the lobby's own state.
OwnTypes ==
  /\ request \in [Call -> Account \cup {NoName}]
  /\ usersByUserId \in [Id -> User \cup {NoUser}]
  /\ autorizedUsersByUserId \in [Id -> User \cup {NoUser}]
  /\ curTempUserId \in TempId \cup {0 - Cardinality(User) - 1}
  /\ curUserId \in Nat
  /\ socket \in [User -> {"none", "open", "lost", "closed"}]
  /\ accountName \in [User -> Account \cup {NoName}]
  /\ isAuthenticated \in [User -> BOOLEAN]
  /\ waitingOnAlivePing \in [User -> BOOLEAN]
  /\ usersMutex \in Call \cup {KeepAlive, Nobody}
  /\ mtx \in [User -> Call \cup {Nobody}]
  /\ pc \in [Call -> {"entry", "terminate", "setId", "leave"}]
  /\ io \in Call \cup {Nobody}
  /\ keepAlive \in [at : {"asleep", "awake", "authorized", "temporary"}, todo : SUBSET Id]
  /\ lost \subseteq User
  /\ up \in BOOLEAN

LEMMA Types == TypeOK <=> DB!TypeOK /\ OwnTypes
BY DEF TypeOK, OwnTypes

\* Removing a user closes one session, and erases one entry of that session's.
LEMMA Removal ==
  ASSUME OwnTypes, Entries, NEW u, RemoveUser(u)
  PROVE  /\ socket' \in [User -> {"none", "open", "lost", "closed"}]
         /\ autorizedUsersByUserId' \in [Id -> User \cup {NoUser}]
         /\ Connected' = Connected
         /\ \A w \in User : socket'[w] = socket[w] \/ socket'[w] = "closed"
         /\ \A i \in Id : \/ autorizedUsersByUserId'[i] = autorizedUsersByUserId[i]
                          \/ /\ autorizedUsersByUserId'[i] = NoUser
                             /\ autorizedUsersByUserId[i] \in User
                             /\ socket'[autorizedUsersByUserId[i]] = "closed"
<1>1. CASE UNCHANGED <<socket, autorizedUsersByUserId>>
  BY <1>1 DEF OwnTypes, Connected
<1>2. ASSUME NEW j \in Matching(u), RemoveEntry(j)
      PROVE  /\ socket' \in [User -> {"none", "open", "lost", "closed"}]
             /\ autorizedUsersByUserId' \in [Id -> User \cup {NoUser}]
             /\ Connected' = Connected
             /\ \A w \in User : socket'[w] = socket[w] \/ socket'[w] = "closed"
             /\ \A i \in Id : \/ autorizedUsersByUserId'[i] = autorizedUsersByUserId[i]
                              \/ /\ autorizedUsersByUserId'[i] = NoUser
                                 /\ autorizedUsersByUserId[i] \in User
                                 /\ socket'[autorizedUsersByUserId[i]] = "closed"
  <2> DEFINE x == autorizedUsersByUserId[j]
  <2>1. j \in Id /\ x \in Connected /\ x \in User /\ socket[x] # "none"
    BY DEF Matching, Entries, Connected
  <2>2. \A w \in User : socket'[w] = IF w = x THEN "closed" ELSE socket[w]
    BY <1>2, <2>1 DEF RemoveEntry, OwnTypes
  <2>3. \A i \in Id : autorizedUsersByUserId'[i] =
                        IF i = j THEN NoUser ELSE autorizedUsersByUserId[i]
    BY <1>2, <2>1 DEF RemoveEntry, OwnTypes
  <2>4. socket' \in [User -> {"none", "open", "lost", "closed"}]
    BY <1>2, <2>1 DEF RemoveEntry, OwnTypes
  <2>5. autorizedUsersByUserId' \in [Id -> User \cup {NoUser}]
    BY <1>2, <2>1 DEF RemoveEntry, OwnTypes
  <2>6. Connected' = Connected
    BY <2>1, <2>2 DEF Connected
  <2> QED
    BY <2>1, <2>2, <2>3, <2>4, <2>5, <2>6
<1> QED
  BY <1>1, <1>2 DEF RemoveUser

LEMMA OwnTypesStep == ASSUME TypeInv, [Next]_vars PROVE OwnTypes'
<1>o. OwnTypes /\ Entries
  BY Types DEF TypeInv
<1>1. ASSUME NEW u \in User, MakeUser(u) PROVE OwnTypes'
  <2>1. curTempUserId \in TempId /\ curTempUserId \in Id
    BY <1>1, NewTempId DEF MakeUser, Id
  <2>2. curTempUserId' \in TempId \cup {0 - Cardinality(User) - 1}
    <3>1. PICK n \in 1 .. Cardinality(User) : curTempUserId = 0 - n
      BY <2>1 DEF TempId
    <3>2. curTempUserId' = 0 - (n + 1)
      BY <1>1, <3>1, Ids DEF MakeUser, NextTempUserId
    <3>3. CASE n = Cardinality(User)
      BY <3>2, <3>3, Ids
    <3>4. CASE n # Cardinality(User)
      <4>1. n + 1 \in 1 .. Cardinality(User)
        BY <3>4, Ids
      <4> QED
        BY <3>2, <4>1 DEF TempId
    <3> QED
      BY <3>3, <3>4
  <2>3. /\ usersByUserId' \in [Id -> User \cup {NoUser}]
        /\ lost' \subseteq User
    BY <1>o, <1>1, <2>1 DEF MakeUser, OwnTypes
  <2>4. /\ socket' \in [User -> {"none", "open", "lost", "closed"}]
        /\ isAuthenticated' \in [User -> BOOLEAN] /\ waitingOnAlivePing' \in [User -> BOOLEAN]
        /\ up' \in BOOLEAN
    BY <1>o, <1>1 DEF MakeUser, OwnTypes
  <2>5. UNCHANGED <<request, autorizedUsersByUserId, curUserId, accountName, usersMutex, mtx,
                    pc, io, keepAlive>>
    BY <1>1 DEF MakeUser, threads
  <2> QED
    BY <1>o, <2>2, <2>3, <2>4, <2>5 DEF OwnTypes
<1>2. ASSUME NEW u \in User, PeerCloses(u) \/ Head(u) PROVE OwnTypes'
  BY <1>o, <1>2 DEF PeerCloses, Head, OwnTypes, registry, threads
<1>3. ASSUME NEW u \in User, NEW c \in Call,
             CheckSecondPassword(u, c) \/ \E a \in Account : Auth(u, a, c)
      PROVE  OwnTypes'
  <2>1. CASE CheckSecondPassword(u, c)
    BY <1>o, <2>1 DEF CheckSecondPassword, OwnTypes, registry
  <2>2. ASSUME NEW a \in Account, Auth(u, a, c) PROVE OwnTypes'
    BY <1>o, <2>2 DEF Auth, OwnTypes, registry
  <2> QED
    BY <1>3, <2>1, <2>2
<1>4. CASE IoSubmit
  BY <1>o, <1>4 DEF IoSubmit, OwnTypes, registry
<1>5. ASSUME NEW c \in Call, Answer(c) \/ Dispatch(c) PROVE OwnTypes'
  BY <1>o, <1>5 DEF Answer, Dispatch, OwnTypes, registry, threads
<1>6. ASSUME NEW c \in Call, Callback(c) PROVE OwnTypes'
  <2>0. call[c].phase # "free" => call[c].sender \in User
    BY DEF TypeInv, Callers, Connected
  <2>1. ASSUME Ends(c) PROVE OwnTypes'
    BY <1>o, <2>1 DEF Ends, OwnTypes, registry, threads
  <2>2. ASSUME WantsRemoval(c) PROVE OwnTypes'
    BY <1>o, <2>2 DEF WantsRemoval, OwnTypes, registry, session
  <2>3. ASSUME NEW o, NEW d, FollowUp(c, o, d) PROVE OwnTypes'
    BY <1>o, <2>0, <2>3 DEF FollowUp, DB!Chain, OwnTypes, registry, threads
  <2>4. CASE Authorize(c) \/ CharacterListed(c)
    BY <2>4, <2>1, <2>2, <2>3 DEF Authorize, CharacterListed
  <2>5. CASE TerminateUnderLock(c)
    BY <1>o, <2>5, Removal DEF TerminateUnderLock, OwnTypes
  <2>6. CASE SecondPasswordFailed(c)
    BY <1>o, <2>6, Removal DEF SecondPasswordFailed, OwnTypes, threads
  <2>7. CASE KeyLoaded(c) \/ SecondPasswordRefused(c)
    BY <2>7, <2>1 DEF KeyLoaded, SecondPasswordRefused
  <2>8. CASE AuthenticateUser(c)
    BY <1>o, <2>0, <2>8 DEF AuthenticateUser, In, MoveUser, OwnTypes, session
  <2>9. CASE SetId(c)
    <3>1. curUserId' \in Nat
      BY <1>o, <2>9 DEF SetId, OwnTypes
    <3>2. /\ isAuthenticated' \in [User -> BOOLEAN]
          /\ pc' \in [Call -> {"entry", "terminate", "setId", "leave"}]
          /\ usersMutex' = Nobody
          /\ UNCHANGED <<request, usersByUserId, autorizedUsersByUserId, curTempUserId,
                         lost, socket, accountName, waitingOnAlivePing, mtx, io, keepAlive,
                         up>>
      BY <1>o, <2>9 DEF SetId, OwnTypes
    <3> QED
      BY <1>o, <3>1, <3>2 DEF OwnTypes
  <2>10. CASE SecondPasswordChecked(c)
    BY <1>o, <2>10 DEF SecondPasswordChecked, OwnTypes, registry
  <2> QED
    BY <1>6, <2>4, <2>5, <2>6, <2>7, <2>8, <2>9, <2>10 DEF Callback
<1>7. CASE Pass
  <2>1. ASSUME NEW u, NEW i, Ping(u, i) PROVE OwnTypes'
    BY <1>o, <2>1 DEF Ping, OwnTypes, registry
  <2>2. ASSUME NEW u, NEW i, Evict(u, i) PROVE OwnTypes'
    <3>1. /\ socket' \in [User -> {"none", "open", "lost", "closed"}]
          /\ autorizedUsersByUserId' \in [Id -> User \cup {NoUser}]
      BY <1>o, <2>2, Removal DEF Evict
    <3> QED
      BY <1>o, <2>2, <3>1 DEF Evict, OwnTypes
  <2>3. CASE Visit
    BY <2>1, <2>2, <2>3 DEF Visit
  <2>4. CASE WakeUp \/ BeginPass \/ NextLoop \/ GoToSleep
    BY <1>o, <2>4 DEF WakeUp, BeginPass, NextLoop, GoToSleep, Registered, OwnTypes, registry, session
  <2> QED
    BY <1>7, <2>3, <2>4 DEF Pass
<1>8. CASE UNCHANGED vars
  BY <1>o, <1>8 DEF vars, OwnTypes, registry, session, threads
<1> QED
  BY <1>1, <1>2, <1>3, <1>4, <1>5, <1>6, <1>7, <1>8 DEF Next, Io

\* The maps of the registry change where a user is made, moved or removed.
LEMMA RegistryFrame ==
  ASSUME [Next]_vars
  PROVE  \/ \E u \in User : MakeUser(u)
         \/ \E c \in Call : AuthenticateUser(c)
         \/ /\ \/ \E c \in Call : TerminateUnderLock(c) \/ SecondPasswordFailed(c)
               \/ \E u, i : Evict(u, i) /\ InPass
            /\ \E u : RemoveUser(u)
            /\ UNCHANGED <<usersByUserId, lost, userId>>
         \/ UNCHANGED <<usersByUserId, autorizedUsersByUserId, lost, socket>>
         \/ /\ UNCHANGED <<usersByUserId, autorizedUsersByUserId, lost>>
            /\ \E u \in User : PeerCloses(u)
<1> DEFINE maps == <<usersByUserId, autorizedUsersByUserId, lost, socket>>
<1>1. ASSUME NEW u \in User, PeerCloses(u)
      PROVE  UNCHANGED <<usersByUserId, autorizedUsersByUserId, lost>>
  BY <1>1 DEF PeerCloses, registry
<1>2. ASSUME NEW u \in User, Head(u) PROVE UNCHANGED maps
  BY <1>2 DEF Head, registry
<1>3. ASSUME NEW u \in User, NEW c \in Call,
             CheckSecondPassword(u, c) \/ \E a \in Account : Auth(u, a, c)
      PROVE  UNCHANGED maps
  BY <1>3 DEF CheckSecondPassword, Auth, registry
<1>4. ASSUME IoSubmit PROVE UNCHANGED maps
  BY <1>4 DEF IoSubmit, registry
<1>5. ASSUME NEW c \in Call, Answer(c) \/ Dispatch(c) PROVE UNCHANGED maps
  BY <1>5 DEF Answer, Dispatch, registry
<1>6. ASSUME NEW c \in Call, Authorize(c) \/ CharacterListed(c) \/ KeyLoaded(c)
                             \/ SecondPasswordRefused(c) \/ SetId(c) \/ SecondPasswordChecked(c)
      PROVE  UNCHANGED maps
  BY <1>6 DEF Authorize, CharacterListed, KeyLoaded, SecondPasswordRefused, Ends,
              WantsRemoval, FollowUp, SetId, SecondPasswordChecked, registry, session
<1>7. ASSUME NEW c \in Call, TerminateUnderLock(c) \/ SecondPasswordFailed(c)
      PROVE  (\E u : RemoveUser(u)) /\ UNCHANGED <<usersByUserId, lost, userId>>
  BY <1>7 DEF TerminateUnderLock, SecondPasswordFailed, DB!Return
<1>8. ASSUME Visit
      PROVE  \/ /\ \E u, i : Evict(u, i) /\ InPass
                /\ \E u : RemoveUser(u)
                /\ UNCHANGED <<usersByUserId, lost, userId>>
             \/ UNCHANGED maps
  <2>1. PICK u, i : Ping(u, i) \/ Evict(u, i)
    BY <1>8 DEF Visit
  <2>2. CASE Ping(u, i)
    BY <2>2 DEF Ping, registry
  <2>3. CASE Evict(u, i)
    <3>1. InPass /\ RemoveUser(u) /\ UNCHANGED <<usersByUserId, lost, userId>>
      BY <1>8, <2>3 DEF Visit, Evict, InPass
    <3> QED
      BY <2>3, <3>1
  <2> QED
    BY <2>1, <2>2, <2>3
<1>9. ASSUME WakeUp \/ BeginPass \/ NextLoop \/ GoToSleep PROVE UNCHANGED maps
  BY <1>9 DEF WakeUp, BeginPass, NextLoop, GoToSleep, registry, session
<1>10. ASSUME UNCHANGED vars PROVE UNCHANGED maps
  BY <1>10 DEF vars, registry, session
<1> HIDE DEF maps
<1>11. UNCHANGED maps => UNCHANGED <<usersByUserId, autorizedUsersByUserId, lost, socket>>
  BY DEF maps
<1> QED
  BY <1>1, <1>2, <1>3, <1>4, <1>5, <1>6, <1>7, <1>8, <1>9, <1>10, <1>11
  DEF Next, Io, Callback, Pass

\* Only a connection makes a user connected, and no user ever ceases to be.
LEMMA ConnectedStep ==
  ASSUME TypeInv, [Next]_vars
  PROVE  Connected' = Connected \/ \E u \in User : MakeUser(u)
<1>o. OwnTypes /\ Entries
  BY Types DEF TypeInv
<1>1. CASE UNCHANGED socket
  BY <1>1 DEF Connected
<1>2. ASSUME NEW u \in User, PeerCloses(u) PROVE Connected' = Connected
  BY <1>o, <1>2 DEF PeerCloses, Connected, OwnTypes
<1>3. ASSUME NEW c \in Call, AuthenticateUser(c) PROVE UNCHANGED socket
  BY <1>3 DEF AuthenticateUser, session
<1>4. ASSUME NEW u, RemoveUser(u) PROVE Connected' = Connected
  BY <1>o, <1>4, Removal
<1> QED
  BY <1>1, <1>2, <1>3, <1>4, RegistryFrame

LEMMA NamedStep == ASSUME TypeInv, [Next]_vars PROVE Named'
<1>o. OwnTypes /\ Named /\ userId \in [User -> Int \cup {NoId}]
  BY Types DEF TypeInv, IdInv, IdsBehindCounters
<1>1. ASSUME NEW u \in User, MakeUser(u) PROVE Named'
  <2>1. curTempUserId # NoId
    BY <1>1, NewTempId, Ids DEF MakeUser
  <2>2. \A w \in User : /\ userId'[w] = IF w = u THEN curTempUserId ELSE userId[w]
                        /\ socket'[w] = IF w = u THEN "open" ELSE socket[w]
    BY <1>o, <1>1 DEF MakeUser, OwnTypes
  <2> QED
    BY <1>o, <2>1, <2>2 DEF Named, Connected
<1>2. ASSUME NEW c \in Call, SetId(c) PROVE Named'
  <2>1. curUserId # NoId /\ call[c].sender \in Connected
    BY <1>2, NewUserId, Ids DEF SetId
  <2>2. \A w \in User : /\ userId'[w] = IF w = call[c].sender THEN curUserId ELSE userId[w]
                        /\ socket'[w] = socket[w]
    BY <1>o, <1>2 DEF SetId
  <2> QED
    BY <1>o, <2>1, <2>2 DEF Named, Connected
<1>3. ASSUME UNCHANGED ids, Connected' = Connected PROVE Named'
  BY <1>o, <1>3 DEF Named, ids
<1>4. CASE Connected' = Connected /\ ~\E c \in Call : SetId(c)
  <2>1. UNCHANGED ids \/ \E u \in User : MakeUser(u)
    BY <1>4, IdsFrame
  <2> QED
    BY <1>1, <1>3, <1>4, <2>1
<1> QED
  BY <1>1, <1>2, <1>4, ConnectedStep

\* Entries are made of connected users, and of users with a request under way.
LEMMA EntriesStep == ASSUME TypeInv, [Next]_vars PROVE Entries'
<1>o. OwnTypes /\ Entries /\ Callers
  BY Types DEF TypeInv
<1>1. ASSUME NEW u \in User, MakeUser(u) PROVE Entries'
  <2>1. Connected' = Connected \cup {u}
    BY <1>o, <1>1 DEF MakeUser, Connected, OwnTypes
  <2>2. autorizedUsersByUserId' = autorizedUsersByUserId
        /\ \A i \in Id : usersByUserId'[i] = usersByUserId[i] \/ usersByUserId'[i] = u
    BY <1>o, <1>1 DEF MakeUser, OwnTypes
  <2> QED
    BY <1>o, <2>1, <2>2 DEF Entries
<1>2. ASSUME Connected' = Connected,
             \A i \in Id : /\ usersByUserId'[i] \in {usersByUserId[i], NoUser} \cup Connected
                           /\ autorizedUsersByUserId'[i] \in
                                {autorizedUsersByUserId[i], NoUser} \cup Connected
      PROVE  Entries'
  BY <1>o, <1>2 DEF Entries
<1>3. ASSUME NEW c \in Call, AuthenticateUser(c)
      PROVE  \A i \in Id : /\ usersByUserId'[i] \in {usersByUserId[i], NoUser} \cup Connected
                           /\ autorizedUsersByUserId'[i] \in
                                {autorizedUsersByUserId[i], NoUser} \cup Connected
  <2>1. call[c].sender \in Connected
    BY <1>o, <1>3 DEF AuthenticateUser, In, Callers
  <2> QED
    BY <1>o, <1>3, <2>1 DEF AuthenticateUser, MoveUser, OwnTypes
<1>4. ASSUME NEW u, RemoveUser(u), UNCHANGED usersByUserId
      PROVE  \A i \in Id : /\ usersByUserId'[i] \in {usersByUserId[i], NoUser} \cup Connected
                           /\ autorizedUsersByUserId'[i] \in
                                {autorizedUsersByUserId[i], NoUser} \cup Connected
  BY <1>o, <1>4, Removal
<1>5. \/ \E u \in User : MakeUser(u)
      \/ \E c \in Call : AuthenticateUser(c)
      \/ (\E u : RemoveUser(u)) /\ UNCHANGED usersByUserId
      \/ UNCHANGED <<usersByUserId, autorizedUsersByUserId>>
  BY RegistryFrame
<1> QED
  BY <1>1, <1>2, <1>3, <1>4, <1>5, ConnectedStep

\* What a step does to the callers: nothing, or it moves one caller on.  A new one is
\* made for a connected user; a request that follows up is no second-password check.
Moved(c, k, p) == /\ call' = [call EXCEPT ![c] = k]
                  /\ pc' = [pc EXCEPT ![c] = p]

CallerOk(k, p) == /\ k.phase = "free" => k = DB!FreeCall
                  /\ k.phase # "free" => k.sender \in Connected
                  /\ p # "entry" => k.phase = "running"
                  /\ p \in {"setId", "leave"} => k.op = "Auth_2nd_Check"

\* A step other than SetId takes the caller c to k and p, and makes no further check of
\* the second password.
Proceeds(c, k, p) ==
  /\ Moved(c, k, p) /\ CallerOk(k, p)
  /\ k.op = "Auth_2nd_Check" /\ p # "leave" => c \in Checking
  /\ pc[c] # "setId" /\ (p = "setId" => AuthenticateUser(c))
  /\ UNCHANGED curUserId

LEMMA Same == ASSUME OwnTypes, DB!TypeOK, NEW c \in Call
              PROVE  /\ UNCHANGED call => call' = [call EXCEPT ![c] = call[c]]
                     /\ UNCHANGED pc => pc' = [pc EXCEPT ![c] = pc[c]]
BY DEF OwnTypes, DB!TypeOK

\* Entering the connector, a caller is sent or gone.
LEMMA Entering ==
  ASSUME OwnTypes, DB!TypeOK, NEW c \in Call, NEW k, DB!Enter(c, k), k.sender \in Connected,
         k \in DB!Caller, pc[c] = "entry", UNCHANGED <<pc, curUserId>>,
         k.op = "Auth_2nd_Check" => c \in Checking
  PROVE  \E n : Proceeds(c, n, "entry")
<1> DEFINE s == [k EXCEPT !.phase = "sent"]
<1>1. CallerOk(s, "entry") /\ s.op = k.op
  BY DEF CallerOk, DB!Caller
<1>2. CallerOk(DB!FreeCall, "entry") /\ DB!FreeCall.op # "Auth_2nd_Check"
  BY DEF CallerOk, DB!FreeCall, NoOp
<1>3. call' = [call EXCEPT ![c] = s] \/ call' = [call EXCEPT ![c] = DB!FreeCall]
  BY DEF DB!Enter
<1>4. pc' = [pc EXCEPT ![c] = "entry"]
  BY Same
<1> HIDE DEF s
<1> QED
  BY <1>1, <1>2, <1>3, <1>4 DEF Proceeds, Moved

\* A caller whose callback is over, is gone.
LEMMA Returning ==
  ASSUME NEW c \in Call, DB!Return(c), pc' = [pc EXCEPT ![c] = "entry"], UNCHANGED curUserId,
         pc[c] # "setId"
  PROVE  \E n : Proceeds(c, n, "entry")
<1>1. CallerOk(DB!FreeCall, "entry") /\ DB!FreeCall.op # "Auth_2nd_Check"
  BY DEF CallerOk, DB!FreeCall, NoOp
<1> QED
  BY <1>1 DEF DB!Return, Proceeds, Moved

LEMMA CallersFrame ==
  ASSUME TypeInv, [Next]_vars
  PROVE  \/ \E u \in User, c \in Call : CheckSecondPassword(u, c)
         \/ \E c \in Call : SetId(c)
         \/ \E c \in Call : \E n, p : Proceeds(c, n, p)
         \/ UNCHANGED <<call, pc, curUserId>>
<1>o. /\ OwnTypes /\ DB!TypeOK /\ Callers
      /\ \A c \in Call : call[c] \in DB!Caller
  BY Types DEF TypeInv, TypeOK, DB!TypeOK
<1>c. \A c \in Call : CallerOk(call[c], pc[c])
  BY <1>o DEF Callers, CallerOk
<1>1. ASSUME NEW u \in User, MakeUser(u) \/ PeerCloses(u) \/ Head(u)
      PROVE  UNCHANGED <<call, pc, curUserId>>
  BY <1>1 DEF MakeUser, PeerCloses, Head, connector, threads, registry
<1>2. ASSUME NEW u \in User, NEW c \in Call, NEW a \in Account, Auth(u, a, c)
      PROVE  \E n : Proceeds(c, n, "entry")
  <2> DEFINE n == DB!NewCall(u, "Auth_Publisher", TRUE, TRUE)
  <2>1. call[c].phase = "free" /\ call' = [call EXCEPT ![c] = n] /\ UNCHANGED <<pc, curUserId>>
    BY <1>2 DEF Auth, DB!Make, registry
  <2>2. u \in Connected
    BY <1>2 DEF Auth, Receives, Connected
  <2>3. CallerOk(n, "entry") /\ n.op # "Auth_2nd_Check"
    BY <2>2 DEF CallerOk, DB!NewCall
  <2>4. pc' = [pc EXCEPT ![c] = "entry"]
    BY <1>o, <2>1, Same DEF Callers
  <2>5. pc[c] = "entry"
    BY <1>o, <2>1 DEF Callers
  <2> HIDE DEF n
  <2> QED
    BY <2>1, <2>3, <2>4, <2>5 DEF Proceeds, Moved
<1>3. ASSUME IoSubmit PROVE \E c \in Call : \E n : Proceeds(c, n, "entry")
  <2>1. /\ io \in Call /\ call[io].phase = "made" /\ DB!Enter(io, call[io])
        /\ UNCHANGED <<pc, curUserId>>
    BY <1>o, <1>3 DEF IoSubmit, DB!Submit, OwnTypes, registry
  <2>2. call[io].sender \in Connected /\ pc[io] = "entry"
    BY <1>o, <2>1 DEF Callers
  <2>3. call[io].op = "Auth_2nd_Check" => io \in Checking
    BY <2>1, <2>2 DEF Checking
  <2> QED
    BY <1>o, <2>1, <2>2, <2>3, Entering
<1>4. ASSUME NEW c \in Call, Answer(c) PROVE \E n : Proceeds(c, n, "entry")
  <2>1. PICK r \in ReplyTo(call[c].op) : DB!Respond(c, r)
    BY <1>4 DEF Answer
  <2> DEFINE n == [call[c] EXCEPT !.phase = "answered", !.reply = r]
  <2>2. call[c].phase = "sent" /\ UNCHANGED <<pc, curUserId>>
    BY <1>4, <2>1 DEF DB!Respond, Answer, threads, registry
  <2>3. pc[c] = "entry" /\ call[c].sender \in Connected
    BY <1>o, <2>2 DEF Callers
  <2>4. CallerOk(n, "entry") /\ n.op = call[c].op
    BY <1>o, <2>3 DEF CallerOk, DB!Caller
  <2>5. CallerOk(DB!FreeCall, "entry") /\ DB!FreeCall.op # "Auth_2nd_Check"
    BY DEF CallerOk, DB!FreeCall, NoOp
  <2>6. pc' = [pc EXCEPT ![c] = "entry"]
    BY <1>o, <2>2, <2>3, Same
  <2>7. call' = [call EXCEPT ![c] = n] \/ call' = [call EXCEPT ![c] = DB!FreeCall]
    BY <1>o, <2>1 DEF DB!Respond, DB!TypeOK
  <2>8. call[c].op = "Auth_2nd_Check" => c \in Checking
    BY <2>3 DEF Checking
  <2> HIDE DEF n
  <2> QED
    BY <2>2, <2>3, <2>4, <2>5, <2>6, <2>7, <2>8 DEF Proceeds, Moved
<1>5. ASSUME NEW c \in Call, Dispatch(c) PROVE \E n : Proceeds(c, n, "entry")
  <2> DEFINE n == [call[c] EXCEPT !.phase = "running"]
  <2>2. call[c].phase = "answered" /\ UNCHANGED <<pc, curUserId>>
    BY <1>5 DEF DB!Dispatch, Dispatch, threads, registry
  <2>3. pc[c] = "entry" /\ call[c].sender \in Connected
    BY <1>o, <2>2 DEF Callers
  <2>4. CallerOk(n, "entry") /\ n.op = call[c].op
    BY <1>o, <2>3 DEF CallerOk, DB!Caller
  <2>5. CallerOk(DB!FreeCall, "entry") /\ DB!FreeCall.op # "Auth_2nd_Check"
    BY DEF CallerOk, DB!FreeCall, NoOp
  <2>6. pc' = [pc EXCEPT ![c] = "entry"]
    BY <1>o, <2>2, <2>3, Same
  <2>7. call' = [call EXCEPT ![c] = n] \/ call' = [call EXCEPT ![c] = DB!FreeCall]
    BY <1>o, <1>5 DEF Dispatch, DB!Dispatch, DB!TypeOK
  <2>8. call[c].op = "Auth_2nd_Check" => c \in Checking
    BY <2>3 DEF Checking
  <2> HIDE DEF n
  <2> QED
    BY <2>2, <2>3, <2>4, <2>5, <2>6, <2>7, <2>8 DEF Proceeds, Moved
<1>6. ASSUME NEW c \in Call, Callback(c), ~SetId(c) PROVE \E n, p : Proceeds(c, n, p)
  <2>1. ASSUME Ends(c), pc[c] = "entry" PROVE \E n, p : Proceeds(c, n, p)
    <3>1. DB!Return(c) /\ UNCHANGED <<pc, curUserId>>
      BY <2>1 DEF Ends, threads, registry
    <3> QED
      BY <1>o, <2>1, <3>1, Returning, Same
  <2>2. ASSUME WantsRemoval(c), pc[c] = "entry", call[c].phase = "running"
        PROVE  \E n, p : Proceeds(c, n, p)
    <3>1. Moved(c, call[c], "terminate") /\ UNCHANGED curUserId
      BY <1>o, <2>2, Same DEF WantsRemoval, Moved, connector, registry
    <3>2. CallerOk(call[c], "terminate") /\ (call[c].op = "Auth_2nd_Check" => c \in Checking)
      BY <1>c, <2>2 DEF CallerOk, Checking
    <3> QED
      BY <2>2, <3>1, <3>2 DEF Proceeds
  <2>3. ASSUME NEW o \in Op \ {"Auth_2nd_Check"}, NEW d \in BOOLEAN, FollowUp(c, o, d),
               pc[c] = "entry"
        PROVE  \E n, p : Proceeds(c, n, p)
    <3> DEFINE k == DB!NewCall(call[c].sender, o, d, TRUE)
    <3>1. /\ call[c].phase = "running" /\ DB!CurrentSerial(call[c].sender) # NoId
          /\ DB!Enter(c, k) /\ UNCHANGED <<pc, curUserId>>
      BY <2>3 DEF FollowUp, DB!Chain, threads, registry
    <3>2. k \in DB!Caller
      BY <1>o, <3>1, CallerTypes, NewCallType
    <3>3. k.sender \in Connected /\ k.op # "Auth_2nd_Check"
      BY <1>o, <3>1 DEF DB!NewCall, Callers
    <3> HIDE DEF k
    <3> QED
      BY <1>o, <2>3, <3>1, <3>2, <3>3, Entering
  <2>4. CASE Authorize(c) \/ CharacterListed(c)
    BY <2>4, <2>1, <2>2, <2>3 DEF Authorize, CharacterListed, In, Op
  <2>5. CASE TerminateUnderLock(c) \/ SecondPasswordChecked(c)
    <3>1. /\ DB!Return(c) /\ pc' = [pc EXCEPT ![c] = "entry"] /\ UNCHANGED curUserId
          /\ pc[c] # "setId"
      BY <2>5 DEF TerminateUnderLock, SecondPasswordChecked, registry
    <3> QED
      BY <3>1, Returning
  <2>6. CASE SecondPasswordFailed(c)
    <3>1. DB!Return(c) /\ UNCHANGED <<pc, curUserId>> /\ pc[c] = "entry"
      BY <2>6 DEF SecondPasswordFailed, In, threads
    <3> QED
      BY <1>o, <3>1, Returning, Same
  <2>7. CASE KeyLoaded(c) \/ SecondPasswordRefused(c)
    BY <2>7, <2>1 DEF KeyLoaded, SecondPasswordRefused, In
  <2>8. CASE AuthenticateUser(c)
    <3>1. Moved(c, call[c], "setId") /\ UNCHANGED curUserId
      BY <1>o, <2>8, Same DEF AuthenticateUser, Moved, connector
    <3>2. CallerOk(call[c], "setId") /\ c \in Checking /\ pc[c] # "setId"
      BY <1>c, <2>8 DEF AuthenticateUser, In, CallerOk, Checking
    <3> QED
      BY <2>8, <3>1, <3>2 DEF Proceeds
  <2> QED
    BY <1>6, <2>4, <2>5, <2>6, <2>7, <2>8 DEF Callback
<1>7. ASSUME Pass PROVE UNCHANGED <<call, pc, curUserId>>
  <2>1. ASSUME NEW u, NEW i, Ping(u, i) \/ Evict(u, i) PROVE UNCHANGED <<call, pc, curUserId>>
    BY <2>1 DEF Ping, Evict, connector, registry
  <2>2. CASE Visit
    BY <2>1, <2>2 DEF Visit
  <2>3. CASE WakeUp \/ BeginPass \/ NextLoop \/ GoToSleep
    BY <2>3 DEF WakeUp, BeginPass, NextLoop, GoToSleep, connector, registry
  <2> QED
    BY <1>7, <2>2, <2>3 DEF Pass
<1>8. ASSUME UNCHANGED vars PROVE UNCHANGED <<call, pc, curUserId>>
  BY <1>8 DEF vars, connector, threads, registry
<1> QED
  BY <1>1, <1>2, <1>3, <1>4, <1>5, <1>6, <1>7, <1>8 DEF Next, Io

\* A check of the second password is made while an id is left for it.
LEMMA CheckMade ==
  ASSUME TypeInv, NEW u \in User, NEW c \in Call, CheckSecondPassword(u, c)
  PROVE  /\ \E k : Moved(c, k, "entry") /\ CallerOk(k, "entry")
         /\ Checking' = Checking \cup {c} /\ c \notin Checking
         /\ UNCHANGED <<curUserId, curTempUserId>> /\ IdsLeft
<1> DEFINE k == DB!NewCall(u, "Auth_2nd_Check", TRUE, TRUE)
<1>o. OwnTypes /\ DB!TypeOK /\ Callers
  BY Types DEF TypeInv, TypeOK
<1>1. /\ call[c].phase = "free" /\ call' = [call EXCEPT ![c] = k]
      /\ UNCHANGED <<pc, curUserId, curTempUserId>> /\ IdsLeft
  BY DEF CheckSecondPassword, DB!Make, registry
<1>2. u \in Connected /\ pc[c] = "entry" /\ call[c] = DB!FreeCall
  BY <1>o, <1>1 DEF CheckSecondPassword, Receives, Connected, Callers
<1>3. CallerOk(k, "entry") /\ k.op = "Auth_2nd_Check"
  BY <1>2 DEF CallerOk, DB!NewCall
<1> HIDE DEF k
<1>4. Moved(c, k, "entry")
  BY <1>o, <1>1, <1>2, Same DEF Moved
<1>5. c \notin Checking
  BY <1>2 DEF Checking, DB!FreeCall, NoOp
<1>6. \A d \in Call : /\ call'[d] = IF d = c THEN k ELSE call[d]
                      /\ pc'[d] = pc[d]
  BY <1>o, <1>1 DEF DB!TypeOK
<1>7. Checking' = Checking \cup {c}
  BY <1>2, <1>3, <1>6 DEF Checking
<1> QED
  BY <1>1, <1>3, <1>4, <1>5, <1>7

LEMMA CallersStep == ASSUME TypeInv, [Next]_vars PROVE Callers'
<1>o. OwnTypes /\ DB!TypeOK /\ Callers
  BY Types DEF TypeInv, TypeOK
<1>n. Connected \subseteq Connected'
  <2>1. ASSUME NEW u \in User, MakeUser(u) PROVE Connected \subseteq Connected'
    BY <1>o, <2>1 DEF MakeUser, Connected, OwnTypes
  <2> QED
    BY <2>1, ConnectedStep
<1>1. ASSUME NEW c \in Call, NEW k, NEW p, Moved(c, k, p), CallerOk(k, p) PROVE Callers'
  <2>1. \A d \in Call : /\ call'[d] = IF d = c THEN k ELSE call[d]
                        /\ pc'[d] = IF d = c THEN p ELSE pc[d]
    BY <1>o, <1>1 DEF Moved, OwnTypes, DB!TypeOK
  <2>2. DB!FreeCall' = DB!FreeCall
    BY DEF DB!FreeCall
  <2> QED
    BY <1>o, <1>n, <1>1, <2>1, <2>2 DEF Callers, CallerOk
<1>2. ASSUME NEW c \in Call, SetId(c) PROVE \E k, p : Moved(c, k, p) /\ CallerOk(k, p)
  <2>1. pc[c] = "setId" /\ UNCHANGED call /\ pc' = [pc EXCEPT ![c] = "leave"]
    BY <1>2 DEF SetId, connector
  <2>2. Moved(c, call[c], "leave")
    BY <1>o, <2>1, Same DEF Moved
  <2>3. CallerOk(call[c], "leave")
    BY <1>o, <2>1 DEF Callers, CallerOk
  <2> QED
    BY <2>2, <2>3
<1>3. ASSUME UNCHANGED <<call, pc>> PROVE Callers'
  <2>1. DB!FreeCall' = DB!FreeCall
    BY DEF DB!FreeCall
  <2> QED
    BY <1>o, <1>n, <1>3, <2>1 DEF Callers
<1> QED
  BY <1>1, <1>2, <1>3, CheckMade, CallersFrame DEF Proceeds

LEMMA BoundsStep == ASSUME TypeInv, [Next]_vars PROVE Bounds'
<1>o. OwnTypes /\ DB!TypeOK /\ Callers /\ Bounds
  BY Types DEF TypeInv, TypeOK
<1>1. curTempUserId' = 0 - 1 - Cardinality(Connected')
  <2>1. ASSUME NEW u \in User, MakeUser(u) PROVE curTempUserId' = 0 - 1 - Cardinality(Connected')
    <3>1. u \notin Connected /\ Connected' = Connected \cup {u}
      BY <1>o, <2>1 DEF MakeUser, Connected, OwnTypes
    <3>2. Cardinality(Connected') = Cardinality(Connected) + 1
      BY <3>1, Counted, FS_AddElement
    <3> QED
      BY <1>o, <2>1, <3>2, Counted DEF MakeUser, NextTempUserId, Bounds
  <2>2. CASE ~\E u \in User : MakeUser(u)
    <3>1. UNCHANGED ids \/ \E c \in Call : SetId(c)
      BY <2>2, IdsFrame
    <3>2. UNCHANGED curTempUserId
      BY <3>1 DEF ids, SetId
    <3> QED
      BY <1>o, <2>2, <3>2, ConnectedStep DEF Bounds
  <2> QED
    BY <2>1, <2>2
<1>2. curUserId' + Cardinality(Checking') <= MaxUserId + 1
  <2>f. IsFiniteSet(Checking') /\ Cardinality(Checking') \in Nat
    <3>1. Checking' \subseteq Call
      BY DEF Checking
    <3> QED
      BY <3>1, LobbyAssumption, FS_Subset, FS_CardinalityType
  <2>n. curUserId \in Nat /\ MaxUserId \in Nat
    BY <1>o, LobbyAssumption DEF OwnTypes
  <2>1. ASSUME NEW u \in User, NEW c \in Call, CheckSecondPassword(u, c)
        PROVE  curUserId' + Cardinality(Checking') <= MaxUserId + 1
    <3>1. /\ Checking' = Checking \cup {c} /\ c \notin Checking
          /\ UNCHANGED curUserId /\ IdsLeft
      BY <2>1, CheckMade
    <3>2. Cardinality(Checking') = Cardinality(Checking) + 1
      BY <3>1, Counted, FS_AddElement
    <3> DEFINE All == {d \in Call : call[d].op = "Auth_2nd_Check"}
    <3>3. IsFiniteSet(All) /\ Checking \subseteq All
      BY LobbyAssumption, FS_Subset DEF Checking
    <3>4. Cardinality(Checking) <= Cardinality(All) /\ Cardinality(All) \in Nat
      BY <3>3, FS_Subset, FS_CardinalityType
    <3>5. curUserId + Cardinality(All) <= MaxUserId
      BY <3>1 DEF IdsLeft
    <3> HIDE DEF All
    <3> QED
      BY <2>n, <3>1, <3>2, <3>4, <3>5, Counted
  <2>2. ASSUME NEW c \in Call, SetId(c)
        PROVE  curUserId' + Cardinality(Checking') <= MaxUserId + 1
    <3>1. c \in Checking /\ curUserId' = curUserId + 1 /\ UNCHANGED call
          /\ pc' = [pc EXCEPT ![c] = "leave"]
      BY <2>2, NewUserId DEF SetId, connector
    <3>2. Checking' = Checking \ {c}
      BY <1>o, <3>1 DEF Checking, OwnTypes
    <3>3. Cardinality(Checking') = Cardinality(Checking) - 1
      BY <3>1, <3>2, Counted, FS_RemoveElement
    <3> QED
      BY <1>o, <2>n, <3>1, <3>3, Counted DEF Bounds
  <2>3. ASSUME Checking' \subseteq Checking, UNCHANGED curUserId
        PROVE  curUserId' + Cardinality(Checking') <= MaxUserId + 1
    <3>1. Cardinality(Checking') <= Cardinality(Checking)
      BY <2>3, Counted, FS_Subset
    <3> QED
      BY <1>o, <2>f, <2>n, <2>3, <3>1, Counted DEF Bounds
  <2>4. ASSUME NEW c \in Call, NEW k, NEW p, Proceeds(c, k, p)
        PROVE  Checking' \subseteq Checking /\ UNCHANGED curUserId
    <3>1. \A d \in Call : /\ call'[d] = IF d = c THEN k ELSE call[d]
                          /\ pc'[d] = IF d = c THEN p ELSE pc[d]
      BY <1>o, <2>4 DEF Proceeds, Moved, OwnTypes, DB!TypeOK
    <3> QED
      BY <2>4, <3>1 DEF Proceeds, Checking
  <2>5. ASSUME UNCHANGED <<call, pc, curUserId>>
        PROVE  Checking' \subseteq Checking /\ UNCHANGED curUserId
    BY <2>5 DEF Checking
  <2> QED
    BY <2>1, <2>2, <2>3, <2>4, <2>5, CallersFrame
<1> QED
  BY <1>1, <1>2 DEF Bounds

LEMMA TypeStep == TypeInv /\ [Next]_vars => TypeInv'
<1> SUFFICES ASSUME TypeInv, [Next]_vars PROVE TypeInv'
  OBVIOUS
<1>1. DB!TypeOK'
  BY ConnectorStep, ConnectorType DEF TypeInv, TypeOK
<1>2. TypeOK'
  BY <1>1, OwnTypesStep DEF TypeOK, OwnTypes
<1> QED
  BY <1>2, IdInvStep, NamedStep, EntriesStep, CallersStep, BoundsStep DEF TypeInv

LEMMA TypeInit == Init => TypeInv
<1> SUFFICES ASSUME Init PROVE TypeInv
  OBVIOUS
<1>1. Connected = {} /\ Checking = {}
  BY DEF Init, Connected, Checking, DB!FreeCall, NoOp
<1>2. Bounds
  BY <1>1, FS_EmptySet, LobbyAssumption DEF Init, Bounds
<1>3. Named /\ Entries /\ Callers
  BY <1>1 DEF Init, Named, Entries, Callers, DB!FreeCall, Connected
<1>4. DB!TypeOK
  BY CallerTypes DEF Init, DB!TypeOK
<1>5. curTempUserId \in TempId \cup {0 - Cardinality(User) - 1}
  <2>1. CASE Cardinality(User) = 0
    BY <2>1 DEF Init
  <2>2. CASE Cardinality(User) # 0
    <3>1. 1 \in 1 .. Cardinality(User) /\ curTempUserId = 0 - 1
      BY <2>2, Ids DEF Init
    <3> QED
      BY <3>1 DEF TempId
  <2> QED
    BY <2>1, <2>2
<1>6. OwnTypes
  BY <1>5 DEF Init, OwnTypes
<1> QED
  BY <1>2, <1>3, <1>4, <1>6, IdInvInit, Types DEF TypeInv

\* Types hold throughout: in particular neither counter runs beyond its ids, whatever
\* the peers do within the bounds.
THEOREM TypeCorrect == Spec => []TypeOK
<1>1. TypeInv => TypeOK
  BY DEF TypeInv
<1> QED
  BY TypeInit, TypeStep, <1>1, PTL DEF Spec

\* The lobby implements the connector: what DBConnectorProofs shows of DBConnector
\* holds of the lobby's requests.
THEOREM ConnectorImplemented == Spec => ImplementsConnector
<1>1. Init => DB!Init
  BY DEF Init, DB!Init
<1>2. Spec => []TypeInv
  BY TypeInit, TypeStep, PTL DEF Spec
<1>3. TypeInv /\ [Next]_vars => [DB!Next]_(DB!vars)
  BY ConnectorStep
<1> QED
  BY <1>1, <1>2, <1>3, PTL DEF Spec, ImplementsConnector, DB!Spec
-----------------------------------------------------------------------------
\* The registry: where a session is to be found.

\* A thread within AuthenticateUser, and the keep-alive pass, hold m_usersMutex.
Locks == /\ \A c \in Call : pc[c] = "setId" => usersMutex = c
         /\ InPass => usersMutex = KeepAlive

\* Within AuthenticateUser the user is in one map, under the id it is about to get.
Moving == \A c \in Call : pc[c] = "setId" =>
            /\ autorizedUsersByUserId[curUserId] = call[c].sender
            /\ \A i \in Id : usersByUserId[i] # call[c].sender

\* A temporary entry stands under the id its user has.
UnderOwnId == \A i \in Id : usersByUserId[i] # NoUser => userId[usersByUserId[i]] = i

RegInv == /\ TypeInv /\ Locks /\ Moving /\ UnderOwnId
          /\ SessionRegistered /\ OneRegistry

\* Who is within AuthenticateUser changes by AuthenticateUser and SetId only.
LEMMA Enters ==
  ASSUME TypeInv, [Next]_vars, NEW c \in Call, pc'[c] = "setId", ~AuthenticateUser(c)
  PROVE  /\ pc[c] = "setId" /\ ~SetId(c) /\ call'[c] = call[c]
         /\ curUserId' = curUserId \/ \E d \in Call : SetId(d)
<1>o. OwnTypes /\ DB!TypeOK /\ Callers
  BY Types DEF TypeInv, TypeOK
<1>1. ASSUME NEW u \in User, NEW d \in Call, CheckSecondPassword(u, d)
      PROVE  pc[c] = "setId" /\ call'[c] = call[c] /\ curUserId' = curUserId
  <2>1. /\ call[d].phase = "free" /\ UNCHANGED <<pc, curUserId>>
        /\ call' = [call EXCEPT ![d] = DB!NewCall(u, "Auth_2nd_Check", TRUE, TRUE)]
    BY <1>1 DEF CheckSecondPassword, DB!Make, registry
  <2>2. c # d
    BY <1>o, <2>1 DEF Callers
  <2> QED
    BY <1>o, <2>1, <2>2 DEF DB!TypeOK
<1>2. ASSUME NEW d \in Call, SetId(d) PROVE pc[c] = "setId" /\ call'[c] = call[c]
  BY <1>o, <1>2 DEF SetId, OwnTypes, connector
<1>3. ASSUME NEW d \in Call, NEW k, NEW p, Proceeds(d, k, p)
      PROVE  pc[c] = "setId" /\ call'[c] = call[c] /\ curUserId' = curUserId
  <2>1. c # d
    BY <1>o, <1>3 DEF Proceeds, Moved, OwnTypes
  <2> QED
    BY <1>o, <1>3, <2>1 DEF Proceeds, Moved, OwnTypes, DB!TypeOK
<1>4. ~SetId(c)
  BY <1>o DEF SetId, OwnTypes
<1> QED
  BY <1>1, <1>2, <1>3, <1>4, CallersFrame

LEMMA Stays ==
  ASSUME TypeInv, [Next]_vars, NEW c \in Call, pc[c] = "setId", ~SetId(c)
  PROVE  pc'[c] = "setId" /\ call'[c] = call[c]
<1>o. OwnTypes /\ DB!TypeOK /\ Callers
  BY Types DEF TypeInv, TypeOK
<1>1. ASSUME NEW u \in User, NEW d \in Call, CheckSecondPassword(u, d)
      PROVE  pc'[c] = "setId" /\ call'[c] = call[c]
  <2>1. /\ call[d].phase = "free" /\ UNCHANGED pc
        /\ call' = [call EXCEPT ![d] = DB!NewCall(u, "Auth_2nd_Check", TRUE, TRUE)]
    BY <1>1 DEF CheckSecondPassword, DB!Make
  <2>2. c # d
    BY <1>o, <2>1 DEF Callers
  <2> QED
    BY <1>o, <2>1, <2>2 DEF DB!TypeOK
<1>2. ASSUME NEW d \in Call, SetId(d) PROVE pc'[c] = "setId" /\ call'[c] = call[c]
  <2>1. c # d
    BY <1>2
  <2> QED
    BY <1>o, <1>2, <2>1 DEF SetId, OwnTypes, connector
<1>3. ASSUME NEW d \in Call, NEW k, NEW p, Proceeds(d, k, p)
      PROVE  pc'[c] = "setId" /\ call'[c] = call[c]
  <2>1. c # d
    BY <1>3 DEF Proceeds
  <2> QED
    BY <1>o, <1>3, <2>1 DEF Proceeds, Moved, OwnTypes, DB!TypeOK
<1> QED
  BY <1>1, <1>2, <1>3, CallersFrame

\* m_usersMutex changes hands in AuthenticateUser and SetId, and in a pass.
LEMMA MutexFrame ==
  ASSUME TypeInv, [Next]_vars
  PROVE  \/ \E c \in Call : AuthenticateUser(c) \/ SetId(c)
         \/ BeginPass \/ GoToSleep
         \/ /\ UNCHANGED usersMutex
            /\ InPass' => InPass
<1> DEFINE Kept == UNCHANGED <<usersMutex, keepAlive>>
<1>1. ASSUME NEW u \in User, MakeUser(u) \/ PeerCloses(u) \/ Head(u) PROVE Kept
  BY <1>1 DEF MakeUser, PeerCloses, Head, threads
<1>2. ASSUME NEW u \in User, NEW c \in Call,
             CheckSecondPassword(u, c) \/ \E a \in Account : Auth(u, a, c)
      PROVE  Kept
  BY <1>2 DEF CheckSecondPassword, Auth
<1>3. ASSUME IoSubmit PROVE Kept
  BY <1>3 DEF IoSubmit
<1>4. ASSUME NEW c \in Call, Answer(c) \/ Dispatch(c) PROVE Kept
  BY <1>4 DEF Answer, Dispatch, threads
<1>5. ASSUME NEW c \in Call, Callback(c), ~AuthenticateUser(c), ~SetId(c) PROVE Kept
  BY <1>5 DEF Callback, Authorize, CharacterListed, KeyLoaded, SecondPasswordRefused, Ends,
              WantsRemoval, FollowUp, TerminateUnderLock, SecondPasswordFailed,
              SecondPasswordChecked, threads
<1>6. ASSUME Visit PROVE UNCHANGED usersMutex /\ InPass
  BY <1>6 DEF Visit, Ping, Evict, InPass
<1>7. ASSUME NextLoop PROVE UNCHANGED usersMutex /\ InPass
  BY <1>7 DEF NextLoop, InPass
<1>8. ASSUME WakeUp PROVE UNCHANGED usersMutex /\ ~InPass'
  BY <1>8 DEF WakeUp, InPass
<1>9. ASSUME UNCHANGED vars PROVE Kept
  BY <1>9 DEF vars, threads
<1>10. Kept => UNCHANGED usersMutex /\ InPass' = InPass
  BY DEF InPass
<1> HIDE DEF Kept
<1> QED
  BY <1>1, <1>2, <1>3, <1>4, <1>5, <1>6, <1>7, <1>8, <1>9, <1>10 DEF Next, Io, Pass

LEMMA LocksStep == ASSUME TypeInv, Locks, [Next]_vars PROVE Locks'
<1>o. OwnTypes /\ KeepAlive \notin Call /\ KeepAlive # Nobody /\ Nobody \notin Call
  BY Types, LobbyAssumption DEF TypeInv
<1>1. ASSUME NEW c \in Call, AuthenticateUser(c) PROVE Locks'
  BY <1>o, <1>1 DEF AuthenticateUser, Locks, OwnTypes, InPass
<1>2. ASSUME NEW c \in Call, SetId(c) PROVE Locks'
  <2>1. /\ usersMutex = c /\ ~InPass /\ UNCHANGED keepAlive
        /\ \A d \in Call : d # c => pc[d] # "setId"
    BY <1>o, <1>2 DEF SetId, Locks
  <2>2. \A d \in Call : pc'[d] # "setId"
    BY <1>o, <1>2, <2>1 DEF SetId, OwnTypes
  <2> QED
    BY <2>1, <2>2 DEF Locks, InPass
<1>3. CASE BeginPass \/ GoToSleep
  BY <1>o, <1>3 DEF BeginPass, GoToSleep, Locks, InPass
<1>4. CASE /\ UNCHANGED usersMutex /\ (InPass' => InPass)
           /\ \A c \in Call : ~AuthenticateUser(c)
  BY <1>4, Enters DEF Locks
<1> QED
  BY <1>1, <1>2, <1>3, <1>4, MutexFrame

\* While a thread is within AuthenticateUser, of the registry only a new entry comes.
LEMMA Undisturbed ==
  ASSUME TypeInv, Locks, [Next]_vars, NEW c \in Call, pc[c] = "setId"
  PROVE  /\ UNCHANGED autorizedUsersByUserId
         /\ UNCHANGED usersByUserId \/ \E u \in User : MakeUser(u)
         /\ \A d \in Call : SetId(d) => d = c
<1>1. /\ usersMutex = c /\ ~InPass /\ usersMutex # Nobody
      /\ \A d \in Call : pc[d] = "setId" => d = c
  BY LobbyAssumption DEF Locks
<1>2. \A d \in Call : ~AuthenticateUser(d) /\ ~TerminateUnderLock(d) /\ ~SecondPasswordFailed(d)
  BY <1>1 DEF AuthenticateUser, TerminateUnderLock, SecondPasswordFailed
<1>3. ASSUME NEW u \in User, MakeUser(u) PROVE UNCHANGED autorizedUsersByUserId
  BY <1>3 DEF MakeUser
<1>4. \A d \in Call : SetId(d) => d = c
  BY <1>1 DEF SetId
<1> QED
  BY <1>1, <1>2, <1>3, <1>4, RegistryFrame

\* The effect of the moves within AuthenticateUser.
LEMMA UserMoved ==
  ASSUME TypeInv, UnderOwnId, NEW c \in Call, AuthenticateUser(c)
  PROVE  LET u == call[c].sender IN
         /\ u \in Connected /\ u \in User /\ curUserId \in UserId
         /\ \A w \in User : userId[w] # curUserId
         /\ \A i \in Id : /\ usersByUserId'[i] =
                               IF i = userId[u] THEN NoUser ELSE usersByUserId[i]
                          /\ autorizedUsersByUserId'[i] =
                               IF i = curUserId THEN u ELSE autorizedUsersByUserId[i]
                          /\ usersByUserId'[i] # u
         /\ UNCHANGED <<userId, curUserId, socket, call>> /\ pc' = [pc EXCEPT ![c] = "setId"]
         /\ lost' = lost \ {u}
<1> DEFINE u == call[c].sender
<1>o. OwnTypes /\ Callers
  BY Types DEF TypeInv
<1>1. u \in Connected /\ u \in User /\ c \in Checking
  BY <1>o DEF AuthenticateUser, In, Callers, Connected, Checking
<1>2. curUserId \in UserId /\ \A w \in User : userId[w] # curUserId
  BY <1>1, IdLeft
<1>3. UNCHANGED <<userId, curUserId, socket, call>> /\ pc' = [pc EXCEPT ![c] = "setId"]
  BY DEF AuthenticateUser, session, connector
<1>l. lost' = lost \ {u}
  BY DEF AuthenticateUser
<1>4. \A i \in Id : /\ usersByUserId'[i] = IF i = userId[u] THEN NoUser ELSE usersByUserId[i]
                    /\ autorizedUsersByUserId'[i] =
                         IF i = curUserId THEN u ELSE autorizedUsersByUserId[i]
  BY <1>o DEF AuthenticateUser, MoveUser, OwnTypes
<1> HIDE DEF u
<1>5. \A i \in Id : usersByUserId'[i] # u
  BY <1>1, <1>4, LobbyAssumption DEF UnderOwnId
<1> QED
  BY <1>1, <1>2, <1>3, <1>l, <1>4, <1>5 DEF u

\* The effect of a connection.
LEMMA UserMade ==
  ASSUME TypeInv, NEW u \in User, MakeUser(u)
  PROVE  /\ u \notin Connected /\ userId[u] = NoId /\ curTempUserId \in TempId
         /\ \A w \in User : userId[w] # curTempUserId
         /\ \/ /\ \A i \in Id : usersByUserId'[i] =
                                 IF i = curTempUserId THEN u ELSE usersByUserId[i]
               /\ UNCHANGED lost
            \/ UNCHANGED usersByUserId /\ lost' = lost \cup {u}
         /\ \A w \in User : /\ userId'[w] = IF w = u THEN curTempUserId ELSE userId[w]
                            /\ socket'[w] = IF w = u THEN "open" ELSE socket[w]
         /\ UNCHANGED <<autorizedUsersByUserId, curUserId, call, pc>>
<1>o. OwnTypes /\ Named /\ userId \in [User -> Int \cup {NoId}]
  BY Types DEF TypeInv, IdInv, IdsBehindCounters
<1>1. u \notin Connected /\ userId[u] = NoId
  BY <1>o DEF MakeUser, Connected, Named
<1>2. curTempUserId \in TempId /\ \A w \in User : userId[w] # curTempUserId
  BY NewTempId DEF MakeUser
<1>3. \/ /\ \A i \in Id : usersByUserId'[i] =
                             IF i = curTempUserId THEN u ELSE usersByUserId[i]
         /\ UNCHANGED lost
      \/ UNCHANGED usersByUserId /\ lost' = lost \cup {u}
  BY <1>o DEF MakeUser, OwnTypes
<1>4. \A w \in User : /\ userId'[w] = IF w = u THEN curTempUserId ELSE userId[w]
                      /\ socket'[w] = IF w = u THEN "open" ELSE socket[w]
  BY <1>o DEF MakeUser, OwnTypes
<1>5. UNCHANGED <<autorizedUsersByUserId, curUserId, call, pc>>
  BY DEF MakeUser, connector, threads
<1> QED
  BY <1>1, <1>2, <1>3, <1>4, <1>5

\* A removal happens when nobody is within AuthenticateUser.
LEMMA Removing ==
  ASSUME TypeInv, Locks,
         \/ \E c \in Call : TerminateUnderLock(c) \/ SecondPasswordFailed(c)
         \/ \E u, i : Evict(u, i) /\ InPass
  PROVE  \A c \in Call : pc[c] # "setId"
BY LobbyAssumption DEF Locks, TerminateUnderLock, SecondPasswordFailed

LEMMA MovingStep == ASSUME RegInv, [Next]_vars PROVE Moving'
<1>i. TypeInv /\ Locks /\ Moving /\ UnderOwnId /\ OwnTypes /\ Callers
  BY Types DEF RegInv, TypeInv
<1> SUFFICES ASSUME NEW c \in Call, pc'[c] = "setId"
             PROVE  /\ autorizedUsersByUserId'[curUserId'] = call'[c].sender
                    /\ \A i \in Id : usersByUserId'[i] # call'[c].sender
  BY DEF Moving
<1>1. CASE AuthenticateUser(c)
  <2>1. curUserId \in Id
    BY <1>i, <1>1, UserMoved DEF Id
  <2> QED
    BY <1>i, <1>1, <2>1, UserMoved
<1>2. CASE ~AuthenticateUser(c)
  <2>1. pc[c] = "setId" /\ ~SetId(c) /\ call'[c] = call[c]
    BY <1>i, <1>2, Enters
  <2>2. /\ UNCHANGED autorizedUsersByUserId
        /\ UNCHANGED usersByUserId \/ \E u \in User : MakeUser(u)
        /\ curUserId' = curUserId
    BY <1>i, <1>2, <2>1, Enters, Undisturbed
  <2>3. /\ autorizedUsersByUserId[curUserId] = call[c].sender
        /\ \A i \in Id : usersByUserId[i] # call[c].sender
        /\ call[c].sender \in Connected
    BY <1>i, <2>1, NewUserId DEF Moving
  <2>4. ASSUME NEW u \in User, MakeUser(u) PROVE \A i \in Id : usersByUserId'[i] # call[c].sender
    BY <1>i, <2>3, <2>4, UserMade
  <2> QED
    BY <2>1, <2>2, <2>3, <2>4
<1> QED
  BY <1>1, <1>2

LEMMA UnderOwnIdStep == ASSUME RegInv, [Next]_vars PROVE UnderOwnId'
<1>i. /\ TypeInv /\ Moving /\ UnderOwnId /\ OwnTypes /\ Entries
      /\ userId \in [User -> Int \cup {NoId}]
  BY Types DEF RegInv, TypeInv, IdInv, IdsBehindCounters
<1> SUFFICES ASSUME NEW i \in Id, usersByUserId'[i] # NoUser
             PROVE  userId'[usersByUserId'[i]] = i
  BY DEF UnderOwnId
<1>e. usersByUserId[i] # NoUser => /\ usersByUserId[i] \in Connected /\ usersByUserId[i] \in User
                                   /\ userId[usersByUserId[i]] = i
  BY <1>i DEF Entries, Connected, UnderOwnId
<1>1. ASSUME NEW u \in User, MakeUser(u) PROVE userId'[usersByUserId'[i]] = i
  BY <1>i, <1>e, <1>1, UserMade
<1>2. ASSUME NEW c \in Call, SetId(c) PROVE userId'[usersByUserId'[i]] = i
  <2>1. /\ usersByUserId' = usersByUserId /\ usersByUserId[i] # call[c].sender
        /\ userId' = [userId EXCEPT ![call[c].sender] = curUserId]
    BY <1>i, <1>2 DEF SetId, Moving
  <2> QED
    BY <1>i, <1>e, <2>1
<1>3. CASE UNCHANGED ids
  <2>1. usersByUserId'[i] = usersByUserId[i] \/ \E u \in User : MakeUser(u)
    <3>1. ASSUME NEW c \in Call, AuthenticateUser(c) PROVE usersByUserId'[i] = usersByUserId[i]
      BY <1>i, <3>1, UserMoved
    <3> QED
      BY <3>1, RegistryFrame
  <2> QED
    BY <1>1, <1>3, <1>e, <2>1 DEF ids
<1> QED
  BY <1>1, <1>2, <1>3, IdsFrame

LEMMA OneRegistryStep == ASSUME RegInv, [Next]_vars PROVE OneRegistry'
<1>i. TypeInv /\ OneRegistry /\ UnderOwnId /\ OwnTypes /\ Entries
  BY Types DEF RegInv, TypeInv
<1> SUFFICES ASSUME NEW i \in Id, NEW j \in Id, usersByUserId'[i] # NoUser
             PROVE  usersByUserId'[i] # autorizedUsersByUserId'[j]
  BY DEF OneRegistry
<1>1. ASSUME NEW u \in User, MakeUser(u) PROVE usersByUserId'[i] # autorizedUsersByUserId'[j]
  <2>1. autorizedUsersByUserId[j] \in Connected \cup {NoUser} /\ u # NoUser
    BY <1>i, LobbyAssumption DEF Entries
  <2> QED
    BY <1>i, <1>1, <2>1, UserMade DEF OneRegistry
<1>2. ASSUME NEW c \in Call, AuthenticateUser(c)
      PROVE  usersByUserId'[i] # autorizedUsersByUserId'[j]
  BY <1>i, <1>2, UserMoved DEF OneRegistry
<1>3. ASSUME NEW u, RemoveUser(u), UNCHANGED usersByUserId
      PROVE  usersByUserId'[i] # autorizedUsersByUserId'[j]
  BY <1>i, <1>3, Removal DEF OneRegistry
<1>4. CASE UNCHANGED <<usersByUserId, autorizedUsersByUserId>>
  BY <1>i, <1>4 DEF OneRegistry
<1> QED
  BY <1>1, <1>2, <1>3, <1>4, RegistryFrame

LEMMA SessionRegisteredStep == ASSUME RegInv, [Next]_vars PROVE SessionRegistered'
<1>i. /\ TypeInv /\ Locks /\ Moving /\ UnderOwnId /\ SessionRegistered /\ IdsUnique
      /\ OwnTypes /\ Entries /\ DB!TypeOK /\ userId \in [User -> Int \cup {NoId}]
  BY Types DEF RegInv, TypeInv, TypeOK, IdInv, IdsBehindCounters
<1> DEFINE Found(u) == \/ u \in lost
                       \/ userId[u] \in TempId /\ usersByUserId[userId[u]] = u
                       \/ userId[u] \in UserId /\ autorizedUsersByUserId[userId[u]] = u
<1> SUFFICES ASSUME NEW u \in User, socket'[u] \in {"open", "lost"}, ~Settling(u)'
             PROVE  Found(u)'
  BY DEF SessionRegistered
<1>f. socket[u] \in {"open", "lost"} /\ ~Settling(u) => Found(u)
  BY <1>i DEF SessionRegistered
<1>s. Settling(u) => \E c \in Call : SetId(c) /\ call[c].sender = u
  <2>1. ASSUME NEW c \in Call, pc[c] = "setId", call[c].sender = u, ~SetId(c) PROVE FALSE
    <3>1. pc'[c] = "setId" /\ call'[c] = call[c]
      BY <1>i, <2>1, Stays
    <3> QED
      BY <2>1, <3>1 DEF Settling
  <2> QED
    BY <2>1 DEF Settling
<1>t. TempId \subseteq Id /\ UserId \subseteq Id /\ NoId \notin TempId \cup UserId
  BY Ids
<1>1. ASSUME NEW w \in User, MakeUser(w) PROVE Found(u)'
  <2>1. CASE w = u
    BY <1>i, <1>t, <1>1, <2>1, UserMade
  <2>2. CASE w # u
    <3>1. \A c \in Call : ~SetId(c)
      BY <1>i, <1>1, Ids, UserMade DEF SetId
    <3>2. /\ socket'[u] = socket[u] /\ userId'[u] = userId[u] /\ userId[u] # curTempUserId
          /\ UNCHANGED autorizedUsersByUserId
          /\ \A i \in Id : i # curTempUserId => usersByUserId'[i] = usersByUserId[i]
          /\ lost \subseteq lost'
      BY <1>i, <1>1, <2>2, UserMade
    <3>3. Found(u)
      BY <1>f, <1>s, <3>1, <3>2
    <3> QED
      BY <1>t, <3>2, <3>3
  <2> QED
    BY <2>1, <2>2
<1>2. ASSUME NEW c \in Call, SetId(c) PROVE Found(u)'
  <2>1. /\ pc[c] = "setId" /\ userId' = [userId EXCEPT ![call[c].sender] = curUserId]
        /\ UNCHANGED <<usersByUserId, autorizedUsersByUserId, lost, socket>>
    BY <1>2 DEF SetId
  <2>2. CASE u = call[c].sender
    <3>1. curUserId \in UserId /\ autorizedUsersByUserId[curUserId] = u
      BY <1>i, <2>1, <2>2, NewUserId DEF Moving
    <3> QED
      BY <1>i, <2>1, <2>2, <3>1
  <2>3. CASE u # call[c].sender
    <3>1. \A d \in Call : SetId(d) => d = c
      BY <1>i, <2>1, Undisturbed
    <3>2. Found(u)
      BY <1>f, <1>s, <2>1, <2>3, <3>1
    <3> QED
      BY <1>i, <2>1, <2>3, <3>2
  <2> QED
    BY <2>2, <2>3
<1>3. ASSUME NEW c \in Call, AuthenticateUser(c) PROVE Found(u)'
  <2> DEFINE w == call[c].sender
  <2>1. /\ w \in User /\ w \in Connected /\ \A x \in User : userId[x] # curUserId
        /\ \A i \in Id : /\ i # userId[w] => usersByUserId'[i] = usersByUserId[i]
                         /\ i # curUserId =>
                              autorizedUsersByUserId'[i] = autorizedUsersByUserId[i]
        /\ UNCHANGED <<userId, socket, call>> /\ pc' = [pc EXCEPT ![c] = "setId"]
        /\ lost' = lost \ {w}
    BY <1>i, <1>3, UserMoved
  <2>2. u # w
    <3>1. pc'[c] = "setId" /\ call'[c] = call[c]
      BY <1>i, <2>1 DEF OwnTypes
    <3> QED
      BY <3>1 DEF Settling
  <2>3. \A d \in Call : ~SetId(d)
    BY <1>3, LobbyAssumption, <1>i DEF SetId, AuthenticateUser, Locks
  <2>4. Found(u)
    BY <1>f, <1>s, <2>1, <2>3
  <2>5. u \in lost \/ userId[u] # userId[w]
    BY <1>i, <1>t, <2>1, <2>2, <2>4 DEF IdsUnique
  <2> HIDE DEF w
  <2> QED
    BY <1>t, <2>1, <2>2, <2>4, <2>5
<1>4. ASSUME \/ \E c \in Call : TerminateUnderLock(c) \/ SecondPasswordFailed(c)
             \/ \E w, i : Evict(w, i) /\ InPass,
             NEW w, RemoveUser(w), UNCHANGED <<usersByUserId, lost, userId>>
      PROVE  Found(u)'
  <2>1. \A c \in Call : pc[c] # "setId"
    BY <1>i, <1>4, Removing
  <2>2. ~Settling(u) /\ \A c \in Call : ~SetId(c)
    BY <2>1 DEF Settling, SetId
  <2>3. socket'[u] = socket[u]
    BY <1>i, <1>4, Removal
  <2>4. Found(u)
    BY <1>f, <2>2, <2>3
  <2>5. \A i \in Id : autorizedUsersByUserId[i] = u => autorizedUsersByUserId'[i] = u
    BY <1>i, <1>4, Removal
  <2> QED
    BY <1>t, <1>4, <2>4, <2>5
<1>5. ASSUME UNCHANGED <<usersByUserId, autorizedUsersByUserId, lost>>,
             socket[u] \in {"open", "lost"}
      PROVE  Found(u)'
  <2>1. CASE \E c \in Call : SetId(c)
    BY <1>2, <2>1
  <2>2. CASE \E w \in User : MakeUser(w)
    BY <1>1, <2>2
  <2>3. CASE (\A c \in Call : ~SetId(c)) /\ \A w \in User : ~MakeUser(w)
    <3>1. UNCHANGED userId /\ Found(u)
      BY <1>5, <1>f, <1>s, <2>3, IdsFrame DEF ids
    <3> QED
      BY <1>5, <3>1
  <2> QED
    BY <2>1, <2>2, <2>3
<1>6. ASSUME NEW w \in User, PeerCloses(w) PROVE socket[u] \in {"open", "lost"}
  BY <1>i, <1>6 DEF PeerCloses, OwnTypes
<1>7. ASSUME \/ UNCHANGED <<usersByUserId, autorizedUsersByUserId, lost, socket>>
             \/ /\ UNCHANGED <<usersByUserId, autorizedUsersByUserId, lost>>
                /\ \E w \in User : PeerCloses(w)
      PROVE  Found(u)'
  <2>1. socket[u] \in {"open", "lost"}
    BY <1>6, <1>7
  <2> QED
    BY <1>5, <1>7, <2>1
<1> HIDE DEF Found
<1> QED
  BY <1>1, <1>3, <1>4, <1>7, RegistryFrame

LEMMA RegStep == RegInv /\ [Next]_vars => RegInv'
BY TypeStep, LocksStep, MovingStep, UnderOwnIdStep, SessionRegisteredStep, OneRegistryStep
DEF RegInv

LEMMA RegInit == Init => RegInv
<1> SUFFICES ASSUME Init PROVE RegInv
  OBVIOUS
<1>1. Locks /\ Moving
  BY DEF Init, Locks, InPass, Moving
<1>2. UnderOwnId /\ OneRegistry
  BY DEF Init, UnderOwnId, OneRegistry
<1>3. SessionRegistered
  BY DEF Init, SessionRegistered
<1> QED
  BY <1>1, <1>2, <1>3, TypeInit DEF RegInv

\* A session that is not closed is found under its present id in the map that goes with
\* it, whatever other sessions, callbacks and the keep-alive pass do meanwhile.
THEOREM SessionRegisteredAlways == Spec => []SessionRegistered
<1>1. RegInv => SessionRegistered
  BY DEF RegInv
<1> QED
  BY RegInit, RegStep, <1>1, PTL DEF Spec

\* Nobody is ever in both maps.
THEOREM OneRegistryAlways == Spec => []OneRegistry
<1>1. RegInv => OneRegistry
  BY DEF RegInv
<1> QED
  BY RegInit, RegStep, <1>1, PTL DEF Spec
-----------------------------------------------------------------------------
\* What the connector promises, kept for the requests of the lobby.

Connector == INSTANCE DBConnectorProofs
               WITH Sender <- User, NoSender <- NoUser, Serial <- Id, NoSerial <- NoId,
                    serialOf <- userId

\* The lobby's users, ids and callers are what the connector assumes of its own.
LEMMA Granted ==
  /\ Id \subseteq Int /\ 0 \in Id /\ NoId \notin Id
  /\ NoUser \notin User
  /\ Connector!IsFiniteSet(Call)
<1>1. Cardinality(User) \in Nat
  BY LobbyAssumption, FS_CardinalityType
<1>2. Connector!IsFiniteSet(Call)
  BY LobbyAssumption DEF Connector!IsFiniteSet, IsFiniteSet
<1> QED
  BY <1>1, <1>2, LobbyAssumption DEF Id, TempId, UserId

\* DB and Connector are instances of the same definitions.
LEMMA SameInv == (DB!TypeOK /\ DB!RefCountsPending) = Connector!Inv
BY Zenon DEF Connector!Inv, DB!TypeOK, Connector!TypeOK, DB!Caller, Connector!Caller,
   DB!Phase, Connector!Phase, DB!RefCountsPending, Connector!RefCountsPending,
   DB!PendingUnder, Connector!PendingUnder, DB!Sent, Connector!Sent,
   DB!Cardinality, Connector!Cardinality

LEMMA SameExclusive == DB!OneExclusivePending = Connector!OneExclusivePending
BY Zenon DEF DB!OneExclusivePending, Connector!OneExclusivePending, DB!Sent, Connector!Sent

LEMMA SameInit == DB!Init = Connector!Init
BY Zenon DEF DB!Init, Connector!Init, DB!FreeCall, Connector!FreeCall

LEMMA SameNext == [DB!Next]_(DB!vars) = [Connector!Next]_(Connector!vars)
BY Zenon DEF DB!vars, Connector!vars, DB!Next, Connector!Next,
   DB!Initialize, Connector!Initialize, DB!SetSerial, Connector!SetSerial,
   DB!Make, Connector!Make, DB!Submit, Connector!Submit, DB!Respond, Connector!Respond,
   DB!Dispatch, Connector!Dispatch, DB!Return, Connector!Return, DB!Chain, Connector!Chain,
   DB!Enter, Connector!Enter, DB!NewCall, Connector!NewCall,
   DB!FreeCall, Connector!FreeCall, DB!CurrentSerial, Connector!CurrentSerial,
   DB!Cancelled, Connector!Cancelled, DB!Wanted, Connector!Wanted

LEMMA SameTable ==
  /\ DB!Table!Init = Connector!Table!Init
  /\ [DB!Table!Next]_([c \in Call |-> DB!Slot(call[c])]) =
       [Connector!Table!Next]_(Connector!SlotOf)
<1>1. DB!Table!Init = Connector!Table!Init
  BY Zenon DEF DB!Table!Init, Connector!Table!Init, DB!Table!Idle, Connector!Table!Idle,
     DB!Slot, Connector!Slot
<1>2. [DB!Table!Next]_([c \in Call |-> DB!Slot(call[c])]) =
        [Connector!Table!Next]_(Connector!SlotOf)
  BY Zenon DEF DB!Table!Next, Connector!Table!Next, DB!Slot, Connector!Slot, Connector!SlotOf,
     DB!Table!Accept, Connector!Table!Accept, DB!Table!Answer, Connector!Table!Answer,
     DB!Table!Finish, Connector!Table!Finish, DB!Table!Reuse, Connector!Table!Reuse,
     DB!Table!Occupy, Connector!Table!Occupy, DB!Table!Admissible, Connector!Table!Admissible,
     DB!Table!Pending, Connector!Table!Pending, DB!Table!Idle, Connector!Table!Idle
<1> QED
  BY <1>1, <1>2

\* The connector's invariant, within the lobby.
ConnectorInv == TypeInv /\ DB!RefCountsPending

LEMMA ConnectorInvInit == Init => ConnectorInv
<1> SUFFICES ASSUME Init PROVE ConnectorInv
  OBVIOUS
<1>1. Connector!Init
  BY SameInit DEF Init, DB!Init
<1>2. Connector!Inv
  BY <1>1, Granted, Connector!InvInit
<1>3. TypeInv
  BY TypeInit
<1> QED
  BY <1>2, <1>3, SameInv DEF ConnectorInv

LEMMA ConnectorInvStep == ConnectorInv /\ [Next]_vars => ConnectorInv'
<1> SUFFICES ASSUME ConnectorInv, [Next]_vars PROVE ConnectorInv'
  OBVIOUS
<1>1. TypeInv /\ TypeInv'
  BY TypeStep DEF ConnectorInv
<1>2. [Connector!Next]_(Connector!vars)
  BY <1>1, ConnectorStep, SameNext
<1>3. Connector!Inv
  BY SameInv DEF ConnectorInv, TypeInv, TypeOK
<1>4. Connector!Inv'
  BY <1>2, <1>3, Granted, Connector!InvStep
<1>5. Connector!RefCountsPending' = DB!RefCountsPending'
  BY Zenon DEF Connector!RefCountsPending, DB!RefCountsPending, DB!PendingUnder,
     Connector!PendingUnder, DB!Sent, Connector!Sent, DB!Cardinality, Connector!Cardinality
<1> QED
  BY <1>1, <1>4, <1>5 DEF ConnectorInv, Connector!Inv

\* Whatever the sessions do, the connector's counts are the requests of the lobby
\* that are under way, although logins change the serials of their senders.
THEOREM RequestsCounted == Spec => []DB!RefCountsPending
<1>1. ConnectorInv => DB!RefCountsPending
  BY DEF ConnectorInv
<1> QED
  BY <1>1, ConnectorInvInit, ConnectorInvStep, PTL DEF Spec

\* No request of a session is deleted without its answer having been looked at.
THEOREM RequestsReported == Spec => DB!AnswersAreReported
<1> DEFINE A == \A c \in Call : DB!Sent(c) /\ ~DB!Sent(c)' => call'[c].phase = "answered"
<1>1. ConnectorInv /\ [Next]_vars => [A]_(DB!vars)
  <2> SUFFICES ASSUME ConnectorInv, [Next]_vars, NEW c \in Call, DB!Sent(c), ~DB!Sent(c)'
               PROVE  call'[c].phase = "answered"
    OBVIOUS
  <2>1. [Connector!Next]_(Connector!vars)
    BY ConnectorStep, SameNext DEF ConnectorInv
  <2>2. Connector!Inv
    BY SameInv DEF ConnectorInv, TypeInv, TypeOK
  <2>3. Connector!Sent(c) /\ ~Connector!Sent(c)'
    BY DEF DB!Sent, Connector!Sent
  <2> QED
    BY <2>1, <2>2, <2>3, Granted, Connector!ReportedStep
<1> QED
  BY <1>1, ConnectorInvInit, ConnectorInvStep, PTL DEF Spec, DB!AnswersAreReported

\* To the sessions the connector is a table of requests: the refinement of
\* RequestTable by DBConnector carries over to the lobby that uses it.
THEOREM LobbyUsesATable == Spec => DB!ImplementsTable
<1> DEFINE slots == [c \in Call |-> DB!Slot(call[c])]
<1>1. Init => DB!Table!Init
  BY SameInit, SameTable, Granted, Connector!TableInit DEF Init, DB!Init
<1>2. ConnectorInv /\ [Next]_vars => [DB!Table!Next]_slots
  <2> SUFFICES ASSUME ConnectorInv, [Next]_vars PROVE [DB!Table!Next]_slots
    OBVIOUS
  <2>1. [Connector!Next]_(Connector!vars)
    BY ConnectorStep, SameNext DEF ConnectorInv
  <2>2. Connector!Inv
    BY SameInv DEF ConnectorInv, TypeInv, TypeOK
  <2>3. [Connector!Table!Next]_(Connector!SlotOf)
    BY <2>1, <2>2, Granted, Connector!TableStep
  <2> QED
    BY <2>3, SameTable
<1> QED
  BY <1>1, <1>2, ConnectorInvInit, ConnectorInvStep, PTL
     DEF Spec, DB!ImplementsTable, DB!Table!Spec

\* Login, list of characters and second password are asked for one at a time: under
\* one id no two such requests are under way, whatever packets arrive meanwhile.
\* (The requests for key settings may meet others.)
OneAtATime ==
  \A c, d \in Call : /\ DB!Sent(c) /\ call[c].op # "GetKeySetting"
                     /\ DB!Sent(d) /\ call[d].op # "GetKeySetting"
                     /\ call[c].serial = call[d].serial
                     => c = d

MayMeet(k) == k.phase = "free" \/ k.op = "GetKeySetting"

\* Every other request cancels itself when one of its serial is under way.
Exclusive == \A c \in Call : MayMeet(call[c]) \/ call[c].dup

\* What becomes of the caller objects in a step.
LEMMA CallFrame ==
  ASSUME TypeInv, [Next]_vars
  PROVE  \/ UNCHANGED call
         \/ \E c \in Call :
              \/ \E u \in User, o \in Op : DB!Make(c, u, o, TRUE, TRUE)
              \/ DB!Submit(c) \/ DB!Dispatch(c) \/ DB!Return(c)
              \/ \E r \in Reply : DB!Respond(c, r)
              \/ \E o \in Op, d \in BOOLEAN :
                   DB!Chain(c, o, d) /\ (d \/ o = "GetKeySetting")
<1> DEFINE Goal == \/ UNCHANGED call
                   \/ \E c \in Call :
                        \/ \E u \in User, o \in Op : DB!Make(c, u, o, TRUE, TRUE)
                        \/ DB!Submit(c) \/ DB!Dispatch(c) \/ DB!Return(c)
                        \/ \E r \in Reply : DB!Respond(c, r)
                        \/ \E o \in Op, d \in BOOLEAN :
                             DB!Chain(c, o, d) /\ (d \/ o = "GetKeySetting")
<1>1. ASSUME NEW u \in User, MakeUser(u) \/ PeerCloses(u) \/ Head(u) PROVE Goal
  BY <1>1 DEF MakeUser, PeerCloses, Head, connector
<1>2. ASSUME NEW u \in User, NEW c \in Call,
             CheckSecondPassword(u, c) \/ \E a \in Account : Auth(u, a, c)
      PROVE  Goal
  BY <1>2 DEF CheckSecondPassword, Auth, Op
<1>3. ASSUME IoSubmit PROVE Goal
  BY <1>3 DEF IoSubmit, TypeInv, TypeOK
<1>4. ASSUME NEW c \in Call, Answer(c) PROVE Goal
  BY <1>4 DEF Answer, ReplyTo, Reply
<1>5. ASSUME NEW c \in Call, Dispatch(c) PROVE Goal
  BY <1>5 DEF Dispatch
<1>6. ASSUME NEW c \in Call, Callback(c) PROVE Goal
  <2>1. ASSUME Ends(c) PROVE Goal
    BY <2>1 DEF Ends
  <2>2. ASSUME WantsRemoval(c) PROVE Goal
    BY <2>2 DEF WantsRemoval, connector
  <2>3. ASSUME NEW o \in Op, NEW d \in BOOLEAN, FollowUp(c, o, d), d \/ o = "GetKeySetting"
        PROVE  Goal
    BY <2>3 DEF FollowUp
  <2>4. CASE Authorize(c) \/ CharacterListed(c)
    BY <2>4, <2>1, <2>2, <2>3 DEF Authorize, CharacterListed, Op
  <2>5. CASE TerminateUnderLock(c) \/ SecondPasswordFailed(c) \/ SecondPasswordChecked(c)
    BY <2>5 DEF TerminateUnderLock, SecondPasswordFailed, SecondPasswordChecked
  <2>6. CASE KeyLoaded(c) \/ SecondPasswordRefused(c)
    BY <2>1, <2>6 DEF KeyLoaded, SecondPasswordRefused
  <2>7. CASE AuthenticateUser(c) \/ SetId(c)
    BY <2>7 DEF AuthenticateUser, SetId, connector
  <2> HIDE DEF Goal
  <2> QED
    BY <1>6, <2>4, <2>5, <2>6, <2>7 DEF Callback
<1>7. ASSUME Pass PROVE Goal
  <2>1. ASSUME NEW u, NEW i, Ping(u, i) \/ Evict(u, i) PROVE Goal
    BY <2>1 DEF Ping, Evict, connector
  <2>2. CASE Visit
    BY <2>1, <2>2 DEF Visit
  <2>3. CASE WakeUp \/ BeginPass \/ NextLoop \/ GoToSleep
    BY <2>3 DEF WakeUp, BeginPass, NextLoop, GoToSleep, connector
  <2> QED
    BY <1>7, <2>2, <2>3 DEF Pass
<1>8. ASSUME UNCHANGED vars PROVE Goal
  BY <1>8 DEF vars, connector
<1> HIDE DEF Goal
<1>9. Goal
  BY <1>1, <1>2, <1>3, <1>4, <1>5, <1>6, <1>7, <1>8 DEF Next, Io
<1> QED
  BY <1>9 DEF Goal

LEMMA ExclusiveKept == ASSUME TypeInv, Exclusive, [Next]_vars PROVE Exclusive'
<1>t. call \in [Call -> DB!Caller]
  BY DEF TypeInv, TypeOK, DB!TypeOK
<1>1. ASSUME NEW c \in Call, NEW k, call' = [call EXCEPT ![c] = k],
             MayMeet(k) \/ k.dup
      PROVE  Exclusive'
  BY <1>1, <1>t DEF Exclusive, MayMeet
<1>2. MayMeet(DB!FreeCall)
  BY DEF DB!FreeCall, MayMeet
<1>3. ASSUME NEW k \in DB!Caller, NEW p, NEW r
      PROVE  /\ [k EXCEPT !.phase = p].op = k.op /\ [k EXCEPT !.phase = p].dup = k.dup
             /\ [k EXCEPT !.phase = p, !.reply = r].op = k.op
             /\ [k EXCEPT !.phase = p, !.reply = r].dup = k.dup
  BY DEF DB!Caller
<1>4. ASSUME NEW c \in Call, NEW k, DB!Enter(c, k),
             k.op = "GetKeySetting" \/ k.dup,
             [k EXCEPT !.phase = "sent"].op = k.op, [k EXCEPT !.phase = "sent"].dup = k.dup
      PROVE  Exclusive'
  BY <1>1, <1>2, <1>4 DEF DB!Enter, MayMeet
<1>5. ASSUME NEW c \in Call, NEW u \in User, NEW o \in Op, DB!Make(c, u, o, TRUE, TRUE)
      PROVE  Exclusive'
  BY <1>1, <1>5 DEF DB!Make, DB!NewCall
<1>6. ASSUME NEW c \in Call, DB!Submit(c) PROVE Exclusive'
  <2>1. call[c] \in DB!Caller /\ DB!Enter(c, call[c])
    BY <1>t, <1>6 DEF DB!Submit
  <2>2. call[c].op = "GetKeySetting" \/ call[c].dup
    BY <1>6 DEF DB!Submit, Exclusive, MayMeet
  <2> QED
    BY <1>3, <1>4, <2>1, <2>2
<1>7. ASSUME NEW c \in Call, DB!Dispatch(c) \/ DB!Return(c) PROVE Exclusive'
  <2> DEFINE k == [call[c] EXCEPT !.phase = "running"]
  <2>1. /\ call[c].phase # "free"
        /\ call' = [call EXCEPT ![c] = k] \/ call' = [call EXCEPT ![c] = DB!FreeCall]
    BY <1>7, <1>t DEF DB!Dispatch, DB!Return
  <2>2. k.op = call[c].op /\ k.dup = call[c].dup
    BY <1>3, <1>t
  <2> HIDE DEF k
  <2> QED
    BY <1>1, <1>2, <2>1, <2>2 DEF Exclusive, MayMeet
<1>8. ASSUME NEW c \in Call, NEW r \in Reply, DB!Respond(c, r) PROVE Exclusive'
  <2> DEFINE k == [call[c] EXCEPT !.phase = "answered", !.reply = r]
  <2>1. /\ call[c].phase # "free"
        /\ call' = [call EXCEPT ![c] = k] \/ call' = [call EXCEPT ![c] = DB!FreeCall]
    BY <1>8, <1>t DEF DB!Respond
  <2>2. k.op = call[c].op /\ k.dup = call[c].dup
    BY <1>3, <1>t
  <2> HIDE DEF k
  <2> QED
    BY <1>1, <1>2, <2>1, <2>2 DEF Exclusive, MayMeet
<1>9. ASSUME NEW c \in Call, NEW o \in Op, NEW d \in BOOLEAN, DB!Chain(c, o, d),
             d \/ o = "GetKeySetting"
      PROVE  Exclusive'
  <2> DEFINE k == DB!NewCall(call[c].sender, o, d, TRUE)
  <2>1. DB!Enter(c, k)
    BY <1>9 DEF DB!Chain
  <2>2. /\ k.op = o /\ k.dup = d
        /\ [k EXCEPT !.phase = "sent"].op = o /\ [k EXCEPT !.phase = "sent"].dup = d
    BY DEF DB!NewCall
  <2> HIDE DEF k
  <2> QED
    BY <1>4, <1>9, <2>1, <2>2
<1>10. ASSUME UNCHANGED call PROVE Exclusive'
  BY <1>10 DEF Exclusive
<1> QED
  BY <1>5, <1>6, <1>7, <1>8, <1>9, <1>10, CallFrame

\* A session has one login, list or password check under way at a time.
THEOREM OneAtATimeAlways == Spec => []OneAtATime
<1> DEFINE I == Exclusive /\ DB!OneExclusivePending
<1>1. Init => I
  <2> SUFFICES ASSUME Init PROVE I
    OBVIOUS
  <2>1. \A c \in Call : call[c] = DB!FreeCall
    BY DEF Init
  <2>2. DB!FreeCall.phase = "free"
    BY DEF DB!FreeCall
  <2> QED
    BY <2>1, <2>2 DEF Exclusive, MayMeet, DB!OneExclusivePending, DB!Sent
<1>2. ConnectorInv /\ I /\ [Next]_vars => I'
  <2> SUFFICES ASSUME ConnectorInv, I, [Next]_vars PROVE I'
    OBVIOUS
  <2>1. [Connector!Next]_(Connector!vars)
    BY ConnectorStep, SameNext DEF ConnectorInv
  <2>2. Connector!Inv /\ Connector!OneExclusivePending
    BY SameInv, SameExclusive DEF ConnectorInv, TypeInv, TypeOK
  <2>3. Connector!OneExclusivePending'
    BY <2>1, <2>2, Granted, Connector!ExclusiveStep
  <2>4. Connector!OneExclusivePending' = DB!OneExclusivePending'
    BY Zenon DEF DB!OneExclusivePending, Connector!OneExclusivePending, DB!Sent, Connector!Sent
  <2> QED
    BY <2>3, <2>4, ExclusiveKept DEF ConnectorInv
<1>3. I => OneAtATime
  BY DEF Exclusive, MayMeet, OneAtATime, DB!OneExclusivePending, DB!Sent
<1> QED
  BY <1>1, <1>2, <1>3, ConnectorInvInit, ConnectorInvStep, PTL DEF Spec
-----------------------------------------------------------------------------
\* A request is dropped as a duplicate on account of its own session only.

\* An id that has been handed out: a fresh one is none of these.
Spent(v) == IF v < 0 THEN v > curTempUserId ELSE v < curUserId

\* The serial of a request is an id that its sender has, or has had: nobody else's.
SerialsOwned ==
  \A c \in Call : call[c].phase # "free" =>
    /\ Spent(call[c].serial)
    /\ \A u \in User : userId[u] = call[c].serial => u = call[c].sender
    /\ \A d \in Call : call[d].phase # "free" /\ call[d].serial = call[c].serial
                         => call[d].sender = call[c].sender

DropInv == ConnectorInv /\ ready = TRUE /\ SerialsOwned

LEMMA DropInvInit == Init => DropInv
<1> SUFFICES ASSUME Init PROVE DropInv
  OBVIOUS
<1>1. \A c \in Call : call[c].phase = "free"
  BY DEF Init, DB!FreeCall
<1>2. ready = TRUE
  BY DEF Init
<1> QED
  BY <1>1, <1>2, ConnectorInvInit DEF DropInv, SerialsOwned

LEMMA ReadyStays == ASSUME TypeInv, ready = TRUE, [Next]_vars PROVE ready' = TRUE
<1>1. [DB!Next]_(DB!vars)
  BY ConnectorStep
<1> QED
  BY <1>1 DEF DB!Next, DB!vars, DB!Initialize, DB!SetSerial, DB!Make, DB!Submit, DB!Respond,
              DB!Dispatch, DB!Return, DB!Chain

\* The counters only move on, so what is spent stays so.
LEMMA SpentStays ==
  ASSUME TypeInv, [Next]_vars, NEW v \in Id, Spent(v)
  PROVE  Spent(v)'
<1>o. v \in Int /\ curTempUserId \in Int /\ curUserId \in Int
  BY Ids DEF TypeInv, IdInv, IdsBehindCounters
<1>1. \/ \E u \in User : MakeUser(u)
      \/ \E c \in Call : SetId(c)
      \/ UNCHANGED ids
  BY IdsFrame
<1>2. /\ curTempUserId' \in {curTempUserId, curTempUserId - 1}
      /\ curUserId' \in {curUserId, curUserId + 1}
  BY <1>1 DEF MakeUser, NextTempUserId, SetId, ids
<1> QED
  BY <1>o, <1>2 DEF Spent

\* A step gives nobody an id that was spent before, but leaves him the one he has.
LEMMA IdsFresh ==
  ASSUME TypeInv, [Next]_vars, NEW u \in User, NEW v \in Id, Spent(v), userId'[u] = v
  PROVE  userId[u] = v
<1>o. /\ v \in Int /\ curTempUserId \in Int /\ curUserId \in Nat /\ curTempUserId < 0
      /\ userId \in [User -> Int \cup {NoId}]
  BY Ids DEF TypeInv, IdInv, IdsBehindCounters
<1>1. ASSUME NEW w \in User, MakeUser(w) PROVE userId[u] = v
  <2>1. userId'[u] = IF u = w THEN curTempUserId ELSE userId[u]
    BY <1>o, <1>1 DEF MakeUser
  <2>2. v # curTempUserId
    BY <1>o DEF Spent
  <2> QED
    BY <2>1, <2>2
<1>2. ASSUME NEW c \in Call, SetId(c) PROVE userId[u] = v
  <2>1. userId'[u] = IF u = call[c].sender THEN curUserId ELSE userId[u]
    BY <1>o, <1>2 DEF SetId
  <2>2. v # curUserId
    BY <1>o DEF Spent
  <2> QED
    BY <2>1, <2>2
<1>3. CASE UNCHANGED ids
  BY <1>3 DEF ids
<1> QED
  BY <1>1, <1>2, <1>3, IdsFrame

\* A caller object is gone after a step, or is the one it was as to serial and sender,
\* or is new and goes by its user's present id.
Continues(c) == /\ call[c].phase # "free" /\ call'[c].phase # "free"
                /\ call'[c].serial = call[c].serial
                /\ call'[c].sender = call[c].sender

Begins(c) == /\ call'[c].sender \in User
             /\ call'[c].serial = userId[call'[c].sender]
             /\ call'[c].serial # NoId

\* A step begins one caller at most, and changes no id when it does.
LEMMA CallerSteps ==
  ASSUME TypeInv, [Next]_vars
  PROVE  \/ \A d \in Call : call'[d].phase = "free" \/ Continues(d)
         \/ /\ UNCHANGED userId
            /\ \E c \in Call : /\ Begins(c)
                               /\ \A d \in Call \ {c} : call'[d] = call[d]
<1>o. DB!TypeOK /\ Callers /\ call \in [Call -> DB!Caller]
  BY DEF TypeInv, TypeOK, DB!TypeOK
<1> DEFINE Goes == \A d \in Call : call'[d].phase = "free" \/ Continues(d)
           Comes == /\ UNCHANGED userId
                    /\ \E c \in Call : /\ Begins(c)
                                       /\ \A d \in Call \ {c} : call'[d] = call[d]
<1>f. DB!FreeCall.phase = "free"
  BY DEF DB!FreeCall
<1>k. ASSUME NEW k \in DB!Caller, NEW r
      PROVE  /\ [k EXCEPT !.phase = "sent"].serial = k.serial
             /\ [k EXCEPT !.phase = "sent"].sender = k.sender
             /\ [k EXCEPT !.phase = "sent"].phase = "sent"
             /\ [k EXCEPT !.phase = "running"].serial = k.serial
             /\ [k EXCEPT !.phase = "running"].sender = k.sender
             /\ [k EXCEPT !.phase = "running"].phase = "running"
             /\ [k EXCEPT !.phase = "answered", !.reply = r].serial = k.serial
             /\ [k EXCEPT !.phase = "answered", !.reply = r].sender = k.sender
             /\ [k EXCEPT !.phase = "answered", !.reply = r].phase = "answered"
  BY DEF DB!Caller
<1>1. ASSUME NEW c \in Call, NEW k, call' = [call EXCEPT ![c] = k],
             \/ k.phase = "free"
             \/ /\ k.phase # "free" /\ call[c].phase # "free"
                /\ k.serial = call[c].serial /\ k.sender = call[c].sender
      PROVE  Goes
  <2>1. \A d \in Call : call'[d] = IF d = c THEN k ELSE call[d]
    BY <1>o, <1>1
  <2> QED
    BY <1>1, <2>1 DEF Continues
<1>2. ASSUME NEW c \in Call, NEW k, call' = [call EXCEPT ![c] = k], UNCHANGED userId,
             k.sender \in User, k.serial = userId[k.sender], k.serial # NoId
      PROVE  Comes
  <2>1. \A d \in Call : call'[d] = IF d = c THEN k ELSE call[d]
    BY <1>o, <1>2
  <2> QED
    BY <1>2, <2>1 DEF Begins
<1> HIDE DEF Goes, Comes
<1>3. ASSUME NEW c \in Call, NEW u \in User, NEW o \in Op, DB!Make(c, u, o, TRUE, TRUE)
      PROVE  Comes
  <2> DEFINE k == DB!NewCall(u, o, TRUE, TRUE)
  <2>1. /\ call' = [call EXCEPT ![c] = k] /\ UNCHANGED userId
        /\ DB!CurrentSerial(u) # NoId
    BY <1>3 DEF DB!Make
  <2>2. k.sender = u /\ k.serial = DB!CurrentSerial(u) /\ DB!CurrentSerial(u) = userId[u]
    BY LobbyAssumption DEF DB!NewCall, DB!CurrentSerial
  <2> HIDE DEF k
  <2> QED
    BY <1>2, <2>1, <2>2
<1>4. ASSUME NEW c \in Call, DB!Submit(c) PROVE Goes
  <2> DEFINE k == [call[c] EXCEPT !.phase = "sent"]
  <2>1. /\ call[c].phase # "free"
        /\ call' = [call EXCEPT ![c] = k] \/ call' = [call EXCEPT ![c] = DB!FreeCall]
    BY <1>4 DEF DB!Submit, DB!Enter
  <2>2. k.phase = "sent" /\ k.serial = call[c].serial /\ k.sender = call[c].sender
    BY <1>k, <1>o
  <2> HIDE DEF k
  <2> QED
    BY <1>1, <1>f, <2>1, <2>2
<1>5. ASSUME NEW c \in Call, DB!Dispatch(c) \/ DB!Return(c) PROVE Goes
  <2> DEFINE k == [call[c] EXCEPT !.phase = "running"]
  <2>1. /\ call[c].phase # "free"
        /\ call' = [call EXCEPT ![c] = k] \/ call' = [call EXCEPT ![c] = DB!FreeCall]
    BY <1>5, <1>o DEF DB!Dispatch, DB!Return
  <2>2. k.phase = "running" /\ k.serial = call[c].serial /\ k.sender = call[c].sender
    BY <1>k, <1>o
  <2> HIDE DEF k
  <2> QED
    BY <1>1, <1>f, <2>1, <2>2
<1>6. ASSUME NEW c \in Call, NEW r \in Reply, DB!Respond(c, r) PROVE Goes
  <2> DEFINE k == [call[c] EXCEPT !.phase = "answered", !.reply = r]
  <2>1. /\ call[c].phase # "free"
        /\ call' = [call EXCEPT ![c] = k] \/ call' = [call EXCEPT ![c] = DB!FreeCall]
    BY <1>6, <1>o DEF DB!Respond
  <2>2. k.phase = "answered" /\ k.serial = call[c].serial /\ k.sender = call[c].sender
    BY <1>k, <1>o
  <2> HIDE DEF k
  <2> QED
    BY <1>1, <1>f, <2>1, <2>2
<1>7. ASSUME NEW c \in Call, NEW o \in Op, NEW d \in BOOLEAN, DB!Chain(c, o, d)
      PROVE  Goes \/ Comes
  <2> DEFINE k == DB!NewCall(call[c].sender, o, d, TRUE)
             n == [k EXCEPT !.phase = "sent"]
  <2>1. /\ call[c].phase # "free" /\ DB!Enter(c, k) /\ UNCHANGED userId
        /\ DB!CurrentSerial(call[c].sender) # NoId
    BY <1>7 DEF DB!Chain
  <2>2. call[c].sender \in User
    BY <1>o, <2>1 DEF Callers, Connected
  <2>3. /\ n.sender = call[c].sender /\ n.serial = DB!CurrentSerial(call[c].sender)
        /\ DB!CurrentSerial(call[c].sender) = userId[call[c].sender]
    BY <2>2, LobbyAssumption DEF DB!NewCall, DB!CurrentSerial
  <2>4. call' = [call EXCEPT ![c] = n] \/ call' = [call EXCEPT ![c] = DB!FreeCall]
    BY <2>1 DEF DB!Enter
  <2> HIDE DEF n
  <2> QED
    BY <1>1, <1>2, <1>f, <2>1, <2>2, <2>3, <2>4
<1>8. CASE UNCHANGED call
  BY <1>8 DEF Goes, Continues
<1>9. Goes \/ Comes
  BY <1>3, <1>4, <1>5, <1>6, <1>7, <1>8, CallFrame DEF Goes, Comes
<1> QED
  BY <1>9 DEF Goes, Comes

LEMMA SerialsOwnedStep == ASSUME TypeInv, SerialsOwned, [Next]_vars PROVE SerialsOwned'
<1>o. /\ call \in [Call -> DB!Caller] /\ IdsUnique
      /\ userId \in [User -> Id \cup {NoId}]
      /\ \A c \in Call : call[c].serial \in Id
  BY CallerTypes DEF TypeInv, TypeOK, DB!TypeOK, IdInv
<1>1. CASE \A c \in Call : call'[c].phase = "free" \/ Continues(c)
  BY <1>o, <1>1, SpentStays, IdsFresh DEF SerialsOwned, Continues
<1>2. ASSUME UNCHANGED userId,
             NEW c \in Call, Begins(c), \A d \in Call \ {c} : call'[d] = call[d]
      PROVE  SerialsOwned'
  <2> DEFINE SpentNow(i) == IF i < 0 THEN i > curTempUserId' ELSE i < curUserId'
  <2>1. PICK u \in User, v \in Id : u = call'[c].sender /\ v = call'[c].serial /\ v = userId[u]
    BY <1>o, <1>2 DEF Begins
  <2>2. \A w \in User : userId[w] = v => w = u
    BY <1>o, <2>1, Ids DEF IdsUnique
  <2>3. \A d \in Call \ {c} : call[d].phase # "free" /\ call[d].serial = v
                                => call[d].sender = u
    BY <2>1 DEF SerialsOwned
  <2>s. \A i \in Id : Spent(i) => SpentNow(i)
    BY SpentStays DEF Spent
  <2>4. SpentNow(v)
    <3>1. Spent(v)
      BY <2>1, Ids DEF TypeInv, IdInv, IdsBehindCounters, Spent
    <3> QED
      BY <2>s, <3>1
  <2>5. \A d \in Call \ {c} : call[d].phase # "free" => SpentNow(call[d].serial)
    BY <1>o, <2>s DEF SerialsOwned
  <2> HIDE DEF SpentNow
  <2>6. ASSUME NEW d \in Call, call'[d].phase # "free"
        PROVE  /\ SpentNow(call'[d].serial)
               /\ \A w \in User : userId[w] = call'[d].serial => w = call'[d].sender
               /\ \A e \in Call : call'[e].phase # "free" /\ call'[e].serial = call'[d].serial
                                    => call'[e].sender = call'[d].sender
    <3>1. CASE d = c
      BY <1>2, <2>1, <2>2, <2>3, <2>4, <3>1
    <3>2. CASE d # c
      <4>1. call'[d] = call[d] /\ call[d].phase # "free"
        BY <1>2, <2>6, <3>2
      <4>2. \A w \in User : userId[w] = call[d].serial => w = call[d].sender
        BY <4>1 DEF SerialsOwned
      <4>3. ASSUME NEW e \in Call, call'[e].phase # "free", call'[e].serial = call[d].serial
            PROVE  call'[e].sender = call[d].sender
        <5>1. CASE e = c
          BY <2>1, <2>3, <3>2, <4>1, <4>3, <5>1
        <5>2. CASE e # c
          BY <1>2, <4>1, <4>3, <5>2 DEF SerialsOwned
        <5> QED
          BY <5>1, <5>2
      <4> QED
        BY <2>5, <3>2, <4>1, <4>2, <4>3
    <3> QED
      BY <3>1, <3>2
  <2> QED
    BY <1>2, <2>6 DEF SerialsOwned, Spent, SpentNow
<1> QED
  BY <1>1, <1>2, CallerSteps

LEMMA DropInvStep == DropInv /\ [Next]_vars => DropInv'
BY ConnectorInvStep, ReadyStays, SerialsOwnedStep DEF DropInv, ConnectorInv

\* Where the connector turns a caller down, another one of its serial is under way.
LEMMA TurnedDown ==
  ASSUME TypeInv, DB!RefCountsPending, ready = TRUE, NEW c \in Call, NEW k \in DB!Caller,
         DB!Enter(c, k), call'[c].phase = "free"
  PROVE  \E d \in Call : DB!Sent(d) /\ call[d].serial = k.serial
<1>1. k.serial \in Id /\ call \in [Call -> DB!Caller] /\ ref \in [Id -> Nat]
  BY CallerTypes DEF TypeInv, TypeOK, DB!TypeOK
<1>2. [k EXCEPT !.phase = "sent"].phase = "sent"
  BY DEF DB!Caller
<1>3. ref[k.serial] > 0
  BY <1>1, <1>2 DEF DB!Enter, DB!Cancelled
<1>4. ref[k.serial] = DB!Cardinality(DB!PendingUnder(k.serial))
  BY <1>1 DEF DB!RefCountsPending
<1>5. DB!Cardinality({}) = 0
  <2>1. DB!Cardinality({}) = Cardinality({})
    BY Zenon DEF DB!Cardinality, Cardinality
  <2> QED
    BY <2>1, FS_EmptySet
<1>6. DB!PendingUnder(k.serial) # {}
  BY <1>3, <1>4, <1>5
<1> QED
  BY <1>6 DEF DB!PendingUnder

\* A caller object that is made is touched by its submission only.
LEMMA MadeFrame ==
  ASSUME TypeInv, [Next]_vars, NEW c \in Call, call[c].phase = "made", call'[c].phase = "free"
  PROVE  DB!Submit(c)
<1>o. call \in [Call -> DB!Caller]
  BY DEF TypeInv, TypeOK, DB!TypeOK
<1>1. call' # call
  OBVIOUS
<1>2. ASSUME NEW d \in Call, NEW k, d # c, call' = [call EXCEPT ![d] = k] PROVE FALSE
  BY <1>o, <1>2
<1>3. ASSUME NEW d \in Call, NEW u \in User, NEW o \in Op, DB!Make(d, u, o, TRUE, TRUE)
      PROVE  FALSE
  BY <1>2, <1>3 DEF DB!Make
<1>4. ASSUME NEW d \in Call, DB!Submit(d) \/ DB!Dispatch(d) \/ DB!Return(d) PROVE DB!Submit(c)
  BY <1>2, <1>4 DEF DB!Submit, DB!Enter, DB!Dispatch, DB!Return
<1>5. ASSUME NEW d \in Call, NEW r \in Reply, DB!Respond(d, r) PROVE FALSE
  <2>1. \E k : call' = [call EXCEPT ![d] = k]
    BY <1>o, <1>5 DEF DB!Respond
  <2> QED
    BY <1>2, <1>5, <2>1 DEF DB!Respond
<1>6. ASSUME NEW d \in Call, NEW o \in Op, NEW x \in BOOLEAN, DB!Chain(d, o, x) PROVE FALSE
  BY <1>2, <1>6 DEF DB!Chain, DB!Enter
<1> QED
  BY <1>1, <1>3, <1>4, <1>5, <1>6, CallFrame

\* A good login goes on to the list of characters, or is not done with.
LEMMA GoodLoginFrame ==
  ASSUME TypeInv, [Next]_vars, NEW c \in Call,
         In(c, "Auth_Publisher"), call[c].reply = "ok", call'[c].phase = "free"
  PROVE  FollowUp(c, "ListCharacter", TRUE)
<1>o. call \in [Call -> DB!Caller] /\ Callers /\ io \in Call \cup {Nobody}
  BY DEF TypeInv, TypeOK, DB!TypeOK
<1>p. call[c].phase = "running" /\ call[c].op = "Auth_Publisher" /\ pc[c] = "entry"
  BY DEF In
<1>1. call' # call
  BY <1>p
<1>2. ASSUME NEW d \in Call, NEW k, d # c, call' = [call EXCEPT ![d] = k] PROVE FALSE
  BY <1>o, <1>p, <1>2
<1>3. ASSUME NEW d \in Call, NEW u \in User, NEW o \in Op, DB!Make(d, u, o, TRUE, TRUE)
      PROVE  FALSE
  BY <1>2, <1>3, <1>p DEF DB!Make
<1>4. ASSUME NEW d \in Call, DB!Submit(d) PROVE FALSE
  BY <1>2, <1>4, <1>p DEF DB!Submit, DB!Enter
<1>5. ASSUME NEW d \in Call, NEW r \in Reply, DB!Respond(d, r) PROVE FALSE
  <2>1. \E k : call' = [call EXCEPT ![d] = k]
    BY <1>o, <1>5 DEF DB!Respond
  <2> QED
    BY <1>2, <1>5, <1>p, <2>1 DEF DB!Respond
<1>6. ASSUME NEW d \in Call, DB!Dispatch(d) PROVE FALSE
  BY <1>2, <1>6, <1>p DEF DB!Dispatch
<1>7. ASSUME NEW u \in User, MakeUser(u) \/ PeerCloses(u) \/ Head(u) PROVE FALSE
  BY <1>1, <1>7 DEF MakeUser, PeerCloses, Head, connector
<1>8. ASSUME NEW u \in User, NEW d \in Call,
             CheckSecondPassword(u, d) \/ \E a \in Account : Auth(u, a, d)
      PROVE  FALSE
  <2>1. \E o \in Op : DB!Make(d, u, o, TRUE, TRUE)
    BY <1>8 DEF CheckSecondPassword, Auth, Op
  <2> QED
    BY <1>3, <2>1
<1>9. ASSUME IoSubmit PROVE FALSE
  BY <1>o, <1>4, <1>9, LobbyAssumption DEF IoSubmit
<1>10. ASSUME NEW d \in Call, Answer(d) PROVE FALSE
  <2>1. \E r \in Reply : DB!Respond(d, r)
    BY <1>10 DEF Answer, ReplyTo, Reply
  <2> QED
    BY <1>5, <2>1
<1>11. ASSUME NEW d \in Call, Dispatch(d) PROVE FALSE
  BY <1>6, <1>11 DEF Dispatch
<1>12. ASSUME NEW d \in Call, Callback(d) PROVE d = c /\ FollowUp(c, "ListCharacter", TRUE)
  <2>1. UNCHANGED call \/ \E k : call' = [call EXCEPT ![d] = k]
    BY <1>12 DEF Callback, Authorize, CharacterListed, KeyLoaded, SecondPasswordRefused, Ends,
                 WantsRemoval, FollowUp, DB!Chain, DB!Enter, DB!Return, TerminateUnderLock,
                 SecondPasswordFailed, AuthenticateUser, SetId, SecondPasswordChecked, connector
  <2>2. d = c
    BY <1>1, <1>2, <2>1
  <2>3. ~TerminateUnderLock(c) /\ ~SetId(c) /\ ~SecondPasswordChecked(c)
    BY <1>p DEF TerminateUnderLock, SetId, SecondPasswordChecked
  <2>4. /\ ~CharacterListed(c) /\ ~KeyLoaded(c) /\ ~SecondPasswordRefused(c)
        /\ ~SecondPasswordFailed(c) /\ ~AuthenticateUser(c)
    BY <1>p DEF CharacterListed, KeyLoaded, SecondPasswordRefused, SecondPasswordFailed,
                AuthenticateUser, In
  <2>5. ~WantsRemoval(c)
    BY <1>1 DEF WantsRemoval, connector
  <2> QED
    BY <1>12, <2>2, <2>3, <2>4, <2>5 DEF Callback, Authorize
<1>13. ASSUME Pass PROVE FALSE
  <2>1. ASSUME NEW u, NEW i, Ping(u, i) \/ Evict(u, i) PROVE FALSE
    BY <1>1, <2>1 DEF Ping, Evict, connector
  <2>2. CASE Visit
    BY <2>1, <2>2 DEF Visit
  <2>3. CASE WakeUp \/ BeginPass \/ NextLoop \/ GoToSleep
    BY <1>1, <2>3 DEF WakeUp, BeginPass, NextLoop, GoToSleep, connector
  <2> QED
    BY <1>13, <2>2, <2>3 DEF Pass
<1>14. ASSUME UNCHANGED vars PROVE FALSE
  BY <1>1, <1>14 DEF vars, connector
<1> QED
  BY <1>7, <1>8, <1>9, <1>10, <1>11, <1>12, <1>13, <1>14 DEF Next, Io

\* A packet's request or a list request that is dropped has another request of the same
\* session beside it, however ids change and answers come in.
THEOREM DroppedForAnotherAlways == Spec => DroppedForAnother
<1> DEFINE Other(c) == \E d \in Call \ {c} : DB!Sent(d) /\ call[d].sender = call[c].sender
           ForAnother == \A c \in Call :
                           MayBeDropped(c) /\ call'[c].phase = "free" => Other(c)
<1>1. DropInv /\ [Next]_vars => [ForAnother]_vars
  <2> SUFFICES ASSUME DropInv, [Next]_vars, NEW c \in Call,
                      MayBeDropped(c), call'[c].phase = "free"
               PROVE  Other(c)
    OBVIOUS
  <2>o. /\ TypeInv /\ DB!TypeOK /\ Callers /\ DB!RefCountsPending /\ ready = TRUE /\ SerialsOwned
        /\ call \in [Call -> DB!Caller]
    BY DEF DropInv, ConnectorInv, TypeInv, TypeOK, DB!TypeOK
  <2>p. /\ call[c].phase \in {"made", "running"} /\ call[c].sender \in User
        /\ ~DB!Sent(c)
    BY <2>o DEF MayBeDropped, In, Callers, Connected, DB!Sent
  <2>1. ASSUME NEW k \in DB!Caller, DB!Enter(c, k), k.sender = call[c].sender,
               \/ k.serial = call[c].serial
               \/ k.serial = userId[call[c].sender]
        PROVE  Other(c)
    <3>1. PICK d \in Call : DB!Sent(d) /\ call[d].serial = k.serial
      BY <2>o, <2>1, TurnedDown
    <3>2. d # c /\ call[d].phase # "free"
      BY <2>p, <3>1 DEF DB!Sent
    <3>3. call[d].sender = call[c].sender
      BY <2>o, <2>p, <2>1, <3>1, <3>2 DEF SerialsOwned
    <3> QED
      BY <3>1, <3>2, <3>3
  <2>2. CASE call[c].phase = "made"
    <3>1. DB!Submit(c)
      BY <2>o, <2>2, MadeFrame
    <3> QED
      BY <2>o, <2>1, <3>1 DEF DB!Submit
  <2>3. CASE In(c, "Auth_Publisher") /\ call[c].reply = "ok"
    <3>1. FollowUp(c, "ListCharacter", TRUE)
      BY <2>o, <2>3, GoodLoginFrame
    <3> DEFINE k == DB!NewCall(call[c].sender, "ListCharacter", TRUE, TRUE)
    <3>2. DB!Enter(c, k) /\ DB!CurrentSerial(call[c].sender) # NoId
      BY <3>1 DEF FollowUp, DB!Chain
    <3>3. k \in DB!Caller
      BY <2>o, <2>p, <3>2, NewCallType DEF Op
    <3>4. k.sender = call[c].sender /\ k.serial = userId[call[c].sender]
      BY <2>p, LobbyAssumption DEF DB!NewCall, DB!CurrentSerial
    <3> HIDE DEF k
    <3> QED
      BY <2>1, <3>2, <3>3, <3>4
  <2> QED
    BY <2>2, <2>3 DEF MayBeDropped
<1> QED
  BY <1>1, DropInvInit, DropInvStep, PTL DEF Spec, DroppedForAnother
=============================================================================
