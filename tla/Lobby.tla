-------------------------------- MODULE Lobby --------------------------------
(***************************************************************************)
(* The lobby server: the user registry (LobbyServer/UserRegistry.h), the   *)
(* sessions in it (LobbyServer/User.cpp) and the packet handlers           *)
(* (LobbyServer/PacketHandlers.cpp), on top of DBConnector.                *)
(*                                                                         *)
(* Three kinds of thread run: the io thread (accepts connections, handles  *)
(* packets), the pool threads (each runs the callback of one Caller and is *)
(* named after it), and the keep-alive thread of the registry.  They share *)
(* m_usersMutex of the registry and the mutex mtx of every User; the other *)
(* accesses to the shared state are not synchronised in the code, and are  *)
(* single steps here.                                                      *)
(*                                                                         *)
(* An id is an integer: the code's temporary ids 0xFFFFFFFF, 0xFFFFFFFE,   *)
(* ... are -1, -2, ..., its permanent ids are 0, 1, ....                   *)
(***************************************************************************)
EXTENDS Integers, FiniteSets

CONSTANTS User,      \* connections made during a behaviour, one User object each
          NoUser,
          Account,   \* account names
          Call,      \* names of Caller objects; bounds the requests under way
          Packet,    \* bound: what the peers do, out of "Head", "Auth",
                     \* "CheckSecondPassword" and "Close"
          MaxUserId, \* bound: the last id m_curUserId hands out (IdsLeft)
          NoId,      \* id of a User that is not yet constructed
          Nobody     \* owner of a mutex nobody holds

KeepAlive == "keep-alive thread"

ASSUME LobbyAssumption ==
  /\ IsFiniteSet(User) /\ IsFiniteSet(Call)
  /\ MaxUserId \in Nat /\ NoId \notin Int
  /\ NoUser \notin User
  /\ Nobody \notin Call /\ KeepAlive \notin Call \cup {Nobody}

NoName == ""
NoOp == "none"
NoReply == "no reply"

TempId == {0 - n : n \in 1 .. Cardinality(User)}
UserId == 0 .. MaxUserId
Id == TempId \cup UserId

Op == {"Auth_Publisher", "ListCharacter", "GetKeySetting", "Auth_2nd_Check"}

\* What the callbacks make of an answer: "ok", it carries what they ask for;
\* "refused", they call Terminate; "ignored", they end or throw before they
\* change anything.  See ReplyTo.
Reply == {"ok", "refused", "ignored"}

VARIABLES
  ready, ref, call,           \* the connector (see DBConnector)
  userId,                     \* m_userId, also the connector's serial
  request,                    \* the account a Caller asked ListCharacter for
  usersByUserId,              \* m_usersByUserId: temporary ids
  autorizedUsersByUserId,     \* m_autorizedUsersByUserId
  curTempUserId, curUserId,
  socket,                     \* "none", "open", "lost" (by the peer), "closed" (by us)
  accountName, isAuthenticated, waitingOnAlivePing,
  usersMutex, mtx,            \* owners
  pc,                         \* where the callback of each Caller is
  io,                         \* the Caller the io thread is about to submit
  keepAlive,                  \* the keep-alive pass: where, and the ids to visit
  lost,                       \* history: users whose temporary entry a race has lost
  up                          \* FALSE once undefined behaviour ended the process

DB == INSTANCE DBConnector
        WITH Sender <- User, NoSender <- NoUser, Serial <- Id, NoSerial <- NoId,
             serialOf <- userId

connector == <<ready, ref, call>>
registry == <<usersByUserId, autorizedUsersByUserId, curTempUserId, curUserId, lost>>
session == <<userId, socket, accountName, isAuthenticated, waitingOnAlivePing>>
threads == <<usersMutex, mtx, pc, io, keepAlive>>
vars == <<connector, request, registry, session, threads, up>>

TypeOK ==
  /\ DB!TypeOK
  /\ request \in [Call -> Account \cup {NoName}]
  /\ usersByUserId \in [Id -> User \cup {NoUser}]
  /\ autorizedUsersByUserId \in [Id -> User \cup {NoUser}]
  /\ curTempUserId \in TempId \cup {0 - Cardinality(User) - 1}
  /\ curUserId \in Nat
  /\ socket \in [User -> {"none", "open", "lost", "closed"}]
  /\ accountName \in [User -> Account \cup {NoName}]
  /\ isAuthenticated \in [User -> BOOLEAN]
  /\ waitingOnAlivePing \in [User -> BOOLEAN]
  /\ usersMutex \in Call \cup {KeepAlive, Nobody}
  /\ mtx \in [User -> Call \cup {Nobody}]
  /\ pc \in [Call -> {"entry", "terminate", "setId", "leave"}]
  /\ io \in Call \cup {Nobody}
  /\ keepAlive \in [at : {"asleep", "awake", "authorized", "temporary"}, todo : SUBSET Id]
  /\ lost \subseteq User
  /\ up \in BOOLEAN

Init ==
  /\ ready = TRUE
  /\ ref = [i \in Id |-> 0]
  /\ call = [c \in Call |-> DB!FreeCall]
  /\ userId = [u \in User |-> NoId]
  /\ request = [c \in Call |-> NoName]
  /\ usersByUserId = [i \in Id |-> NoUser]
  /\ autorizedUsersByUserId = [i \in Id |-> NoUser]
  /\ curTempUserId = -1 /\ curUserId = 0
  /\ socket = [u \in User |-> "none"]
  /\ accountName = [u \in User |-> NoName]
  /\ isAuthenticated = [u \in User |-> FALSE]
  /\ waitingOnAlivePing = [u \in User |-> FALSE]
  /\ usersMutex = Nobody
  /\ mtx = [u \in User |-> Nobody]
  /\ pc = [c \in Call |-> "entry"]
  /\ io = Nobody
  /\ keepAlive = [at |-> "asleep", todo |-> {}]
  /\ lost = {}
  /\ up = TRUE
-----------------------------------------------------------------------------
\* The registry.

\* RemoveUser(user, lock): the first entry found under the same id is closed and
\* erased; a user that is not authenticated keeps its entry and its socket.
\* The map is unordered: any entry that matches may come first.
Matching(u) == {i \in Id : /\ autorizedUsersByUserId[i] # NoUser
                           /\ userId[autorizedUsersByUserId[i]] = userId[u]}

RemoveEntry(i) ==
  /\ socket' = [socket EXCEPT ![autorizedUsersByUserId[i]] = "closed"]
  /\ autorizedUsersByUserId' = [autorizedUsersByUserId EXCEPT ![i] = NoUser]

RemoveUser(u) ==
  IF isAuthenticated[u] /\ Matching(u) # {}
  THEN \E i \in Matching(u) : RemoveEntry(i)
  ELSE UNCHANGED <<socket, autorizedUsersByUserId>>

\* MakeUser runs without m_usersMutex.  While another thread is at work on
\* m_usersByUserId the insertion is a data race: it takes effect, its entry is lost
\* (the session goes on), or the process ends.  Two members of User have no initial
\* value.
Racing == \/ keepAlive.at = "temporary"
          \/ \E c \in Call : pc[c] = "setId"

\* Mutated form: the counter of temporary ids goes the wrong way, 0xFFFFFFFF + 1 = 0.
NextTempUserId_Up == curTempUserId + 1

NextTempUserId == curTempUserId - 1

MakeUser(u) ==
  /\ up
  /\ io = Nobody
  /\ socket[u] = "none"
  /\ \/ /\ usersByUserId' = [usersByUserId EXCEPT ![curTempUserId] = u]
        /\ UNCHANGED lost
     \/ /\ Racing
        /\ lost' = lost \cup {u}
        /\ UNCHANGED usersByUserId
  /\ up' \in (IF Racing THEN BOOLEAN ELSE {TRUE})
  /\ userId' = [userId EXCEPT ![u] = curTempUserId]
  /\ curTempUserId' = NextTempUserId
  /\ socket' = [socket EXCEPT ![u] = "open"]
  /\ \E b, w \in BOOLEAN :
       /\ isAuthenticated' = [isAuthenticated EXCEPT ![u] = b]
       /\ waitingOnAlivePing' = [waitingOnAlivePing EXCEPT ![u] = w]
  /\ UNCHANGED <<connector, request, autorizedUsersByUserId, curUserId, accountName,
                 threads>>

\* ReceivedSome with an error code: the session is not read again, and nothing
\* tells the registry.
PeerCloses(u) ==
  /\ up
  /\ "Close" \in Packet
  /\ socket[u] = "open"
  /\ socket' = [socket EXCEPT ![u] = "lost"]
  /\ UNCHANGED <<connector, request, registry, userId, accountName, isAuthenticated,
                 waitingOnAlivePing, threads, up>>
-----------------------------------------------------------------------------
\* The packet handlers, on the io thread.

\* A read that had completed when we closed the socket is handled all the same; each
\* packet leaves one more read outstanding (ClientTcp), so there may be several.
Receives(u, p) == p \in Packet /\ io = Nobody /\ socket[u] \in {"open", "closed"}

Head(u) ==
  /\ up
  /\ Receives(u, "Head")
  /\ waitingOnAlivePing' = [waitingOnAlivePing EXCEPT ![u] = FALSE]
  /\ UNCHANGED <<connector, request, registry, userId, socket, accountName,
                 isAuthenticated, threads, up>>

\* The account name is replaced at once, whatever becomes of the request.
Auth(u, a, c) ==
  /\ up
  /\ Receives(u, "Auth")
  /\ accountName' = [accountName EXCEPT ![u] = a]
  /\ DB!Make(c, u, "Auth_Publisher", TRUE, TRUE)
  /\ io' = c
  /\ UNCHANGED <<request, registry, socket, isAuthenticated, waitingOnAlivePing,
                 usersMutex, mtx, pc, keepAlive, up>>

\* Bound: no more checks are under way than there are ids left for them.
IdsLeft ==
  curUserId + Cardinality({c \in Call : call[c].op = "Auth_2nd_Check"}) <= MaxUserId

CheckSecondPassword(u, c) ==
  /\ up
  /\ Receives(u, "CheckSecondPassword")
  /\ IdsLeft
  /\ DB!Make(c, u, "Auth_2nd_Check", TRUE, TRUE)
  /\ io' = c
  /\ UNCHANGED <<request, registry, socket, accountName, isAuthenticated, waitingOnAlivePing,
                 usersMutex, mtx, pc, keepAlive, up>>

IoSubmit ==
  /\ up
  /\ io # Nobody
  /\ DB!Submit(io)
  /\ io' = Nobody
  /\ UNCHANGED <<request, registry, socket, accountName, isAuthenticated,
                 waitingOnAlivePing, usersMutex, mtx, pc, keepAlive, up>>
-----------------------------------------------------------------------------
\* The pool threads.

\* Auth_Publisher is refused by an error status or an empty account name and
\* throws on an empty answer; ListCharacter gives up on an error and on an empty
\* or malformed list; Auth_2nd_Check is refused by an error, and ignored when a
\* password is in use or the answer is malformed.
ReplyTo(o) == CASE o = "GetKeySetting" -> {"ok"}
                [] o = "ListCharacter" -> {"ok", "ignored"}
                [] OTHER -> Reply

Answer(c) ==
  /\ up
  /\ \E r \in ReplyTo(call[c].op) : DB!Respond(c, r)
  /\ UNCHANGED <<request, registry, socket, accountName, isAuthenticated,
                 waitingOnAlivePing, threads, up>>

Dispatch(c) ==
  /\ up
  /\ DB!Dispatch(c)
  /\ request' = [request EXCEPT ![c] = IF DB!Wanted(call[c]) THEN @ ELSE NoName]
  /\ UNCHANGED <<registry, socket, accountName, isAuthenticated,
                 waitingOnAlivePing, threads, up>>

In(c, o) == /\ call[c].phase = "running"
            /\ call[c].op = o
            /\ pc[c] = "entry"

\* A callback that ends without touching the registry or the session.
Ends(c) ==
  /\ DB!Return(c)
  /\ request' = [request EXCEPT ![c] = NoName]
  /\ UNCHANGED <<registry, socket, accountName, isAuthenticated,
                 waitingOnAlivePing, threads, up>>

\* Terminate() under mtx: from here the thread holds mtx and wants m_usersMutex.
WantsRemoval(c) ==
  /\ mtx' = [mtx EXCEPT ![call[c].sender] = c]
  /\ pc' = [pc EXCEPT ![c] = "terminate"]
  /\ UNCHANGED <<connector, request, registry, session, usersMutex, io, keepAlive, up>>

\* Mutated form of FollowUp: the request is sent although one of the same serial
\* is under way.
FollowUp_Uncancelled(c, o, d) ==
  /\ call' = [call EXCEPT ![c] = [DB!NewCall(@.sender, o, d, TRUE) EXCEPT !.phase = "sent"]]
  /\ ref' = [ref EXCEPT ![userId[call[c].sender]] = @ + 1]
  /\ request' = [request EXCEPT ![c] = IF o = "ListCharacter"
                                      THEN accountName[call[c].sender] ELSE NoName]
  /\ UNCHANGED <<ready, userId, registry, socket, accountName, isAuthenticated,
                 waitingOnAlivePing, threads, up>>

FollowUp(c, o, d) ==
  /\ DB!Chain(c, o, d)
  /\ request' = [request EXCEPT ![c] = IF call'[c].op = "ListCharacter"
                                      THEN accountName[call[c].sender] ELSE NoName]
  /\ UNCHANGED <<registry, socket, accountName, isAuthenticated, waitingOnAlivePing,
                 threads, up>>

\* Authorize, from taking mtx to the decision.
SameSerial(c) == userId[call[c].sender] = call[c].serial

Authorize(c) ==
  /\ up
  /\ In(c, "Auth_Publisher")
  /\ mtx[call[c].sender] = Nobody
  /\ \/ call[c].reply = "ignored" /\ Ends(c)
     \/ call[c].reply = "ok" /\ SameSerial(c) /\ FollowUp(c, "ListCharacter", TRUE)
     \/ call[c].reply = "ok" /\ ~SameSerial(c) /\ WantsRemoval(c)
     \/ call[c].reply = "refused" /\ WantsRemoval(c)

\* CharacterListed (with assertions compiled out).  The service lists the account
\* it was asked for.
CharacterListed(c) ==
  /\ up
  /\ In(c, "ListCharacter")
  /\ mtx[call[c].sender] = Nobody
  /\ \/ call[c].reply = "ignored" /\ Ends(c)
     \/ /\ call[c].reply = "ok"
        /\ request[c] = accountName[call[c].sender]
        /\ FollowUp(c, "GetKeySetting", FALSE)
     \/ /\ call[c].reply = "ok"
        /\ request[c] # accountName[call[c].sender]
        /\ WantsRemoval(c)

\* The rest of Terminate() in these two: RemoveUser, then both mutexes are free.
\* Mutated form: mtx is not released on this path.
TerminateUnderLock_KeepsMtx(c) ==
  /\ up
  /\ pc[c] = "terminate"
  /\ usersMutex = Nobody
  /\ RemoveUser(call[c].sender)
  /\ pc' = [pc EXCEPT ![c] = "entry"]
  /\ DB!Return(c)
  /\ request' = [request EXCEPT ![c] = NoName]
  /\ UNCHANGED <<usersByUserId, curTempUserId, curUserId, lost, accountName,
                 isAuthenticated, waitingOnAlivePing, usersMutex, mtx, io, keepAlive, up>>

TerminateUnderLock(c) ==
  /\ up
  /\ pc[c] = "terminate"
  /\ usersMutex = Nobody
  /\ RemoveUser(call[c].sender)
  /\ mtx' = [mtx EXCEPT ![call[c].sender] = Nobody]
  /\ pc' = [pc EXCEPT ![c] = "entry"]
  /\ DB!Return(c)
  /\ request' = [request EXCEPT ![c] = NoName]
  /\ UNCHANGED <<usersByUserId, curTempUserId, curUserId, lost, accountName,
                 isAuthenticated, waitingOnAlivePing, usersMutex, io, keepAlive, up>>

KeyLoaded(c) == up /\ In(c, "GetKeySetting") /\ Ends(c)

\* Auth_2nd_Check holds no mutex of its own.
SecondPasswordRefused(c) ==
  /\ up
  /\ In(c, "Auth_2nd_Check")
  /\ call[c].reply = "ignored"
  /\ Ends(c)

SecondPasswordFailed(c) ==
  /\ up
  /\ In(c, "Auth_2nd_Check")
  /\ call[c].reply = "refused"
  /\ usersMutex = Nobody
  /\ RemoveUser(call[c].sender)
  /\ DB!Return(c)
  /\ UNCHANGED <<request, usersByUserId, curTempUserId, curUserId, lost, accountName,
                 isAuthenticated, waitingOnAlivePing, threads, up>>

\* AuthenticateUser up to SetId, which needs the mutex of the user.
\* Mutated forms of its move from map to map: the temporary entry stays; the new
\* entry is made under the old id.
MoveUser_KeepsTemporary(u) ==
  /\ autorizedUsersByUserId' = [autorizedUsersByUserId EXCEPT ![curUserId] = u]
  /\ UNCHANGED usersByUserId

MoveUser_KeyedByOldId(u) ==
  /\ usersByUserId' = [usersByUserId EXCEPT ![userId[u]] = NoUser]
  /\ autorizedUsersByUserId' = [autorizedUsersByUserId EXCEPT ![userId[u]] = u]

MoveUser(u) ==
  /\ usersByUserId' = [usersByUserId EXCEPT ![userId[u]] = NoUser]
  /\ autorizedUsersByUserId' = [autorizedUsersByUserId EXCEPT ![curUserId] = u]

AuthenticateUser(c) ==
  LET u == call[c].sender IN
  /\ up
  /\ In(c, "Auth_2nd_Check")
  /\ call[c].reply = "ok"
  /\ usersMutex = Nobody
  /\ usersMutex' = c
  /\ MoveUser(u)
  /\ lost' = lost \ {u}
  /\ pc' = [pc EXCEPT ![c] = "setId"]
  /\ UNCHANGED <<connector, request, curTempUserId, curUserId, session, mtx, io,
                 keepAlive, up>>

\* Mutated form of SetId: the counter stays, so the next user gets the same id.
SetId_NoAdvance(c) ==
  LET u == call[c].sender IN
  /\ up
  /\ pc[c] = "setId"
  /\ mtx[u] = Nobody
  /\ userId' = [userId EXCEPT ![u] = curUserId]
  /\ isAuthenticated' = [isAuthenticated EXCEPT ![u] = TRUE]
  /\ usersMutex' = Nobody
  /\ pc' = [pc EXCEPT ![c] = "leave"]
  /\ UNCHANGED <<connector, request, registry, socket, accountName, waitingOnAlivePing,
                 mtx, io, keepAlive, up>>

SetId(c) ==
  LET u == call[c].sender IN
  /\ up
  /\ pc[c] = "setId"
  /\ mtx[u] = Nobody
  /\ userId' = [userId EXCEPT ![u] = curUserId]
  /\ isAuthenticated' = [isAuthenticated EXCEPT ![u] = TRUE]
  /\ curUserId' = curUserId + 1
  /\ usersMutex' = Nobody
  /\ pc' = [pc EXCEPT ![c] = "leave"]
  /\ UNCHANGED <<connector, request, usersByUserId, autorizedUsersByUserId, curTempUserId,
                 lost, socket, accountName, waitingOnAlivePing, mtx, io, keepAlive, up>>

SecondPasswordChecked(c) ==
  /\ up
  /\ pc[c] = "leave"
  /\ DB!Return(c)
  /\ pc' = [pc EXCEPT ![c] = "entry"]
  /\ UNCHANGED <<request, registry, socket, accountName, isAuthenticated,
                 waitingOnAlivePing, usersMutex, mtx, io, keepAlive, up>>
-----------------------------------------------------------------------------
\* The keep-alive thread.

Registered(m) == {i \in Id : m[i] # NoUser}

\* The size of m_usersByUserId is looked at without m_usersMutex.
WakeUp ==
  /\ up
  /\ keepAlive.at = "asleep"
  /\ Registered(usersByUserId) # {}
  /\ keepAlive' = [at |-> "awake", todo |-> {}]
  /\ UNCHANGED <<connector, request, registry, session, usersMutex, mtx, pc, io, up>>

\* NextAlivePingForAll: m_usersMutex for both loops.
BeginPass ==
  /\ up
  /\ keepAlive.at = "awake"
  /\ usersMutex = Nobody
  /\ usersMutex' = KeepAlive
  /\ keepAlive' = [at |-> "authorized", todo |-> Registered(autorizedUsersByUserId)]
  /\ UNCHANGED <<connector, request, registry, session, mtx, pc, io, up>>

Ping(u, i) ==
  /\ waitingOnAlivePing[u]
  /\ waitingOnAlivePing' = [waitingOnAlivePing EXCEPT ![u] = FALSE]
  /\ keepAlive' = [keepAlive EXCEPT !.todo = @ \ {i}]
  /\ UNCHANGED <<connector, request, registry, userId, socket, accountName,
                 isAuthenticated, usersMutex, mtx, pc, io, up>>

\* Mutated form of Evict: the ping that was not answered is only logged.
Evict_LogsOnly(u, i) ==
  /\ ~waitingOnAlivePing[u]
  /\ keepAlive' = [keepAlive EXCEPT !.todo = @ \ {i}]
  /\ UNCHANGED <<connector, request, registry, session, usersMutex, mtx, pc, io, up>>

\* Erasing the entry the loop stands on invalidates its iterator: the loop goes
\* on (the freed node still holds its link) or the process ends.
Evict(u, i) ==
  /\ ~waitingOnAlivePing[u]
  /\ RemoveUser(u)
  /\ keepAlive' = [keepAlive EXCEPT
                     !.todo = (@ \ {i}) \cap
                       IF keepAlive.at = "authorized"
                       THEN {j \in Id : autorizedUsersByUserId'[j] # NoUser} ELSE Id]
  /\ up' \in (IF keepAlive.at = "authorized" /\ autorizedUsersByUserId'[i] = NoUser
               THEN BOOLEAN ELSE {TRUE})
  /\ UNCHANGED <<connector, request, usersByUserId, curTempUserId, curUserId, lost, userId,
                 accountName, isAuthenticated, waitingOnAlivePing, usersMutex, mtx, pc, io>>

Visit ==
  /\ up
  /\ keepAlive.at \in {"authorized", "temporary"}
  /\ \E i \in keepAlive.todo :
       LET u == IF keepAlive.at = "authorized" THEN autorizedUsersByUserId[i]
                                               ELSE usersByUserId[i]
       IN  Ping(u, i) \/ Evict(u, i)

NextLoop ==
  /\ up
  /\ keepAlive.at = "authorized" /\ keepAlive.todo = {}
  /\ keepAlive' = [at |-> "temporary", todo |-> Registered(usersByUserId)]
  /\ UNCHANGED <<connector, request, registry, session, usersMutex, mtx, pc, io, up>>

GoToSleep ==
  /\ up
  /\ keepAlive.at = "temporary" /\ keepAlive.todo = {}
  /\ keepAlive' = [at |-> "asleep", todo |-> {}]
  /\ usersMutex' = Nobody
  /\ UNCHANGED <<connector, request, registry, session, mtx, pc, io, up>>
-----------------------------------------------------------------------------
Io == \/ \E u \in User : MakeUser(u) \/ PeerCloses(u) \/ Head(u)
      \/ \E u \in User, c \in Call :
           CheckSecondPassword(u, c) \/ \E a \in Account : Auth(u, a, c)
      \/ IoSubmit

Callback(c) ==
  \/ Authorize(c) \/ CharacterListed(c) \/ TerminateUnderLock(c) \/ KeyLoaded(c)
  \/ SecondPasswordRefused(c) \/ SecondPasswordFailed(c)
  \/ AuthenticateUser(c) \/ SetId(c) \/ SecondPasswordChecked(c)

Pass == WakeUp \/ BeginPass \/ Visit \/ NextLoop \/ GoToSleep

Next == \/ Io
        \/ \E c \in Call : Answer(c) \/ Dispatch(c) \/ Callback(c)
        \/ Pass

Spec == Init /\ [][Next]_vars

\* Threads are scheduled; one that keeps finding its mutex free gets it; exchanges
\* with the service end (time-out of 5 s); the keep-alive thread looks every 30 s.
\* Nothing is assumed of the peers.
Fairness ==
  /\ WF_vars(IoSubmit)
  /\ \A c \in Call : /\ WF_vars(Answer(c))
                       /\ WF_vars(Dispatch(c))
                       /\ SF_vars(Callback(c))
  /\ WF_vars(WakeUp)
  /\ SF_vars(BeginPass)
  /\ WF_vars(Visit \/ NextLoop \/ GoToSleep)

FairSpec == Spec /\ Fairness
-----------------------------------------------------------------------------
\* The lobby uses the connector as DBConnector describes it: every step is one of
\* its steps or leaves it alone, and no user ever takes a serial in use.  What is
\* proved about DBConnector therefore holds of the lobby's requests.
ImplementsConnector == DB!Spec

\* No two sessions share an id, although ids are handed out by the io thread and
\* by the callbacks of several pool threads.
IdsUnique ==
  \A u, w \in User : u # w /\ userId[u] # NoId => userId[u] # userId[w]

\* A session we have not closed is registered under its present id, in the map that
\* goes with the id; excepted are the moment within AuthenticateUser and the sessions
\* whose entry the race of MakeUser has lost.
Settling(u) == \E c \in Call : pc[c] = "setId" /\ call[c].sender = u

SessionRegistered ==
  \A u \in User :
    socket[u] \in {"open", "lost"} /\ ~Settling(u) =>
      \/ u \in lost
      \/ userId[u] \in TempId /\ usersByUserId[userId[u]] = u
      \/ userId[u] \in UserId /\ autorizedUsersByUserId[userId[u]] = u

\* Nobody is in both maps: authentication moves a session, also when several of
\* its answers are applied.
OneRegistry ==
  \A i, j \in Id : usersByUserId[i] # NoUser => usersByUserId[i] # autorizedUsersByUserId[j]

\* The connector tells duplicates by the serial alone, and a session's serial is an id
\* that changes.  A packet's request, or the list of characters a good login asks for,
\* is dropped only while another request of the same session is under way: not on
\* account of another session, of an entry of ref that nobody stands behind, or of the
\* login the list follows.
MayBeDropped(c) == \/ call[c].phase = "made"
                   \/ In(c, "Auth_Publisher") /\ call[c].reply = "ok"

DroppedForAnother ==
  [][\A c \in Call :
       MayBeDropped(c) /\ call'[c].phase = "free" =>
         \E d \in Call \ {c} : DB!Sent(d) /\ call[d].sender = call[c].sender]_vars

\* Two callbacks of one user, each with the mutex the other waits for: Authorize or
\* CharacterListed in Terminate (mtx, then m_usersMutex), and AuthenticateUser in
\* SetId (m_usersMutex, then mtx).
LockCycle ==
  \E c, d \in Call : /\ pc[c] = "terminate" /\ pc[d] = "setId"
                       /\ call[c].sender = call[d].sender

\* The remark on DynamicDBConnector asks its users to avoid dead-locks in their
\* callbacks: no two callbacks wait for each other's mutex.
CallbacksAvoidDeadlock == ~LockCycle

\* A callback that has begun comes to its end, whatever mutexes the other threads
\* hold, unless it or the holder of a mutex is part of a LockCycle.
CallbackEnds ==
  \A c \in Call :
    call[c].phase = "running" ~> (call[c].phase # "running" \/ LockCycle \/ ~up)

\* A registered session that has no ping outstanding is closed by the keep-alive
\* thread, provided some temporary entry keeps that thread from skipping its pass.
Silent(u) == /\ socket[u] \in {"open", "lost"}
             /\ userId[u] \in UserId
             /\ ~waitingOnAlivePing[u]

SilentSessionsClosed ==
  \A u \in User :
    Silent(u) ~> \/ socket[u] = "closed"
                 \/ Registered(usersByUserId) = {}
                 \/ LockCycle
                 \/ ~up
=============================================================================
