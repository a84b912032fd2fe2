----------------------------- MODULE DBConnector -----------------------------
(***************************************************************************)
(* DynamicDBConnector of Network/AspApi/AspApi.h: asynchronous requests to *)
(* the database service.  A request is a Caller object that records its    *)
(* sender and the sender's serial at that moment.  `ref' is the multiset   *)
(* of the serials with a request under way; it decides whether a request   *)
(* made with cancelByDuplication is dropped, and whether an answer is      *)
(* still wanted.  The HTTP exchange and the callback run on a thread of    *)
(* the pool, so every step below interleaves with every other.             *)
(*                                                                         *)
(* Serial 0 is also the serial of a NULL sender, as in the constructor of  *)
(* Caller.  NoSerial is the serial of a sender that is not yet constructed.*)
(***************************************************************************)
EXTENDS Integers, FiniteSets

CONSTANTS Sender,    \* objects that make requests
          NoSender,  \* the NULL sender
          Serial,    \* values of GetUniqueSerial()
          NoSerial,
          Call,      \* names of Caller objects; bounds how many exist at a time
          Op,        \* operations, one page of the service and one callback each
          NoOp,
          Reply,     \* classes of answers the callbacks distinguish
          NoReply

ASSUME ConnectorAssumption ==
  /\ Serial \subseteq Int /\ 0 \in Serial
  /\ NoSerial \notin Serial
  /\ NoSender \notin Sender
  /\ IsFiniteSet(Call)

VARIABLES ready,     \* Initialize has run: baseUrl is not empty
          ref,       \* the multiset of serials, as a count per serial
          call,      \* the Caller objects
          serialOf   \* GetUniqueSerial() of each sender

vars == <<ready, ref, call, serialOf>>

Phase == {"free", "made", "sent", "answered", "running"}

Caller == [phase : Phase, sender : Sender \cup {NoSender}, serial : Serial,
           op : Op \cup {NoOp}, dup : BOOLEAN, strict : BOOLEAN,
           reply : Reply \cup {NoReply}]

FreeCall == [phase |-> "free", sender |-> NoSender, serial |-> 0, op |-> NoOp,
             dup |-> FALSE, strict |-> FALSE, reply |-> NoReply]

\* All state has its type: counts are natural numbers, callers are complete.
TypeOK == /\ ready \in BOOLEAN
          /\ ref \in [Serial -> Nat]
          /\ call \in [Call -> Caller]
          /\ serialOf \in [Sender -> Serial \cup {NoSerial}]

Init == /\ ready \in BOOLEAN
        /\ ref = [v \in Serial |-> 0]
        /\ call = [c \in Call |-> FreeCall]
        /\ serialOf = [s \in Sender |-> NoSerial]
-----------------------------------------------------------------------------
CurrentSerial(s) == IF s = NoSender THEN 0 ELSE serialOf[s]

\* A Caller as its constructor leaves it: the serial is read here, once.
NewCall(s, o, d, x) ==
  [phase |-> "made", sender |-> s, serial |-> CurrentSerial(s), op |-> o,
   dup |-> d, strict |-> x, reply |-> NoReply]

\* cancelByDuplication finds the caller's serial in ref.
Cancelled(k) == k.dup /\ ref[k.serial] > 0

\* Mutated forms of Enter: the test looks at the caller's own phase only; the
\* insertion into ref is forgotten for a request that is not exclusive.
Enter_NoTest(c, k) ==
  /\ call' = [call EXCEPT ![c] = [k EXCEPT !.phase = "sent"]]
  /\ ref' = [ref EXCEPT ![k.serial] = @ + 1]

Enter_InsertExclusiveOnly(c, k) ==
  IF ~ready \/ Cancelled(k)
  THEN /\ call' = [call EXCEPT ![c] = FreeCall]
       /\ UNCHANGED ref
  ELSE /\ call' = [call EXCEPT ![c] = [k EXCEPT !.phase = "sent"]]
       /\ ref' = [ref EXCEPT ![k.serial] = IF k.dup THEN @ + 1 ELSE @]

\* The critical section of Request, then Open: the fate of caller object k,
\* which goes by the name c.
Enter(c, k) ==
  IF ~ready \/ Cancelled(k)
  THEN /\ call' = [call EXCEPT ![c] = FreeCall]
       /\ UNCHANGED ref
  ELSE /\ call' = [call EXCEPT ![c] = [k EXCEPT !.phase = "sent"]]
       /\ ref' = [ref EXCEPT ![k.serial] = @ + 1]

Initialize == /\ ~ready
              /\ ready' = TRUE
              /\ UNCHANGED <<ref, call, serialOf>>

\* The sender's serial changes (User::SetId), to one nobody else has.
SetSerial(s, v) ==
  /\ \A t \in Sender : serialOf[t] # v
  /\ serialOf' = [serialOf EXCEPT ![s] = v]
  /\ UNCHANGED <<ready, ref, call>>

\* Request, first half: construct the Caller, outside the lock.
Make(c, s, o, d, x) ==
  /\ call[c].phase = "free"
  /\ CurrentSerial(s) # NoSerial
  /\ call' = [call EXCEPT ![c] = NewCall(s, o, d, x)]
  /\ UNCHANGED <<ready, ref, serialOf>>

\* Request, second half: test and insert under cs, hand over to the pool.
Submit(c) == /\ call[c].phase = "made"
             /\ Enter(c, call[c])
             /\ UNCHANGED <<ready, serialOf>>

\* Mutated form of Respond: every entry of the serial is erased (erase by key
\* instead of by iterator).
Respond_EraseKey(c, r) ==
  /\ call[c].phase = "sent"
  /\ LET v == call[c].serial IN
     IF ref[v] > 0
     THEN /\ ref' = [ref EXCEPT ![v] = 0]
          /\ call' = [call EXCEPT ![c].phase = "answered", ![c].reply = r]
     ELSE /\ call' = [call EXCEPT ![c] = FreeCall]
          /\ UNCHANGED ref
  /\ UNCHANGED <<ready, serialOf>>

\* Mutated form of Respond: the serial is looked up, but its entry is left in ref.
Respond_KeepsEntry(c, r) ==
  /\ call[c].phase = "sent"
  /\ call' = [call EXCEPT ![c] = IF ref[@.serial] > 0
                                 THEN [@ EXCEPT !.phase = "answered", !.reply = r]
                                 ELSE FreeCall]
  /\ UNCHANGED <<ready, ref, serialOf>>

\* A pool thread has the HTTP result (an answer or the time-out) and looks the
\* serial up under cs.  An answer whose serial is not found is discarded.
Respond(c, r) ==
  /\ call[c].phase = "sent"
  /\ LET v == call[c].serial IN
     IF ref[v] > 0
     THEN /\ ref' = [ref EXCEPT ![v] = @ - 1]
          /\ call' = [call EXCEPT ![c].phase = "answered", ![c].reply = r]
     ELSE /\ call' = [call EXCEPT ![c] = FreeCall]
          /\ UNCHANGED ref
  /\ UNCHANGED <<ready, serialOf>>

\* Caller::Call: an answer for a sender that changed its serial is swallowed.
Wanted(k) == ~k.strict \/ k.sender = NoSender \/ serialOf[k.sender] = k.serial

Dispatch(c) ==
  /\ call[c].phase = "answered"
  /\ call' = [call EXCEPT ![c] =
                IF Wanted(@) THEN [@ EXCEPT !.phase = "running"] ELSE FreeCall]
  /\ UNCHANGED <<ready, ref, serialOf>>

\* Mutated form of Return: the serial is released a second time.
Return_ReleasesAgain(c) ==
  /\ call[c].phase = "running"
  /\ call' = [call EXCEPT ![c] = FreeCall]
  /\ ref' = [ref EXCEPT ![call[c].serial] = @ - 1]
  /\ UNCHANGED <<ready, serialOf>>

\* The callback returns (or throws into the packaged task): the caller is gone.
Return(c) == /\ call[c].phase = "running"
             /\ call' = [call EXCEPT ![c] = FreeCall]
             /\ UNCHANGED <<ready, ref, serialOf>>

\* The callback's last act is a request of its own; the new Caller takes over
\* the name of the one that is deleted.
Chain(c, o, d) ==
  /\ call[c].phase = "running"
  /\ CurrentSerial(call[c].sender) # NoSerial
  /\ Enter(c, NewCall(call[c].sender, o, d, TRUE))
  /\ UNCHANGED <<ready, serialOf>>
-----------------------------------------------------------------------------
Next ==
  \/ Initialize
  \/ \E s \in Sender, v \in Serial : SetSerial(s, v)
  \/ \E c \in Call :
       \/ \E s \in Sender \cup {NoSender}, o \in Op, d, x \in BOOLEAN : Make(c, s, o, d, x)
       \/ Submit(c)
       \/ \E r \in Reply : Respond(c, r)
       \/ Dispatch(c)
       \/ Return(c)
       \/ \E o \in Op, d \in BOOLEAN : Chain(c, o, d)

Spec == Init /\ [][Next]_vars

\* Pool threads run what is queued, cpr ends every exchange within its time-out
\* of 5 s, and a callback that has the locks it needs runs to its end.
Fairness == \A c \in Call : /\ WF_vars(Submit(c))
                           /\ WF_vars(\E r \in Reply : Respond(c, r))
                           /\ WF_vars(Dispatch(c))
                           /\ WF_vars(Return(c))

FairSpec == Spec /\ Fairness
-----------------------------------------------------------------------------
Sent(c) == call[c].phase = "sent"

PendingUnder(v) == {c \in Call : Sent(c) /\ call[c].serial = v}

\* ref holds each serial as often as requests made under it are under way, so
\* the answer to an accepted request always finds its entry, although answers
\* take away any entry of that serial and senders change their serials meanwhile.
RefCountsPending == \A v \in Serial : ref[v] = Cardinality(PendingUnder(v))

\* Of the requests that asked for cancelByDuplication, at most one per serial is
\* under way, whatever other requests the same sender makes.
OneExclusivePending ==
  \A c, d \in Call : /\ Sent(c) /\ call[c].dup
                     /\ Sent(d) /\ call[d].dup
                     /\ call[c].serial = call[d].serial
                     => c = d

\* "eventWork" is never false: no accepted request is deleted without its answer
\* having been taken to Caller::Call.
AnswersAreReported ==
  [][\A c \in Call : Sent(c) /\ ~Sent(c)' => call'[c].phase = "answered"]_vars

\* The connector implements RequestTable, which decides by the pending requests
\* themselves where the code decides by the counts in ref.
Slot(k) == CASE k.phase = "sent" ->
                  [stage |-> "pending", serial |-> k.serial, exclusive |-> k.dup]
             [] k.phase \in {"answered", "running"} ->
                  [stage |-> "answered", serial |-> k.serial, exclusive |-> k.dup]
             [] OTHER -> [stage |-> "idle"]

Table == INSTANCE RequestTable WITH slot <- [c \in Call |-> Slot(call[c])]

ImplementsTable == Table!Spec

\* A request is not forgotten: its callback runs, unless the sender changed its
\* serial in the meantime.
CalledBack ==
  \A c \in Call, s \in Sender, v \in Serial :
    (Sent(c) /\ call[c].sender = s /\ call[c].serial = v /\ serialOf[s] = v)
      ~> (call[c].phase = "running" \/ serialOf[s] # v)
=============================================================================
