-------------------------- MODULE DBConnectorProofs --------------------------
(***************************************************************************)
(* Proofs about DBConnector, for every number of senders, serials, callers *)
(* and operations.  The inductive invariant is Inv: the counts in ref are  *)
(* the numbers of requests under way.  That at most one exclusive request  *)
(* per serial is under way, that no answer is discarded for want of its    *)
(* entry, and the refinement of RequestTable all rest on it.               *)
(***************************************************************************)
EXTENDS DBConnector, FiniteSetTheorems, TLAPS

Inv == TypeOK /\ RefCountsPending

-----------------------------------------------------------------------------
\* Callers and their types.

\* The two ways a caller object comes about yield complete callers.
LEMMA FreeCallType == FreeCall \in Caller
BY ConnectorAssumption DEF FreeCall, Caller, Phase

LEMMA NewCallType ==
  ASSUME TypeOK, NEW s \in Sender \cup {NoSender}, NEW o \in Op,
         NEW d \in BOOLEAN, NEW x \in BOOLEAN, CurrentSerial(s) # NoSerial
  PROVE  NewCall(s, o, d, x) \in Caller
<1>1. CurrentSerial(s) \in Serial
  BY ConnectorAssumption DEF TypeOK, CurrentSerial
<1> QED
  BY <1>1 DEF NewCall, Caller, Phase

\* Entering the critical section preserves the types, and leaves c free or sent.
LEMMA EnterType ==
  ASSUME TypeOK, NEW c \in Call, NEW k \in Caller, Enter(c, k),
         UNCHANGED <<ready, serialOf>>
  PROVE  TypeOK'
<1>1. [k EXCEPT !.phase = "sent"] \in Caller
  BY DEF Caller, Phase
<1>2. k.serial \in Serial
  BY DEF Caller
<1>3. call' \in [Call -> Caller]
  BY <1>1, FreeCallType DEF TypeOK, Enter
<1>4. ref' \in [Serial -> Nat]
  BY <1>2 DEF TypeOK, Enter
<1> QED
  BY <1>3, <1>4 DEF TypeOK

\* TypeOK is preserved by every step.
LEMMA TypeStep == TypeOK /\ [Next]_vars => TypeOK'
<1> SUFFICES ASSUME TypeOK, [Next]_vars PROVE TypeOK'
  OBVIOUS
<1>1. CASE Initialize
  BY <1>1 DEF Initialize, TypeOK
<1>2. ASSUME NEW s \in Sender, NEW v \in Serial, SetSerial(s, v) PROVE TypeOK'
  BY <1>2 DEF SetSerial, TypeOK
<1>3. ASSUME NEW c \in Call, NEW s \in Sender \cup {NoSender}, NEW o \in Op,
             NEW d \in BOOLEAN, NEW x \in BOOLEAN, Make(c, s, o, d, x)
      PROVE  TypeOK'
  <2>1. NewCall(s, o, d, x) \in Caller
    BY <1>3, NewCallType DEF Make
  <2> QED
    BY <1>3, <2>1 DEF Make, TypeOK
<1>4. ASSUME NEW c \in Call, Submit(c) PROVE TypeOK'
  <2>1. call[c] \in Caller
    BY DEF TypeOK
  <2> QED
    BY <1>4, <2>1, EnterType DEF Submit
<1>5. ASSUME NEW c \in Call, NEW r \in Reply, Respond(c, r) PROVE TypeOK'
  <2> DEFINE v == call[c].serial
  <2>1. call[c] \in Caller /\ v \in Serial /\ ref[v] \in Nat
    BY DEF TypeOK, Caller
  <2>2. CASE ref[v] > 0
    <3>1. [call[c] EXCEPT !.phase = "answered", !.reply = r] \in Caller
      BY <2>1 DEF Caller, Phase
    <3>2. call' = [call EXCEPT ![c] = [call[c] EXCEPT !.phase = "answered", !.reply = r]]
      BY <1>5, <2>2 DEF Respond, TypeOK
    <3>3. call' \in [Call -> Caller]
      BY <3>1, <3>2 DEF TypeOK
    <3>4. ref' \in [Serial -> Nat]
      BY <1>5, <2>1, <2>2 DEF Respond, TypeOK
    <3> QED
      BY <1>5, <3>3, <3>4 DEF Respond, TypeOK
  <2>3. CASE ~(ref[v] > 0)
    BY <1>5, <2>3, FreeCallType DEF Respond, TypeOK
  <2> QED
    BY <2>2, <2>3
<1>6. ASSUME NEW c \in Call, Dispatch(c) PROVE TypeOK'
  <2>1. call[c] \in Caller
    BY DEF TypeOK
  <2>2. [call[c] EXCEPT !.phase = "running"] \in Caller
    BY <2>1 DEF Caller, Phase
  <2>3. call' \in [Call -> Caller]
    BY <1>6, <2>2, FreeCallType DEF Dispatch, TypeOK
  <2> QED
    BY <1>6, <2>3 DEF Dispatch, TypeOK
<1>7. ASSUME NEW c \in Call, Return(c) PROVE TypeOK'
  BY <1>7, FreeCallType DEF Return, TypeOK
<1>8. ASSUME NEW c \in Call, NEW o \in Op, NEW d \in BOOLEAN, Chain(c, o, d)
      PROVE  TypeOK'
  <2>1. call[c].sender \in Sender \cup {NoSender}
    BY DEF TypeOK, Caller
  <2>2. NewCall(call[c].sender, o, d, TRUE) \in Caller
    BY <1>8, <2>1, NewCallType DEF Chain
  <2> QED
    BY <1>8, <2>2, EnterType DEF Chain
<1>9. CASE UNCHANGED vars
  BY <1>9 DEF vars, TypeOK
<1> QED
  BY <1>1, <1>2, <1>3, <1>4, <1>5, <1>6, <1>7, <1>8, <1>9 DEF Next

\* Types hold throughout: in particular a count in ref never drops below zero.
THEOREM TypeCorrect == Spec => []TypeOK
<1>1. Init => TypeOK
  BY FreeCallType DEF Init, TypeOK
<1> QED
  BY <1>1, TypeStep, PTL DEF Spec
-----------------------------------------------------------------------------
\* Counting the requests under way.

\* There are finitely many of them.
LEMMA PendingFinite ==
  ASSUME NEW v
  PROVE  IsFiniteSet(PendingUnder(v)) /\ Cardinality(PendingUnder(v)) \in Nat
<1>1. PendingUnder(v) \subseteq Call
  BY DEF PendingUnder
<1> QED
  BY <1>1, FS_Subset, FS_CardinalityType, ConnectorAssumption

\* A caller that becomes sent adds one to the count of its serial, no other.
LEMMA CountSent ==
  ASSUME TypeOK, NEW c \in Call, NEW k, ~Sent(c), k.phase = "sent",
         call' = [call EXCEPT ![c] = k], NEW w
  PROVE  Cardinality(PendingUnder(w)') =
           IF w = k.serial THEN Cardinality(PendingUnder(w)) + 1
                           ELSE Cardinality(PendingUnder(w))
<1>1. call'[c] = k /\ \A d \in Call : d # c => call'[d] = call[d]
  BY DEF TypeOK
<1>2. c \notin PendingUnder(w)
  BY DEF PendingUnder
<1>3. CASE w = k.serial
  <2>1. PendingUnder(w)' = PendingUnder(w) \cup {c}
    BY <1>1, <1>2, <1>3 DEF PendingUnder, Sent
  <2> QED
    BY <2>1, <1>2, <1>3, PendingFinite, FS_AddElement
<1>4. CASE w # k.serial
  <2>1. PendingUnder(w)' = PendingUnder(w)
    BY <1>1, <1>2, <1>4 DEF PendingUnder, Sent
  <2> QED
    BY <2>1, <1>4
<1> QED
  BY <1>3, <1>4

\* A caller that ceases to be sent takes one from the count of its serial.
LEMMA CountAnswered ==
  ASSUME TypeOK, NEW c \in Call, NEW k, Sent(c), k.phase # "sent",
         call' = [call EXCEPT ![c] = k], NEW w
  PROVE  Cardinality(PendingUnder(w)') =
           IF w = call[c].serial THEN Cardinality(PendingUnder(w)) - 1
                                 ELSE Cardinality(PendingUnder(w))
<1>1. call'[c] = k /\ \A d \in Call : d # c => call'[d] = call[d]
  BY DEF TypeOK
<1>2. CASE w = call[c].serial
  <2>1. PendingUnder(w)' = PendingUnder(w) \ {c}
    BY <1>1, <1>2 DEF PendingUnder, Sent
  <2>2. c \in PendingUnder(w)
    BY <1>2 DEF PendingUnder
  <2> QED
    BY <2>1, <2>2, <1>2, PendingFinite, FS_RemoveElement
<1>3. CASE w # call[c].serial
  <2>1. PendingUnder(w)' = PendingUnder(w)
    BY <1>1, <1>3 DEF PendingUnder, Sent
  <2> QED
    BY <2>1, <1>3
<1> QED
  BY <1>2, <1>3

\* Replacing a caller that is not sent by one that is not sent changes no count.
LEMMA CountSame ==
  ASSUME TypeOK, NEW c \in Call, NEW k, ~Sent(c), k.phase # "sent",
         call' = [call EXCEPT ![c] = k], NEW w
  PROVE  PendingUnder(w)' = PendingUnder(w)
<1>1. call'[c] = k /\ \A d \in Call : d # c => call'[d] = call[d]
  BY DEF TypeOK
<1> QED
  BY <1>1 DEF PendingUnder, Sent

\* Under Inv, the serial of a caller that is sent has an entry in ref, and a serial
\* without an entry has no caller that is sent.
LEMMA EntryOfSent ==
  ASSUME Inv, NEW c \in Call, Sent(c)
  PROVE  ref[call[c].serial] > 0
<1>1. call[c].serial \in Serial
  BY DEF Inv, TypeOK, Caller
<1>2. c \in PendingUnder(call[c].serial)
  BY DEF PendingUnder
<1>3. Cardinality(PendingUnder(call[c].serial)) # 0
  BY <1>2, PendingFinite, FS_EmptySet
<1> QED
  BY <1>1, <1>3, PendingFinite DEF Inv, RefCountsPending

\* The critical section keeps the counts right.
LEMMA EnterCounts ==
  ASSUME Inv, NEW c \in Call, NEW k \in Caller, ~Sent(c), Enter(c, k)
  PROVE  RefCountsPending'
<1>1. k.serial \in Serial /\ TypeOK
  BY DEF Caller, Inv
<1>2. CASE ~ready \/ Cancelled(k)
  <2>1. call' = [call EXCEPT ![c] = FreeCall] /\ ref' = ref
    BY <1>2 DEF Enter
  <2>2. FreeCall.phase # "sent"
    BY DEF FreeCall
  <2>3. \A w \in Serial : PendingUnder(w)' = PendingUnder(w)
    BY <1>1, <2>1, <2>2, CountSame
  <2> QED
    BY <2>1, <2>3 DEF RefCountsPending, Inv
<1>3. CASE ~(~ready \/ Cancelled(k))
  <2> DEFINE kk == [k EXCEPT !.phase = "sent"]
  <2>1. call' = [call EXCEPT ![c] = kk] /\ ref' = [ref EXCEPT ![k.serial] = @ + 1]
    BY <1>3 DEF Enter
  <2>2. kk.phase = "sent" /\ kk.serial = k.serial
    BY DEF Caller
  <2> HIDE DEF kk
  <2>3. \A w \in Serial : Cardinality(PendingUnder(w)') =
           IF w = kk.serial THEN Cardinality(PendingUnder(w)) + 1
                            ELSE Cardinality(PendingUnder(w))
    BY <1>1, <2>1, <2>2, CountSent
  <2> QED
    BY <1>1, <2>1, <2>2, <2>3 DEF RefCountsPending, Inv, TypeOK
<1> QED
  BY <1>2, <1>3

\* The answer to a request finds its entry and takes it away, one entry only.
LEMMA RespondEffect ==
  ASSUME Inv, NEW c \in Call, NEW r \in Reply, Respond(c, r)
  PROVE  /\ call' = [call EXCEPT ![c] =
                       [call[c] EXCEPT !.phase = "answered", !.reply = r]]
         /\ ref' = [ref EXCEPT ![call[c].serial] = @ - 1]
<1>1. ref[call[c].serial] > 0
  BY EntryOfSent DEF Respond, Sent
<1> QED
  BY <1>1 DEF Respond, Inv, TypeOK

\* The counts are preserved by every step.
LEMMA CountStep == Inv /\ [Next]_vars => RefCountsPending'
<1> SUFFICES ASSUME Inv, [Next]_vars PROVE RefCountsPending'
  OBVIOUS
<1>t. TypeOK /\ \A c \in Call : call[c] \in Caller
  BY DEF Inv, TypeOK
<1>same. ASSUME NEW c \in Call, NEW k, ~Sent(c), k.phase # "sent",
                call' = [call EXCEPT ![c] = k], ref' = ref
         PROVE  RefCountsPending'
  <2>1. \A w \in Serial : PendingUnder(w)' = PendingUnder(w)
    BY <1>t, <1>same, CountSame
  <2> QED
    BY <1>same, <2>1 DEF Inv, RefCountsPending
<1>1. CASE Initialize
  BY <1>1 DEF Initialize, Inv, RefCountsPending, PendingUnder, Sent
<1>2. ASSUME NEW s \in Sender, NEW v \in Serial, SetSerial(s, v)
      PROVE  RefCountsPending'
  BY <1>2 DEF SetSerial, Inv, RefCountsPending, PendingUnder, Sent
<1>3. ASSUME NEW c \in Call, NEW s \in Sender \cup {NoSender}, NEW o \in Op,
             NEW d \in BOOLEAN, NEW x \in BOOLEAN, Make(c, s, o, d, x)
      PROVE  RefCountsPending'
  <2>1. NewCall(s, o, d, x).phase # "sent"
    BY DEF NewCall
  <2> QED
    BY <1>3, <2>1, <1>same DEF Make, Sent
<1>4. ASSUME NEW c \in Call, Submit(c) PROVE RefCountsPending'
  BY <1>4, <1>t, EnterCounts DEF Submit, Sent
<1>5. ASSUME NEW c \in Call, NEW r \in Reply, Respond(c, r) PROVE RefCountsPending'
  <2> DEFINE k == [call[c] EXCEPT !.phase = "answered", !.reply = r]
  <2>1. call' = [call EXCEPT ![c] = k] /\ ref' = [ref EXCEPT ![call[c].serial] = @ - 1]
    BY <1>5, RespondEffect
  <2>2. k.phase # "sent" /\ Sent(c) /\ call[c].serial \in Serial
    BY <1>5, <1>t DEF Respond, Sent, Caller
  <2> HIDE DEF k
  <2>3. \A w \in Serial : Cardinality(PendingUnder(w)') =
           IF w = call[c].serial THEN Cardinality(PendingUnder(w)) - 1
                                 ELSE Cardinality(PendingUnder(w))
    BY <1>t, <2>1, <2>2, CountAnswered
  <2> QED
    BY <2>1, <2>2, <2>3 DEF Inv, TypeOK, RefCountsPending
<1>6. ASSUME NEW c \in Call, Dispatch(c) PROVE RefCountsPending'
  <2> DEFINE k == IF Wanted(call[c]) THEN [call[c] EXCEPT !.phase = "running"] ELSE FreeCall
  <2>1. k.phase # "sent"
    BY <1>t DEF FreeCall, Caller
  <2>2. call' = [call EXCEPT ![c] = k] /\ ref' = ref /\ ~Sent(c)
    BY <1>6, <1>t DEF Dispatch, Sent, TypeOK
  <2> HIDE DEF k
  <2> QED
    BY <2>1, <2>2, <1>same
<1>7. ASSUME NEW c \in Call, Return(c) PROVE RefCountsPending'
  <2>1. FreeCall.phase # "sent"
    BY DEF FreeCall
  <2> QED
    BY <1>7, <2>1, <1>same DEF Return, Sent
<1>8. ASSUME NEW c \in Call, NEW o \in Op, NEW d \in BOOLEAN, Chain(c, o, d)
      PROVE  RefCountsPending'
  <2>1. call[c].sender \in Sender \cup {NoSender}
    BY <1>t DEF Caller
  <2>2. NewCall(call[c].sender, o, d, TRUE) \in Caller
    BY <1>8, <1>t, <2>1, NewCallType DEF Chain
  <2> QED
    BY <1>8, <2>2, EnterCounts DEF Chain, Sent
<1>9. CASE UNCHANGED vars
  BY <1>9 DEF vars, Inv, RefCountsPending, PendingUnder, Sent
<1> QED
  BY <1>1, <1>2, <1>3, <1>4, <1>5, <1>6, <1>7, <1>8, <1>9 DEF Next

LEMMA InvInit == Init => Inv
<1> SUFFICES ASSUME Init PROVE Inv
  OBVIOUS
<1>1. TypeOK
  BY FreeCallType DEF Init, TypeOK
<1>2. \A v \in Serial : PendingUnder(v) = {}
  BY DEF Init, PendingUnder, Sent, FreeCall
<1>3. RefCountsPending
  BY <1>2, FS_EmptySet DEF Init, RefCountsPending
<1> QED
  BY <1>1, <1>3 DEF Inv

LEMMA InvStep == Inv /\ [Next]_vars => Inv'
BY TypeStep, CountStep DEF Inv

\* ref is exact in every reachable state.
THEOREM RefCountsPendingAlways == Spec => []RefCountsPending
<1>1. Inv => RefCountsPending
  BY DEF Inv
<1> QED
  BY InvInit, InvStep, <1>1, PTL DEF Spec
-----------------------------------------------------------------------------
\* Exclusive requests, and answers.

\* A caller that the critical section lets in as exclusive finds no other one
\* under way with its serial.
LEMMA AdmittedAlone ==
  ASSUME Inv, NEW k \in Caller, k.dup, ~Cancelled(k), NEW d \in Call, Sent(d)
  PROVE  call[d].serial # k.serial
<1>1. ref[call[d].serial] > 0
  BY EntryOfSent
<1>2. ~(ref[k.serial] > 0)
  BY DEF Cancelled
<1> QED
  BY <1>1, <1>2

\* The critical section never lets in a second exclusive request.
LEMMA EnterExclusive ==
  ASSUME Inv, OneExclusivePending, NEW c \in Call, NEW k \in Caller, ~Sent(c),
         Enter(c, k)
  PROVE  OneExclusivePending'
<1>1. CASE ~ready \/ Cancelled(k)
  BY <1>1 DEF Enter, OneExclusivePending, Sent, FreeCall, Inv, TypeOK
<1>2. CASE ~(~ready \/ Cancelled(k))
  <2> DEFINE kk == [k EXCEPT !.phase = "sent"]
  <2>1. call' = [call EXCEPT ![c] = kk]
    BY <1>2 DEF Enter
  <2>2. kk.serial = k.serial /\ kk.dup = k.dup
    BY DEF Caller
  <2> HIDE DEF kk
  <2>3. call'[c] = kk /\ \A d \in Call : d # c => call'[d] = call[d]
    BY <2>1 DEF Inv, TypeOK
  <2>4. \A d \in Call : k.dup /\ Sent(d) => call[d].serial # k.serial
    BY <1>2, AdmittedAlone
  <2> QED
    BY <2>2, <2>3, <2>4 DEF OneExclusivePending, Sent
<1> QED
  BY <1>1, <1>2

\* A step after which every caller that is sent was sent before, unchanged, keeps
\* OneExclusivePending.
LEMMA StillExclusive ==
  ASSUME OneExclusivePending,
         \A c \in Call : Sent(c)' => Sent(c) /\ call'[c] = call[c]
  PROVE  OneExclusivePending'
BY DEF OneExclusivePending

LEMMA ExclusiveStep ==
  ASSUME Inv, OneExclusivePending, [Next]_vars
  PROVE  OneExclusivePending'
<1>t. call \in [Call -> Caller] /\ TypeOK
  BY DEF Inv, TypeOK
<1>1. CASE Initialize
  BY <1>1, StillExclusive DEF Initialize, Sent
<1>2. ASSUME NEW s \in Sender, NEW v \in Serial, SetSerial(s, v)
      PROVE  OneExclusivePending'
  BY <1>2, StillExclusive DEF SetSerial, Sent
<1>3. ASSUME NEW c \in Call, NEW s \in Sender \cup {NoSender}, NEW o \in Op,
             NEW d \in BOOLEAN, NEW x \in BOOLEAN, Make(c, s, o, d, x)
      PROVE  OneExclusivePending'
  BY <1>3, <1>t, StillExclusive DEF Make, NewCall, Sent
<1>4. ASSUME NEW c \in Call, Submit(c) PROVE OneExclusivePending'
  BY <1>4, <1>t, EnterExclusive DEF Submit, Sent
<1>5. ASSUME NEW c \in Call, NEW r \in Reply, Respond(c, r)
      PROVE  OneExclusivePending'
  <2> DEFINE k == [call[c] EXCEPT !.phase = "answered", !.reply = r]
  <2>1. k.phase # "sent"
    BY <1>t DEF Caller
  <2>2. call' = [call EXCEPT ![c] = k]
    BY <1>5, RespondEffect
  <2> HIDE DEF k
  <2> QED
    BY <2>1, <2>2, <1>t, StillExclusive DEF Sent
<1>6. ASSUME NEW c \in Call, Dispatch(c) PROVE OneExclusivePending'
  <2> DEFINE k == IF Wanted(call[c]) THEN [call[c] EXCEPT !.phase = "running"] ELSE FreeCall
  <2>1. k.phase # "sent"
    BY <1>t DEF FreeCall, Caller
  <2>2. call' = [call EXCEPT ![c] = k]
    BY <1>6, <1>t DEF Dispatch
  <2> HIDE DEF k
  <2> QED
    BY <2>1, <2>2, <1>t, StillExclusive DEF Sent
<1>7. ASSUME NEW c \in Call, Return(c) PROVE OneExclusivePending'
  BY <1>7, <1>t, StillExclusive DEF Return, FreeCall, Sent
<1>8. ASSUME NEW c \in Call, NEW o \in Op, NEW d \in BOOLEAN, Chain(c, o, d)
      PROVE  OneExclusivePending'
  <2>1. call[c].sender \in Sender \cup {NoSender}
    BY <1>t DEF Caller
  <2>2. NewCall(call[c].sender, o, d, TRUE) \in Caller
    BY <1>8, <1>t, <2>1, NewCallType DEF Chain
  <2> QED
    BY <1>8, <2>2, EnterExclusive DEF Chain, Sent
<1>9. CASE UNCHANGED vars
  BY <1>9, StillExclusive DEF vars, Sent
<1> QED
  BY <1>1, <1>2, <1>3, <1>4, <1>5, <1>6, <1>7, <1>8, <1>9 DEF Next

\* At most one exclusive request per serial is under way, always.
THEOREM OneExclusivePendingAlways == Spec => []OneExclusivePending
<1>1. Init => OneExclusivePending
  BY DEF Init, OneExclusivePending, Sent, FreeCall
<1>2. Inv /\ OneExclusivePending /\ [Next]_vars => OneExclusivePending'
  BY ExclusiveStep
<1> QED
  BY InvInit, InvStep, <1>1, <1>2, PTL DEF Spec

\* A request stops being under way by its answer only.
LEMMA ReportedStep ==
  ASSUME Inv, [Next]_vars, NEW e \in Call, Sent(e), ~Sent(e)'
  PROVE  call'[e].phase = "answered"
<1>t. call \in [Call -> Caller]
  BY DEF Inv, TypeOK
<1>1. CASE Initialize
  BY <1>1 DEF Initialize, Sent
<1>2. CASE \E s \in Sender, v \in Serial : SetSerial(s, v)
  BY <1>2 DEF SetSerial, Sent
<1>3. ASSUME NEW c \in Call, ~Sent(c), NEW k, call' = [call EXCEPT ![c] = k]
      PROVE  FALSE
  BY <1>3, <1>t DEF Sent
<1>4. ASSUME NEW c \in Call, NEW r \in Reply, Respond(c, r)
      PROVE  call'[e].phase = "answered"
  <2>1. call' = [call EXCEPT ![c] = [call[c] EXCEPT !.phase = "answered", !.reply = r]]
    BY <1>4, RespondEffect
  <2>2. c = e
    BY <2>1, <1>t DEF Sent
  <2> QED
    BY <2>1, <2>2, <1>t DEF Caller
<1>5. ASSUME NEW c \in Call, NEW s \in Sender \cup {NoSender}, NEW o \in Op,
             NEW d \in BOOLEAN, NEW x \in BOOLEAN, Make(c, s, o, d, x)
      PROVE  FALSE
  BY <1>5, <1>3 DEF Make, Sent
<1>6. ASSUME NEW c \in Call, Submit(c) PROVE FALSE
  BY <1>6, <1>3 DEF Submit, Enter, Sent
<1>7. ASSUME NEW c \in Call, Dispatch(c) PROVE FALSE
  BY <1>7, <1>3, <1>t DEF Dispatch, Sent
<1>8. ASSUME NEW c \in Call, Return(c) PROVE FALSE
  BY <1>8, <1>3 DEF Return, Sent
<1>9. ASSUME NEW c \in Call, NEW o \in Op, NEW d \in BOOLEAN, Chain(c, o, d)
      PROVE  FALSE
  BY <1>9, <1>3 DEF Chain, Enter, Sent
<1>10. CASE UNCHANGED vars
  BY <1>10 DEF vars, Sent
<1> QED
  BY <1>1, <1>2, <1>4, <1>5, <1>6, <1>7, <1>8, <1>9, <1>10 DEF Next

\* No accepted request is deleted without its answer having been looked at.
THEOREM AnswersReported == Spec => AnswersAreReported
<1> DEFINE A == \A c \in Call : Sent(c) /\ ~Sent(c)' => call'[c].phase = "answered"
<1>1. Inv /\ [Next]_vars => [A]_vars
  BY ReportedStep
<1> QED
  BY InvInit, InvStep, <1>1, PTL DEF Spec, AnswersAreReported
-----------------------------------------------------------------------------
\* Refinement of RequestTable.

\* The slots of the abstract table, as the callers show them.
SlotOf == [c \in Call |-> Slot(call[c])]

\* What a caller in each phase looks like from outside.
LEMMA SlotValues ==
  ASSUME NEW k, k.phase \in Phase
  PROVE  /\ k.phase \in {"free", "made"} => Slot(k) = Table!Idle
         /\ k.phase = "sent" =>
              Slot(k) = [stage |-> "pending", serial |-> k.serial, exclusive |-> k.dup]
         /\ k.phase \in {"answered", "running"} =>
              Slot(k) = [stage |-> "answered", serial |-> k.serial, exclusive |-> k.dup]
BY DEF Slot, Phase, Table!Idle

\* A step that replaces caller c alone replaces slot c alone.
LEMMA SlotReplaced ==
  ASSUME TypeOK, NEW c \in Call, NEW k, call' = [call EXCEPT ![c] = k]
  PROVE  SlotOf' = [SlotOf EXCEPT ![c] = Slot(k)]
BY DEF TypeOK, SlotOf

LEMMA SlotUnchanged ==
  ASSUME TypeOK, NEW c \in Call, NEW k, call' = [call EXCEPT ![c] = k],
         Slot(k) = Slot(call[c])
  PROVE  SlotOf' = SlotOf
BY DEF TypeOK, SlotOf

\* What the critical section does to the slots: the caller is let in as a table
\* with these slots would let it in, or its slot is left idle.
LEMMA EnterSlot ==
  ASSUME Inv, NEW c \in Call, NEW k \in Caller, ~Sent(c), Enter(c, k)
  PROVE  \/ SlotOf' = [SlotOf EXCEPT ![c] = Table!Idle]
         \/ Table!Occupy(c, k.serial, k.dup)
<1>1. CASE ~ready \/ Cancelled(k)
  <2>1. Slot(FreeCall) = Table!Idle
    BY SlotValues DEF FreeCall, Phase
  <2> QED
    BY <1>1, <2>1, SlotReplaced DEF Enter, Inv
<1>2. CASE ~(~ready \/ Cancelled(k))
  <2> DEFINE kk == [k EXCEPT !.phase = "sent"]
  <2>1. call' = [call EXCEPT ![c] = kk]
    BY <1>2 DEF Enter
  <2>2. kk.phase = "sent" /\ kk.phase \in Phase /\ kk.serial = k.serial /\ kk.dup = k.dup
    BY DEF Caller, Phase
  <2> HIDE DEF kk
  <2>3. SlotOf' = [SlotOf EXCEPT
                     ![c] = [stage |-> "pending", serial |-> k.serial, exclusive |-> k.dup]]
    <3>1. Slot(kk) = [stage |-> "pending", serial |-> k.serial, exclusive |-> k.dup]
      BY <2>2, SlotValues
    <3>2. SlotOf' = [SlotOf EXCEPT ![c] = Slot(kk)]
      BY <2>1, SlotReplaced DEF Inv
    <3> QED
      BY <3>1, <3>2
  <2>4. Table!Admissible(k.serial, k.dup)
    <3> SUFFICES ASSUME k.dup, NEW d \in Call, Table!Pending(d)
                 PROVE  SlotOf[d].serial # k.serial
      BY DEF Table!Admissible, SlotOf
    <3>1. call[d].phase \in Phase
      BY DEF Inv, TypeOK, Caller
    <3>2. Sent(d) /\ SlotOf[d].serial = call[d].serial
      BY <3>1, SlotValues DEF Table!Pending, Table!Idle, SlotOf, Sent, Phase
    <3> QED
      BY <1>2, <3>2, AdmittedAlone
  <2> QED
    BY <2>3, <2>4 DEF Table!Occupy, SlotOf
<1> QED
  BY <1>1, <1>2

\* Every step of the connector is a step of the table, or leaves it alone.
LEMMA TableStep ==
  ASSUME Inv, [Next]_vars
  PROVE  Table!Next \/ UNCHANGED SlotOf
<1>t. /\ TypeOK
      /\ \A c \in Call : call[c] \in Caller /\ call[c].phase \in Phase
      /\ \A c \in Call : SlotOf[c] = Slot(call[c])
  BY DEF Inv, TypeOK, Caller, SlotOf
<1>1. CASE Initialize
  BY <1>1 DEF Initialize, SlotOf
<1>2. ASSUME NEW s \in Sender, NEW v \in Serial, SetSerial(s, v)
      PROVE  UNCHANGED SlotOf
  BY <1>2 DEF SetSerial, SlotOf
<1>3. ASSUME NEW c \in Call, NEW s \in Sender \cup {NoSender}, NEW o \in Op,
             NEW d \in BOOLEAN, NEW x \in BOOLEAN, Make(c, s, o, d, x)
      PROVE  UNCHANGED SlotOf
  <2> DEFINE k == NewCall(s, o, d, x)
  <2>1. k.phase = "made" /\ call[c].phase = "free" /\ call' = [call EXCEPT ![c] = k]
    BY <1>3 DEF Make, NewCall
  <2> HIDE DEF k
  <2>2. Slot(k) = Table!Idle /\ Slot(call[c]) = Table!Idle
    BY <2>1, SlotValues DEF Phase
  <2> QED
    BY <1>t, <2>1, <2>2, SlotUnchanged
<1>4. ASSUME NEW c \in Call, Submit(c) PROVE Table!Next \/ UNCHANGED SlotOf
  <2>1. SlotOf[c] = Table!Idle
    BY <1>4, <1>t, SlotValues DEF Submit
  <2>2. call[c].serial \in Serial /\ call[c].dup \in BOOLEAN
    BY <1>t DEF Caller
  <2>3. CASE SlotOf' = [SlotOf EXCEPT ![c] = Table!Idle]
    BY <2>1, <2>3 DEF SlotOf
  <2>4. CASE Table!Occupy(c, call[c].serial, call[c].dup)
    <3>1. Table!Accept(c)
      BY <2>1, <2>2, <2>4 DEF Table!Accept, SlotOf
    <3> QED
      BY <3>1 DEF Table!Next
  <2> QED
    BY <1>4, <1>t, <2>3, <2>4, EnterSlot DEF Submit, Sent
<1>5. ASSUME NEW c \in Call, NEW r \in Reply, Respond(c, r) PROVE Table!Next
  <2> DEFINE k == [call[c] EXCEPT !.phase = "answered", !.reply = r]
  <2>1. call' = [call EXCEPT ![c] = k] /\ call[c].phase = "sent"
    BY <1>5, RespondEffect DEF Respond
  <2>2. /\ k.phase = "answered" /\ k.phase \in Phase
        /\ k.serial = call[c].serial /\ k.dup = call[c].dup
    BY <1>t DEF Caller, Phase
  <2> HIDE DEF k
  <2>3. SlotOf' = [SlotOf EXCEPT ![c] = Slot(k)]
    BY <1>t, <2>1, SlotReplaced
  <2>4. /\ SlotOf[c] = [stage |-> "pending", serial |-> k.serial, exclusive |-> k.dup]
        /\ Slot(k) = [stage |-> "answered", serial |-> k.serial, exclusive |-> k.dup]
    BY <1>t, <2>1, <2>2, SlotValues
  <2>5. SlotOf' = [SlotOf EXCEPT ![c].stage = "answered"]
    <3>1. Slot(k) = [SlotOf[c] EXCEPT !.stage = "answered"]
      BY <2>4
    <3> QED
      BY <2>3, <3>1
  <2>6. SlotOf[c].stage = "pending"
    BY <2>4
  <2>7. Table!Answer(c)
    BY <2>5, <2>6 DEF Table!Answer, Table!Pending, SlotOf
  <2> QED
    BY <2>7 DEF Table!Next
<1>6. ASSUME NEW c \in Call, NEW k, call' = [call EXCEPT ![c] = k],
             call[c].phase \in {"answered", "running"}, Slot(k) = Table!Idle
      PROVE  Table!Next
  <2>1. SlotOf' = [SlotOf EXCEPT ![c] = Table!Idle]
    BY <1>t, <1>6, SlotReplaced
  <2>2. SlotOf[c].stage = "answered"
    BY <1>t, <1>6, SlotValues
  <2>3. Table!Finish(c)
    BY <2>1, <2>2 DEF Table!Finish, SlotOf
  <2> QED
    BY <2>3 DEF Table!Next
<1>7. Slot(FreeCall) = Table!Idle
  BY SlotValues DEF FreeCall, Phase
<1>8. ASSUME NEW c \in Call, Dispatch(c) PROVE Table!Next \/ UNCHANGED SlotOf
  <2>1. CASE Wanted(call[c])
    <3> DEFINE k == [call[c] EXCEPT !.phase = "running"]
    <3>1. call' = [call EXCEPT ![c] = k] /\ call[c].phase = "answered"
      BY <1>8, <2>1, <1>t DEF Dispatch, TypeOK
    <3>2. /\ k.phase = "running" /\ k.phase \in Phase
          /\ k.serial = call[c].serial /\ k.dup = call[c].dup
      BY <1>t DEF Caller, Phase
    <3> HIDE DEF k
    <3>3. Slot(k) = Slot(call[c])
      BY <1>t, <3>1, <3>2, SlotValues
    <3> QED
      BY <1>t, <3>1, <3>3, SlotUnchanged
  <2>2. CASE ~Wanted(call[c])
    <3>1. call' = [call EXCEPT ![c] = FreeCall] /\ call[c].phase = "answered"
      BY <1>8, <2>2, <1>t DEF Dispatch, TypeOK
    <3> QED
      BY <3>1, <1>6, <1>7
  <2> QED
    BY <2>1, <2>2
<1>9. ASSUME NEW c \in Call, Return(c) PROVE Table!Next
  BY <1>9, <1>6, <1>7 DEF Return
<1>10. ASSUME NEW c \in Call, NEW o \in Op, NEW d \in BOOLEAN, Chain(c, o, d)
       PROVE  Table!Next
  <2> DEFINE k == NewCall(call[c].sender, o, d, TRUE)
  <2>1. k \in Caller
    <3>1. call[c].sender \in Sender \cup {NoSender}
      BY <1>t DEF Caller
    <3> QED
      BY <1>10, <1>t, <3>1, NewCallType DEF Chain
  <2>2. Enter(c, k) /\ call[c].phase = "running" /\ ~Sent(c)
    BY <1>10 DEF Chain, Sent
  <2> HIDE DEF k
  <2>3. SlotOf[c].stage = "answered"
    BY <1>t, <2>2, SlotValues
  <2>4. k.serial \in Serial /\ k.dup \in BOOLEAN
    BY <2>1 DEF Caller
  <2>5. CASE SlotOf' = [SlotOf EXCEPT ![c] = Table!Idle]
    <3>1. Table!Finish(c)
      BY <2>3, <2>5 DEF Table!Finish, SlotOf
    <3> QED
      BY <3>1 DEF Table!Next
  <2>6. CASE Table!Occupy(c, k.serial, k.dup)
    <3>1. Table!Reuse(c)
      BY <2>3, <2>4, <2>6 DEF Table!Reuse, SlotOf
    <3> QED
      BY <3>1 DEF Table!Next
  <2> QED
    BY <2>1, <2>2, <2>5, <2>6, EnterSlot
<1>11. CASE UNCHANGED vars
  BY <1>11 DEF vars, SlotOf
<1> QED
  BY <1>1, <1>2, <1>3, <1>4, <1>5, <1>8, <1>9, <1>10, <1>11 DEF Next

\* A connector without callers is an empty table.
LEMMA TableInit == Init => Table!Init
<1> SUFFICES ASSUME Init PROVE Table!Init
  OBVIOUS
<1>1. Slot(FreeCall) = Table!Idle
  BY SlotValues DEF FreeCall, Phase
<1> QED
  BY <1>1 DEF Init, Table!Init

\* The connector implements RequestTable.
THEOREM Refinement == Spec => ImplementsTable
<1>1. Inv /\ [Next]_vars => [Table!Next]_SlotOf
  BY TableStep
<1> QED
  BY InvInit, InvStep, TableInit, <1>1, PTL DEF Spec, ImplementsTable, Table!Spec, SlotOf
=============================================================================
