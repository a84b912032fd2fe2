------------------------------ MODULE ItemsProofs ------------------------------
(***************************************************************************)
(* What holds of a user's items whatever the items, the slots, the         *)
(* positions and the answers that rooms still owe him.                     *)
(*                                                                         *)
(* A request and a letter each name places whose contents they rely on:    *)
(* the invariant says what keeps them there, which is the request that     *)
(* refuses moves and the lock that refuses everything.                     *)
(***************************************************************************)
EXTENDS Items, TLAPS

Crossed == "crossed" \in met

\* What he has, had and mailed he was given.
History ==
  /\ Possessed \subseteq given /\ mailed \subseteq given /\ sending \subseteq given
  /\ letter # None => letter.item \in given

\* A letter is alone, and finds what was attached to it: the lock holds, and no request is
\* about it.
LetterStays ==
  /\ ~Crossed => sending = (IF letter = None THEN {} ELSE {letter.item})
  /\ letter # None /\ ~Crossed =>
       /\ locked
       /\ items[letter.from] = letter.item
       /\ requirement # None => letter.from \notin {requirement.slot, requirement.position}

\* A request finds what it was made for.
RequestStands ==
  requirement # None /\ ~Crossed =>
    /\ requirement.isEquip =>
         /\ items[requirement.slot] # None
         /\ Fits(items[requirement.slot], requirement.position)
    /\ ~requirement.isEquip /\ "filled" \notin met => items[requirement.slot] = None

\* Each room owes an answer for every request but those that were answered for it.
Debts ==
  /\ late + Owed <= MaxLate + (IF requirement = None THEN 0 ELSE 1)
  /\ late <= MaxLate
  /\ room # "in" => Owed = 0
  /\ answer # "none" => room = "in"

\* What the logic was told to put on or, for None, to take off.
Info == IF requirement.isEquip THEN items[requirement.slot] ELSE None

Dressed == [p \in Position |-> items[p]]

\* In his first room, the logic and the items differ by no more than the request.
InStep ==
  met \cap {"crossed", "worn", "parted"} = {} =>
    /\ room = "in" /\ loaded /\ late = 0
    /\ requirement = None => commands = <<>> /\ answer = "none" /\ worn = Dressed
    /\ letter # None => letter.from \notin Position
    /\ requirement # None /\ ~requirement.isEquip => items[requirement.position] # None
    /\ requirement # None =>
         \/ /\ answer = "none" /\ worn = Dressed
            /\ up => commands = <<[info |-> Info, where |-> requirement.position]>>
         \/ answer = "no" /\ commands = <<>> /\ worn = Dressed
         \/ /\ answer = "yes" /\ commands = <<>>
            /\ worn = [Dressed EXCEPT ![requirement.position] = Info]

IInv ==
  /\ TypeOK /\ NoDuplicate /\ History /\ LetterStays /\ RequestStands
  /\ NothingLost /\ MailedIsGone /\ WornFits /\ Debts /\ RequirementPending /\ InStep
-----------------------------------------------------------------------------
LEMMA InitHolds == Init => IInv
  <1> SUFFICES ASSUME Init PROVE IInv
    OBVIOUS
  <1> USE ItemsAssumption DEF Init
  <1>1. TypeOK
    <2>1. Position \subseteq Place
      BY DEF Place
    <2>2. worn \in [Position -> Item \cup {None}]
      BY <2>1
    <2>3. given \subseteq Item
      BY DEF Possessed
    <2>4. commands \in Seq(Command) /\ Len(commands) <= MaxLate + 1
      OBVIOUS
    <2>5. letter \in Letter \cup {None} /\ requirement \in Request \cup {None}
      OBVIOUS
    <2>6. late \in 0 .. MaxLate
      OBVIOUS
    <2> QED BY <2>2, <2>3, <2>4, <2>5, <2>6 DEF TypeOK, Met
  <1>2. NoDuplicate /\ History /\ LetterStays /\ RequestStands
    BY DEF NoDuplicate, History, LetterStays, RequestStands
  <1>3. NothingLost /\ MailedIsGone
    BY DEF NothingLost, MailedIsGone
  <1>4. WornFits /\ RequirementPending
    BY DEF WornFits, RequirementPending
  <1>5. Debts
    BY DEF Debts, Owed
  <1>6. InStep
    BY DEF InStep, Dressed
  <1> QED BY <1>1, <1>2, <1>3, <1>4, <1>5, <1>6 DEF IInv

\* The three ways items change.
LEMMA SwappedItems ==
  ASSUME TypeOK, NoDuplicate, NEW x \in Place, NEW y \in Place, items' = Swapped(x, y)
  PROVE  /\ items' \in [Place -> Item \cup {None}]
         /\ items'[x] = items[y] /\ items'[y] = items[x]
         /\ \A z \in Place \ {x, y} : items'[z] = items[z]
         /\ NoDuplicate' /\ Possessed' = Possessed
  <1>1. items \in [Place -> Item \cup {None}]
    BY DEF TypeOK
  <1>2. /\ items' \in [Place -> Item \cup {None}]
        /\ items'[x] = items[y] /\ items'[y] = items[x]
        /\ \A z \in Place \ {x, y} : items'[z] = items[z]
    BY <1>1 DEF Swapped
  <1>3. NoDuplicate'
    BY <1>2 DEF NoDuplicate
  <1>4. Possessed' = Possessed
    <2>1. \A z \in Place : \E w \in Place : items'[z] = items[w]
      BY <1>2
    <2>2. \A z \in Place : \E w \in Place : items[z] = items'[w]
      BY <1>2
    <2> QED BY <2>1, <2>2 DEF Possessed
  <1> QED BY <1>2, <1>3, <1>4

LEMMA DroppedItem ==
  ASSUME TypeOK, NoDuplicate, NEW x \in Place, items' = [items EXCEPT ![x] = None]
  PROVE  /\ items' \in [Place -> Item \cup {None}]
         /\ items'[x] = None /\ \A z \in Place \ {x} : items'[z] = items[z]
         /\ NoDuplicate' /\ Possessed' = Possessed \ {items[x]}
  <1>1. items \in [Place -> Item \cup {None}]
    BY DEF TypeOK
  <1>2. /\ items' \in [Place -> Item \cup {None}]
        /\ items'[x] = None /\ \A z \in Place \ {x} : items'[z] = items[z]
    BY <1>1
  <1>3. NoDuplicate'
    BY <1>2 DEF NoDuplicate
  <1>4. Possessed' = Possessed \ {items[x]}
    <2>1. \A z \in Place : items'[z] # None => z # x /\ items'[z] = items[z] /\ items[z] # items[x]
      BY <1>2 DEF NoDuplicate
    <2>2. \A z \in Place : items[z] # items[x] => items'[z] = items[z]
      BY <1>2
    <2> QED BY <2>1, <2>2 DEF Possessed
  <1> QED BY <1>2, <1>3, <1>4

LEMMA GivenItem ==
  ASSUME TypeOK, NoDuplicate, NEW s \in Slot, NEW i \in Item, i \notin Possessed,
         items[s] = None, items' = [items EXCEPT ![s] = i]
  PROVE  /\ items' \in [Place -> Item \cup {None}]
         /\ items'[s] = i /\ \A z \in Place \ {s} : items'[z] = items[z]
         /\ NoDuplicate' /\ Possessed' = Possessed \cup {i}
  <1>0. i # None /\ s \in Place
    BY ItemsAssumption DEF Place
  <1>1. items \in [Place -> Item \cup {None}]
    BY DEF TypeOK
  <1>2. /\ items' \in [Place -> Item \cup {None}]
        /\ items'[s] = i /\ \A z \in Place \ {s} : items'[z] = items[z]
    BY <1>0, <1>1
  <1>3. \A z \in Place : items[z] # i
    BY <1>0 DEF Possessed
  <1>4. NoDuplicate'
    BY <1>2, <1>3 DEF NoDuplicate
  <1>5. Possessed' = Possessed \cup {i}
    <2>1. \A z \in Place : items'[z] # None => items'[z] = i \/ items'[z] \in Possessed
      BY <1>2 DEF Possessed
    <2>2. \A z \in Place : items[z] # None => items'[z] = items[z]
      BY <1>2
    <2>3. Possessed' \subseteq Possessed \cup {i}
      BY <2>1 DEF Possessed
    <2>4. Possessed \subseteq Possessed'
      BY <2>2 DEF Possessed
    <2>5. i \in Possessed'
      BY <1>0, <1>2 DEF Possessed
    <2> QED BY <2>3, <2>4, <2>5
  <1> QED BY <1>2, <1>4, <1>5

\* An answer, whichever room it is from.
LEMMA AnswerItems ==
  ASSUME IInv, NEW succeed \in BOOLEAN, ItemEquiped(succeed),
         UNCHANGED <<given, mailed, letter, sending, locked, met>>
  PROVE  /\ requirement' = None /\ alone' = FALSE
         /\ items' \in [Place -> Item \cup {None}]
         /\ NoDuplicate' /\ History' /\ LetterStays' /\ RequestStands'
         /\ NothingLost' /\ MailedIsGone' /\ WornFits'
  <1> USE DEF Crossed
  <1>0. TypeOK /\ NoDuplicate /\ requirement' = None /\ alone' = FALSE
    BY DEF IInv, ItemEquiped
  <1>1. ASSUME items' = items
        PROVE  /\ items' \in [Place -> Item \cup {None}]
               /\ NoDuplicate' /\ History' /\ LetterStays' /\ RequestStands'
               /\ NothingLost' /\ MailedIsGone' /\ WornFits'
    <2>1. items' \in [Place -> Item \cup {None}] /\ NoDuplicate'
      BY <1>0, <1>1 DEF TypeOK, NoDuplicate
    <2>2. Possessed' = Possessed
      BY <1>1 DEF Possessed
    <2>3. History' /\ NothingLost' /\ MailedIsGone'
      BY <2>2 DEF IInv, History, NothingLost, MailedIsGone
    <2>4. LetterStays' /\ RequestStands' /\ WornFits'
      BY <1>0, <1>1 DEF IInv, LetterStays, RequestStands, WornFits
    <2> QED BY <2>1, <2>3, <2>4
  <1>2. ASSUME requirement # None, items' # items
        PROVE  /\ items' \in [Place -> Item \cup {None}]
               /\ NoDuplicate' /\ History' /\ LetterStays' /\ RequestStands'
               /\ NothingLost' /\ MailedIsGone' /\ WornFits'
    <2> DEFINE s == requirement.slot
               p == requirement.position
    <2>0. s \in Place /\ p \in Place /\ p \in Position /\ s \notin Position /\ requirement.isEquip \in BOOLEAN
      BY <1>0, <1>2, ItemsAssumption DEF TypeOK, Request, Place
    <2>1. \/ items' = Swapped(s, p) /\ (requirement.isEquip \/ items[s] = None)
          \/ items' = [items EXCEPT ![p] = None] /\ ~requirement.isEquip
      BY <1>2 DEF ItemEquiped, EquipPutOned, EquipTakeOffed
    <2>2. \/ items[p] = None
          \/ items' = Swapped(s, p)
          \/ items[s] # None /\ ~requirement.isEquip
      <3>1. CASE items' = Swapped(s, p)
        BY <3>1
      <3>2. CASE items' = [items EXCEPT ![p] = None] /\ items' # Swapped(s, p)
        BY <1>2, <2>1, <3>2 DEF ItemEquiped, EquipPutOned, EquipTakeOffed
      <3> QED BY <2>1, <3>1, <3>2
    <2>3. /\ items' \in [Place -> Item \cup {None}] /\ NoDuplicate'
          /\ Possessed' \subseteq Possessed
          /\ \A z \in Place \ {s, p} : items'[z] = items[z]
          /\ items'[p] = items[s] \/ items'[p] = None
      BY <1>0, <2>0, <2>1, SwappedItems, DroppedItem
    <2>4. Possessed' = Possessed \/ met \cap {"filled", "crossed"} # {}
      <3>1. CASE items' = Swapped(s, p)
        BY <1>0, <2>0, <3>1, SwappedItems
      <3>2. CASE items' = [items EXCEPT ![p] = None] /\ items[p] = None
        <4>1. Possessed' = Possessed \ {None}
          BY <1>0, <2>0, <3>2, DroppedItem
        <4> QED BY <4>1 DEF Possessed
      <3>3. CASE items[s] # None /\ ~requirement.isEquip
        BY <1>2, <3>3 DEF IInv, RequestStands
      <3> QED BY <2>1, <2>2, <3>1, <3>2, <3>3
    <2>5. History' /\ NothingLost' /\ MailedIsGone'
      BY <2>3, <2>4 DEF IInv, History, NothingLost, MailedIsGone
    <2>6. RequestStands'
      BY <1>0 DEF RequestStands
    <2>7. LetterStays'
      <3>1. letter # None => letter.from \in Place
        BY <1>0 DEF TypeOK, Letter
      <3> QED BY <1>0, <1>2, <2>3, <3>1 DEF IInv, LetterStays
    <2>8. WornFits'
      <3>1. SUFFICES ASSUME ~Crossed, NEW q \in Position, items'[q] # None PROVE Fits(items'[q], q)
        BY DEF WornFits, Fits
      <3>2. CASE q # p
        <4>1. items'[q] = items[q]
          BY <2>0, <2>3, <3>2 DEF Place
        <4> QED BY <3>1, <4>1 DEF IInv, WornFits
      <3>3. CASE q = p
        <4>1. items'[p] = items[s] /\ items[s] # None /\ (requirement.isEquip \/ items[s] = None)
          BY <1>0, <2>0, <2>1, <3>1, <3>3, SwappedItems, DroppedItem
        <4> QED BY <1>2, <3>1, <3>3, <4>1 DEF IInv, RequestStands
      <3> QED BY <3>2, <3>3
    <2> QED BY <2>3, <2>5, <2>6, <2>7, <2>8
  <1> QED BY <1>0, <1>1, <1>2 DEF ItemEquiped
-----------------------------------------------------------------------------
LEMMA MoveItemsStep == ASSUME IInv, NEW s \in Slot, NEW t \in Slot, MoveItems(s, t) PROVE IInv'
  <1> USE DEF MoveItems, Moves, logic, mailbox, Crossed
  <1>0. TypeOK /\ NoDuplicate /\ s \in Place /\ t \in Place
    BY DEF IInv, Place
  <1>1. /\ items' \in [Place -> Item \cup {None}] /\ NoDuplicate'
        /\ Possessed' = Possessed
        /\ \A z \in Place \ {s, t} : items'[z] = items[z]
    BY <1>0, SwappedItems
  <1>2. \A p \in Position : items'[p] = items[p]
    BY <1>1, ItemsAssumption DEF Place
  <1>3. TypeOK'
    BY <1>0, <1>1 DEF TypeOK
  <1>4. History' /\ NothingLost' /\ MailedIsGone'
    BY <1>1 DEF IInv, History, NothingLost, MailedIsGone
  <1>5. LetterStays' /\ RequestStands'
    BY DEF IInv, LetterStays, RequestStands
  <1>6. WornFits'
    BY <1>2 DEF IInv, WornFits, Fits
  <1>7. Debts' /\ RequirementPending'
    BY DEF IInv, Debts, RequirementPending, Owed
  <1>8. InStep'
    <2>1. Dressed' = Dressed
      BY <1>2 DEF Dressed
    <2> QED BY <2>1 DEF IInv, InStep
  <1> QED BY <1>1, <1>3, <1>4, <1>5, <1>6, <1>7, <1>8 DEF IInv

\* A request is made: of what the items are nothing changes.
LEMMA ItemsEquipStep ==
  ASSUME IInv, Moves, NEW s \in Slot, NEW p \in Position, NEW isEquip \in BOOLEAN,
         items[s] = None => ~isEquip, items[s] # None => isEquip,
         isEquip /\ ~Crossed => Fits(items[s], p),
         isEquip \/ items[p] # None,
         ItemsEquip([isEquip |-> isEquip, slot |-> s, position |-> p],
                    IF isEquip THEN items[s] ELSE None)
  PROVE  IInv'
  <1> USE DEF ItemsEquip, Moves, mailbox, Crossed
  <1> DEFINE request == [isEquip |-> isEquip, slot |-> s, position |-> p]
             info == IF isEquip THEN items[s] ELSE None
             command == [info |-> info, where |-> p]
  <1>0. TypeOK /\ request \in Request /\ command \in Command /\ s \in Place
    <2>1. s \in Place
      BY DEF Place
    <2>2. items[s] \in Item \cup {None}
      BY <2>1 DEF IInv, TypeOK
    <2> QED BY <2>1, <2>2 DEF IInv, Request, Command
  <1>1. requirement' = request
    OBVIOUS
  <1>2. Debts' /\ commands' \in Seq(Command) /\ Len(commands') <= MaxLate + 1
    <2>1. commands \in Seq(Command) /\ Len(commands) \in Nat /\ late \in Nat /\ MaxLate \in Nat
      BY <1>0, ItemsAssumption DEF TypeOK
    <2>2. late + Owed <= MaxLate /\ late <= MaxLate /\ (room # "in" => Owed = 0) /\ (answer # "none" => room = "in")
      BY <2>1 DEF IInv, Debts, Owed
    <2>3. commands' \in Seq(Command) /\ Len(commands') <= Len(commands) + 1
      <3>1. CASE commands' = Append(commands, command)
        BY <1>0, <2>1, <3>1
      <3>2. CASE commands' = commands
        BY <2>1, <3>2
      <3> QED BY <3>1, <3>2
    <2>4. room = "in" => Len(commands') = Len(commands) + 1
      BY <1>0, <2>1
    <2>5. requirement' # None
      BY <1>0, <1>1, ItemsAssumption
    <2>6. UNCHANGED <<late, answer, room>> /\ (room # "in" => commands' = commands)
      OBVIOUS
    <2>7. CASE room = "in"
      BY <2>1, <2>2, <2>3, <2>4, <2>5, <2>6, <2>7 DEF Debts, Owed
    <2>8. CASE room # "in"
      BY <2>1, <2>2, <2>5, <2>6, <2>8 DEF Debts, Owed
    <2> QED BY <2>7, <2>8
  <1>3. TypeOK'
    BY <1>0, <1>1, <1>2 DEF TypeOK
  <1>4. requirement' # None
    BY <1>0, <1>1, ItemsAssumption
  <1>5. NoDuplicate' /\ History' /\ NothingLost' /\ MailedIsGone' /\ WornFits'
    BY DEF IInv, NoDuplicate, History, NothingLost, MailedIsGone, WornFits, Possessed
  <1>6. LetterStays'
    BY DEF IInv, LetterStays
  <1>7. RequestStands'
    BY <1>1 DEF RequestStands, Fits
  <1>8. RequirementPending'
    <2>1. room = "in" => Len(commands') \in Nat /\ Len(commands') > 0
      BY <1>0 DEF TypeOK
    <2>2. CASE room = "in"
      <3>1. ~alone' /\ Owed' > 0
        BY <1>0, <2>1, <2>2 DEF TypeOK, Owed
      <3> QED BY <2>2, <3>1 DEF RequirementPending
    <2>3. CASE room # "in"
      BY <2>3 DEF RequirementPending
    <2> QED BY <2>2, <2>3
  <1>9. InStep'
    <2> SUFFICES ASSUME met \cap {"crossed", "worn", "parted"} = {} PROVE InStep'
      BY DEF InStep
    <2>1. room = "in" /\ loaded /\ late = 0 /\ commands = <<>> /\ answer = "none" /\ worn = Dressed
      BY DEF IInv, InStep
    <2>2. commands' = <<command>>
      BY <2>1
    <2>3. Dressed' = Dressed /\ Info' = info /\ requirement'.position = p
      BY <1>1 DEF Dressed, Info
    <2>4. command = [info |-> Info', where |-> requirement'.position]
      BY <2>3
    <2>5. ~isEquip => items'[p] # None
      OBVIOUS
    <2>6. letter # None => letter.from \notin Position
      BY DEF IInv, InStep
    <2> QED BY <1>1, <1>4, <2>1, <2>2, <2>3, <2>4, <2>5, <2>6 DEF InStep
  <1> QED BY <1>2, <1>3, <1>5, <1>6, <1>7, <1>8, <1>9 DEF IInv

LEMMA PutOnStep == ASSUME IInv, NEW s \in Slot, NEW p \in Position, PutOn(s, p) PROVE IInv'
  <1>1. /\ Moves /\ items[s] # None /\ Fits(items[s], p)
        /\ ItemsEquip([isEquip |-> TRUE, slot |-> s, position |-> p], items[s])
    BY DEF PutOn, RequirePutOnEquip
  <1> QED BY <1>1, ItemsEquipStep

LEMMA TakeOffStep == ASSUME IInv, NEW s \in Slot, NEW p \in Position, TakeOff(p, s) PROVE IInv'
  <1>1. Moves /\ items[p] # None
    BY DEF TakeOff
  <1>2. CASE RequirePutOnEquip(s, p)
    <2>1. items[s] # None /\ ItemsEquip([isEquip |-> TRUE, slot |-> s, position |-> p], items[s])
      BY <1>2 DEF RequirePutOnEquip
    <2>2. ~Crossed => Fits(items[s], p)
      BY <1>1, <1>2 DEF RequirePutOnEquip, IInv, WornFits, Fits, Crossed
    <2> QED BY <1>1, <2>1, <2>2, ItemsEquipStep
  <1>3. CASE items[s] = None /\ ItemsEquip([isEquip |-> FALSE, slot |-> s, position |-> p], None)
    BY <1>1, <1>3, ItemsEquipStep
  <1> QED BY <1>2, <1>3 DEF TakeOff

LEMMA ProcessEquipStep == ASSUME IInv, ProcessEquip PROVE IInv'
  <1> USE DEF ProcessEquip, mailbox, Crossed
  <1> DEFINE c == Head(commands)
  <1>0. TypeOK /\ Debts /\ commands \in Seq(Command) /\ commands # <<>>
    BY DEF IInv, TypeOK
  <1>1. c \in Command /\ commands' \in Seq(Command) /\ Len(commands') = Len(commands) - 1
        /\ Len(commands) \in Nat /\ Len(commands) > 0
    BY <1>0
  <1>2. /\ worn' \in [Position -> Item \cup {None}]
        /\ answer' \in {"none", "yes", "no"}
        /\ up' => answer' \in {"yes", "no"}
        /\ up' \in BOOLEAN
    BY <1>0, <1>1 DEF TypeOK, Equips, Command
  <1>3. TypeOK'
    <2>1. Len(commands') <= MaxLate + 1
      BY <1>0, <1>1, ItemsAssumption DEF TypeOK
    <2> QED BY <1>0, <1>1, <1>2, <2>1 DEF TypeOK
  <1>4. Owed' <= Owed /\ Owed' \in Nat /\ Owed \in Nat
    <2>1. Owed = Len(commands)
      BY DEF Owed
    <2>2. Owed' \in {Len(commands'), Len(commands') + 1}
      BY DEF Owed
    <2> QED BY <1>1, <2>1, <2>2
  <1>10. up' => Owed' = Owed
    <2>1. up' => Owed' = Len(commands') + 1
      BY <1>2 DEF Owed
    <2>2. Owed = Len(commands) /\ Len(commands) = Len(commands') + 1
      BY <1>1 DEF Owed
    <2> QED BY <2>1, <2>2
  <1>5. Debts'
    <2>1. room = "in"
      BY <1>0, <1>1 DEF Debts, Owed
    <2>2. UNCHANGED <<late, room, requirement>> /\ late \in Nat /\ MaxLate \in Nat
      BY <1>0, ItemsAssumption DEF TypeOK
    <2>3. answer' # "none" => room' = "in"
      BY <2>1
    <2>4. late + Owed <= MaxLate + (IF requirement = None THEN 0 ELSE 1) /\ late <= MaxLate
      BY <1>0 DEF Debts
    <2>5. late + Owed' <= MaxLate + (IF requirement = None THEN 0 ELSE 1)
      <3> DEFINE bound == MaxLate + (IF requirement = None THEN 0 ELSE 1)
      <3>1. bound \in Nat /\ late + Owed <= bound
        BY <2>2, <2>4
      <3> HIDE DEF bound
      <3>2. late + Owed' <= bound
        <4>1. \A k, m, n, q \in Nat : k + m <= q /\ n <= m => k + n <= q
          OBVIOUS
        <4> QED BY <1>4, <2>2, <3>1, <4>1
      <3> QED BY <3>2 DEF bound
    <2> QED BY <2>1, <2>2, <2>3, <2>4, <2>5 DEF Debts
  <1>6. NoDuplicate' /\ History' /\ NothingLost' /\ MailedIsGone' /\ WornFits'
    BY DEF IInv, NoDuplicate, History, NothingLost, MailedIsGone, WornFits, Possessed
  <1>7. LetterStays' /\ RequestStands'
    BY DEF IInv, LetterStays, RequestStands
  <1>8. RequirementPending'
    <2>1. up' => up
      OBVIOUS
    <2> QED BY <1>10, <2>1 DEF IInv, RequirementPending
  <1>9. InStep'
    <2> SUFFICES ASSUME met \cap {"crossed", "worn", "parted"} = {} PROVE InStep'
      BY DEF InStep
    <2>1. /\ room = "in" /\ loaded /\ late = 0 /\ requirement # None
          /\ worn = Dressed /\ commands = <<[info |-> Info, where |-> requirement.position]>>
          /\ ~requirement.isEquip => items[requirement.position] # None
      BY <1>0 DEF IInv, InStep
    <2>2. c.info = Info /\ c.where = requirement.position /\ commands' = <<>>
      BY <2>1
    <2>3. requirement \in Request
      BY <1>0, <2>1 DEF TypeOK
    <2>4. Dressed' = Dressed /\ Info' = Info
      BY DEF Dressed, Info
    <2>5. up' = up
      BY <2>1
    <2>6. \/ answer' = "no" /\ worn' = Dressed
          \/ answer' = "yes" /\ worn' = [Dressed EXCEPT ![requirement.position] = Info]
      <3>1. CASE c.info # None
        BY <2>1, <2>2, <3>1 DEF Equips
      <3>2. CASE c.info = None
        <4>1. ~requirement.isEquip
          BY <1>0, <2>1, <2>2, <2>3, <3>2, <1>7
             DEF Info, IInv, RequestStands, Request
        <4>2. worn[c.where] # None
          BY <2>1, <2>2, <2>3, <4>1 DEF Dressed, Request
        <4> QED BY <2>1, <2>2, <3>2, <4>2 DEF Equips
      <3> QED BY <3>1, <3>2
    <2>7. letter # None => letter.from \notin Position
      BY DEF IInv, InStep
    <2> QED BY <2>1, <2>2, <2>4, <2>6, <2>7 DEF InStep
  <1> QED BY <1>3, <1>5, <1>6, <1>7, <1>8, <1>9 DEF IInv

LEMMA ItemEquippedStep == ASSUME IInv, ItemEquipped PROVE IInv'
  <1> USE DEF ItemEquipped, mailbox, Crossed
  <1> DEFINE succeed == answer = "yes"
  <1>0. TypeOK /\ Debts
    BY DEF IInv
  <1>1. /\ requirement' = None /\ alone' = FALSE
        /\ items' \in [Place -> Item \cup {None}]
        /\ NoDuplicate' /\ History' /\ LetterStays' /\ RequestStands'
        /\ NothingLost' /\ MailedIsGone' /\ WornFits'
    BY AnswerItems
  <1>2. TypeOK'
    BY <1>0, <1>1 DEF TypeOK
  <1>3. Debts'
    <2>1. Len(commands) \in Nat /\ late \in Nat /\ MaxLate \in Nat
      BY <1>0, ItemsAssumption DEF TypeOK
    <2>2. Owed = Len(commands) + 1 /\ Owed' = Len(commands)
      BY DEF Owed
    <2> QED BY <1>0, <1>1, <2>1, <2>2 DEF Debts
  <1>4. RequirementPending'
    BY <1>1 DEF RequirementPending
  <1>5. InStep'
    <2> SUFFICES ASSUME met \cap {"crossed", "worn", "parted"} = {} PROVE InStep'
      BY DEF InStep
    <2>1. /\ room = "in" /\ loaded /\ late = 0 /\ requirement # None /\ commands = <<>>
          /\ ~requirement.isEquip => items[requirement.position] # None
          /\ \/ answer = "no" /\ worn = Dressed
             \/ answer = "yes" /\ worn = [Dressed EXCEPT ![requirement.position] = Info]
      BY <1>0 DEF IInv, InStep
    <2>2. worn = Dressed'
      <3>1. CASE answer = "no"
        BY <2>1, <3>1 DEF ItemEquiped, Dressed
      <3>2. CASE answer = "yes"
        <4> DEFINE s == requirement.slot
                   p == requirement.position
        <4>0. s \in Slot /\ p \in Position /\ requirement.isEquip \in BOOLEAN /\ items \in [Place -> Item \cup {None}]
          BY <1>0, <2>1 DEF TypeOK, Request
        <4>1. \A q \in Position : q \in Place /\ q # s
          BY <4>0, ItemsAssumption DEF Place
        <4>2. s \in Place /\ p \in Place
          BY <4>0 DEF Place
        <4>3. \A q \in Position : items'[q] = IF q = p THEN Info ELSE items[q]
          <5>1. CASE requirement.isEquip
            <6>1. items[s] # None
              BY <2>1, <5>1 DEF IInv, RequestStands
            <6>2. items' = Swapped(s, p)
              BY <2>1, <3>2, <5>1, <6>1 DEF ItemEquiped, EquipPutOned
            <6> QED BY <4>0, <4>1, <4>2, <5>1, <6>2 DEF Swapped, Info
          <5>2. CASE ~requirement.isEquip
            <6>1. \/ items' = Swapped(s, p) /\ items[s] = None
                  \/ items' = [items EXCEPT ![p] = None]
              BY <2>1, <3>2, <5>2 DEF ItemEquiped, EquipTakeOffed
            <6> QED BY <4>0, <4>1, <4>2, <5>2, <6>1 DEF Swapped, Info
          <5> QED BY <5>1, <5>2
        <4>4. worn = [q \in Position |-> IF q = p THEN Info ELSE items[q]]
          BY <2>1, <3>2, <4>0 DEF Dressed
        <4>5. Dressed' = [q \in Position |-> IF q = p THEN Info ELSE items[q]]
          BY <4>3 DEF Dressed
        <4> QED BY <4>4, <4>5
      <3> QED BY <2>1, <3>1, <3>2
    <2>3. letter # None => letter.from \notin Position
      BY DEF IInv, InStep
    <2> QED BY <1>1, <2>1, <2>2, <2>3 DEF InStep
  <1> QED BY <1>1, <1>2, <1>3, <1>4, <1>5 DEF IInv

LEMMA LateAnswerStep == ASSUME IInv, LateAnswer PROVE IInv'
  <1> USE DEF LateAnswer, mailbox, Crossed
  <1>0. TypeOK /\ Debts /\ late \in Nat /\ late > 0
    BY DEF IInv, TypeOK
  <1>1. /\ requirement' \in Request \cup {None} /\ (up' => requirement' = None)
        /\ requirement' = None \/ requirement' = requirement
        /\ alone' \in BOOLEAN
        /\ items' \in [Place -> Item \cup {None}]
        /\ NoDuplicate' /\ History' /\ LetterStays' /\ RequestStands'
        /\ NothingLost' /\ MailedIsGone' /\ WornFits'
    <2>1. CASE \E succeed \in BOOLEAN : ItemEquiped(succeed)
      BY <2>1, AnswerItems
    <2>2. CASE ~up' /\ UNCHANGED <<items, requirement, alone>>
      <3>1. NoDuplicate' /\ History' /\ NothingLost' /\ MailedIsGone' /\ WornFits'
        BY <2>2 DEF IInv, NoDuplicate, History, NothingLost, MailedIsGone, WornFits, Possessed
      <3>2. LetterStays' /\ RequestStands'
        BY <2>2 DEF IInv, LetterStays, RequestStands
      <3> QED BY <1>0, <2>2, <3>1, <3>2 DEF TypeOK
    <2> QED BY <2>1, <2>2
  <1>2. TypeOK'
    <2>1. late' \in 0 .. MaxLate
      BY <1>0, ItemsAssumption DEF TypeOK
    <2>2. up' \in BOOLEAN
      BY <1>0 DEF TypeOK
    <2> QED BY <1>0, <1>1, <2>1, <2>2 DEF TypeOK
  <1>3. Debts'
    <2>1. late' = late - 1 /\ MaxLate \in Nat /\ Owed \in Nat
      BY <1>0, ItemsAssumption DEF TypeOK, Owed
    <2>2. Owed' = Owed /\ UNCHANGED <<room, answer>>
      BY DEF Owed
    <2>3. late + Owed <= MaxLate + 1 /\ late <= MaxLate
      BY <1>0, <2>1 DEF Debts
    <2>4. late' + Owed' <= MaxLate /\ late' <= MaxLate
      BY <1>0, <2>1, <2>2, <2>3
    <2>5. late' + Owed' <= MaxLate + 1
      BY <1>0, <2>1, <2>2, <2>3
    <2> QED BY <1>0, <2>1, <2>2, <2>4, <2>5 DEF Debts
  <1>4. RequirementPending'
    BY <1>1 DEF RequirementPending
  <1>5. InStep'
    <2>1. met \cap {"crossed", "worn", "parted"} # {}
      BY <1>0 DEF IInv, InStep
    <2> QED BY <2>1 DEF InStep
  <1> QED BY <1>1, <1>2, <1>3, <1>4, <1>5 DEF IInv

LEMMA PlayerDeletedStep == ASSUME IInv, PlayerDeleted PROVE IInv'
  <1> USE DEF PlayerDeleted, mailbox, Crossed
  <1>0. TypeOK /\ late \in Nat /\ Owed \in Nat /\ late + Owed <= MaxLate
    BY DEF IInv, TypeOK, Owed
  <1>1. TypeOK'
    <2>1. late' \in 0 .. MaxLate /\ met' \subseteq Met
      BY <1>0, ItemsAssumption DEF TypeOK, Met
    <2>2. commands' \in Seq(Command) /\ Len(commands') <= MaxLate + 1
      BY ItemsAssumption
    <2> QED BY <1>0, <2>1, <2>2 DEF TypeOK
  <1>2. NoDuplicate' /\ History'
    BY DEF IInv, NoDuplicate, History, Possessed
  <1>3. NothingLost' /\ MailedIsGone' /\ WornFits'
    BY DEF IInv, NothingLost, MailedIsGone, WornFits, Possessed, Fits
  <1>4. LetterStays' /\ RequestStands' /\ RequirementPending'
    BY DEF IInv, LetterStays, RequestStands, RequirementPending
  <1>5. Debts'
    <2>1. Owed' = 0 /\ late' = late + Owed
      BY DEF Owed
    <2> QED BY <1>0, <2>1, ItemsAssumption DEF Debts
  <1>6. InStep'
    BY DEF InStep
  <1> QED BY <1>1, <1>2, <1>3, <1>4, <1>5, <1>6 DEF IInv

\* He is out of the room, joins another, and is let in.
LEMMA JoinStep == ASSUME IInv, RoomParted \/ RoomJoined \/ PlayerCreated PROVE IInv'
  <1> USE DEF RoomParted, RoomJoined, PlayerCreated, logic, mailbox, Crossed
  <1>0. TypeOK /\ Debts
    BY DEF IInv
  <1>1. TypeOK'
    BY <1>0 DEF TypeOK
  <1>2. NoDuplicate' /\ History' /\ NothingLost' /\ MailedIsGone' /\ WornFits'
    BY DEF IInv, NoDuplicate, History, NothingLost, MailedIsGone, WornFits, Possessed
  <1>3. LetterStays' /\ RequestStands' /\ RequirementPending'
    BY DEF IInv, LetterStays, RequestStands, RequirementPending
  <1>4. Debts'
    <2>1. Owed' = Owed /\ Owed = 0 /\ room # "in"
      BY <1>0 DEF Debts, Owed
    <2>2. late' = late /\ late \in Nat /\ late <= MaxLate /\ MaxLate \in Nat /\ answer' = "none"
      BY <1>0, <2>1, ItemsAssumption DEF TypeOK, Debts
    <2> QED BY <2>1, <2>2 DEF Debts
  <1>5. InStep'
    BY DEF IInv, InStep
  <1> QED BY <1>1, <1>2, <1>3, <1>4, <1>5 DEF IInv

LEMMA ItemAcquiredStep == ASSUME IInv, NEW i \in Item, NEW s \in Slot, ItemAcquired(i, s) PROVE IInv'
  <1> USE DEF ItemAcquired, logic, mailbox, Crossed
  <1>0. TypeOK /\ NoDuplicate /\ History /\ s \in Place /\ items[s] = None /\ i \notin Possessed
    BY DEF IInv, History, FindEmptySlot, Place
  <1>1. /\ items' \in [Place -> Item \cup {None}]
        /\ items'[s] = i /\ \A z \in Place \ {s} : items'[z] = items[z]
        /\ NoDuplicate' /\ Possessed' = Possessed \cup {i}
    BY <1>0, GivenItem
  <1>2. i # None /\ \A p \in Position : p # s /\ p \in Place /\ items'[p] = items[p]
    BY <1>1, ItemsAssumption DEF Place
  <1>3. met \subseteq met' /\ met' \subseteq met \cup {"filled"}
    OBVIOUS
  <1>4. TypeOK'
    BY <1>0, <1>1, <1>3 DEF TypeOK, Met
  <1>5. History'
    BY <1>0, <1>1 DEF History
  <1>6. NothingLost' /\ MailedIsGone'
    BY <1>0, <1>1, <1>3 DEF IInv, History, NothingLost, MailedIsGone
  <1>7. WornFits'
    BY <1>2, <1>3 DEF IInv, WornFits, Fits
  <1>8. LetterStays'
    <2>1. letter # None => letter.from \in Place /\ letter.item \in Item
      BY <1>0 DEF TypeOK, Letter
    <2>2. letter # None /\ ~Crossed => letter.from # s
      BY <1>0, <2>1, ItemsAssumption DEF IInv, LetterStays
    <2> QED BY <1>1, <1>3, <2>1, <2>2 DEF IInv, LetterStays
  <1>9. RequestStands'
    <2>1. requirement # None => requirement.slot \in Place /\ requirement.isEquip \in BOOLEAN
      BY <1>0 DEF TypeOK, Request, Place
    <2>2. requirement # None /\ ~requirement.isEquip /\ "filled" \notin met' => requirement.slot # s
      OBVIOUS
    <2> QED BY <1>0, <1>1, <1>3, <2>1, <2>2 DEF IInv, RequestStands, Fits
  <1>10. Debts' /\ RequirementPending'
    BY DEF IInv, Debts, RequirementPending, Owed
  <1>11. InStep'
    <2> SUFFICES ASSUME met' \cap {"crossed", "worn", "parted"} = {} PROVE InStep'
      BY DEF InStep
    <2>1. met \cap {"crossed", "worn", "parted"} = {} /\ InStep
      BY <1>3 DEF IInv
    <2>2. Dressed' = Dressed
      BY <1>2 DEF Dressed
    <2>3. requirement # None => Info' = Info /\ requirement.position \in Position
      <3> HAVE requirement # None
      <3>1. requirement.slot \in Place /\ requirement.position \in Position
        BY <1>0 DEF TypeOK, Request, Place
      <3>2. requirement.isEquip => requirement.slot # s
        BY <1>0, <2>1 DEF IInv, RequestStands
      <3> QED BY <1>1, <3>1, <3>2 DEF Info
    <2> QED BY <1>2, <2>1, <2>2, <2>3 DEF InStep
  <1> QED BY <1>1, <1>4, <1>5, <1>6, <1>7, <1>8, <1>9, <1>10, <1>11 DEF IInv

LEMMA SendMailStep == ASSUME IInv, NEW x \in Place, SendMail(x) PROVE IInv'
  <1> USE DEF SendMail, Attaches, logic, Crossed
  <1>0. TypeOK /\ items[x] \in Item /\ items[x] \in Possessed
    BY DEF IInv, TypeOK, Possessed
  <1>1. letter' \in Letter /\ letter' # None /\ letter'.from = x /\ letter'.item = items[x]
    BY <1>0, ItemsAssumption DEF Letter
  <1>2. met \subseteq met' /\ "filled" \in met' => "filled" \in met
    OBVIOUS
  <1>3. TypeOK'
    <2>1. met' \subseteq Met
      BY <1>0 DEF TypeOK, Met
    <2> QED BY <1>0, <1>1, <2>1 DEF TypeOK
  <1>4. NoDuplicate' /\ History'
    BY <1>0, <1>1 DEF IInv, NoDuplicate, History, Possessed
  <1>5. NothingLost' /\ MailedIsGone' /\ WornFits'
    BY <1>2 DEF IInv, NothingLost, MailedIsGone, WornFits, Possessed, Fits
  <1>6. LetterStays'
    <2>1. ~Crossed => sending = {}
      BY DEF IInv, LetterStays
    <2> QED BY <1>1, <1>2, <2>1 DEF LetterStays
  <1>7. RequestStands'
    BY <1>2 DEF IInv, RequestStands, Fits
  <1>8. Debts' /\ RequirementPending'
    BY DEF IInv, Debts, RequirementPending, Owed
  <1>9. InStep'
    <2>1. Dressed' = Dressed /\ Info' = Info
      BY DEF Dressed, Info
    <2>2. met' \cap {"crossed", "worn", "parted"} = {} => met \cap {"crossed", "worn", "parted"} = {}
      BY <1>2
    <2> QED BY <2>1, <2>2 DEF IInv, InStep
  <1> QED BY <1>3, <1>4, <1>5, <1>6, <1>7, <1>8, <1>9 DEF IInv

LEMMA MailAnsweredStep == ASSUME IInv, NEW i \in Item, MailAnswered(i) PROVE IInv'
  <1> USE DEF MailAnswered, logic, Crossed
  <1> DEFINE x == letter.from
  <1>0. TypeOK /\ NoDuplicate /\ History /\ (letter # None => x \in Place)
    BY DEF IInv, TypeOK, Letter
  <1>1. /\ items' \in [Place -> Item \cup {None}] /\ NoDuplicate'
        /\ letter = None => items' = items
        /\ letter # None => items'[x] = None
        /\ \A z \in Place : letter = None \/ z # x => items'[z] = items[z]
        /\ Possessed' = IF letter = None THEN Possessed ELSE Possessed \ {items[x]}
    <2>1. CASE letter = None
      BY <1>0, <2>1 DEF TypeOK, NoDuplicate, Possessed
    <2>2. CASE letter # None
      BY <1>0, <2>2, DroppedItem
    <2> QED BY <2>1, <2>2
  <1>2. ~Crossed => letter # None /\ i = letter.item /\ items[x] = i /\ sending = {i}
    BY DEF IInv, LetterStays
  <1>3. TypeOK'
    BY <1>0, <1>1 DEF TypeOK
  <1>4. History' /\ LetterStays'
    <2>1. Possessed' \subseteq Possessed /\ sending' \subseteq sending /\ i \in given
      BY <1>0, <1>1 DEF History
    <2> QED BY <1>0, <1>2, <2>1 DEF History, LetterStays
  <1>5. NothingLost' /\ MailedIsGone'
    BY <1>1, <1>2 DEF IInv, NothingLost, MailedIsGone
  <1>6. WornFits'
    <2>1. \A p \in Position : p \in Place /\ (items'[p] = items[p] \/ items'[p] = None)
      BY <1>1 DEF Place
    <2> QED BY <2>1 DEF IInv, WornFits, Fits
  <1>7. ASSUME requirement # None, ~Crossed
        PROVE  /\ requirement.slot \in Place /\ requirement.position \in Place
               /\ requirement.slot # x /\ requirement.position # x
    BY <1>0, <1>2, <1>7 DEF IInv, LetterStays, TypeOK, Request, Place
  <1>8. RequestStands'
    BY <1>1, <1>7 DEF IInv, RequestStands, Fits
  <1>9. Debts' /\ RequirementPending'
    BY DEF IInv, Debts, RequirementPending, Owed
  <1>10. InStep'
    <2> SUFFICES ASSUME met \cap {"crossed", "worn", "parted"} = {} PROVE InStep'
      BY DEF InStep
    <2>1. \A p \in Position : p \in Place /\ p # x
      BY <1>2 DEF Place, IInv, InStep
    <2>2. Dressed' = Dressed
      BY <1>1, <2>1 DEF Dressed
    <2>3. requirement # None => Info' = Info /\ items'[requirement.position] = items[requirement.position]
      BY <1>1, <1>7 DEF Info
    <2> QED BY <2>2, <2>3 DEF IInv, InStep
  <1> QED BY <1>1, <1>3, <1>4, <1>5, <1>6, <1>8, <1>9, <1>10 DEF IInv

\* What only locks, unlocks or gives up.
LEMMA LockStep ==
  ASSUME IInv, (\E i \in Item : MailNotSent(i)) \/ Unlock \/ TradeBegins \/ TradeEnds
  PROVE  IInv'
  <1> USE DEF MailNotSent, Unlock, TradeBegins, TradeEnds, Unlocked, logic, mailbox, Crossed
  <1>0. TypeOK
    BY DEF IInv
  <1>1. UNCHANGED <<items, requirement, alone, room, logic, mailed, given, up>>
    OBVIOUS
  <1>2. /\ letter' \in {letter, None} /\ locked' \in BOOLEAN /\ trading' \in BOOLEAN
        /\ sending' \subseteq sending /\ unlocking' \in Nat
    <2>1. letter' \in {letter, None} /\ sending' \subseteq sending
      OBVIOUS
    <2>2. locked' \in BOOLEAN /\ trading' \in BOOLEAN
      BY <1>0 DEF TypeOK
    <2>3. unlocking \in Nat
      BY <1>0 DEF TypeOK
    <2>4. unlocking' \in {unlocking, unlocking + 1} \/ (unlocking > 0 /\ unlocking' = unlocking - 1)
      OBVIOUS
    <2> QED BY <2>1, <2>2, <2>3, <2>4
  <1>3. /\ met' \in {met, met \cup {"crossed"}}
        /\ letter' # None /\ "crossed" \notin met' => letter' = letter /\ (locked => locked')
    OBVIOUS
  <1>10. "crossed" \notin met' => sending' = (IF letter' = None THEN {} ELSE {letter'.item})
    BY DEF IInv, LetterStays
  <1>4. TypeOK'
    BY <1>0, <1>1, <1>2, <1>3 DEF TypeOK, Met
  <1>5. NoDuplicate' /\ History'
    BY <1>1, <1>2 DEF IInv, NoDuplicate, History, Possessed
  <1>6. NothingLost' /\ MailedIsGone' /\ WornFits'
    BY <1>1, <1>3 DEF IInv, NothingLost, MailedIsGone, WornFits, Possessed, Fits
  <1>7. LetterStays' /\ RequestStands'
    BY <1>1, <1>3, <1>10 DEF IInv, LetterStays, RequestStands, Fits
  <1>8. Debts' /\ RequirementPending'
    BY <1>1 DEF IInv, Debts, RequirementPending, Owed
  <1>9. InStep'
    <2>1. Dressed' = Dressed /\ Info' = Info
      BY <1>1 DEF Dressed, Info
    <2>2. met' \cap {"crossed", "worn", "parted"} = {} => met \cap {"crossed", "worn", "parted"} = {}
      BY <1>3
    <2> QED BY <1>1, <2>1, <2>2 DEF IInv, InStep
  <1> QED BY <1>4, <1>5, <1>6, <1>7, <1>8, <1>9 DEF IInv

LEMMA StutterStep == ASSUME IInv, UNCHANGED vars PROVE IInv'
  <1> USE DEF vars, logic, mailbox, Crossed
  <1>1. TypeOK' /\ NoDuplicate' /\ History' /\ LetterStays' /\ RequestStands'
    BY DEF IInv, TypeOK, NoDuplicate, History, LetterStays, RequestStands, Possessed, Fits
  <1>2. NothingLost' /\ MailedIsGone' /\ WornFits' /\ Debts' /\ RequirementPending'
    BY DEF IInv, NothingLost, MailedIsGone, WornFits, Debts, RequirementPending, Possessed, Owed, Fits
  <1>3. InStep'
    BY DEF IInv, InStep, Dressed, Info
  <1> QED BY <1>1, <1>2, <1>3 DEF IInv

LEMMA NextHolds == IInv /\ [Next]_vars => IInv'
  <1> SUFFICES ASSUME IInv, [Next]_vars PROVE IInv'
    OBVIOUS
  <1>1. ASSUME NEW s \in Slot, NEW t \in Slot, MoveItems(s, t) PROVE IInv'
    BY <1>1, MoveItemsStep
  <1>2. ASSUME NEW s \in Slot, NEW p \in Position, PutOn(s, p) \/ TakeOff(p, s) PROVE IInv'
    BY <1>2, PutOnStep, TakeOffStep
  <1>3. CASE ProcessEquip \/ ItemEquipped \/ LateAnswer
    BY <1>3, ProcessEquipStep, ItemEquippedStep, LateAnswerStep
  <1>4. CASE PlayerDeleted \/ RoomParted \/ RoomJoined \/ PlayerCreated
    BY <1>4, PlayerDeletedStep, JoinStep
  <1>5. ASSUME NEW i \in Item, NEW s \in Slot, ItemAcquired(i, s) PROVE IInv'
    BY <1>5, ItemAcquiredStep
  <1>6. ASSUME NEW x \in Place, SendMail(x) PROVE IInv'
    BY <1>6, SendMailStep
  <1>7. ASSUME NEW i \in Item, MailAnswered(i) PROVE IInv'
    BY <1>7, MailAnsweredStep
  <1>8. CASE (\E i \in Item : MailNotSent(i)) \/ Unlock \/ TradeBegins \/ TradeEnds
    BY <1>8, LockStep
  <1>9. CASE UNCHANGED vars
    BY <1>9, StutterStep
  <1> QED BY <1>1, <1>2, <1>3, <1>4, <1>5, <1>6, <1>7, <1>8, <1>9 DEF Next

LEMMA Invariance == Spec => []IInv
  BY InitHolds, NextHolds, PTL DEF Spec
-----------------------------------------------------------------------------
\* The queue of the logic never holds more than what late answers let through (MoveItems).
THEOREM Types == Spec => []TypeOK
  <1>1. IInv => TypeOK
    BY DEF IInv
  <1> QED BY <1>1, Invariance, PTL

\* No item is in two places (EquipPutOned, EquipTakeOffed, MoveItems).
THEOREM ItemsAreDistinct == Spec => []NoDuplicate
  <1>1. IInv => NoDuplicate
    BY DEF IInv
  <1> QED BY <1>1, Invariance, PTL

\* Nothing is lost unless the slot was filled or the letter took something else
\* (EquipTakeOffed, ItemDrop).
THEOREM NothingIsLost == Spec => []NothingLost
  <1>1. IInv => NothingLost
    BY DEF IInv
  <1> QED BY <1>1, Invariance, PTL

\* A letter takes what it took from him (SendMail, ItemDrop).
THEOREM LettersTake == Spec => []MailedIsGone
  <1>1. IInv => MailedIsGone
    BY DEF IInv
  <1> QED BY <1>1, Invariance, PTL

\* What he wears fits where he wears it (EquipPutOned).
THEOREM EquipmentFits == Spec => []WornFits
  <1>1. IInv => WornFits
    BY DEF IInv
  <1> QED BY <1>1, Invariance, PTL

\* Between requests the logic wears what Items says (ProcessEquip, ItemEquiped).
THEOREM LogicFollows == Spec => []LogicAgrees
  <1>1. IInv => LogicAgrees
    <2> SUFFICES ASSUME IInv, requirement = None, met \cap {"crossed", "worn", "parted"} = {},
                        NEW p \in Position
                 PROVE  worn[p] = items[p]
      BY DEF LogicAgrees
    <2> QED BY DEF IInv, InStep, Dressed
  <1> QED BY <1>1, Invariance, PTL

\* A request never waits for nothing (ItemsEquip, SetPlayer, ItemEquiped).
THEOREM RequestsWait == Spec => []RequirementPending
  <1>1. IInv => RequirementPending
    BY DEF IInv
  <1> QED BY <1>1, Invariance, PTL
================================================================================
