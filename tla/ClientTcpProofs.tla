--------------------------- MODULE ClientTcpProofs ---------------------------
(***************************************************************************)
(* What holds of the sessions whatever the sizes of packets, reads and     *)
(* buffers, and however the stream is cut.                                 *)
(*                                                                         *)
(* Stage: the invariant follows the bytes.  What is in the receive buffer  *)
(* behind the cursor is what comes after the bytes translated so far, what *)
(* a completed read has put into m_buffer comes after that, and what is    *)
(* left when the loop ends is less than a packet.                          *)
(* Lobby: the invariant follows the one packet a peer who waits has sent,  *)
(* through m_buffer and the receive buffer to Parse (Serving, OnItsWay).   *)
(* From both, a session with packets to come never waits without a read    *)
(* (NeverStalls).                                                          *)
(***************************************************************************)
EXTENDS ClientTcp, TLAPS

Increasing == \A j, k \in DOMAIN ends : j < k => ends[j] < ends[k]
Stream == Increasing /\ \A k \in DOMAIN ends : Size(k) \in Sizes

AtRest == io.at = "waiting" => io.total = 0

\* The stage decrypts from the start and has one read outstanding.
Reading ==
  server = "stage" =>
    isEncryptKey /\ reads + Len(completions) <= (IF io.at = "waiting" THEN 1 ELSE 0)

Intact == server = "stage" /\ "truncated" \notin met

Parsing ==
  Intact =>
    InSequence(parsed) /\ Len(parsed) <= Len(ends) /\ key = Before(Len(parsed) + 1)

\* Bytes of the stream up to the end of the receive buffer.
Received == key - io.total + length

Bytes ==
  Intact =>
    /\ arrived <= Sent
    /\ \A i \in 0 .. length - 1 : data[i] = key - io.total + 1 + i
    /\ completions = <<>> => Received <= arrived /\ (open => Received = arrived)
    /\ completions # <<>> =>
         /\ Received + Head(completions) = arrived
         /\ \A i \in 0 .. Head(completions) - 1 : m_buffer[i] = Received + 1 + i

Fits ==
  Intact /\ io.at \in {"waiting", "leaving"} /\ Len(parsed) < Len(ends) =>
    length - io.total < Size(Len(parsed) + 1)

\* A peer who waits for each packet to be handled.
Alone == server = "stage" /\ met \cap {"pipelined", "truncated"} = {}

InFlight ==
  Alone =>
    /\ InSequence(handled) /\ "garbled" \notin met
    /\ Len(handled) <= Len(parsed) /\ Len(ends) <= Len(handled) + 1
    /\ io.at # "stuck" /\ (io.at = "parsing" => ~io.result)
    /\ threads = {} => Len(handled) = Len(parsed)
    /\ \A t \in threads :
         /\ t.packet = Len(parsed) /\ Len(handled) + 1 = Len(parsed)
         /\ Lies(t.packet, Size(t.packet), t.offset)
    /\ \A t, v \in threads : t = v

IInv ==
  /\ TypeOK /\ Stream /\ AtRest /\ Reading /\ Parsing /\ Bytes /\ Fits /\ InFlight
  /\ NothingTruncated
-----------------------------------------------------------------------------
LEMMA InitHolds == Init => IInv
  <1> SUFFICES ASSUME Init PROVE IInv
    OBVIOUS
  <1> USE TcpAssumption DEF Init, Waiting
  <1>1. TypeOK
    BY DEF TypeOK, Met
  <1>2. Stream /\ AtRest /\ Reading /\ NothingTruncated
    BY DEF Stream, Increasing, AtRest, Reading, NothingTruncated
  <1>3. Parsing /\ Bytes /\ Fits /\ InFlight
    BY DEF Parsing, Bytes, Received, Fits, InFlight, Alone, Intact, Sent, Before, InSequence
  <1> QED BY <1>1, <1>2, <1>3 DEF IInv

LEMMA SentIsNat ==
  ASSUME ends \in Seq(Nat)
  PROVE  Sent \in Nat /\ \A k \in 1 .. Len(ends) + 1 : Before(k) \in Nat
  <1>1. \A k \in 1 .. Len(ends) + 1 : Before(k) \in Nat
    <2> TAKE k \in 1 .. Len(ends) + 1
    <2>1. k = 1 \/ k - 1 \in 1 .. Len(ends)
      OBVIOUS
    <2>2. \A j \in 1 .. Len(ends) : ends[j] \in Nat
      OBVIOUS
    <2> QED BY <2>1, <2>2 DEF Before
  <1>2. Len(ends) + 1 \in 1 .. Len(ends) + 1
    OBVIOUS
  <1> QED BY <1>1, <1>2 DEF Sent

\* A packet that is sent changes nothing about the ones before it.
LEMMA SendEnds ==
  ASSUME TypeOK, Stream, NEW size \in Sizes, ends' = Append(ends, Sent + size)
  PROVE  /\ ends' \in Seq(Nat) /\ Len(ends') = Len(ends) + 1
         /\ \A k \in DOMAIN ends : k \in DOMAIN ends' /\ Size(k)' = Size(k)
         /\ \A k \in 1 .. Len(ends) + 1 : Before(k)' = Before(k)
         /\ \A k \in Nat : k = Len(ends) + 1 => Size(k)' = size
         /\ Sent' = Sent + size
         /\ Stream'
  <1>a. ends \in Seq(Nat)
    BY DEF TypeOK
  <1>b. Sent \in Nat
    BY <1>a, SentIsNat
  <1>c. size \in Nat /\ size > 0
    BY TcpAssumption
  <1>0. Sent \in Nat /\ size \in Nat /\ size > 0 /\ ends \in Seq(Nat)
    BY <1>a, <1>b, <1>c
  <1>1. /\ ends' \in Seq(Nat) /\ Len(ends') = Len(ends) + 1
        /\ \A k \in 1 .. Len(ends) : ends'[k] = ends[k]
        /\ ends'[Len(ends) + 1] = Sent + size
    BY <1>0
  <1>2. \A k \in 1 .. Len(ends) + 1 : Before(k)' = Before(k)
    <2> TAKE k \in 1 .. Len(ends) + 1
    <2>1. k = 1 \/ k - 1 \in 1 .. Len(ends)
      BY <1>0
    <2> QED BY <2>1, <1>1 DEF Before
  <1>3. \A k \in DOMAIN ends : k \in DOMAIN ends' /\ Size(k)' = Size(k)
    BY <1>0, <1>1, <1>2 DEF Size
  <1>4. (\A k \in Nat : k = Len(ends) + 1 => Size(k)' = size) /\ Sent' = Sent + size
    <2> DEFINE n == Len(ends) + 1
    <2>1. n \in 1 .. Len(ends) + 1 /\ Len(ends') = n /\ ends'[n] = Sent + size
      BY <1>0, <1>1
    <2>2. \A k \in Nat : k = n => Before(k)' = Sent
      BY <1>2, <2>1 DEF Sent
    <2>3. \A k \in Nat : k = n => Size(k)' = size
      BY <2>1, <2>2, <1>0 DEF Size
    <2>4. Sent' = ends'[n]
      BY <2>1, <1>0 DEF Sent, Before
    <2> QED BY <2>1, <2>3, <2>4
  <1>5. \A j \in DOMAIN ends : ends[j] <= Sent
    <2> TAKE j \in DOMAIN ends
    <2>1. Len(ends) \in DOMAIN ends /\ Sent = ends[Len(ends)] /\ j <= Len(ends)
      BY <1>0 DEF Sent, Before
    <2>2. ends[j] \in Nat
      BY <1>0
    <2> QED BY <2>1, <2>2, <1>0 DEF Stream, Increasing
  <1>6. Increasing'
    BY <1>0, <1>1, <1>5 DEF Stream, Increasing
  <1>7. \A k \in DOMAIN ends' : Size(k)' \in Sizes
    <2> TAKE k \in DOMAIN ends'
    <2>1. k \in DOMAIN ends \/ k = Len(ends) + 1
      BY <1>0, <1>1
    <2>2. Len(ends) + 1 \in Nat
      BY <1>0
    <2> QED BY <2>1, <2>2, <1>3, <1>4 DEF Stream
  <1> QED BY <1>1, <1>2, <1>3, <1>4, <1>6, <1>7 DEF Stream

LEMMA SendStep == ASSUME IInv, NEW size \in Sizes, Send(size) PROVE IInv'
  <1> USE DEF Send, socket, buffer, crypt
  <1>0. TypeOK /\ Stream
    BY DEF IInv
  <1>1. /\ ends' \in Seq(Nat) /\ Len(ends') = Len(ends) + 1
        /\ \A k \in DOMAIN ends : k \in DOMAIN ends' /\ Size(k)' = Size(k)
        /\ \A k \in 1 .. Len(ends) + 1 : Before(k)' = Before(k)
        /\ \A k \in Nat : k = Len(ends) + 1 => Size(k)' = size
        /\ Sent' = Sent + size
        /\ Stream'
    BY <1>0, SendEnds
  <1>2. ends \in Seq(Nat) /\ size \in Nat /\ size > 0 /\ Sent \in Nat
    BY <1>0, SentIsNat, TcpAssumption DEF TypeOK
  <1>3. TypeOK'
    BY <1>0, <1>1 DEF TypeOK, Met
  <1>4. AtRest' /\ Reading'
    BY DEF IInv, AtRest, Reading
  <1>p. parsed \in Seq(Number) /\ handled \in Seq(Number) /\ length \in Nat /\ key \in Nat /\ io.total \in Nat
    BY <1>0, TcpAssumption DEF TypeOK
  <1>5. (Intact' => Intact) /\ (Alone' => Alone /\ Len(handled) >= Len(ends))
    <2>1. (Intact' => Intact) /\ (Alone' => Alone)
      BY DEF Intact, Alone
    <2>2. Alone' => ~(Len(handled) < Len(ends))
      BY DEF Alone
    <2>3. Len(handled) \in Nat /\ Len(ends) \in Nat
      BY <1>p, <1>2
    <2> QED BY <2>1, <2>2, <2>3
  <1>6. Parsing'
    <2> SUFFICES ASSUME Intact' PROVE Parsing'
      BY DEF Parsing
    <2>1. InSequence(parsed) /\ Len(parsed) <= Len(ends) /\ key = Before(Len(parsed) + 1)
      BY <1>5 DEF IInv, Parsing
    <2>2. Len(parsed) + 1 \in 1 .. Len(ends) + 1
      BY <2>1, <1>2, <1>p
    <2> QED BY <2>1, <2>2, <1>1, <1>2, <1>p DEF Parsing, InSequence
  <1>7. Bytes'
    <2> SUFFICES ASSUME Intact' PROVE Bytes'
      BY DEF Bytes
    <2>1. arrived <= Sent /\ arrived \in Nat
      BY <1>0, <1>5 DEF IInv, Bytes, TypeOK
    <2>2. arrived <= Sent'
      BY <2>1, <1>1, <1>2
    <2> QED BY <2>2, <1>5 DEF IInv, Bytes, Received
  <1>8. Fits'
    <2> SUFFICES ASSUME Intact', io.at \in {"waiting", "leaving"}, Len(parsed) < Len(ends')
                 PROVE  \A k \in Nat : k = Len(parsed) + 1 => length - io.total < Size(k)'
      BY <1>p DEF Fits
    <2> TAKE k \in Nat
    <2> HAVE k = Len(parsed) + 1
    <2>1. CASE Len(parsed) < Len(ends)
      <3>1. length - io.total < Size(k)
        BY <2>1, <1>5 DEF IInv, Fits
      <3>2. k \in DOMAIN ends
        BY <2>1, <1>2, <1>p
      <3> QED BY <3>1, <3>2, <1>1
    <2>2. CASE Len(parsed) = Len(ends)
      <3>1. key = Sent /\ arrived <= Sent /\ Received <= arrived
        <4>1. key = Sent
          BY <2>2, <1>5 DEF IInv, Parsing, Sent
        <4>2. completions # <<>> => Head(completions) \in Nat
          <5>1. completions \in Seq(1 .. ReadLength) /\ ReadLength \in Nat
            BY <1>0, TcpAssumption DEF TypeOK
          <5>2. completions # <<>> => Head(completions) \in 1 .. ReadLength
            BY <5>1
          <5> QED BY <5>1, <5>2
        <4>3. arrived \in Nat /\ Received \in Int
          BY <1>0, <1>p DEF TypeOK, Received
        <4> QED BY <4>1, <4>2, <4>3, <1>5 DEF IInv, Bytes
      <3>2. length - io.total <= 0
        BY <3>1, <1>p, <1>0, <1>2 DEF Received, TypeOK
      <3>3. Size(k)' = size
        BY <2>2, <1>1
      <3> QED BY <3>2, <3>3, <1>2, <1>p
    <2> QED BY <2>1, <2>2, <1>1, <1>2, <1>p, <1>5 DEF IInv, Parsing
  <1>9. InFlight'
    <2> SUFFICES ASSUME Alone' PROVE InFlight'
      BY DEF InFlight
    <2>1. /\ InSequence(handled) /\ "garbled" \notin met
          /\ Len(handled) <= Len(parsed)
          /\ io.at # "stuck" /\ (io.at = "parsing" => ~io.result)
          /\ threads = {} => Len(handled) = Len(parsed)
          /\ \A t \in threads : Len(handled) + 1 = Len(parsed)
      BY <1>5 DEF IInv, InFlight
    <2>2. Len(parsed) <= Len(ends) /\ Len(handled) >= Len(ends)
      BY <1>5 DEF IInv, Parsing, Intact, Alone
    <2>3. threads = {} /\ Len(handled) = Len(ends)
      BY <2>1, <2>2, <1>2, <1>p
    <2> QED BY <2>1, <2>3, <1>1, <1>2, <1>p DEF InFlight, InSequence
  <1>10. NothingTruncated'
    <2> SUFFICES ASSUME server = "stage", "truncated" \in met'
                 PROVE  \E k \in DOMAIN ends' : Size(k)' > Capacity - ReadLength + 1
      BY DEF NothingTruncated
    <2>1. PICK k \in DOMAIN ends : Size(k) > Capacity - ReadLength + 1
      BY DEF IInv, NothingTruncated
    <2> QED BY <2>1, <1>1
  <1> QED BY <1>1, <1>3, <1>4, <1>6, <1>7, <1>8, <1>9, <1>10 DEF IInv

LEMMA DisconnectStep == ASSUME IInv, Disconnect PROVE IInv'
  <1> USE DEF Disconnect, peer, socket, buffer, crypt
  <1>1. TypeOK'
    BY DEF IInv, TypeOK
  <1>2. Stream' /\ AtRest' /\ Reading' /\ NothingTruncated'
    BY DEF IInv, Stream, Increasing, Size, Before, AtRest, Reading, NothingTruncated
  <1>3. Parsing' /\ Fits' /\ InFlight'
    BY DEF IInv, Parsing, Intact, Fits, Size, Before, InFlight, Alone, Lies, InSequence
  <1>4. Bytes'
    BY DEF IInv, Bytes, Intact, Received, Sent, Before
  <1> QED BY <1>1, <1>2, <1>3, <1>4 DEF IInv

LEMMA CompleteStep == ASSUME IInv, NEW n \in 1 .. ReadLength, Complete(n) PROVE IInv'
  <1> USE DEF Complete, peer, buffer, crypt
  <1>0. /\ TypeOK /\ ReadLength \in Nat
        /\ completions \in Seq(1 .. ReadLength) /\ reads \in Nat /\ reads > 0
    BY TcpAssumption DEF IInv, TypeOK
  <1>1. completions' \in Seq(1 .. ReadLength) /\ Len(completions') = Len(completions) + 1
    BY <1>0
  <1>2. TypeOK'
    <2>1. m_buffer' \in [0 .. ReadLength - 1 -> Nat] /\ arrived' \in Nat /\ reads' \in Nat
      BY <1>0 DEF TypeOK
    <2>2. met' \subseteq Met
      BY <1>0 DEF TypeOK, Met
    <2> QED BY <1>0, <1>1, <2>1, <2>2 DEF TypeOK
  <1>3. Stream' /\ AtRest'
    BY DEF IInv, Stream, Increasing, Size, Before, AtRest
  <1>4. Reading'
    BY <1>0, <1>1 DEF IInv, Reading
  <1>5. (Intact' => Intact) /\ (Alone' => Alone)
    BY DEF Intact, Alone
  <1>6. Parsing' /\ Fits'
    BY <1>5 DEF IInv, Parsing, Fits, Size, Before, InSequence
  <1>7. InFlight'
    BY <1>5 DEF IInv, InFlight, Lies, Size, Before, InSequence
  <1>8. Bytes'
    <2> SUFFICES ASSUME Intact' PROVE Bytes'
      BY DEF Bytes
    <2>1. completions = <<>>
      BY <1>0, <1>5 DEF IInv, Reading, Intact
    <2>2. completions' = <<n>> /\ Head(completions') = n /\ completions' # <<>>
      BY <2>1
    <2>3. /\ \A i \in 0 .. length - 1 : data[i] = key - io.total + 1 + i
          /\ Received = arrived
      BY <2>1, <1>5 DEF IInv, Bytes
    <2>4. \A i \in 0 .. n - 1 : m_buffer'[i] = Received + 1 + i
      BY <2>3, <1>0
    <2>5. arrived' <= Sent'
      BY DEF Sent, Before
    <2>6. Received' = Received
      BY DEF Received
    <2> QED BY <2>2, <2>3, <2>4, <2>5, <2>6 DEF Bytes
  <1>9. NothingTruncated'
    BY DEF IInv, NothingTruncated, Size, Before
  <1> QED BY <1>2, <1>3, <1>4, <1>6, <1>7, <1>8, <1>9 DEF IInv
-----------------------------------------------------------------------------
\* The io thread.

LEMMA Types ==
  ASSUME TypeOK
  PROVE  /\ io.total \in Nat /\ io.total <= length /\ length \in Nat /\ length <= Capacity
         /\ Capacity \in Nat /\ key \in Nat /\ arrived \in Nat /\ reads \in Nat
         /\ LengthSize \in Nat \ {0} /\ HeaderSize \in Nat /\ LengthSize < HeaderSize
         /\ ReadLength \in Nat \ {0}
         /\ io.result \in BOOLEAN /\ Remaining \in Nat
         /\ ends \in Seq(Nat) /\ parsed \in Seq(Number) /\ handled \in Seq(Number)
         /\ completions \in Seq(1 .. ReadLength)
  <1>1. io.total \in 0 .. Capacity /\ io.result \in BOOLEAN /\ length \in 0 .. Capacity
    BY DEF TypeOK
  <1>2. io.total <= length /\ Capacity \in Nat
    BY TcpAssumption DEF TypeOK
  <1>3. Remaining \in Nat
    BY <1>1, <1>2 DEF Remaining
  <1> QED BY <1>1, <1>2, <1>3, TcpAssumption DEF TypeOK

LEMMA Lengths ==
  ASSUME Stream
  PROVE  \A k \in DOMAIN ends :
           Size(k) \in Nat /\ HeaderSize <= Size(k) /\ LengthSize < Size(k) /\ Size(k) > 0
  <1> TAKE k \in DOMAIN ends
  <1>1. Size(k) \in Sizes
    BY DEF Stream
  <1>2. Size(k) \in Nat /\ HeaderSize <= Size(k)
    BY <1>1, TcpAssumption
  <1> QED BY <1>2, TcpAssumption

\* While bytes are to be translated, the next packet has been sent, and the key is its.
LEMMA MoreToParse ==
  ASSUME IInv, Intact, arrived > key
  PROVE  /\ Len(parsed) + 1 \in DOMAIN ends /\ Len(parsed) < Len(ends)
         /\ \A k \in Nat : k = Len(parsed) + 1 => Before(k) = key
  <1>1. /\ arrived <= Sent /\ arrived \in Nat /\ key \in Nat /\ ends \in Seq(Nat)
        /\ parsed \in Seq(Number)
        /\ Len(parsed) <= Len(ends) /\ key = Before(Len(parsed) + 1)
    BY DEF IInv, Bytes, Parsing, TypeOK
  <1>2. Len(parsed) # Len(ends)
    <2> SUFFICES ASSUME Len(parsed) = Len(ends) PROVE FALSE
      OBVIOUS
    <2>1. key = Sent
      BY <1>1 DEF Sent
    <2> QED BY <2>1, <1>1
  <1> QED BY <1>1, <1>2

\* No two packets begin at one position.
LEMMA BeforeUnique ==
  ASSUME TypeOK, Stream, NEW j \in DOMAIN ends, NEW k \in DOMAIN ends, j < k
  PROVE  Before(j) < Before(k)
  <1>1. /\ ends \in Seq(Nat) /\ Before(j) \in Nat /\ ends[j] \in Nat
        /\ k - 1 \in DOMAIN ends /\ ends[k - 1] \in Nat /\ k # 1
    <2>1. ends \in Seq(Nat)
      BY DEF TypeOK
    <2>2. Before(j) \in Nat
      BY <2>1, SentIsNat
    <2> QED BY <2>1, <2>2
  <1>2. ends[j] - Before(j) > 0
    <2>1. Size(j) \in Sizes
      BY DEF Stream
    <2> QED BY <2>1, <1>1, TcpAssumption DEF Size
  <1>3. ends[j] <= ends[k - 1]
    BY <1>1 DEF Stream, Increasing
  <1>4. Before(k) = ends[k - 1]
    BY <1>1 DEF Before
  <1> QED BY <1>1, <1>2, <1>3, <1>4

\* What the stage reads of a header is the length of the next packet.
LEMMA HeaderRead ==
  ASSUME IInv, Intact, Remaining > LengthSize
  PROVE  /\ arrived > key /\ arrived >= Received
         /\ \A k \in Nat : k = Len(parsed) + 1 =>
              /\ k \in DOMAIN ends /\ TranslatedLength = {Size(k)}
              /\ Size(k) <= Remaining => Translated(Size(k)) = {k}
  <1>1. /\ key \in Nat /\ length \in Nat /\ io.total \in Nat /\ arrived \in Nat
        /\ length <= Capacity /\ Capacity \in Nat /\ LengthSize \in Nat \ {0}
        /\ ends \in Seq(Nat)
    BY TcpAssumption DEF IInv, TypeOK
  <1>2. arrived >= Received
    <2>1. completions \in Seq(1 .. ReadLength) /\ ReadLength \in Nat
      BY TcpAssumption DEF IInv, TypeOK
    <2>2. completions # <<>> => Head(completions) \in 1 .. ReadLength
      BY <2>1
    <2> QED BY <2>1, <2>2, <1>1 DEF IInv, Bytes, Received
  <1>3. arrived > key
    BY <1>1, <1>2 DEF Remaining, Received
  <1> SUFFICES ASSUME NEW k \in Nat, k = Len(parsed) + 1
               PROVE  /\ k \in DOMAIN ends /\ TranslatedLength = {Size(k)}
                      /\ Size(k) <= Remaining => Translated(Size(k)) = {k}
    BY <1>2, <1>3
  <1>4. k \in DOMAIN ends /\ Before(k) = key
    BY <1>3, MoreToParse
  <1>5. \A j \in DOMAIN ends : InStep(j) <=> j = k
    <2> TAKE j \in DOMAIN ends
    <2>1. InStep(j) <=> Before(j) = Before(k)
      BY <1>4 DEF InStep, Intact
    <2>2. j # k => Before(j) # Before(k)
      <3>1. TypeOK /\ Stream /\ j \in Nat /\ Before(j) \in Nat /\ Before(k) \in Nat
        BY <1>1, <1>4, SentIsNat DEF IInv
      <3> QED BY <3>1, <1>1, <1>4, BeforeUnique
    <2> QED BY <2>1, <2>2
  <1>6. \A n \in Nat : n <= Remaining => Lies(k, n, io.total)
    <2> SUFFICES ASSUME NEW n \in Nat, n <= Remaining, NEW i \in 0 .. n - 1
                 PROVE  io.total + i < Capacity /\ data[io.total + i] = Before(k) + 1 + i
      BY DEF Lies
    <2>1. io.total + i \in 0 .. length - 1
      BY <1>1 DEF Remaining
    <2>2. data[io.total + i] = key - io.total + 1 + (io.total + i)
      BY <2>1 DEF IInv, Bytes
    <2>3. io.total + i < Capacity
      BY <2>1, <1>1
    <2>4. i \in Int /\ key - io.total + 1 + (io.total + i) = key + 1 + i
      BY <1>1
    <2> QED BY <2>2, <2>3, <2>4, <1>4
  <1>7. Lies(k, LengthSize, io.total)
    BY <1>1, <1>6 DEF Remaining
  <1>8. {j \in DOMAIN ends : InStep(j) /\ Lies(j, LengthSize, io.total)} = {k}
    BY <1>4, <1>5, <1>7
  <1>9. TranslatedLength = {Size(k)}
    BY <1>8 DEF TranslatedLength
  <1>10. Size(k) <= Remaining => Translated(Size(k)) = {k}
    <2>1. Size(k) \in Nat
      BY <1>4, TcpAssumption DEF IInv, Stream
    <2> QED BY <2>1, <1>4, <1>5, <1>6 DEF Translated
  <1> QED BY <1>4, <1>9, <1>10

\* A peer who waits has nothing in flight while his packet is handled.
LEMMA NothingInFlight ==
  ASSUME IInv, Alone, threads # {}
  PROVE  /\ arrived <= key /\ length = io.total /\ completions = <<>>
         /\ Len(parsed) = Len(ends)
  <1>1. Intact
    BY DEF Alone, Intact
  <1>2. /\ parsed \in Seq(Number) /\ handled \in Seq(Number) /\ ends \in Seq(Nat)
        /\ key \in Nat /\ length \in Nat /\ io.total \in Nat /\ io.total <= length
        /\ arrived \in Nat /\ completions \in Seq(1 .. ReadLength) /\ ReadLength \in Nat
    BY TcpAssumption DEF IInv, TypeOK
  <1>3. Len(handled) + 1 = Len(parsed) /\ Len(ends) <= Len(handled) + 1
    BY DEF IInv, InFlight
  <1>4. arrived <= key
    BY <1>1, <1>2, <1>3, MoreToParse
  <1>5. completions # <<>> => Head(completions) \in 1 .. ReadLength
    BY <1>2
  <1>6. completions = <<>> /\ length = io.total
    BY <1>1, <1>2, <1>4, <1>5 DEF IInv, Bytes, Received
  <1>7. Len(parsed) <= Len(ends)
    BY <1>1 DEF IInv, Parsing
  <1> QED BY <1>2, <1>3, <1>4, <1>6, <1>7

LEMMA CloseSocketStep == ASSUME IInv, CloseSocket PROVE IInv'
  <1> USE DEF CloseSocket, peer, buffer, crypt
  <1>0. /\ TypeOK /\ completions \in Seq(1 .. ReadLength) /\ completions # <<>>
        /\ ReadLength \in Nat
    BY TcpAssumption DEF IInv, TypeOK
  <1>1. completions' \in Seq(1 .. ReadLength) /\ Len(completions') = Len(completions) - 1
    BY <1>0
  <1>2. TypeOK'
    BY <1>0, <1>1 DEF TypeOK
  <1>3. Stream' /\ AtRest' /\ NothingTruncated'
    BY DEF IInv, Stream, Increasing, Size, Before, AtRest, NothingTruncated
  <1>4. Reading'
    BY <1>0, <1>1 DEF IInv, Reading, TypeOK
  <1>5. Parsing' /\ Fits' /\ InFlight'
    BY DEF IInv, Parsing, Intact, Fits, Size, Before, InFlight, Alone, Lies, InSequence
  <1>6. Bytes'
    <2> SUFFICES ASSUME Intact PROVE Bytes'
      BY DEF Bytes, Intact
    <2>1. Len(completions) <= 1
      BY <1>0 DEF IInv, Reading, Intact, TypeOK
    <2>2. completions' = <<>>
      BY <2>1, <1>0, <1>1
    <2>3. Received \in Int /\ arrived \in Nat /\ Head(completions) \in Nat
      <3>1. Head(completions) \in 1 .. ReadLength
        BY <1>0
      <3>2. key \in Nat /\ length \in Nat /\ io.total \in Nat /\ arrived \in Nat
        BY TcpAssumption, <1>0 DEF TypeOK
      <3> QED BY <3>1, <3>2, <1>0 DEF Received
    <2>4. Received <= arrived
      BY <2>3, <1>0 DEF IInv, Bytes
    <2> QED BY <2>2, <2>4 DEF IInv, Bytes, Received, Sent, Before
  <1> QED BY <1>2, <1>3, <1>4, <1>5, <1>6 DEF IInv

LEMMA ReceivedSomeStep == ASSUME IInv, ReceivedSome PROVE IInv'
  <1> DEFINE n == Head(completions)
             check == Appended(n)
             met1 == met \cup (IF check # n THEN {"truncated"} ELSE {})
  <1>u. /\ completions # <<>> /\ io.at = "waiting"
        /\ data' = [i \in 0 .. Capacity - 1 |->
                      IF i \in length .. length + check - 1 THEN m_buffer[i - length]
                      ELSE data[i]]
        /\ length' = length + check /\ met' = met1
        /\ completions' = Tail(completions)
        /\ io' = [at |-> "parsing", total |-> 0, result |-> FALSE]
        /\ server' = server /\ ends' = ends /\ arrived' = arrived /\ reads' = reads
        /\ m_buffer' = m_buffer /\ key' = key /\ isEncryptKey' = isEncryptKey
        /\ threads' = threads /\ parsed' = parsed /\ handled' = handled
        /\ open' = open /\ up' = up
    BY DEF ReceivedSome, peer, buffer, crypt
  <1>0. /\ TypeOK /\ completions \in Seq(1 .. ReadLength) /\ completions # <<>>
        /\ ReadLength \in Nat /\ Capacity \in Nat /\ length \in 0 .. Capacity
        /\ io.total = 0 /\ key \in Nat /\ arrived \in Nat
        /\ parsed \in Seq(Number) /\ ends \in Seq(Nat)
    BY <1>u, TcpAssumption DEF IInv, AtRest, TypeOK
  <1>1. /\ completions' \in Seq(1 .. ReadLength) /\ Len(completions') = Len(completions) - 1
        /\ n \in 1 .. ReadLength
    BY <1>0, <1>u
  <1>2. /\ check \in 0 .. n /\ length + check <= Capacity /\ length' = length + check
        /\ check # n => length + n > Capacity
        /\ (check # n => "truncated" \in met') /\ met \subseteq met'
        /\ met' \subseteq met \cup {"truncated"}
        /\ check = n => met' = met
    BY <1>0, <1>1, <1>u DEF Appended
  <1>io. io'.at = "parsing" /\ io'.total = 0 /\ io'.result = FALSE
    BY <1>u
  <1> HIDE DEF n, check, met1
  <1>3. TypeOK'
    <2>1. m_buffer \in [0 .. ReadLength - 1 -> Nat] /\ data \in [0 .. Capacity - 1 -> Nat]
      BY <1>0 DEF TypeOK
    <2>2. \A i \in 0 .. Capacity - 1 :
            (IF i \in length .. length + check - 1 THEN m_buffer[i - length] ELSE data[i]) \in Nat
      <3> TAKE i \in 0 .. Capacity - 1
      <3>1. i \in length .. length + check - 1 => i - length \in 0 .. ReadLength - 1
        BY <1>0, <1>1, <1>2
      <3> QED BY <3>1, <2>1
    <2>3. data' \in [0 .. Capacity - 1 -> Nat]
      BY <2>2, <1>u
    <2>4. length' \in 0 .. Capacity
      BY <1>0, <1>1, <1>2
    <2>5. met' \subseteq Met
      BY <1>0, <1>2 DEF TypeOK, Met
    <2>6. io' \in [at : {"waiting", "parsing", "leaving", "stuck"}, total : 0 .. Capacity,
                   result : BOOLEAN] /\ io'.total <= length'
      BY <2>4, <1>0, <1>u
    <2> QED BY <1>u, <1>0, <1>1, <2>3, <2>4, <2>5, <2>6 DEF TypeOK
  <1>4. Stream' /\ AtRest'
    BY <1>u, <1>io DEF IInv, Stream, Increasing, Size, Before, AtRest
  <1>5. Reading'
    BY <1>u, <1>0, <1>1, <1>io DEF IInv, Reading, TypeOK
  <1>6. Intact' => Intact /\ check = n
    BY <1>u, <1>2 DEF Intact
  <1>7. Parsing' /\ Fits'
    BY <1>u, <1>6, <1>io DEF IInv, Parsing, Fits, Before, InSequence
  <1>8. Intact => /\ Received + n = arrived /\ Len(completions) = 1
                  /\ Received = key + length
    <2> SUFFICES ASSUME Intact
                 PROVE  /\ Received + n = arrived /\ Len(completions) = 1
                        /\ Received = key + length
      OBVIOUS
    <2>1. Received + n = arrived
      BY <1>0 DEF IInv, Bytes, n
    <2>2. Received = key + length
      BY <1>0 DEF Received
    <2>3. Len(completions) \in Nat /\ Len(completions) # 0 /\ reads \in Nat
      BY <1>0 DEF TypeOK
    <2>4. reads + Len(completions) <= 1
      BY <1>u DEF IInv, Reading, Intact
    <2>5. Len(completions) = 1
      <3> DEFINE m == Len(completions)
      <3>1. m \in Nat /\ m # 0 /\ reads \in Nat /\ reads + m <= 1
        BY <2>3, <2>4
      <3> HIDE DEF m
      <3>2. m = 1
        BY <3>1
      <3> QED BY <3>2 DEF m
    <2> QED BY <2>1, <2>2, <2>5
  <1>9. Bytes'
    <2> SUFFICES ASSUME Intact' PROVE Bytes'
      BY DEF Bytes
    <2>1. Intact /\ check = n /\ completions' = <<>>
      <3>1. Intact /\ check = n
        BY <1>6
      <3>2. Len(completions) = 1
        BY <3>1, <1>8
      <3>3. Len(completions') = Len(completions) - 1 /\ completions' \in Seq(1 .. ReadLength)
        BY <1>1
      <3>4. Len(completions') = 0
        BY <3>2, <3>3
      <3> QED BY <3>1, <3>3, <3>4
    <2>2. Received' = arrived' /\ arrived' <= Sent'
      BY <2>1, <1>u, <1>0, <1>1, <1>2, <1>8, <1>io DEF Received, IInv, Bytes, Sent, Before
    <2>3. \A i \in 0 .. length' - 1 : data'[i] = key + 1 + i
      <3> TAKE i \in 0 .. length' - 1
      <3>1. i \in 0 .. Capacity - 1
        BY <1>0, <1>1, <1>2
      <3>2. CASE i \in length .. length + check - 1
        <4>0. check = n /\ n \in Nat /\ length \in Nat /\ i \in Nat
          BY <3>1, <2>1, <1>0, <1>1
        <4>a. i - length \in 0 .. n - 1
          BY <4>0, <3>2
        <4>b. data'[i] = m_buffer[i - length]
          BY <3>1, <3>2, <1>u
        <4>1. i - length \in 0 .. n - 1 /\ data'[i] = m_buffer[i - length]
          BY <4>a, <4>b
        <4>2. m_buffer[i - length] = Received + 1 + (i - length)
          BY <4>1, <2>1, <1>0 DEF IInv, Bytes, n
        <4>3. Received + 1 + (i - length) = key + 1 + i
          BY <2>1, <1>8, <1>0
        <4> QED BY <4>1, <4>2, <4>3
      <3>3. CASE i \in 0 .. length - 1
        <4>1. data'[i] = data[i]
          BY <3>1, <3>3, <1>u, <1>0, <1>1, <1>2
        <4>2. data[i] = key - io.total + 1 + i
          BY <2>1, <3>3 DEF IInv, Bytes
        <4> QED BY <4>1, <4>2, <1>0
      <3> QED BY <3>2, <3>3, <1>0, <1>1, <1>2
    <2>4. \A i \in 0 .. length' - 1 : data'[i] = key' - io'.total + 1 + i
      <3> TAKE i \in 0 .. length' - 1
      <3>1. data'[i] = key + 1 + i
        BY <2>3
      <3>2. key' = key /\ io'.total = 0 /\ key \in Int
        BY <1>u, <1>0, <1>io
      <3> QED BY <3>1, <3>2
    <2>5. completions' = <<>> /\ Received' <= arrived' /\ (open' => Received' = arrived')
      <3>1. arrived' \in Int
        BY <1>u, <1>0
      <3> QED BY <2>1, <2>2, <3>1
    <2> QED BY <2>2, <2>4, <2>5 DEF Bytes
  <1>10. InFlight'
    <2> SUFFICES ASSUME Alone' PROVE InFlight'
      BY DEF InFlight
    <2>1. Alone
      BY <1>u, <1>2 DEF Alone
    <2>2. threads = {}
      BY <2>1, <1>0, NothingInFlight
    <2>3. met' = met
      BY <1>u, <1>2 DEF Alone
    <2> QED BY <1>u, <2>1, <2>2, <2>3, <1>io DEF IInv, InFlight, InSequence
  <1>11. NothingTruncated'
    <2>1. CASE Intact /\ check # n
      <3>1. length \in Nat /\ arrived > key /\ length + n > Capacity
        <4>1. n \in Nat /\ n > 0 /\ length \in Nat
          BY <1>0, <1>1
        <4>2. arrived = key + length + n
          BY <2>1, <1>8, <4>1
        <4> QED BY <4>1, <4>2, <2>1, <1>0, <1>2
      <3>2. PICK k \in DOMAIN ends : k = Len(parsed) + 1 /\ Len(parsed) < Len(ends)
        BY <2>1, <3>1, MoreToParse
      <3>3. length < Size(k)
        BY <2>1, <3>2, <1>u, <1>0 DEF IInv, Fits
      <3>4. Size(k) \in Nat
        BY <3>2, TcpAssumption DEF IInv, Stream
      <3>5. Size(k) > Capacity - ReadLength + 1
        BY <3>1, <3>3, <3>4, <1>0, <1>1
      <3>6. Size(k)' = Size(k) /\ ends' = ends
        BY <1>u DEF Size, Before
      <3> QED BY <3>2, <3>5, <3>6 DEF NothingTruncated
    <2>2. CASE check = n \/ ~Intact
      <3>1. server = "stage" /\ "truncated" \in met' => "truncated" \in met
        BY <2>2, <1>u, <1>2 DEF Intact
      <3> QED BY <1>u, <3>1 DEF IInv, NothingTruncated, Size, Before
    <2> QED BY <2>1, <2>2
  <1> QED BY <1>3, <1>4, <1>5, <1>7, <1>9, <1>10, <1>11 DEF IInv

\* Steps of the loop that do not parse.
LEMMA LoopEndsStep ==
  ASSUME IInv, Rollback \/ InvalidSize \/ TooShort PROVE IInv'
  <1> USE DEF peer, socket, buffer, crypt
  <1>u. /\ io.at = "parsing"
        /\ io' = io \/ io' = [io EXCEPT !.at = "leaving"] \/ io' = [io EXCEPT !.at = "stuck"]
        /\ server' = server /\ ends' = ends /\ arrived' = arrived /\ reads' = reads
        /\ completions' = completions /\ m_buffer' = m_buffer /\ data' = data
        /\ length' = length /\ key' = key /\ isEncryptKey' = isEncryptKey
        /\ threads' = threads /\ parsed' = parsed /\ handled' = handled
        /\ open' = open /\ up' \in {up, FALSE} /\ met' = met
    BY DEF Rollback, InvalidSize, TooShort
  <1>t. /\ TypeOK /\ io'.total = io.total /\ io'.result = io.result
        /\ io'.at \in {"parsing", "leaving", "stuck"}
    BY <1>u DEF IInv, TypeOK
  <1>1. TypeOK'
    BY <1>u, <1>t DEF TypeOK
  <1>2. Stream' /\ AtRest' /\ Reading' /\ NothingTruncated'
    BY <1>u, <1>t DEF IInv, Stream, Increasing, Size, Before, AtRest, Reading, NothingTruncated
  <1>3. Parsing' /\ Bytes'
    BY <1>u, <1>t DEF IInv, Parsing, Intact, Before, Sent, InSequence, Bytes, Received
  <1>4. Intact /\ io'.at = "leaving" /\ Len(parsed) < Len(ends) =>
          \A k \in Nat : k = Len(parsed) + 1 => length - io.total < Size(k)
    <2> SUFFICES ASSUME Intact, io'.at = "leaving", Len(parsed) < Len(ends),
                        NEW k \in Nat, k = Len(parsed) + 1
                 PROVE  Remaining < Size(k)
      BY DEF Remaining
    <2>1. k \in DOMAIN ends /\ ends \in Seq(Nat) /\ parsed \in Seq(Number)
      BY <1>t DEF TypeOK
    <2>2. /\ Size(k) \in Nat /\ HeaderSize <= Size(k) /\ LengthSize < HeaderSize
          /\ HeaderSize \in Nat /\ LengthSize \in Nat /\ Remaining \in Int
      BY <2>1, <1>t, Types, Lengths DEF IInv
    <2>3. CASE Rollback
      <3>1. Remaining > LengthSize /\ \E size \in TranslatedLength : size > Remaining
        BY <2>3 DEF Rollback
      <3>2. TranslatedLength = {Size(k)}
        BY <3>1, HeaderRead
      <3> QED BY <3>1, <3>2, <2>2
    <2>4. CASE TooShort
      <3>1. Remaining <= LengthSize
        BY <2>4 DEF TooShort
      <3> QED BY <3>1, <2>2
    <2>5. CASE InvalidSize
      BY <2>5, <1>u DEF InvalidSize
    <2> QED BY <2>3, <2>4, <2>5
  <1>5. Fits'
    <2>1. parsed \in Seq(Number)
      BY <1>t DEF TypeOK
    <2>2. Len(parsed) + 1 \in Nat
      BY <2>1
    <2>3. Size(Len(parsed) + 1)' = Size(Len(parsed) + 1)
      BY <1>u DEF Size, Before
    <2>4. Intact' => Intact
      BY <1>u DEF Intact
    <2> QED BY <1>u, <1>t, <1>4, <2>2, <2>3, <2>4 DEF Fits
  <1>6. InFlight'
    <2> SUFFICES ASSUME Alone' PROVE InFlight'
      BY DEF InFlight
    <2>1. Alone /\ ~io.result
      BY <1>u DEF Alone, IInv, InFlight
    <2>2. io'.at # "stuck"
      <3>1. io.at = "parsing" /\ io \in [at : {"waiting", "parsing", "leaving", "stuck"},
                                        total : 0 .. Capacity, result : BOOLEAN]
        BY <1>t, <1>u DEF TypeOK
      <3>2. TooShort => io' = [io EXCEPT !.at = "leaving"]
        BY <2>1 DEF TooShort
      <3>3. ~TooShort => io' = [io EXCEPT !.at = "leaving"] \/ io' = io
        BY DEF Rollback, InvalidSize
      <3> QED BY <3>1, <3>2, <3>3
    <2> QED BY <1>u, <1>t, <2>1, <2>2 DEF IInv, InFlight, Lies, Size, Before, InSequence
  <1> QED BY <1>1, <1>2, <1>3, <1>5, <1>6 DEF IInv

LEMMA LeaveStep == ASSUME IInv, Leave PROVE IInv'
  <1>u. /\ io.at = "leaving" /\ io' = Waiting
        /\ length' = length - io.total
        /\ data' = [i \in 0 .. Capacity - 1 |->
                      IF i < length - io.total THEN data[i + io.total] ELSE data[i]]
        /\ reads' = IF open THEN reads + 1 ELSE reads
        /\ server' = server /\ ends' = ends /\ arrived' = arrived
        /\ completions' = completions /\ m_buffer' = m_buffer
        /\ key' = key /\ isEncryptKey' = isEncryptKey
        /\ threads' = threads /\ parsed' = parsed /\ handled' = handled
        /\ open' = open /\ up' = up /\ met' = met
    BY DEF Leave, Remove, peer, crypt
  <1>t. /\ TypeOK /\ io'.total = 0 /\ io'.at = "waiting" /\ io.total \in Nat
        /\ length \in Nat /\ length <= Capacity /\ Capacity \in Nat /\ io.total <= length
        /\ key \in Nat /\ data \in [0 .. Capacity - 1 -> Nat] /\ reads \in Nat
    <2>1. TypeOK /\ data \in [0 .. Capacity - 1 -> Nat]
      BY DEF IInv, TypeOK
    <2>2. io'.total = 0 /\ io'.at = "waiting"
      BY <1>u DEF Waiting
    <2> QED BY <2>1, <2>2, Types
  <1>1. TypeOK'
    <2>1. \A i \in 0 .. Capacity - 1 :
            (IF i < length - io.total THEN data[i + io.total] ELSE data[i]) \in Nat
      <3> TAKE i \in 0 .. Capacity - 1
      <3>1. i < length - io.total => i + io.total \in 0 .. Capacity - 1
        BY <1>t
      <3> QED BY <3>1, <1>t
    <2>2. data' \in [0 .. Capacity - 1 -> Nat]
      BY <1>u, <2>1
    <2>3. length' \in 0 .. Capacity /\ reads' \in Nat
      <3>1. length' = length - io.total /\ (reads' = reads + 1 \/ reads' = reads)
        BY <1>u
      <3> QED BY <3>1, <1>t
    <2>4. io' \in [at : {"waiting", "parsing", "leaving", "stuck"}, total : 0 .. Capacity,
                   result : BOOLEAN] /\ io'.total <= length'
      BY <1>u, <1>t, <2>3 DEF Waiting
    <2> QED BY <1>u, <1>t, <2>2, <2>3, <2>4 DEF TypeOK
  <1>2. Stream' /\ AtRest' /\ NothingTruncated'
    BY <1>u, <1>t DEF IInv, Stream, Increasing, Size, Before, AtRest, NothingTruncated
  <1>3. Reading'
    <2>1. Len(completions) \in Nat
      BY <1>t DEF TypeOK
    <2> QED BY <1>u, <1>t, <2>1 DEF IInv, Reading
  <1>4. Parsing' /\ (Intact' => Intact) /\ (Alone' => Alone)
    BY <1>u DEF IInv, Parsing, Intact, Alone, Before, InSequence
  <1>5. Received' = Received /\ length' - io'.total = length - io.total
    <2>1. key' = key /\ io'.total = 0 /\ length' = length - io.total
      BY <1>u, <1>t
    <2>2. key \in Int /\ length \in Int /\ io.total \in Int
      BY <1>t
    <2> QED BY <2>1, <2>2 DEF Received
  <1>6. Fits'
    <2>1. Size(Len(parsed) + 1)' = Size(Len(parsed) + 1)
      BY <1>u DEF Size, Before
    <2> QED BY <1>u, <1>4, <1>5, <2>1 DEF IInv, Fits
  <1>7. Bytes'
    <2> SUFFICES ASSUME Intact' PROVE Bytes'
      BY DEF Bytes
    <2>1. \A i \in 0 .. length' - 1 : data'[i] = key' - io'.total + 1 + i
      <3> TAKE i \in 0 .. length' - 1
      <3>1. i \in 0 .. Capacity - 1 /\ i + io.total \in 0 .. length - 1 /\ i < length - io.total
        BY <1>u, <1>t
      <3>2. data'[i] = data[i + io.total]
        BY <3>1, <1>u
      <3>3. data[i + io.total] = key - io.total + 1 + (i + io.total)
        BY <3>1, <1>4 DEF IInv, Bytes
      <3> QED BY <3>2, <3>3, <1>u, <1>t
    <2>2. Sent' = Sent
      BY <1>u DEF Sent, Before
    <2> QED BY <2>1, <2>2, <1>4, <1>5, <1>u DEF IInv, Bytes
  <1>8. InFlight'
    <2> SUFFICES ASSUME Alone' PROVE InFlight'
      BY DEF InFlight
    <2>1. threads # {} => length = io.total
      BY <1>4, NothingInFlight
    <2>2. threads # {} => data' = data
      <3> SUFFICES ASSUME length = io.total PROVE data' = data
        BY <2>1
      <3>1. \A i \in 0 .. Capacity - 1 : ~(i < length - io.total)
        BY <1>t
      <3> QED BY <3>1, <1>u, <1>t
    <2>3. \A t \in threads : Lies(t.packet, Size(t.packet), t.offset)' <=>
                             Lies(t.packet, Size(t.packet), t.offset)
      BY <2>2, <1>u DEF Lies, Size, Before
    <2> QED BY <2>3, <1>u, <1>t, <1>4 DEF IInv, InFlight, InSequence
  <1> QED BY <1>1, <1>2, <1>3, <1>4, <1>6, <1>7, <1>8 DEF IInv

\* The next packet at the end of a history.
LEMMA OneMore ==
  ASSUME NEW s \in Seq(Number), NEW k \in Number
  PROVE  /\ Append(s, k) \in Seq(Number) /\ Len(Append(s, k)) = Len(s) + 1
         /\ InSequence(s) /\ k = Len(s) + 1 => InSequence(Append(s, k))
  <1>1. Append(s, k) \in Seq(Number) /\ Len(Append(s, k)) = Len(s) + 1
    OBVIOUS
  <1>2. \A i \in 1 .. Len(s) : Append(s, k)[i] = s[i]
    OBVIOUS
  <1>3. Append(s, k)[Len(s) + 1] = k /\ Len(s) \in Nat
    OBVIOUS
  <1>4. DOMAIN Append(s, k) = 1 .. Len(s) + 1 /\ DOMAIN s = 1 .. Len(s)
    BY <1>1
  <1>5. ASSUME InSequence(s), k = Len(s) + 1, NEW i \in DOMAIN Append(s, k)
        PROVE  Append(s, k)[i] = i
    <2>1. i \in 1 .. Len(s) \/ i = Len(s) + 1
      BY <1>3, <1>4
    <2> QED BY <2>1, <1>2, <1>3, <1>4, <1>5 DEF InSequence
  <1> QED BY <1>1, <1>5 DEF InSequence

LEMMA LobbyParseStep ==
  ASSUME IInv, NEW packets \in SUBSET DOMAIN ends, NEW translated \in Nat,
         LobbyParse(packets, translated), UNCHANGED <<server, ends, data, length>>
  PROVE  IInv'
  <1>0. TypeOK /\ Stream
    BY DEF IInv
  <1>T. /\ parsed \in Seq(Number) /\ handled \in Seq(Number) /\ reads \in Nat
        /\ length \in Nat /\ length <= Capacity /\ Capacity \in Nat /\ ends \in Seq(Nat)
        /\ isEncryptKey \in BOOLEAN /\ up \in BOOLEAN /\ met \subseteq Met
    BY <1>0, Types DEF TypeOK
  <1>u. /\ server = "lobby" /\ reads' = reads + 1
        /\ io' = [at |-> "leaving", total |-> length, result |-> TRUE]
        /\ threads' = threads /\ arrived' = arrived /\ completions' = completions
        /\ m_buffer' = m_buffer /\ open' = open
        /\ server' = server /\ ends' = ends /\ data' = data /\ length' = length
    BY DEF LobbyParse
  <1>v. /\ \/ \E k \in packets : parsed' = Append(parsed, k) /\ handled' = Append(handled, k)
           \/ parsed' = parsed /\ handled' = handled
        /\ key' \in Nat /\ isEncryptKey' \in BOOLEAN /\ up' \in BOOLEAN
        /\ met' \subseteq met \cup {"garbled"}
    <2>1. CASE \E k \in packets :
                 /\ parsed' = Append(parsed, k) /\ handled' = Append(handled, k)
                 /\ key' = (IF k = 1 THEN 0 ELSE translated)
                 /\ isEncryptKey' = (isEncryptKey \/ k = 1)
                 /\ UNCHANGED <<up, met>>
      <3>1. isEncryptKey' \in BOOLEAN
        BY <2>1
      <3>2. key' \in Nat
        BY <2>1
      <3> QED BY <2>1, <3>1, <3>2, <1>T
    <2>2. CASE /\ up' \in BOOLEAN /\ met' = met \cup {"garbled"} /\ key' = translated
               /\ UNCHANGED <<parsed, handled, isEncryptKey>>
      BY <2>2, <1>T
    <2> QED BY <2>1, <2>2 DEF LobbyParse
  <1>1. TypeOK'
    <2>1. parsed' \in Seq(Number) /\ handled' \in Seq(Number)
      <3>1. \A k \in packets : k \in Number
        BY <1>T DEF Number
      <3>2. \A k \in packets :
              Append(parsed, k) \in Seq(Number) /\ Append(handled, k) \in Seq(Number)
        BY <3>1, <1>T, OneMore
      <3> QED BY <3>2, <1>v, <1>T
    <2>2. reads' \in Nat /\ length \in 0 .. Capacity
      BY <1>u, <1>T
    <2>3. io' \in [at : {"waiting", "parsing", "leaving", "stuck"}, total : 0 .. Capacity,
                   result : BOOLEAN] /\ io'.total <= length'
      BY <1>u, <2>2
    <2>4. met' \subseteq Met
      BY <1>v, <1>T DEF Met
    <2> QED BY <1>0, <1>u, <1>v, <2>1, <2>2, <2>3, <2>4 DEF TypeOK
  <1>2. Stream' /\ AtRest'
    BY <1>u DEF IInv, Stream, Increasing, Size, Before, AtRest
  <1>3. Reading' /\ Parsing' /\ Bytes' /\ Fits' /\ InFlight' /\ NothingTruncated'
    BY <1>u DEF Reading, Parsing, Bytes, Fits, InFlight, NothingTruncated, Intact, Alone
  <1> QED BY <1>1, <1>2, <1>3 DEF IInv

LEMMA StageParseStep ==
  ASSUME IInv, io.at = "parsing", Remaining > LengthSize, NEW size \in TranslatedLength,
         size \in LengthSize .. Remaining, StageParse(Translated(size), key + size, size),
         UNCHANGED <<server, ends, data, length>>
  PROVE  IInv'
  <1> DEFINE read == IF Remaining < HeaderSize THEN 0 ELSE size
  <1>0. TypeOK /\ Stream
    BY DEF IInv
  <1>T. /\ io.total \in Nat /\ io.total <= length /\ length \in Nat /\ length <= Capacity
        /\ Capacity \in Nat /\ key \in Nat /\ arrived \in Nat
        /\ LengthSize \in Nat \ {0} /\ HeaderSize \in Nat
    BY <1>0, Types
  <1>S. ends \in Seq(Nat) /\ parsed \in Seq(Number) /\ handled \in Seq(Number)
    BY <1>0, Types
  <1>R. Remaining = length - io.total /\ Remaining \in Nat
    BY <1>0, Types DEF Remaining
  <1>u. /\ server = "stage" /\ key' = key + size
        /\ StartThread(Translated(size))
        /\ io' = [at |-> IF read = 0 \/ io.total + read >= length THEN "leaving" ELSE "parsing",
                  total |-> io.total + read, result |-> read # 0]
        /\ handled' = handled /\ isEncryptKey' = isEncryptKey /\ up' = up
        /\ arrived' = arrived /\ reads' = reads /\ completions' = completions
        /\ m_buffer' = m_buffer /\ open' = open
    BY DEF StageParse, socket
  <1>n. /\ size \in Nat /\ size > 0 /\ size <= Remaining /\ read \in Nat /\ read <= size
        /\ io.total + size <= length /\ io.total < length
    <2>1. size \in Nat /\ LengthSize <= size /\ size <= Remaining
      BY <1>R, <1>T
    <2>2. size > 0 /\ io.total + size <= length /\ io.total < length
      BY <2>1, <1>R, <1>T
    <2>3. read = 0 \/ read = size
      OBVIOUS
    <2> QED BY <2>1, <2>2, <2>3
  <1>io. /\ io'.total = io.total + read /\ io'.result = (read # 0)
         /\ io'.at \in {"leaving", "parsing"}
         /\ io'.at = "leaving" <=> read = 0 \/ io.total + read >= length
    BY <1>u
  <1> HIDE DEF read
  <1>t. /\ \/ \E k \in Translated(size) :
               /\ parsed' = Append(parsed, k)
               /\ threads' = threads \cup {[packet |-> k, offset |-> io.total]}
               /\ met' = met
           \/ /\ Translated(size) = {} /\ met' = met \cup {"garbled"}
              /\ parsed' = parsed /\ threads' = threads
    BY <1>u DEF StartThread
  <1>1. TypeOK'
    <2>1. \A k \in Translated(size) : k \in Number /\ [packet |-> k, offset |-> io.total] \in Thread
      <3> TAKE k \in Translated(size)
      <3>1. k \in DOMAIN ends /\ ends \in Seq(Nat)
        BY <1>S DEF Translated
      <3>2. k \in Number
        BY <3>1 DEF Number
      <3>3. io.total \in 0 .. Capacity - 1
        BY <1>n, <1>T
      <3> QED BY <3>2, <3>3 DEF Thread
    <2>2. parsed' \in Seq(Number) /\ threads' \subseteq Thread
      <3>1. threads \subseteq Thread
        BY <1>0 DEF TypeOK
      <3>2. \A k \in Translated(size) : Append(parsed, k) \in Seq(Number)
        BY <2>1, <1>S, OneMore
      <3> QED BY <1>t, <2>1, <1>S, <3>1, <3>2
    <2>6. met' \subseteq Met
      <3>1. met \subseteq Met
        BY <1>0 DEF TypeOK
      <3> QED BY <1>t, <3>1 DEF Met
    <2>3. key' \in Nat
      BY <1>u, <1>n, <1>T
    <2>4. io.total + read \in 0 .. Capacity /\ io.total + read <= length
      BY <1>n, <1>T
    <2>5. io' \in [at : {"waiting", "parsing", "leaving", "stuck"}, total : 0 .. Capacity,
                   result : BOOLEAN] /\ io'.total <= length'
      BY <2>4, <1>u
    <2> QED BY <1>0, <1>u, <2>2, <2>3, <2>5, <2>6 DEF TypeOK
  <1>2. Stream' /\ AtRest' /\ NothingTruncated'
    BY <1>u, <1>t, <1>io DEF IInv, Stream, Increasing, Size, Before, AtRest, NothingTruncated
  <1>3. Reading'
    BY <1>u, <1>io DEF IInv, Reading
  <1>4. (Intact' => Intact) /\ (Alone' => Alone)
    BY <1>u, <1>t DEF Intact, Alone
  <1>5. ASSUME Intact
        PROVE  \E k \in DOMAIN ends :
                 /\ k = Len(parsed) + 1 /\ size = Size(k) /\ read = size /\ Before(k) = key
                 /\ Before(k + 1) = key' /\ key' = ends[k]
                 /\ Lies(k, Size(k), io.total)
                 /\ parsed' = Append(parsed, k) /\ met' = met
                 /\ threads' = threads \cup {[packet |-> k, offset |-> io.total]}
                 /\ arrived > key /\ arrived >= Received
    <2>1. PICK k \in DOMAIN ends :
            k = Len(parsed) + 1 /\ TranslatedLength = {Size(k)}
            /\ (Size(k) <= Remaining => Translated(Size(k)) = {k})
            /\ arrived > key /\ arrived >= Received
      <3>1. Len(parsed) + 1 \in Nat
        BY <1>S
      <3> QED BY <1>5, <3>1, HeaderRead
    <2>2. size = Size(k) /\ Translated(size) = {k}
      BY <2>1, <1>n
    <2>3. Before(k) = key
      BY <1>5, <2>1 DEF IInv, Parsing
    <2>4. key' = ends[k]
      <3>1. ends[k] \in Nat /\ key \in Nat
        BY <1>S, <1>T
      <3>2. size = ends[k] - key
        BY <2>2, <2>3 DEF Size
      <3> QED BY <3>1, <3>2, <1>u
    <2>5. Before(k + 1) = ends[k]
      <3>1. k \in Nat /\ k > 0
        BY <1>S
      <3>2. k + 1 # 1 /\ (k + 1) - 1 = k
        BY <3>1
      <3> QED BY <3>2 DEF Before
    <2>6. read = size
      <3>1. HeaderSize <= Size(k)
        BY <1>0, Lengths
      <3>2. ~(Remaining < HeaderSize)
        BY <3>1, <2>2, <1>n, <1>T, <1>R
      <3> QED BY <3>2 DEF read
    <2>7. Lies(k, Size(k), io.total)
      BY <2>2 DEF Translated
    <2> QED BY <2>1, <2>2, <2>3, <2>4, <2>5, <2>6, <2>7, <1>t
  <1>6. Parsing'
    <2> SUFFICES ASSUME Intact' PROVE Parsing'
      BY DEF Parsing
    <2>1. PICK k \in DOMAIN ends :
            k = Len(parsed) + 1 /\ parsed' = Append(parsed, k) /\ Before(k + 1) = key'
      BY <1>4, <1>5
    <2>2. InSequence(parsed)
      BY <1>4 DEF IInv, Parsing
    <2>3. InSequence(parsed') /\ Len(parsed') = k /\ k <= Len(ends)
      <3>1. k \in Number /\ k <= Len(ends)
        BY <1>S DEF Number
      <3> QED BY <3>1, <2>1, <2>2, <1>S, OneMore
    <2>4. key' = Before(Len(parsed') + 1)
      BY <2>1, <2>3
    <2>5. Before(Len(parsed') + 1) = Before(Len(parsed) + 1)'
      BY <1>u DEF Before
    <2> QED BY <2>3, <2>4, <2>5, <1>u DEF Parsing, InSequence
  <1>7. Intact' => Received' = Received
    <2>1. Intact' => read = size
      BY <1>4, <1>5
    <2>2. Intact' => key' = key + size /\ io'.total = io.total + size /\ length' = length
      BY <2>1, <1>u, <1>io
    <2>3. Intact' => key' - io'.total + length' = key - io.total + length
      BY <2>2, <1>n, <1>T
    <2> QED BY <2>3 DEF Received
  <1>8. Bytes'
    <2> SUFFICES ASSUME Intact' PROVE Bytes'
      BY DEF Bytes
    <2>1. key' - io'.total = key - io.total
      <3>1. read = size
        BY <1>4, <1>5
      <3>2. key' = key + size /\ io'.total = io.total + size
        BY <3>1, <1>u, <1>io
      <3> QED BY <3>2, <1>n, <1>T
    <2>2. Sent' = Sent
      BY DEF Sent, Before
    <2>3. data' = data /\ length' = length /\ completions' = completions /\ open' = open
          /\ arrived' = arrived /\ m_buffer' = m_buffer
      BY <1>u
    <2>4. Intact /\ Received' = Received
      BY <1>4, <1>7
    <2> QED BY <2>1, <2>2, <2>3, <2>4 DEF IInv, Bytes
  <1>9. Fits'
    <2> SUFFICES ASSUME Intact', io'.at = "leaving", Len(parsed') < Len(ends),
                        NEW k \in Nat, k = Len(parsed') + 1
                 PROVE  length - io'.total < Size(k)
      <3>1. Size(Len(parsed) + 1)' = Size(Len(parsed') + 1)
        BY DEF Size, Before
      <3>2. Len(parsed') + 1 \in Nat
        BY <1>1 DEF TypeOK
      <3> QED BY <3>1, <3>2, <1>io DEF Fits
    <2>1. k \in DOMAIN ends
      <3>1. parsed' \in Seq(Number)
        BY <1>1 DEF TypeOK
      <3> QED BY <3>1, <1>S
    <2>2. Size(k) \in Nat /\ Size(k) > 0
      BY <1>0, <2>1, Lengths
    <2>3. read = size /\ size # 0
      BY <1>4, <1>5, <1>n
    <2>4. io.total + size >= length /\ io'.total = io.total + size
      BY <2>3, <1>io
    <2>5. length - io'.total <= 0
      BY <2>4, <1>n, <1>T
    <2>6. length - io'.total \in Int
      BY <2>4, <1>n, <1>T
    <2> QED BY <2>2, <2>5, <2>6
  <1>10. InFlight'
    <2> SUFFICES ASSUME Alone' PROVE InFlight'
      BY DEF InFlight
    <2>1. Alone /\ Intact
      BY <1>4 DEF Alone, Intact
    <2>2. PICK k \in DOMAIN ends :
            /\ k = Len(parsed) + 1 /\ size = Size(k) /\ read = size /\ key' = ends[k]
            /\ Lies(k, Size(k), io.total)
            /\ parsed' = Append(parsed, k) /\ met' = met
            /\ threads' = threads \cup {[packet |-> k, offset |-> io.total]}
            /\ arrived > key /\ arrived >= Received
      BY <2>1, <1>5
    <2>3. threads = {}
      <3>1. threads # {} => arrived <= key
        BY <2>1, NothingInFlight
      <3> QED BY <3>1, <2>2, <1>T
    <2>4. /\ InSequence(handled) /\ "garbled" \notin met
          /\ Len(handled) = Len(parsed) /\ Len(ends) <= Len(handled) + 1
      BY <2>1, <2>3 DEF IInv, InFlight
    <2>5. k = Len(ends) /\ Len(parsed') = Len(handled) + 1 /\ parsed' \in Seq(Number)
      <3>1. parsed' \in Seq(Number) /\ Len(parsed') = Len(parsed) + 1
        <4>1. k \in Number
          BY <1>S DEF Number
        <4> QED BY <4>1, <2>2, <1>S, OneMore
      <3>2. k = Len(handled) + 1 /\ k <= Len(ends)
        BY <2>2, <2>4, <1>S
      <3>3. Len(ends) <= k
        BY <2>4, <3>2
      <3>4. k \in Nat /\ Len(ends) \in Nat
        BY <1>S
      <3> QED BY <3>1, <3>2, <3>3, <3>4, <2>4
    <2>6. io'.at = "leaving"
      <3>1. Sent = key'
        <4>1. k \in Nat /\ k > 0
          BY <1>S
        <4>2. Len(ends) + 1 # 1 /\ (Len(ends) + 1) - 1 = k
          BY <2>5, <4>1
        <4> QED BY <4>2, <2>2 DEF Sent, Before
      <3>2. arrived <= key'
        BY <2>1, <3>1 DEF IInv, Bytes
      <3>3. key - io.total + length <= key + size
        <4>1. Received = key - io.total + length /\ key' = key + size
          BY <1>u DEF Received
        <4>2. Received <= key + size
          <5>1. Received \in Int /\ arrived \in Nat /\ key + size \in Nat
            BY <4>1, <1>T, <1>n
          <5>2. Received <= arrived /\ arrived <= key + size
            BY <4>1, <3>2, <2>2, <5>1
          <5> QED BY <5>1, <5>2
        <4> QED BY <4>1, <4>2
      <3>4. io.total + size >= length
        BY <3>3, <1>T, <1>n
      <3> QED BY <3>4, <2>2, <1>io
    <2>7. Lies(k, Size(k), io.total)'  <=> Lies(k, Size(k), io.total')
      BY DEF Lies, Size, Before
    <2>8. threads' = {[packet |-> k, offset |-> io.total]}
      BY <2>2, <2>3
    <2>9. \A t \in threads' : /\ t.packet = Len(parsed') /\ Len(handled) + 1 = Len(parsed')
                             /\ Lies(t.packet, Size(t.packet), t.offset)
      BY <2>8, <2>2, <2>5, <2>4
    <2>10. \A t \in threads' : Lies(t.packet, Size(t.packet), t.offset)' <=>
                               Lies(t.packet, Size(t.packet), t.offset)
      BY DEF Lies, Size, Before
    <2>11. Len(handled) <= Len(parsed') /\ threads' # {} /\ \A t, v \in threads' : t = v
      <3>1. Len(handled) \in Nat
        BY <1>S
      <3> QED BY <2>5, <2>8, <3>1
    <2>12. met' = met /\ handled' = handled /\ ends' = ends
      BY <2>2, <1>u
    <2>13. Len(ends) <= Len(handled) + 1 /\ InSequence(handled)' /\ "garbled" \notin met'
      BY <2>4, <2>12 DEF InSequence
    <2>14. io'.at # "stuck" /\ io'.at # "parsing"
      BY <2>6
    <2>15. \A t \in threads' :
             /\ t.packet = Len(parsed') /\ Len(handled') + 1 = Len(parsed')
             /\ Lies(t.packet, Size(t.packet), t.offset)'
      BY <2>9, <2>10, <2>12
    <2> QED BY <2>11, <2>12, <2>13, <2>14, <2>15 DEF InFlight
  <1> QED BY <1>1, <1>2, <1>3, <1>6, <1>8, <1>9, <1>10 DEF IInv

LEMMA HandleStep == ASSUME IInv, NEW t \in threads, Handle(t) PROVE IInv'
  <1>0. TypeOK /\ Stream
    BY DEF IInv
  <1>T. /\ parsed \in Seq(Number) /\ handled \in Seq(Number) /\ ends \in Seq(Nat)
        /\ threads \subseteq Thread /\ met \subseteq Met /\ up \in BOOLEAN /\ t.packet \in Number
    BY <1>0, Types DEF TypeOK, Thread
  <1>u. /\ threads' = threads \ {t}
        /\ server' = server /\ ends' = ends /\ arrived' = arrived /\ reads' = reads
        /\ completions' = completions /\ m_buffer' = m_buffer /\ open' = open
        /\ data' = data /\ length' = length /\ key' = key /\ isEncryptKey' = isEncryptKey
        /\ io' = io /\ parsed' = parsed
    BY DEF Handle, peer, socket, buffer, crypt
  <1>v. \/ /\ Lies(t.packet, Size(t.packet), t.offset)
           /\ handled' = Append(handled, t.packet) /\ up' = up /\ met' = met
        \/ /\ ~Lies(t.packet, Size(t.packet), t.offset)
           /\ met' = met \cup {"garbled"} /\ up' \in BOOLEAN /\ handled' = handled
    BY DEF Handle
  <1>1. TypeOK'
    <2>1. Append(handled, t.packet) \in Seq(Number)
      BY <1>T, OneMore
    <2>2. handled' \in Seq(Number) /\ met' \subseteq Met /\ up' \in BOOLEAN
      BY <1>v, <1>T, <2>1 DEF Met
    <2>3. threads' \subseteq Thread
      BY <1>u, <1>T
    <2> QED BY <1>0, <1>u, <2>2, <2>3 DEF TypeOK
  <1>2. (Intact' => Intact) /\ (Alone' => Alone) /\ ("truncated" \in met' => "truncated" \in met)
    BY <1>u, <1>v DEF Intact, Alone
  <1>3. Stream' /\ AtRest' /\ NothingTruncated'
    BY <1>u, <1>2 DEF IInv, Stream, Increasing, Size, Before, AtRest, NothingTruncated
  <1>4. Reading' /\ Parsing'
    BY <1>u, <1>2 DEF IInv, Reading, Parsing, Before, InSequence
  <1>5. Bytes'
    BY <1>u, <1>2 DEF IInv, Bytes, Received, Sent, Before
  <1>6. Fits'
    <2>1. Size(Len(parsed) + 1)' = Size(Len(parsed) + 1)
      BY <1>u DEF Size, Before
    <2> QED BY <2>1, <1>u, <1>2 DEF IInv, Fits
  <1>7. InFlight'
    <2> SUFFICES ASSUME Alone' PROVE InFlight'
      BY DEF InFlight
    <2>1. /\ InSequence(handled) /\ "garbled" \notin met /\ Len(ends) <= Len(handled) + 1
          /\ io.at # "stuck" /\ (io.at = "parsing" => ~io.result)
          /\ t.packet = Len(parsed) /\ Len(handled) + 1 = Len(parsed)
          /\ Lies(t.packet, Size(t.packet), t.offset)
          /\ \A v, w \in threads : v = w
      BY <1>2 DEF IInv, InFlight
    <2>2. handled' = Append(handled, t.packet) /\ met' = met
      BY <2>1, <1>v
    <2>3. threads' = {}
      BY <2>1, <1>u
    <2>4. InSequence(handled') /\ Len(handled') = Len(parsed)
      BY <2>1, <2>2, <1>T, OneMore
    <2>5. Len(handled') <= Len(parsed') /\ Len(ends') <= Len(handled') + 1
      <3>1. Len(ends) \in Nat /\ Len(handled) \in Nat /\ Len(parsed) \in Nat
        BY <1>T
      <3>2. Len(ends) <= Len(parsed) + 1
        BY <2>1, <3>1
      <3> QED BY <3>1, <3>2, <2>4, <1>u
    <2>6. InSequence(handled)'
      BY <2>4 DEF InSequence
    <2> QED BY <2>1, <2>2, <2>3, <2>4, <2>5, <2>6, <1>u DEF InFlight
  <1> QED BY <1>1, <1>3, <1>4, <1>5, <1>6, <1>7 DEF IInv

\* A header in clear is the lobby's, and what it announces takes part of what is there.
LEMMA ParseInClearStep == ASSUME IInv, ParseInClear PROVE IInv'
  <1>1. PICK size \in RawLength : LobbyParse(InClear(size), key)
    BY DEF ParseInClear
  <1>2. InClear(size) \in SUBSET DOMAIN ends /\ key \in Nat
    BY DEF InClear, IInv, TypeOK
  <1>3. UNCHANGED <<server, ends, data, length>>
    BY DEF ParseInClear, peer, buffer
  <1> QED BY <1>1, <1>2, <1>3, LobbyParseStep

LEMMA ParseTranslatedStep == ASSUME IInv, ParseTranslated PROVE IInv'
  <1>1. io.at = "parsing" /\ Remaining > LengthSize /\ UNCHANGED <<server, ends, data, length>>
    BY DEF ParseTranslated, peer, buffer
  <1>2. PICK size \in TranslatedLength :
          /\ size \in LengthSize .. Remaining
          /\ \/ LobbyParse(Translated(size), key + size)
             \/ StageParse(Translated(size), key + size, size)
    BY DEF ParseTranslated
  <1>3. Translated(size) \in SUBSET DOMAIN ends /\ key + size \in Nat
    <2>1. key \in Nat /\ LengthSize \in Nat
      BY TcpAssumption DEF IInv, TypeOK
    <2>2. size \in Nat
      BY <1>2, <2>1
    <2> QED BY <2>1, <2>2 DEF Translated
  <1>4. CASE LobbyParse(Translated(size), key + size)
    BY <1>1, <1>3, <1>4, LobbyParseStep
  <1>5. CASE StageParse(Translated(size), key + size, size)
    BY <1>1, <1>2, <1>5, StageParseStep
  <1> QED BY <1>2, <1>4, <1>5

LEMMA StutterStep == ASSUME IInv, UNCHANGED vars PROVE IInv'
  <1> USE DEF vars, peer, socket, buffer, crypt
  <1>1. TypeOK' /\ Stream' /\ AtRest' /\ Reading' /\ NothingTruncated'
    BY DEF IInv, TypeOK, Stream, Increasing, AtRest, Reading, NothingTruncated, Size, Before
  <1>2. Parsing' /\ Bytes' /\ Fits' /\ InFlight'
    BY DEF IInv, Parsing, Bytes, Received, Fits, InFlight, Intact, Alone, Lies, Size, Before,
           Sent, InSequence
  <1> QED BY <1>1, <1>2 DEF IInv

LEMMA NextStep == ASSUME IInv, [Next]_vars PROVE IInv'
  <1>1. ASSUME NEW size \in Sizes, Send(size) PROVE IInv'
    BY <1>1, SendStep
  <1>2. CASE Disconnect
    BY <1>2, DisconnectStep
  <1>3. ASSUME NEW n \in 1 .. ReadLength, Complete(n) PROVE IInv'
    BY <1>3, CompleteStep
  <1>4. CASE CloseSocket
    BY <1>4, CloseSocketStep
  <1>5. CASE ReceivedSome
    BY <1>5, ReceivedSomeStep
  <1>6. CASE ParseInClear
    BY <1>6, ParseInClearStep
  <1>7. CASE ParseTranslated
    BY <1>7, ParseTranslatedStep
  <1>8. CASE Rollback \/ InvalidSize \/ TooShort
    BY <1>8, LoopEndsStep
  <1>9. CASE Leave
    BY <1>9, LeaveStep
  <1>10. ASSUME NEW t \in threads, Handle(t) PROVE IInv'
    BY <1>10, HandleStep
  <1>11. CASE UNCHANGED vars
    BY <1>11, StutterStep
  <1> QED BY <1>1, <1>2, <1>3, <1>4, <1>5, <1>6, <1>7, <1>8, <1>9, <1>10, <1>11
          DEF Next, IoThread, OnReceived
-----------------------------------------------------------------------------
\* The lobby, as long as its peer waits for each packet to be handled and none arrives in
\* pieces: one packet at a time goes from the peer through m_buffer and the receive buffer
\* to Parse, and nothing else is ever in any of them.

Single == server = "lobby" /\ met \cap {"pipelined", "split"} = {}

\* Bytes of the stream that have been parsed.
Done == Before(Len(parsed) + 1)

Serving ==
  Single =>
    /\ up /\ "garbled" \notin met /\ threads = {} /\ io.at # "stuck"
    /\ handled = parsed /\ InSequence(parsed)
    /\ Len(parsed) <= Len(ends) /\ Len(ends) <= Len(parsed) + 1
    /\ isEncryptKey <=> parsed # <<>>
    /\ parsed # <<>> => key = Done - ends[1]

OnItsWay ==
  Single =>
    /\ arrived \in {Done, Sent}
    /\ io.at = "parsing" =>
         /\ completions = <<>> /\ io.total = 0
         /\ length > 0 /\ Done + length = arrived
         /\ \A i \in 0 .. length - 1 : data[i] = Done + 1 + i
    /\ io.at # "parsing" /\ completions = <<>> => arrived = Done
    /\ completions # <<>> =>
         /\ completions = <<arrived - Done>> /\ io.at # "parsing"
         /\ \A i \in 0 .. arrived - Done - 1 : m_buffer[i] = Done + 1 + i
    /\ io.at = "waiting" => length = 0
    /\ io.at = "leaving" => io.total = length

LInv == IInv /\ Serving /\ OnItsWay

\* Either everything sent has been parsed, or one packet is on its way.
LEMMA OneOnItsWay ==
  ASSUME IInv, Serving, Single
  PROVE  /\ Done \in Nat /\ Sent \in Nat
         /\ Len(parsed) = Len(ends) => Done = Sent
         /\ Len(parsed) # Len(ends) =>
              /\ Len(ends) \in DOMAIN ends /\ Len(ends) = Len(parsed) + 1
              /\ Before(Len(ends)) = Done /\ ends[Len(ends)] = Sent
              /\ Size(Len(ends)) = Sent - Done
  <1>1. ends \in Seq(Nat) /\ parsed \in Seq(Number) /\ Stream
    BY Types DEF IInv
  <1>2. Len(parsed) <= Len(ends) /\ Len(ends) <= Len(parsed) + 1
    BY DEF Serving
  <1>3. Len(parsed) \in Nat /\ Len(ends) \in Nat /\ Len(parsed) + 1 \in 1 .. Len(ends) + 1
    BY <1>1, <1>2
  <1>4. Done \in Nat /\ Sent \in Nat
    BY <1>1, <1>3, SentIsNat DEF Done
  <1>5. Len(parsed) = Len(ends) => Done = Sent
    BY DEF Done, Sent
  <1>6. ASSUME Len(parsed) # Len(ends)
        PROVE  /\ Len(ends) \in DOMAIN ends /\ Len(ends) = Len(parsed) + 1
               /\ Before(Len(ends)) = Done /\ ends[Len(ends)] = Sent
               /\ Size(Len(ends)) = Sent - Done
    <2>1. Len(ends) = Len(parsed) + 1 /\ Len(ends) \in DOMAIN ends
      BY <1>1, <1>2, <1>3, <1>6
    <2>2. Before(Len(ends)) = Done
      BY <2>1 DEF Done
    <2>3. ends[Len(ends)] = Sent
      BY <2>1, <1>3 DEF Sent, Before
    <2> QED BY <2>1, <2>2, <2>3 DEF Size
  <1> QED BY <1>4, <1>5, <1>6

LEMMA LobbyInitially == Init => Serving /\ OnItsWay
  <1> SUFFICES ASSUME Init PROVE Serving /\ OnItsWay
    OBVIOUS
  <1>1. Done = 0 /\ Sent = 0
    BY DEF Init, Done, Sent, Before
  <1>2. /\ arrived = 0 /\ completions = <<>> /\ length = 0 /\ io.at = "waiting" /\ up
        /\ met = {} /\ threads = {} /\ parsed = <<>> /\ handled = <<>> /\ ends = <<>>
        /\ server = "lobby" => ~isEncryptKey
    BY DEF Init, Waiting
  <1>3. Serving
    BY <1>2 DEF Serving, InSequence, Single
  <1>4. OnItsWay
    BY <1>1, <1>2 DEF OnItsWay
  <1> QED BY <1>3, <1>4

LEMMA SendServed ==
  ASSUME LInv, NEW size \in Sizes, Send(size) PROVE Serving' /\ OnItsWay'
  <1> SUFFICES ASSUME Single' PROVE Serving' /\ OnItsWay'
    BY DEF Serving, OnItsWay
  <1>1. Single /\ ~(Len(handled) < Len(ends))
    BY DEF Send, Single
  <1>u. /\ ends' = Append(ends, Sent + size)
        /\ UNCHANGED <<arrived, reads, completions, m_buffer, data, length, key, isEncryptKey, io,
                       threads, parsed, handled, up>>
    BY DEF Send, socket, buffer, crypt
  <1>2. TypeOK /\ Stream /\ Serving /\ OnItsWay /\ IInv
    BY DEF LInv, IInv
  <1>3. ends \in Seq(Nat) /\ parsed \in Seq(Number) /\ Len(ends) \in Nat /\ Len(parsed) \in Nat
    BY <1>2, Types
  <1>4. Len(parsed) = Len(ends)
    BY <1>1, <1>2, <1>3 DEF Serving
  <1>5. /\ Len(ends') = Len(ends) + 1
        /\ \A k \in 1 .. Len(ends) + 1 : Before(k)' = Before(k)
    BY <1>2, <1>u, SendEnds
  <1>6. Done' = Done
    <2>1. Len(parsed) + 1 \in 1 .. Len(ends) + 1
      BY <1>3, <1>4
    <2>2. \A k \in 1 .. Len(ends) + 1 : k = Len(parsed) + 1 => Done' = Before(k)'
      BY <1>u DEF Done
    <2> QED BY <1>5, <2>1, <2>2 DEF Done
  <1>7. parsed # <<>> => ends'[1] = ends[1]
    <2>1. parsed # <<>> => Len(ends) > 0
      BY <1>3, <1>4
    <2> QED BY <2>1, <1>u, <1>3
  <1>8. arrived = Done
    BY <1>1, <1>2, <1>4, OneOnItsWay DEF OnItsWay
  <1>9. "garbled" \notin met'
    BY <1>1, <1>2 DEF Send, Serving
  <1>10. Serving'
    BY <1>1, <1>2, <1>3, <1>4, <1>5, <1>6, <1>7, <1>9, <1>u DEF Serving, InSequence
  <1>11. OnItsWay'
    BY <1>1, <1>2, <1>6, <1>8, <1>u DEF OnItsWay
  <1> QED BY <1>10, <1>11

\* What completes is the whole packet, into an m_buffer that nothing else is to be read from.
LEMMA CompleteServed ==
  ASSUME LInv, NEW n \in 1 .. ReadLength, Complete(n) PROVE Serving' /\ OnItsWay'
  <1> SUFFICES ASSUME Single' PROVE Serving' /\ OnItsWay'
    BY DEF Serving, OnItsWay
  <1>1. Single /\ \E k \in DOMAIN ends : ends[k] = arrived + n
    BY DEF Complete, Single
  <1>u. /\ UNCHANGED <<ends, data, length, key, isEncryptKey, io, threads, parsed, handled, up>>
        /\ completions' = Append(completions, n) /\ arrived' = arrived + n
        /\ arrived + n <= Sent
        /\ \A i \in 0 .. n - 1 : i \in 0 .. ReadLength - 1 => m_buffer'[i] = arrived + 1 + i
    BY DEF Complete, peer, buffer, crypt
  <1>2. TypeOK /\ Stream /\ Serving /\ OnItsWay /\ IInv
    BY DEF LInv, IInv
  <1>3. /\ ends \in Seq(Nat) /\ arrived \in Nat /\ ReadLength \in Nat /\ n \in Nat /\ n > 0
        /\ completions \in Seq(1 .. ReadLength) /\ length \in Nat
    BY <1>2, Types
  <1>4. Done \in Nat /\ Sent \in Nat
    BY <1>1, <1>2, OneOnItsWay
  <1>5. arrived = Done /\ Done < Sent
    BY <1>1, <1>2, <1>3, <1>4, <1>u DEF OnItsWay
  <1>6. Len(ends) \in DOMAIN ends /\ Before(Len(ends)) = Done /\ ends[Len(ends)] = Sent
    BY <1>1, <1>2, <1>4, <1>5, OneOnItsWay
  <1>7. arrived + n = Sent
    <2>1. PICK k \in DOMAIN ends : ends[k] = arrived + n
      BY <1>1
    <2>2. CASE k = Len(ends)
      BY <2>1, <2>2, <1>6
    <2>3. CASE k # Len(ends)
      <3>1. k < Len(ends) /\ k \in Nat /\ k > 0 /\ Len(ends) \in Nat
        BY <2>3, <1>3
      <3>2. Done = ends[Len(ends) - 1] /\ Len(ends) - 1 \in DOMAIN ends
        BY <3>1, <1>3, <1>6 DEF Before
      <3>3. ends[k] <= Done
        <4>1. k < Len(ends) - 1 => ends[k] < ends[Len(ends) - 1]
          BY <3>2, <1>2 DEF Stream, Increasing
        <4>2. ends[k] \in Nat
          BY <2>1, <1>3
        <4> QED BY <3>1, <3>2, <4>1, <4>2, <1>4
      <3> QED BY <3>3, <2>1, <1>3, <1>4, <1>5
    <2> QED BY <2>2, <2>3
  <1>8. completions = <<>> /\ io.at # "parsing"
    <2>1. io.at # "parsing"
      BY <1>1, <1>2, <1>3, <1>4, <1>5 DEF OnItsWay
    <2>2. ASSUME completions # <<>> PROVE FALSE
      <3>1. Head(completions) \in 1 .. ReadLength
        BY <2>2, <1>3
      <3>2. Head(completions) = arrived - Done
        BY <2>2, <1>1, <1>2 DEF OnItsWay
      <3> QED BY <3>1, <3>2, <1>3, <1>4, <1>5
    <2> QED BY <2>1, <2>2
  <1>9. Done' = Done /\ Sent' = Sent
    BY <1>u DEF Done, Sent, Before
  <1>10. met' = met
    BY <1>1 DEF Complete
  <1>11. Serving'
    BY <1>1, <1>2, <1>9, <1>10, <1>u DEF Serving, InSequence
  <1>12. OnItsWay'
    <2>1. arrived' - Done = n /\ arrived' = Sent
      BY <1>3, <1>4, <1>5, <1>7, <1>u
    <2>2. completions' = <<arrived' - Done>> /\ completions' # <<>>
      BY <2>1, <1>8, <1>u
    <2>3. \A i \in 0 .. arrived' - Done - 1 : m_buffer'[i] = Done + 1 + i
      BY <2>1, <1>3, <1>5, <1>u
    <2> QED BY <2>1, <2>2, <2>3, <1>1, <1>2, <1>8, <1>9, <1>u DEF OnItsWay
  <1> QED BY <1>11, <1>12

\* The receive buffer is empty when a read is handled: there is room for all of it.
LEMMA ReceivedServed ==
  ASSUME LInv, ReceivedSome \/ CloseSocket PROVE Serving' /\ OnItsWay'
  <1> SUFFICES ASSUME Single' PROVE Serving' /\ OnItsWay'
    BY DEF Serving, OnItsWay
  <1>1. Single /\ io.at = "waiting" /\ completions # <<>>
    BY DEF ReceivedSome, CloseSocket, Single
  <1>2. TypeOK /\ Serving /\ OnItsWay /\ IInv
    BY DEF LInv, IInv
  <1>3. /\ arrived \in Nat /\ ReadLength \in Nat \ {0} /\ Capacity \in Nat /\ ReadLength < Capacity
        /\ completions \in Seq(1 .. ReadLength)
    BY <1>2, Types, TcpAssumption
  <1>4. Done \in Nat
    BY <1>1, <1>2, OneOnItsWay
  <1>5. length = 0
    BY <1>1, <1>2 DEF OnItsWay
  <1> DEFINE n == Head(completions)
  <1>6. n = arrived - Done /\ n \in 1 .. ReadLength /\ Tail(completions) = <<>>
    <2>1. completions = <<arrived - Done>>
      BY <1>1, <1>2 DEF OnItsWay
    <2>2. n \in 1 .. ReadLength
      BY <1>1, <1>3
    <2> QED BY <2>1, <2>2
  <1>7. ReceivedSome
    BY <1>3, <1>5 DEF CloseSocket
  <1>8. Appended(n) = n
    BY <1>3, <1>5, <1>6 DEF Appended
  <1>u. /\ UNCHANGED <<ends, arrived, key, isEncryptKey, threads, parsed, handled, up, met>>
        /\ completions' = <<>> /\ length' = n
        /\ io' = [at |-> "parsing", total |-> 0, result |-> FALSE]
        /\ \A i \in 0 .. n - 1 : data'[i] = m_buffer[i]
    <2>1. UNCHANGED <<ends, arrived, key, isEncryptKey, threads, parsed, handled, up>>
      BY <1>7 DEF ReceivedSome, peer, crypt
    <2>2. completions' = <<>> /\ io' = [at |-> "parsing", total |-> 0, result |-> FALSE]
      BY <1>6, <1>7 DEF ReceivedSome
    <2>3. met' = met /\ length' = n
      BY <1>5, <1>6, <1>7, <1>8 DEF ReceivedSome
    <2>4. data' = [i \in 0 .. Capacity - 1 |->
                     IF i \in length .. length + n - 1 THEN m_buffer[i - length] ELSE data[i]]
      BY <1>7, <1>8 DEF ReceivedSome
    <2>5. \A i \in 0 .. n - 1 : data'[i] = m_buffer[i]
      BY <2>4, <1>3, <1>5, <1>6
    <2> QED BY <2>1, <2>2, <2>3, <2>5
  <1> HIDE DEF n
  <1>9. Done' = Done /\ Sent' = Sent
    BY <1>u DEF Done, Sent, Before
  <1>10. Serving'
    BY <1>1, <1>2, <1>9, <1>u DEF Serving, InSequence
  <1>11. OnItsWay'
    <2>1. \A i \in 0 .. n - 1 : data'[i] = Done + 1 + i
      BY <1>1, <1>2, <1>6, <1>u DEF OnItsWay
    <2> QED BY <2>1, <1>1, <1>2, <1>3, <1>4, <1>6, <1>9, <1>u DEF OnItsWay
  <1> QED BY <1>10, <1>11

\* What the lobby finds to parse is one whole packet, and it reads its length right: that of
\* the first in clear, of every other with the key it has.
LEMMA OnePacket ==
  ASSUME LInv, Single, io.at = "parsing", NEW e, e = Len(ends)
  PROVE  /\ e \in DOMAIN ends /\ e = Len(parsed) + 1 /\ arrived = Sent /\ completions = <<>>
         /\ Remaining = Size(e) /\ Remaining > LengthSize
         /\ ~isEncryptKey => e = 1 /\ RawLength = {Size(e)} /\ InClear(Size(e)) = {e}
         /\ isEncryptKey => e > 1 /\ TranslatedLength = {Size(e)} /\ Translated(Size(e)) = {e}
  <1>1. TypeOK /\ Stream /\ Serving /\ OnItsWay /\ IInv
    BY DEF LInv, IInv
  <1>2. /\ ends \in Seq(Nat) /\ parsed \in Seq(Number) /\ arrived \in Nat /\ length \in Nat
        /\ length <= Capacity /\ Capacity \in Nat /\ LengthSize \in Nat
    BY <1>1, Types
  <1>3. Done \in Nat /\ Sent \in Nat
    BY <1>1, OneOnItsWay
  <1>4. /\ completions = <<>> /\ io.total = 0 /\ length > 0 /\ Done + length = arrived
        /\ \A i \in 0 .. length - 1 : data[i] = Done + 1 + i
    BY <1>1 DEF OnItsWay
  <1>5. arrived = Sent /\ Done # Sent
    BY <1>1, <1>2, <1>3, <1>4 DEF OnItsWay
  <1>6. e \in DOMAIN ends /\ e = Len(parsed) + 1 /\ Before(e) = Done /\ Size(e) = Sent - Done
    BY <1>1, <1>5, OneOnItsWay
  <1>7. Remaining = Size(e) /\ Size(e) = length
    <2>1. Remaining = length
      BY <1>2, <1>4 DEF Remaining
    <2>2. Sent - Done = length
      BY <1>2, <1>3, <1>4, <1>5
    <2> QED BY <2>1, <2>2, <1>6
  <1>8. Size(e) > LengthSize
    BY <1>1, <1>6, Lengths
  <1>9. \A n \in Nat : n <= Size(e) => Lies(e, n, io.total)
    BY <1>2, <1>4, <1>6, <1>7 DEF Lies
  <1>10. Lies(e, LengthSize, io.total) /\ Lies(e, Size(e), io.total)
    BY <1>2, <1>7, <1>8, <1>9
  <1>11. (isEncryptKey <=> e # 1) /\ e \in Nat /\ e > 0
    <2>1. (parsed # <<>> <=> Len(parsed) # 0) /\ Len(parsed) \in Nat
      BY <1>2
    <2> QED BY <2>1, <1>1, <1>6 DEF Serving
  <1>12. ASSUME ~isEncryptKey
         PROVE  e = 1 /\ RawLength = {Size(e)} /\ InClear(Size(e)) = {e}
    <2>1. e = 1 /\ ends # <<>>
      BY <1>2, <1>6, <1>11, <1>12
    <2>2. RawLength = {Size(e)}
      BY <2>1, <1>10 DEF RawLength, Single
    <2> QED BY <2>1, <2>2, <1>6, <1>10 DEF InClear, Single
  <1>13. ASSUME isEncryptKey
         PROVE  e > 1 /\ TranslatedLength = {Size(e)} /\ Translated(Size(e)) = {e}
    <2>1. e > 1 /\ parsed # <<>>
      BY <1>1, <1>11, <1>13 DEF Serving
    <2>2. key = Before(e) - ends[1] /\ ends[1] \in Nat
      BY <2>1, <1>1, <1>2, <1>6 DEF Serving
    <2>0. \A j \in DOMAIN ends : Before(j) \in Nat
      <3>1. \A j \in DOMAIN ends : j \in 1 .. Len(ends) + 1
        BY <1>2
      <3> QED BY <3>1, <1>2, SentIsNat
    <2>3. \A j \in DOMAIN ends : InStep(j) <=> j = e
      <3> TAKE j \in DOMAIN ends
      <3>1. j # e => Before(j) # Before(e)
        <4>1. j \in Nat
          BY <1>2
        <4> QED BY <4>1, <2>0, <1>1, <1>6, <1>11, BeforeUnique
      <3>2. InStep(j) => Before(j) = Before(e)
        BY <2>0, <2>2, <1>6 DEF InStep, Single
      <3>3. InStep(e)
        BY <2>1, <2>2, <1>13 DEF InStep, Single
      <3> QED BY <3>1, <3>2, <3>3
    <2>4. {j \in DOMAIN ends : InStep(j) /\ Lies(j, LengthSize, io.total)} = {e}
      BY <2>3, <1>6, <1>10
    <2>5. TranslatedLength = {Size(e)}
      BY <2>4 DEF TranslatedLength
    <2>6. Translated(Size(e)) = {e}
      BY <2>3, <1>6, <1>10 DEF Translated
    <2> QED BY <2>1, <2>5, <2>6
  <1> QED BY <1>4, <1>5, <1>6, <1>7, <1>8, <1>12, <1>13

\* Parse takes that packet, its handler reads it, and the key keeps in step.
LEMMA ParseServed ==
  ASSUME LInv, ParseInClear \/ ParseTranslated PROVE Serving' /\ OnItsWay'
  <1> SUFFICES ASSUME Single' PROVE Serving' /\ OnItsWay'
    BY DEF Serving, OnItsWay
  <1>1. io.at = "parsing" /\ Remaining > LengthSize /\ UNCHANGED <<server, ends, data, length>>
    BY DEF ParseInClear, ParseTranslated, peer, buffer
  <1>2. Single
    BY <1>1 DEF ParseInClear, ParseTranslated, LobbyParse, StageParse, Single
  <1> DEFINE e == Len(ends)
  <1>3. /\ e \in DOMAIN ends /\ e = Len(parsed) + 1 /\ arrived = Sent /\ completions = <<>>
        /\ Remaining = Size(e)
    BY <1>1, <1>2, OnePacket
  <1>4. ~isEncryptKey => e = 1 /\ RawLength = {Size(e)} /\ InClear(Size(e)) = {e}
    BY <1>1, <1>2, OnePacket
  <1>5. isEncryptKey => e > 1 /\ TranslatedLength = {Size(e)} /\ Translated(Size(e)) = {e}
    BY <1>1, <1>2, OnePacket
  <1>6. TypeOK /\ Stream /\ Serving /\ OnItsWay /\ IInv
    BY DEF LInv, IInv
  <1>7. /\ ends \in Seq(Nat) /\ parsed \in Seq(Number) /\ key \in Nat /\ Size(e) \in Nat
        /\ Len(parsed) \in Nat /\ e \in Nat /\ e > 0
    BY <1>3, <1>6, Types, Lengths
  <1> HIDE DEF e
  <1>8. \E t : LobbyParse({e}, t) /\ (e # 1 => t = key + Size(e))
    <2>1. CASE ParseInClear
      BY <2>1, <1>4 DEF ParseInClear
    <2>2. CASE ParseTranslated
      <3>1. isEncryptKey
        <4> SUFFICES ASSUME ~isEncryptKey PROVE FALSE
          OBVIOUS
        <4>1. Size(e) > Size(e)
          BY <2>2, <1>3, <1>4 DEF ParseTranslated, Decrypts
        <4> QED BY <4>1, <1>7
      <3>2. LobbyParse(Translated(Size(e)), key + Size(e))
        BY <2>2, <3>1, <1>2, <1>5 DEF ParseTranslated, StageParse, Single
      <3> QED BY <3>1, <3>2, <1>5
    <2> QED BY <2>1, <2>2
  <1>9. PICK t : LobbyParse({e}, t) /\ (e # 1 => t = key + Size(e))
    BY <1>8
  <1>u. /\ parsed' = Append(parsed, e) /\ handled' = Append(handled, e)
        /\ key' = IF e = 1 THEN 0 ELSE t
        /\ isEncryptKey' = (isEncryptKey \/ e = 1)
        /\ io' = [at |-> "leaving", total |-> length, result |-> TRUE]
        /\ UNCHANGED <<up, met, threads, arrived, completions, m_buffer>>
    BY <1>9 DEF LobbyParse
  <1>10. InSequence(parsed') /\ Len(parsed') = e /\ parsed' # <<>>
    <2>1. e \in Number /\ InSequence(parsed)
      BY <1>2, <1>6, <1>7 DEF Number, Serving
    <2>2. InSequence(parsed') /\ Len(parsed') = e
      BY <2>1, <1>3, <1>7, <1>u, OneMore
    <2> QED BY <2>2, <1>7, <1>u
  <1>11. Done' = Sent /\ Sent' = Sent
    <2>1. Sent' = Sent
      BY <1>1 DEF Sent, Before
    <2>2. Done' = Sent'
      BY <1>1, <1>10 DEF Done, Sent, e
    <2> QED BY <2>1, <2>2
  <1>12. key' = Sent - ends[1]
    <2>1. ends[e] = Sent /\ Size(e) = Sent - Done /\ Done \in Nat /\ Sent \in Nat
      BY <1>2, <1>3, <1>6, <1>7, OneOnItsWay DEF e
    <2>2. CASE e = 1
      BY <2>1, <2>2, <1>u
    <2>3. CASE e # 1
      <3>1. key = Done - ends[1] /\ ends[1] \in Nat
        <4>1. parsed # <<>>
          BY <2>3, <1>3, <1>7
        <4> QED BY <4>1, <1>2, <1>3, <1>6, <1>7 DEF Serving
      <3> QED BY <2>1, <2>3, <3>1, <1>9, <1>u
    <2> QED BY <2>2, <2>3
  <1>13. Serving'
    <2>1. isEncryptKey'
      BY <1>4, <1>u
    <2>2. handled' = parsed' /\ InSequence(parsed)' /\ Len(parsed') <= Len(ends')
          /\ Len(ends') <= Len(parsed') + 1
      <3>1. handled = parsed
        BY <1>2, <1>6 DEF Serving
      <3> QED BY <3>1, <1>1, <1>7, <1>10, <1>u DEF InSequence, e
    <2>3. up' /\ "garbled" \notin met' /\ threads' = {} /\ io'.at # "stuck"
      BY <1>2, <1>6, <1>u DEF Serving
    <2>4. key' = Done' - ends'[1]
      BY <1>1, <1>11, <1>12
    <2> QED BY <2>1, <2>2, <2>3, <2>4, <1>10 DEF Serving
  <1>14. OnItsWay'
    <2>1. arrived' = Done' /\ completions' = <<>>
      BY <1>3, <1>11, <1>u
    <2>2. io'.at = "leaving" /\ io'.total = length'
      BY <1>1, <1>u
    <2> QED BY <2>1, <2>2 DEF OnItsWay
  <1> QED BY <1>13, <1>14

\* Nothing is left over, and nothing is too short or too long.
LEMMA NoLoopEnds ==
  ASSUME LInv, Single PROVE ~(Rollback \/ InvalidSize \/ TooShort)
  <1> SUFFICES ASSUME Rollback \/ InvalidSize \/ TooShort PROVE FALSE
    OBVIOUS
  <1> DEFINE e == Len(ends)
  <1>1. io.at = "parsing"
    BY DEF Rollback, InvalidSize, TooShort
  <1>2. /\ e \in DOMAIN ends /\ Remaining = Size(e) /\ Remaining > LengthSize
        /\ ~isEncryptKey => RawLength = {Size(e)}
        /\ isEncryptKey => TranslatedLength = {Size(e)}
    BY <1>1, OnePacket
  <1>3. Size(e) \in Nat /\ LengthSize \in Nat
    BY <1>2, Lengths, TcpAssumption DEF LInv, IInv
  <1> HIDE DEF e
  <1>4. ~TooShort
    BY <1>2, <1>3 DEF TooShort
  <1>5. isEncryptKey
    <2> SUFFICES ASSUME ~isEncryptKey PROVE FALSE
      OBVIOUS
    <2>1. Size(e) > Size(e)
      BY <1>2, <1>4 DEF Rollback, InvalidSize, Decrypts
    <2> QED BY <2>1, <1>3
  <1>6. Size(e) > Size(e) \/ Size(e) < LengthSize
    BY <1>2, <1>4, <1>5 DEF Rollback, InvalidSize
  <1> QED BY <1>2, <1>3, <1>6

LEMMA LeaveServed == ASSUME LInv, Leave PROVE Serving' /\ OnItsWay'
  <1> SUFFICES ASSUME Single' PROVE Serving' /\ OnItsWay'
    BY DEF Serving, OnItsWay
  <1>u. /\ UNCHANGED <<server, ends, arrived, completions, m_buffer, key, isEncryptKey, threads,
                       parsed, handled, up, met>>
        /\ io.at = "leaving" /\ io' = Waiting /\ length' = length - io.total
    BY DEF Leave, Remove, peer, crypt
  <1>1. Single /\ Serving /\ OnItsWay
    BY <1>u DEF Single, LInv
  <1>2. length' = 0
    <2>1. length \in Nat
      BY Types DEF LInv, IInv
    <2> QED BY <2>1, <1>1, <1>u DEF OnItsWay
  <1>3. Done' = Done /\ Sent' = Sent
    BY <1>u DEF Done, Sent, Before
  <1>4. Serving'
    BY <1>1, <1>3, <1>u DEF Serving, InSequence, Waiting
  <1>5. OnItsWay'
    BY <1>1, <1>2, <1>3, <1>u DEF OnItsWay, Waiting
  <1> QED BY <1>4, <1>5

LEMMA SameServed ==
  ASSUME LInv, Disconnect \/ UNCHANGED vars PROVE Serving' /\ OnItsWay'
  <1>1. UNCHANGED <<server, ends, arrived, completions, m_buffer, data, length, key, isEncryptKey,
                    io, threads, parsed, handled, up, met>>
    BY DEF Disconnect, vars, peer, socket, buffer, crypt
  <1>2. Done' = Done /\ Sent' = Sent /\ (Single' <=> Single)
    BY <1>1 DEF Done, Sent, Before, Single
  <1>3. Serving'
    BY <1>1, <1>2 DEF LInv, Serving, InSequence
  <1>4. OnItsWay'
    BY <1>1, <1>2 DEF LInv, OnItsWay
  <1> QED BY <1>3, <1>4

LEMMA LobbyStep == LInv /\ [Next]_vars => LInv'
  <1> SUFFICES ASSUME LInv, [Next]_vars PROVE LInv'
    OBVIOUS
  <1>1. IInv'
    BY NextStep DEF LInv
  <1>2. CASE \/ \E size \in Sizes : Send(size)
             \/ \E n \in 1 .. ReadLength : Complete(n)
    BY <1>1, <1>2, SendServed, CompleteServed DEF LInv
  <1>3. CASE Disconnect \/ UNCHANGED vars
    BY <1>1, <1>3, SameServed DEF LInv
  <1>4. CASE CloseSocket \/ ReceivedSome
    BY <1>1, <1>4, ReceivedServed DEF LInv
  <1>5. CASE ParseInClear \/ ParseTranslated
    BY <1>1, <1>5, ParseServed DEF LInv
  <1>6. CASE Rollback \/ InvalidSize \/ TooShort
    <2>1. ~Single
      BY <1>6, NoLoopEnds
    <2>2. ~Single'
      BY <2>1, <1>6 DEF Rollback, InvalidSize, TooShort, Single
    <2> QED BY <1>1, <2>2 DEF LInv, Serving, OnItsWay
  <1>7. CASE Leave
    BY <1>1, <1>7, LeaveServed DEF LInv
  <1>8. CASE \E t \in threads : Handle(t)
    <2>1. ~Single
      BY <1>8 DEF LInv, Serving
    <2>2. ~Single'
      BY <2>1, <1>8 DEF Handle, Single
    <2> QED BY <1>1, <2>2 DEF LInv, Serving, OnItsWay
  <1> QED BY <1>2, <1>3, <1>4, <1>5, <1>6, <1>7, <1>8 DEF Next, IoThread, OnReceived
-----------------------------------------------------------------------------
\* Nobody waits in vain.

\* A session with unparsed packets that waits for a read has one whose handler is to run,
\* or one outstanding and bytes sent that it has not had.
NeverStalls ==
  open /\ up /\ io.at = "waiting" /\ Len(parsed) < Len(ends) /\ (Intact \/ Single) =>
    completions # <<>> \/ (reads > 0 /\ arrived < Sent)

\* Whoever waits has a read to wait for, while the socket is open.
Outstanding == open /\ io.at = "waiting" => reads + Len(completions) > 0

LEMMA OutstandingStep == ASSUME IInv, Outstanding, [Next]_vars PROVE Outstanding'
  <1>T. reads \in Nat /\ completions \in Seq(1 .. ReadLength) /\ Len(completions) \in Nat
    BY Types DEF IInv
  <1>1. ASSUME UNCHANGED <<open, io, reads, completions>> PROVE Outstanding'
    BY <1>1 DEF Outstanding
  <1>2. CASE \/ \E size \in Sizes : Send(size)
             \/ \E t \in threads : Handle(t)
             \/ UNCHANGED vars
    BY <1>1, <1>2 DEF Send, Handle, socket, vars
  <1>3. CASE Disconnect \/ CloseSocket
    BY <1>3 DEF Disconnect, CloseSocket, Outstanding
  <1>4. ASSUME NEW n \in 1 .. ReadLength, Complete(n) PROVE Outstanding'
    <2>1. reads' = reads - 1 /\ Len(completions') = Len(completions) + 1 /\ reads > 0
      BY <1>T, <1>4 DEF Complete
    <2>2. reads' + Len(completions') > 0
      BY <1>T, <2>1
    <2> QED BY <2>2 DEF Outstanding
  <1>5. CASE ReceivedSome \/ OnReceived
    <2>1. io'.at # "waiting"
      <3>1. CASE ReceivedSome
        BY <3>1 DEF ReceivedSome
      <3>2. ASSUME NEW S, NEW t, LobbyParse(S, t) PROVE io'.at # "waiting"
        BY <3>2 DEF LobbyParse
      <3>3. ASSUME NEW S, NEW t, NEW s, StageParse(S, t, s) PROVE io'.at # "waiting"
        BY <3>3 DEF StageParse
      <3>4. CASE ParseInClear \/ ParseTranslated
        BY <3>2, <3>3, <3>4 DEF ParseInClear, ParseTranslated
      <3>5. CASE Rollback \/ InvalidSize \/ TooShort
        <4>1. io.at = "parsing" /\ DOMAIN io = {"at", "total", "result"}
          BY <3>5 DEF Rollback, InvalidSize, TooShort, IInv, TypeOK
        <4> QED BY <3>5, <4>1 DEF Rollback, InvalidSize, TooShort
      <3> QED BY <1>5, <3>1, <3>4, <3>5 DEF OnReceived
    <2> QED BY <2>1 DEF Outstanding
  <1>6. CASE Leave
    <2>1. open' => reads' = reads + 1 /\ completions' = completions
      BY <1>6 DEF Leave
    <2> QED BY <1>T, <2>1 DEF Outstanding
  <1> QED BY <1>2, <1>3, <1>4, <1>5, <1>6 DEF Next, IoThread

LEMMA NoStall == ASSUME LInv, Outstanding PROVE NeverStalls
  <1> SUFFICES ASSUME open, up, io.at = "waiting", Len(parsed) < Len(ends), Intact \/ Single,
                      completions = <<>>
               PROVE  reads > 0 /\ arrived < Sent
    BY DEF NeverStalls
  <1>0. IInv /\ TypeOK /\ Stream /\ Serving /\ OnItsWay
    BY DEF LInv, IInv
  <1>T. /\ ends \in Seq(Nat) /\ parsed \in Seq(Number) /\ arrived \in Nat /\ reads \in Nat
        /\ key \in Nat /\ length \in Nat /\ Sent \in Nat
    BY <1>0, Types, SentIsNat
  <1>1. reads > 0
    BY <1>T DEF Outstanding
  <1>2. CASE Single
    <2>1. arrived = Done /\ Len(parsed) # Len(ends)
      BY <1>0, <1>2, <1>T DEF OnItsWay
    <2>2. Size(Len(ends)) = Sent - Done /\ Len(ends) \in DOMAIN ends /\ Done \in Nat
      BY <1>0, <1>2, <2>1, OneOnItsWay
    <2>3. Size(Len(ends)) > 0
      BY <1>0, <2>2, Lengths
    <2> QED BY <1>1, <1>T, <2>1, <2>2, <2>3
  <1>3. CASE Intact
    <2> DEFINE k == Len(parsed) + 1
    <2>1. k \in DOMAIN ends /\ k \in Nat /\ k > 0 /\ Len(ends) \in Nat /\ k <= Len(ends)
      BY <1>T
    <2>2. key = Before(k) /\ io.total = 0 /\ Received = arrived
      BY <1>0, <1>3 DEF IInv, Parsing, AtRest, Bytes
    <2>3. length < Size(k)
      <3>1. length - io.total < Size(k)
        BY <1>0, <1>3 DEF IInv, Fits
      <3> QED BY <3>1, <2>2, <1>T
    <2>4. ends[k] <= Sent /\ ends[k] \in Nat
      <3>1. Sent = ends[Len(ends)] /\ Len(ends) \in DOMAIN ends
        BY <2>1, <1>T DEF Sent, Before
      <3>2. k < Len(ends) => ends[k] < ends[Len(ends)]
        BY <1>0, <2>1, <3>1 DEF Stream, Increasing
      <3>3. ends[k] \in Nat
        BY <1>T, <2>1
      <3> QED BY <2>1, <3>1, <3>2, <3>3, <1>T
    <2>5. arrived = key + length
      BY <2>2, <1>T DEF Received
    <2>6. Size(k) = ends[k] - key
      BY <2>2 DEF Size
    <2> HIDE DEF k
    <2> QED BY <1>1, <1>T, <2>3, <2>4, <2>5, <2>6
  <1> QED BY <1>2, <1>3
-----------------------------------------------------------------------------
LEMMA Inductive == Spec => []IInv
  BY InitHolds, NextStep, PTL DEF Spec

\* Every variable keeps to its values: the cursor never passes the end of the receive buffer,
\* which never exceeds its capacity (Buffer, OnReceived).
THEOREM TypeCorrect == Spec => []TypeOK
  <1>1. IInv => TypeOK
    BY DEF IInv
  <1> QED BY <1>1, Inductive, PTL

\* The stage parses every packet once and in order, however the stream is cut, whatever the
\* sizes of buffers, reads and packets (OnReceived, StreamCrypt).
THEOREM AlwaysFramesInOrder == Spec => []FramesInOrder
  <1>1. IInv => FramesInOrder
    BY DEF IInv, Parsing, Intact, FramesInOrder
  <1> QED BY <1>1, Inductive, PTL

\* Nothing overwrites what a completed read of the stage has left in m_buffer before it is
\* appended (HandleRead, ReceivedSome).
THEOREM AlwaysOneReadOutstanding == Spec => []OneReadOutstanding
  <1>1. IInv => OneReadOutstanding
    BY DEF IInv, Reading, OneReadOutstanding
  <1> QED BY <1>1, Inductive, PTL

\* Append cuts nothing of what the stage's peer sends while every packet leaves room for a
\* whole read beside all but one of its bytes (Buffer::Append).
THEOREM AlwaysNothingTruncated == Spec => []NothingTruncated
  <1>1. IInv => NothingTruncated
    BY DEF IInv
  <1> QED BY <1>1, Inductive, PTL

\* A peer of the stage who waits for the answer to each packet is served in order, although
\* the threads read their packets from the buffer OnReceived goes on using (User::Parse).
THEOREM AlwaysAloneIntact == Spec => []AloneIntact
  <1>1. IInv => AloneIntact
    BY DEF IInv, InFlight, Alone, AloneIntact
  <1> QED BY <1>1, Inductive, PTL

\* A peer of the lobby who waits for the answer to each packet, and whose packets arrive
\* whole, is served in order and never ends the process, although Parse drops whatever comes
\* with a packet and leaves a second read outstanding (LobbyServer/User.cpp, Parse).
THEOREM AlwaysLobbyKeepsUp == Spec => []LobbyKeepsUp
  <1>1. Init => LInv
    BY InitHolds, LobbyInitially DEF LInv
  <1>2. LInv => LobbyKeepsUp
    BY DEF LInv, Serving, Single, LobbyKeepsUp
  <1> QED BY <1>1, <1>2, LobbyStep, PTL DEF Spec

\* Neither server ever waits in vain for a packet that has been sent, as long as its Parse
\* is used the way it works: what has not been parsed is in a read that has completed, or
\* has still to come and a read is there to take it (OnReceived, ReceivedSome, Read).
THEOREM StallsNever == Spec => []NeverStalls
  <1>1. Init => LInv /\ Outstanding
    BY InitHolds, LobbyInitially DEF LInv, Init, Outstanding
  <1>2. (LInv /\ Outstanding) /\ [Next]_vars => (LInv /\ Outstanding)'
    BY LobbyStep, OutstandingStep DEF LInv
  <1> QED BY <1>1, <1>2, NoStall, PTL DEF Spec
=============================================================================
