------------------------------- MODULE ClientTcp -------------------------------
(***************************************************************************)
(* One TCP session of a server: ClientTcp (Network/Tcp/Client.cpp) with    *)
(* the Parse of the lobby's User (LobbyServer/User.cpp) or of the stage's  *)
(* (StageServer/User/User.cpp).                                            *)
(*                                                                         *)
(* The peer sends packets; a byte is its position in the peer's stream, a  *)
(* packet the number k of an interval of positions.  What m_buffer and the *)
(* receive buffer hold is tracked position by position, because reads,     *)
(* detached threads and memmove share them.  The key of the stream cipher  *)
(* goes up by one for every byte that is translated: a byte is read right  *)
(* when the key is the one the peer had when he sent it, and anything may  *)
(* be read otherwise.                                                      *)
(*                                                                         *)
(* The lobby's peer sends Head in clear, waits for the key in the answer   *)
(* and encrypts the rest; the stage's encrypts from the first byte, with   *)
(* the key User::Init has sent.                                            *)
(***************************************************************************)
EXTENDS Integers, Sequences

CONSTANTS
  LengthSize,   \* sizeof(LengthType): 2 in the code
  HeaderSize,   \* Constants::HeaderSize: 4
  ReadLength,   \* READ_DATA_BUFFER_LENGTH: 8192
  Capacity,     \* of m_receiveBuffer: 32768
  Sizes,        \* the lengths of packets, header included
  MaxPackets,   \* bounds: packets the peer sends, and their lengths together
  MaxSent

ASSUME TcpAssumption ==
  /\ LengthSize \in Nat \ {0}
  /\ HeaderSize \in Nat /\ LengthSize < HeaderSize
  /\ ReadLength \in Nat \ {0} /\ Capacity \in Nat /\ ReadLength < Capacity
  /\ Sizes \subseteq Nat /\ \A s \in Sizes : HeaderSize <= s
  /\ MaxPackets \in Nat /\ MaxSent \in Nat

VARIABLES
  server,            \* whose Parse it is; never changes
  ends,              \* the peer: ends[k] is the last position of packet k
  arrived,           \* bytes of the stream the kernel has put into m_buffer
  reads,             \* async_read_some started and not completed
  completions,       \* lengths of completed reads whose handler is still to run
  m_buffer,          \* positions of the bytes in m_buffer
  data, length,      \* m_receiveBuffer
  key, isEncryptKey, \* m_decryptor, relative to the key it was given
  io,                \* the io thread: where it is in OnReceived, total and result
  threads,           \* stage: detached threads that have not read their packet yet
  parsed, handled,   \* history: packets handed to Parse, and read by a handler
  open,              \* the socket
  up,                \* FALSE once an exception or an assertion ended the process
  met                \* history: what has happened, see Met

peer == <<ends>>
socket == <<arrived, reads, completions, m_buffer, open>>
buffer == <<data, length>>
crypt == <<key, isEncryptKey>>
vars == <<server, peer, socket, buffer, crypt, io, threads, parsed, handled, up, met>>

\* pipelined: the peer sent while a packet of his was not handled; split: a packet
\* arrived in pieces; truncated: Append cut a chunk; garbled: something else than a
\* packet was parsed or read.
Met == {"pipelined", "split", "truncated", "garbled"}

Number == Nat \ {0}
Thread == [packet : Number, offset : 0 .. Capacity - 1]

TypeOK ==
  /\ server \in {"lobby", "stage"}
  /\ ends \in Seq(Nat)
  /\ arrived \in Nat /\ reads \in Nat
  /\ completions \in Seq(1 .. ReadLength)
  /\ m_buffer \in [0 .. ReadLength - 1 -> Nat]
  /\ data \in [0 .. Capacity - 1 -> Nat] /\ length \in 0 .. Capacity
  /\ key \in Nat /\ isEncryptKey \in BOOLEAN
  /\ io \in [at : {"waiting", "parsing", "leaving", "stuck"}, total : 0 .. Capacity,
             result : BOOLEAN]
  /\ io.total <= length
  /\ threads \subseteq Thread
  /\ parsed \in Seq(Number) /\ handled \in Seq(Number)
  /\ open \in BOOLEAN /\ up \in BOOLEAN
  /\ met \subseteq Met

Waiting == [at |-> "waiting", total |-> 0, result |-> FALSE]

\* HandleNewConnection starts the first read; the stage sets the key before any handler
\* can run.
Init ==
  /\ server \in {"lobby", "stage"}
  /\ ends = <<>>
  /\ arrived = 0 /\ reads = 1 /\ completions = <<>>
  /\ m_buffer = [i \in 0 .. ReadLength - 1 |-> 0]
  /\ data = [i \in 0 .. Capacity - 1 |-> 0] /\ length = 0
  /\ key = 0 /\ isEncryptKey = (server = "stage")
  /\ io = Waiting
  /\ threads = {}
  /\ parsed = <<>> /\ handled = <<>>
  /\ open = TRUE /\ up = TRUE
  /\ met = {}
-----------------------------------------------------------------------------
\* The peer.

Before(k) == IF k = 1 THEN 0 ELSE ends[k - 1]
Sent == Before(Len(ends) + 1)
Size(k) == ends[k] - Before(k)

Send(size) ==
  /\ open /\ up
  /\ Len(ends) < MaxPackets /\ Sent + size <= MaxSent
  /\ server = "lobby" /\ ends # <<>> => isEncryptKey
  /\ ends' = Append(ends, Sent + size)
  /\ met' = met \cup (IF Len(handled) < Len(ends) THEN {"pipelined"} ELSE {})
  /\ UNCHANGED <<server, socket, buffer, crypt, io, threads, parsed, handled, up>>

Disconnect ==
  /\ open /\ up
  /\ open' = FALSE
  /\ UNCHANGED <<server, peer, arrived, reads, completions, m_buffer, buffer, crypt, io,
                 threads, parsed, handled, up, met>>

\* The kernel completes the oldest read, if the socket is open, with some of the bytes
\* sent.  Every read is into m_buffer from its beginning, whatever an earlier one left.
Complete(n) ==
  /\ open /\ up /\ reads > 0
  /\ n <= ReadLength /\ arrived + n <= Sent
  /\ m_buffer' = [i \in 0 .. ReadLength - 1 |->
                    IF i < n THEN arrived + 1 + i ELSE m_buffer[i]]
  /\ completions' = Append(completions, n)
  /\ arrived' = arrived + n
  /\ reads' = reads - 1
  /\ met' = met \cup (IF \E k \in DOMAIN ends : ends[k] = arrived + n
                      THEN {} ELSE {"split"})
  /\ UNCHANGED <<server, peer, buffer, crypt, io, threads, parsed, handled, open, up>>
-----------------------------------------------------------------------------
\* The io thread.

\* The socket is closed when the buffer is full, and nothing else is done.
CloseSocket ==
  /\ up /\ io.at = "waiting" /\ completions # <<>>
  /\ length >= Capacity
  /\ open' = FALSE
  /\ completions' = Tail(completions)
  /\ UNCHANGED <<server, peer, arrived, reads, m_buffer, buffer, crypt, io, threads, parsed,
                 handled, up, met>>

\* How much of n bytes Append takes.
Appended(n) == IF length + n > Capacity THEN Capacity - length ELSE n

\* A read has completed: what m_buffer holds now is appended to the receive buffer.
ReceivedSome ==
  /\ up /\ io.at = "waiting" /\ completions # <<>>
  /\ length < Capacity
  /\ LET n == Head(completions)
         check == Appended(n)
     IN  /\ data' = [i \in 0 .. Capacity - 1 |->
                       IF i \in length .. length + check - 1 THEN m_buffer[i - length]
                       ELSE data[i]]
         /\ length' = length + check
         /\ met' = met \cup (IF check # n THEN {"truncated"} ELSE {})
  /\ completions' = Tail(completions)
  /\ io' = [at |-> "parsing", total |-> 0, result |-> FALSE]
  /\ UNCHANGED <<server, peer, arrived, reads, m_buffer, crypt, threads, parsed, handled,
                 open, up>>

\* The first n bytes of packet k are in the receive buffer from offset o on.
Lies(k, n, o) == \A i \in 0 .. n - 1 : o + i < Capacity /\ data[o + i] = Before(k) + 1 + i

\* The key is the one packet k begins with.
InStep(k) ==
  IF server = "stage" THEN key = Before(k) ELSE isEncryptKey /\ k > 1 /\ key = Before(k) - ends[1]

Remaining == length - io.total
AnyLength == 0 .. Capacity + 1

\* *work_length as it lies there, and after its translation.
RawLength ==
  IF server = "lobby" /\ ends # <<>> /\ Lies(1, LengthSize, io.total) THEN {Size(1)}
  ELSE AnyLength

TranslatedLength ==
  LET read == {k \in DOMAIN ends : InStep(k) /\ Lies(k, LengthSize, io.total)}
  IN  IF read # {} THEN {Size(k) : k \in read} ELSE AnyLength

\* Packets that lie whole at the cursor, by the size that was read.
InClear(size) == {k \in DOMAIN ends : server = "lobby" /\ k = 1 /\ Size(k) = size
                                       /\ Lies(k, size, io.total)}
Translated(size) == {k \in DOMAIN ends : InStep(k) /\ Size(k) = size /\ Lies(k, size, io.total)}

\* Parse of the lobby calls the handler, starts a read and takes all that remains.  The
\* handler of Head sets the key.
LobbyParse(packets, translated) ==
  /\ server = "lobby"
  /\ reads' = reads + 1
  /\ io' = [at |-> "leaving", total |-> length, result |-> TRUE]
  /\ \/ \E k \in packets :
          /\ parsed' = Append(parsed, k) /\ handled' = Append(handled, k)
          /\ key' = IF k = 1 THEN 0 ELSE translated
          /\ isEncryptKey' = (isEncryptKey \/ k = 1)
          /\ UNCHANGED <<up, met>>
     \/ /\ packets = {}
        /\ up' \in BOOLEAN /\ met' = met \cup {"garbled"}
        /\ key' = translated
        /\ UNCHANGED <<parsed, handled, isEncryptKey>>
  /\ UNCHANGED <<threads, arrived, completions, m_buffer, open>>

\* The thread reads the packet where it lies; what is no packet gets none.
StartThread(packets) ==
  \/ \E k \in packets :
       /\ parsed' = Append(parsed, k)
       /\ threads' = threads \cup {[packet |-> k, offset |-> io.total]}
       /\ UNCHANGED met
  \/ packets = {} /\ met' = met \cup {"garbled"} /\ UNCHANGED <<parsed, threads>>

\* Mutated: Parse starts a read of its own, as the lobby's does.
StageParse_StartsRead(packets, translated, size) ==
  /\ server = "stage"
  /\ key' = translated
  /\ StartThread(packets)
  /\ io' = [at |-> IF io.total + size >= length THEN "leaving" ELSE "parsing",
            total |-> io.total + size, result |-> TRUE]
  /\ reads' = reads + 1
  /\ UNCHANGED <<handled, isEncryptKey, up, arrived, completions, m_buffer, open>>

\* Parse of the stage starts a detached thread and takes the size of the packet; nothing of
\* what is shorter than a header.
StageParse(packets, translated, size) ==
  /\ server = "stage"
  /\ key' = translated
  /\ StartThread(packets)
  /\ LET read == IF Remaining < HeaderSize THEN 0 ELSE size
     IN  io' = [at |-> IF read = 0 \/ io.total + read >= length THEN "leaving" ELSE "parsing",
                total |-> io.total + read, result |-> read # 0]
  /\ UNCHANGED <<handled, isEncryptKey, up, socket>>

\* One turn of the loop of OnReceived, on a header in clear.
ParseInClear ==
  /\ io.at = "parsing" /\ up
  /\ Remaining > LengthSize
  /\ ~isEncryptKey
  /\ \E size \in RawLength :
       /\ size <= Remaining
       /\ LobbyParse(InClear(size), key)
  /\ UNCHANGED <<server, peer, buffer>>

\* A header in clear that announces more than has arrived goes through the decryptor too.
Decrypts == isEncryptKey \/ \E size \in RawLength : size > Remaining

\* Mutated: a packet is parsed before all of it has arrived.
ParseTranslated_Unchecked ==
  /\ io.at = "parsing" /\ up
  /\ Remaining > LengthSize
  /\ Decrypts
  /\ \E size \in TranslatedLength :
       /\ size >= LengthSize
       /\ \/ LobbyParse(Translated(size), key + size)
          \/ StageParse(Translated(size), key + size, size)
  /\ UNCHANGED <<server, peer, buffer>>

\* Mutated: the translation of the body does not advance the key.
ParseTranslated_HeaderOnly ==
  /\ io.at = "parsing" /\ up
  /\ Remaining > LengthSize
  /\ Decrypts
  /\ \E size \in TranslatedLength :
       /\ size \in LengthSize .. Remaining
       /\ \/ LobbyParse(Translated(size), key + LengthSize)
          \/ StageParse(Translated(size), key + LengthSize, size)
  /\ UNCHANGED <<server, peer, buffer>>

ParseTranslated ==
  /\ io.at = "parsing" /\ up
  /\ Remaining > LengthSize
  /\ Decrypts
  /\ \E size \in TranslatedLength :
       /\ size \in LengthSize .. Remaining
       /\ \/ LobbyParse(Translated(size), key + size)
          \/ StageParse(Translated(size), key + size, size)
  /\ UNCHANGED <<server, peer, buffer>>

\* Mutated: a packet that has just arrived whole is waited for.
Rollback_WhenExact ==
  /\ io.at = "parsing" /\ up
  /\ Remaining > LengthSize
  /\ Decrypts
  /\ \E size \in TranslatedLength : size >= Remaining
  /\ io' = [io EXCEPT !.at = "leaving"]
  /\ UNCHANGED <<server, peer, socket, buffer, crypt, threads, parsed, handled, up, met>>

\* Mutated: the key of the translation that is undone is kept.
Rollback_KeepsKey ==
  /\ io.at = "parsing" /\ up
  /\ Remaining > LengthSize
  /\ Decrypts
  /\ \E size \in TranslatedLength : size > Remaining
  /\ io' = [io EXCEPT !.at = "leaving"]
  /\ key' = key + LengthSize
  /\ UNCHANGED <<server, peer, socket, buffer, isEncryptKey, threads, parsed, handled, up, met>>

\* Less has arrived than the header announces: the translation is undone, to wait for more.
Rollback ==
  /\ io.at = "parsing" /\ up
  /\ Remaining > LengthSize
  /\ Decrypts
  /\ \E size \in TranslatedLength : size > Remaining
  /\ io' = [io EXCEPT !.at = "leaving"]
  /\ UNCHANGED <<server, peer, socket, buffer, crypt, threads, parsed, handled, up, met>>

\* "invalid size": the exception leaves io_service::run.
InvalidSize ==
  /\ io.at = "parsing" /\ up
  /\ Remaining > LengthSize
  /\ Decrypts
  /\ \E size \in TranslatedLength : size < LengthSize
  /\ up' = FALSE
  /\ UNCHANGED <<server, peer, socket, buffer, crypt, io, threads, parsed, handled, met>>

\* Not even a length remains: while (result) ends the loop before the first packet, and
\* never ends it after one.
TooShort ==
  /\ io.at = "parsing" /\ up
  /\ Remaining <= LengthSize
  /\ io' = [io EXCEPT !.at = IF io.result THEN "stuck" ELSE "leaving"]
  /\ UNCHANGED <<server, peer, socket, buffer, crypt, threads, parsed, handled, up, met>>

\* Mutated: what has been removed is overwritten.
Remove_Wipes ==
  /\ length' = length - io.total
  /\ data' = [i \in 0 .. Capacity - 1 |->
                IF i < length - io.total THEN data[i + io.total] ELSE 0]

\* Remove(0, processed): what is left moves to the front; nothing moves when nothing is left.
Remove ==
  /\ length' = length - io.total
  /\ data' = [i \in 0 .. Capacity - 1 |->
                IF i < length - io.total THEN data[i + io.total] ELSE data[i]]

\* Mutated: the next read is started only after a packet.
Leave_AfterPacket ==
  /\ io.at = "leaving" /\ up
  /\ Remove
  /\ reads' = IF open /\ io.total > 0 THEN reads + 1 ELSE reads
  /\ io' = Waiting
  /\ UNCHANGED <<server, peer, arrived, completions, m_buffer, crypt, threads, parsed,
                 handled, open, up, met>>

\* OnReceived has returned: what was parsed is removed, the next read is started.
Leave ==
  /\ io.at = "leaving" /\ up
  /\ Remove
  /\ reads' = IF open THEN reads + 1 ELSE reads
  /\ io' = Waiting
  /\ UNCHANGED <<server, peer, arrived, completions, m_buffer, crypt, threads, parsed,
                 handled, open, up, met>>

\* A detached thread reads its packet, from wherever it lay when the thread was started.
Handle(t) ==
  /\ up
  /\ threads' = threads \ {t}
  /\ \/ /\ Lies(t.packet, Size(t.packet), t.offset)
        /\ handled' = Append(handled, t.packet)
        /\ UNCHANGED <<up, met>>
     \/ /\ ~Lies(t.packet, Size(t.packet), t.offset)
        /\ met' = met \cup {"garbled"} /\ up' \in BOOLEAN
        /\ UNCHANGED handled
  /\ UNCHANGED <<server, peer, socket, buffer, crypt, io, parsed>>
-----------------------------------------------------------------------------
OnReceived == ParseInClear \/ ParseTranslated \/ Rollback \/ InvalidSize \/ TooShort
IoThread == CloseSocket \/ ReceivedSome \/ OnReceived \/ Leave

Next ==
  \/ \E size \in Sizes : Send(size)
  \/ Disconnect
  \/ \E n \in 1 .. ReadLength : Complete(n)
  \/ IoThread
  \/ \E t \in threads : Handle(t)

\* The kernel delivers what was sent, and the io thread is scheduled.
Fairness ==
  /\ WF_vars(\E n \in 1 .. ReadLength : Complete(n))
  /\ WF_vars(IoThread)

Spec == Init /\ [][Next]_vars /\ Fairness
-----------------------------------------------------------------------------
\* Properties.

InSequence(s) == \A i \in DOMAIN s : s[i] = i

\* The stage parses every packet once and in the order it was sent, however the stream
\* is cut into reads and whatever is in flight: decryption, rollback and the removal of
\* what was parsed keep in step (OnReceived).
FramesInOrder ==
  server = "stage" /\ "truncated" \notin met =>
    /\ InSequence(parsed) /\ Len(parsed) <= Len(ends)
    /\ io.at = "waiting" => key = Before(Len(parsed) + 1)

\* The stage has one read outstanding or one turn of the io thread, never both: nothing
\* overwrites m_buffer before its handler has run (ReceivedSome, Parse).
OneReadOutstanding ==
  server = "stage" => reads + Len(completions) <= (IF io.at = "waiting" THEN 1 ELSE 0)

\* The receive buffer is large enough: Append never cuts what a peer of the stage sends,
\* unless a packet leaves no room for a whole read beside all but one of its bytes.
NothingTruncated ==
  server = "stage" /\ "truncated" \in met =>
    \E k \in DOMAIN ends : Size(k) > Capacity - ReadLength + 1

\* A peer of the stage who sends the next packet only when the last has been handled has
\* every packet handled, in order, from memory nobody has changed, and never leaves the
\* io thread in the endless loop.
AloneIntact ==
  server = "stage" /\ met \cap {"pipelined", "truncated"} = {} =>
    /\ InSequence(handled)
    /\ "garbled" \notin met
    /\ io.at # "stuck"

\* The same of the lobby, where it takes that no packet arrives in pieces either: Parse
\* drops what comes with a packet and leaves two reads outstanding.
LobbyKeepsUp ==
  server = "lobby" /\ met \cap {"pipelined", "split"} = {} =>
    InSequence(parsed) /\ "garbled" \notin met /\ up

\* Every packet sent to the stage is parsed, unless the connection ends or the io thread
\* is in the endless loop (TooShort) or bytes were cut.
Delivered ==
  \A k \in 1 .. MaxPackets :
    server = "stage" /\ k <= Len(ends) ~>
      \/ k <= Len(parsed)
      \/ ~open \/ ~up \/ io.at = "stuck" \/ "truncated" \in met
================================================================================
