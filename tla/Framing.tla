------------------------------ MODULE Framing -------------------------------
(***************************************************************************)
(* How the upstream transports (src/js/src/transport) cut a byte stream back *)
(* into messages: the remote-debugging pipe (a NUL after each message), the   *)
(* native messaging port (a length before it) and NATS over a socket or a     *)
(* websocket (a line with the payload's size in bytes). The stream arrives in *)
(* chunks cut anywhere. Data is what framing tells apart: characters of one   *)
(* byte, characters of two, and the signs that frame and delimit a message.   *)
(* No name is one of ClientTransports', so that a module can extend both.     *)
(***************************************************************************)
EXTENDS Naturals, Sequences, SequencesExt

CONSTANTS
    Readers,   \* some of "pipe", "native", "tcp" and "ws"
    Texts,     \* what a message may say: sequences of "narrow" and "wide" characters
    Count,     \* bound: messages in the stream
    MaxReads   \* bound: websocket frames that are being read at a time

ASSUME FramingAssumption ==
    /\ Readers \subseteq {"pipe", "native", "tcp", "ws"}
    /\ Texts \subseteq Seq({"narrow", "wide"}) /\ Count \in Nat /\ MaxReads \in Nat

VARIABLES
    reader,    \* which of them reads
    sent,      \* the messages of the stream
    arrived,   \* bytes of the stream that have arrived
    buffer,    \* buffer, tcp_buffer, ws_buffer, nats_bridge_buffer
    reads,     \* [held, chunk]: frames whose Blob is being read, with the buffer
               \* as it was when they arrived
    delivered, \* the messages passed on, each as its characters
    apart,     \* no frame has arrived while another was being read
    whole      \* every chunk so far has ended with a message

framingVars == <<reader, sent, arrived, buffer, reads, delivered, apart, whole>>

-----------------------------------------------------------------------------
(* Bytes and characters: [is, of], of the number of their message, or the    *)
(* number that a size says.                                                  *)

Sign(is) == [is |-> is, of |-> 0]

Inner(i) ==
    FlattenSeq([k \in DOMAIN sent[i] |->
        IF sent[i][k] = "wide" THEN <<[is |-> "lead", of |-> i], [is |-> "tail", of |-> i]>>
        ELSE <<[is |-> "narrow", of |-> i]>>])

\* JSON.stringify and its UTF-8.
Payload(i) == <<Sign("{")>> \o Inner(i) \o <<Sign("}")>>

Size(is, i) == [is |-> is, of |-> Len(Payload(i))]

CRLF == <<Sign("cr"), Sign("lf")>>

\* Four bytes of length are two here.
Frame(i) ==
    CASE reader = "pipe" -> Payload(i) \o <<Sign("nul")>>
      [] reader = "native" -> <<Size("low", i), Size("high", i)>> \o Payload(i)
      [] OTHER -> <<Sign("MSG"), Size("size", i)>> \o CRLF \o Payload(i) \o CRLF

Frames(k) == FlattenSeq([i \in 1..k |-> Frame(i)])

Stream == Frames(Count)

\* toString("utf8"): a character cut in two is two replacement characters.
Decode(bytes) ==
    LET follows(i) == i < Len(bytes) /\ bytes[i + 1].is = "tail"
        char(i) == CASE bytes[i].is = "lead" ->
                          <<[bytes[i] EXCEPT !.is = IF follows(i) THEN "wide" ELSE "replaced"]>>
                     [] bytes[i].is = "tail" ->
                          IF i > 1 /\ bytes[i - 1].is = "lead" THEN <<>>
                          ELSE <<[bytes[i] EXCEPT !.is = "replaced"]>>
                     [] OTHER -> <<bytes[i]>>
    IN  FlattenSeq([i \in DOMAIN bytes |-> char(i)])

Text(i) == Decode(Payload(i))

\* JSON.parse: one object, and white space around it.
Parsed(chars) ==
    LET space(c) == c.is \in {"cr", "lf"}
        last == SelectLastInSeq(chars, LAMBDA c : ~space(c))
        first == SelectInSeq(chars, LAMBDA c : ~space(c))
        object == SubSeq(chars, first, last)
    IN  IF /\ first # 0 /\ first < last
           /\ object[1].is = "{" /\ object[Len(object)].is = "}"
           /\ \A k \in 2..(Len(object) - 1) :
                object[k].is \in {"narrow", "wide", "replaced"}
        THEN <<object>> ELSE <<>>

-----------------------------------------------------------------------------
(* The loops that take messages off the buffer. Cut says where the first     *)
(* message of the buffer begins and ends and what follows it, or that it has  *)
(* not arrived.                                                              *)

NoCut == [is |-> FALSE, from |-> 0, to |-> 0, next |-> 0]

BadPipeCut(b) ==                     \* the rest of the chunk is dropped
    LET nul == SelectInSeq(b, LAMBDA c : c.is = "nul")
    IN  IF nul = 0 THEN NoCut ELSE [is |-> TRUE, from |-> 1, to |-> nul - 1, next |-> Len(b) + 1]

PipeCut(b) ==
    LET nul == SelectInSeq(b, LAMBDA c : c.is = "nul")
    IN  IF nul = 0 THEN NoCut ELSE [is |-> TRUE, from |-> 1, to |-> nul - 1, next |-> nul + 1]

NativeCut(b) ==
    IF Len(b) < 2 \/ Len(b) < b[1].of + 2 THEN NoCut
    ELSE [is |-> TRUE, from |-> 3, to |-> b[1].of + 2, next |-> b[1].of + 3]

BadNext(to) == to + 2                \* one of the two signs is left

NextLine(to) == to + 3

\* The size is in bytes, the buffer in characters. A line that is not of a message is
\* skipped.
NatsCut(b) ==
    LET ends == {i \in 1..(Len(b) - 1) : b[i].is = "cr" /\ b[i + 1].is = "lf"}
        lf == 1 + CHOOSE i \in ends : \A j \in ends : i <= j
    IN  CASE ends = {} -> NoCut
          [] ends # {} /\ b[1].is = "MSG" /\ b[lf - 2].is = "size" ->
               LET to == lf + b[lf - 2].of
               IN  IF Len(b) < to + 2 THEN NoCut
                   ELSE [is |-> TRUE, from |-> lf + 1, to |-> to, next |-> NextLine(to)]
          [] OTHER -> [is |-> TRUE, from |-> 1, to |-> 0, next |-> lf + 1]

Cut(b) == CASE reader = "pipe" -> PipeCut(b) [] reader = "native" -> NativeCut(b)
            [] OTHER -> NatsCut(b)

\* The native reader cuts bytes and decodes what it has cut, the others decode first.
Chars(chunk) == IF reader = "native" THEN chunk ELSE Decode(chunk)

Message(b, cut) ==
    LET body == SubSeq(b, cut.from, cut.to)
    IN  Parsed(IF reader = "native" THEN Decode(body) ELSE body)

Turn(last) ==
    LET cut == Cut(last.rest)
    IN  IF ~cut.is THEN last
        ELSE [rest |-> SubSeq(last.rest, cut.next, Len(last.rest)),
              out |-> last.out \o Message(last.rest, cut)]

\* A turn of the loop takes a message; there are no more turns than characters.
Consume(b) ==
    LET turns[n \in 0..Len(b)] ==
          IF n = 0 THEN [rest |-> b, out |-> <<>>] ELSE Turn(turns[n - 1])
    IN  turns[Len(b)]

-----------------------------------------------------------------------------
(* The readers.                                                              *)

FramingInit ==
    /\ reader \in Readers /\ sent \in [1..Count -> Texts]
    /\ arrived = 0 /\ buffer = <<>> /\ reads = <<>> /\ delivered = <<>>
    /\ apart = TRUE /\ whole = TRUE

Chunk(n) == SubSeq(Stream, arrived + 1, n)

Arrives(n) ==
    /\ n \in (arrived + 1)..Len(Stream)
    /\ arrived' = n /\ whole' = (whole /\ \E k \in 1..Count : n = Len(Frames(k)))
    /\ UNCHANGED <<reader, sent>>

\* read, readTcp and the function of createLengthPrefixedJSONReader.
Read(n) ==
    /\ reader # "ws" /\ Arrives(n)
    /\ LET c == Consume(buffer \o Chars(Chunk(n)))
       IN  buffer' = c.rest /\ delivered' = delivered \o c.out
    /\ UNCHANGED <<reads, apart>>

\* The frame's Blob is read, and the buffer is taken from before.
FrameArrives(n) ==
    /\ reader = "ws" /\ Len(reads) < MaxReads /\ Arrives(n)
    /\ reads' = Append(reads, [held |-> buffer, chunk |-> Chars(Chunk(n))])
    /\ apart' = (apart /\ reads = <<>>)
    /\ UNCHANGED <<buffer, delivered>>

Held(read) == read.held

BlobRead(i) ==
    /\ LET c == Consume(Held(reads[i]) \o reads[i].chunk)
       IN  buffer' = c.rest /\ delivered' = delivered \o c.out
    /\ reads' = RemoveAt(reads, i)
    /\ UNCHANGED <<reader, sent, arrived, apart, whole>>

FramingNext ==
    \/ \E n \in (arrived + 1)..Len(Stream) : Read(n) \/ FrameArrives(n)
    \/ \E i \in DOMAIN reads : BlobRead(i)

FramingSpec == FramingInit /\ [][FramingNext]_framingVars

-----------------------------------------------------------------------------
(* Properties.                                                               *)

\* Messages that have arrived whole.
Complete == CHOOSE k \in 0..Count :
    /\ Len(Frames(k)) <= arrived
    /\ k < Count => arrived < Len(Frames(k + 1))

AllNarrow == \A i \in 1..Count : "wide" \notin ToSet(sent[i])

\* The characters of one byte, which no chunk cuts in two.
Kept(chars) ==
    FlattenSeq([k \in DOMAIN chars |->
        IF chars[k].is \in {"wide", "replaced"} THEN <<>> ELSE <<chars[k]>>])

\* The same but for characters that were cut in two.
Alike(chars, others) == Kept(chars) = Kept(others)

\* Native messaging delivers what was sent, all of it as soon as it has arrived, in
\* order and character by character, wherever the stream is cut.
NativeExact ==
    reader = "native" => delivered = [i \in 1..Complete |-> Text(i)]

\* So does every other reader as long as all characters are of one byte, and no
\* websocket frame arrives while another is being read.
PlainInOrder ==
    AllNarrow /\ apart /\ reads = <<>> => delivered = [i \in 1..Complete |-> Text(i)]

\* Frames that overlap do no harm to messages of one frame: each is delivered once,
\* although not in order.
WholeFramesOnce ==
    AllNarrow /\ whole /\ reads = <<>> =>
        /\ Len(delivered) = Complete
        /\ \A i \in 1..Complete : Text(i) \in ToSet(delivered)

\* Messages of one-byte characters arrive as they were sent.
NarrowArrive == NativeExact /\ PlainInOrder /\ WholeFramesOnce

\* The pipe loses a character that a chunk cuts in two, but never a message, its
\* place in the order, or where it ends.
PipeKeepsFrames ==
    reader = "pipe" =>
        /\ Len(delivered) = Complete
        /\ \A i \in 1..Complete : Alike(delivered[i], Text(i))

\* A size in bytes makes NATS take a character too many for each wide one, and then skip
\* what is left of a line. So nothing happens to a message without wide characters where
\* those of each earlier message end before the line break that is before it.
Spared(i) ==
    /\ "wide" \notin ToSet(sent[i])
    /\ \A j \in 1..(i - 1) : "wide" \in ToSet(sent[j]) =>
         Len(Payload(j)) - Len(Text(j)) + 2 <= Len(Decode(Frames(i - 1))) - Len(Decode(Frames(j)))

\* NATS loses messages to wide characters, but what it delivers was sent, and in that
\* order; and no message is lost for good that is spared.
NatsLosesOnlyWide ==
    reader \in {"tcp", "ws"} /\ apart /\ reads = <<>> =>
        /\ \E place \in [DOMAIN delivered -> 1..Complete] :
             /\ \A i, j \in DOMAIN delivered : i < j => place[i] < place[j]
             /\ \A i \in DOMAIN delivered : Alike(delivered[i], Text(place[i]))
        /\ \A i \in 1..Complete : Spared(i) => Text(i) \in ToSet(delivered)

\* Characters of several bytes cost the pipe characters, and NATS messages, but
\* neither reader more than that.
WideDamage == PipeKeepsFrames /\ NatsLosesOnlyWide
=============================================================================
