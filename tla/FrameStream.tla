------------------------------ MODULE FrameStream ------------------------------
(***************************************************************************)
(* The framing of module5/project5: frames are bytes on a TCP stream, the  *)
(* stream is read in pieces of any length, and Connection::read_frame cuts *)
(* frames out of its buffer (connection.rs, frame.rs).  A header is        *)
(* HeaderSize bytes, of which the last one stands for byte_count here.     *)
(***************************************************************************)
EXTENDS Integers, Sequences

CONSTANTS HeaderSize,  \* 24
          Frames,      \* records: count, payload
          MaxWritten   \* bound on the frames written

(* A frame with a length has a payload of that length (create_at); one without has
   its first line end behind its payload (get_payload). *)
ASSUME StreamAssumption ==
  /\ HeaderSize \in Nat \ {0} /\ MaxWritten \in Nat
  /\ \A f \in Frames :
       /\ f.count \in Nat /\ f.payload \in Seq(Nat)
       /\ f.count # 0 => Len(f.payload) = f.count
       /\ f.count = 0 => \A i \in 1..Len(f.payload) - 1 :
                           ~(f.payload[i] = 13 /\ f.payload[i + 1] = 10)

VARIABLES written,      \* the frames written so far
          bytes,        \* the bytes on their way
          writerState,  \* "open", "closed" behind a frame or "cut" within one
          readBuffer,   \* Connection.buffer
          received,     \* what read_frame returned
          readerState   \* "open", then "None" or "reset" at the end of the stream, or
                        \* "failed" before it
streamVars == <<written, bytes, writerState, readBuffer, received, readerState>>

CR == 13
LF == 10

StreamInit ==
  /\ written = <<>> /\ bytes = <<>> /\ writerState = "open"
  /\ readBuffer = <<>> /\ received = <<>> /\ readerState = "open"

(* A frame as it is sent; one without a length ends with a line end. *)
Encode(f) ==
  [i \in 1..HeaderSize |-> IF i = HeaderSize THEN f.count ELSE 0]
    \o f.payload \o (IF f.count = 0 THEN <<CR, LF>> ELSE <<>>)

(* Mutation of PayloadByLength: what there is of a frame is taken for all of it. *)
PayloadTooSoon(src, count) ==
  LET end == IF Len(src) < HeaderSize + count THEN Len(src) ELSE HeaderSize + count
  IN IF end = HeaderSize THEN {}
     ELSE {[payload |-> SubSeq(src, HeaderSize + 1, end), used |-> end]}

PayloadByLength(src, count) ==
  IF Len(src) < HeaderSize + count THEN {}
  ELSE {[payload |-> SubSeq(src, HeaderSize + 1, HeaderSize + count),
         used |-> HeaderSize + count]}

(* The first line end behind the header. *)
PayloadByLineEnd(src) ==
  LET ends == {i \in (HeaderSize + 1)..(Len(src) - 1) : src[i] = CR /\ src[i + 1] = LF}
  IN {[payload |-> SubSeq(src, HeaderSize + 1, i - 1), used |-> i + 1] :
        i \in {e \in ends : \A d \in ends : e <= d}}

(* What try_extract_frame finds at the start of the buffer: a frame and where it
   ends, or nothing (Error::Incomplete). *)
TryExtractFrame(src) ==
  IF Len(src) < HeaderSize THEN {}
  ELSE IF src[HeaderSize] # 0 THEN PayloadByLength(src, src[HeaderSize])
  ELSE PayloadByLineEnd(src)

-----------------------------------------------------------------------------
WriteFrame ==
  /\ writerState = "open" /\ Len(written) < MaxWritten
  /\ \E f \in Frames :
       written' = Append(written, f) /\ bytes' = bytes \o Encode(f)
  /\ UNCHANGED <<writerState, readBuffer, received, readerState>>

(* The writer goes; a write that was under way leaves a part of its frame. *)
CloseStream ==
  /\ writerState = "open"
  /\ \/ writerState' = "closed" /\ UNCHANGED bytes
     \/ /\ writerState' = "cut"
        /\ \E f \in Frames : \E n \in 1..(Len(Encode(f)) - 1) :
             bytes' = bytes \o SubSeq(Encode(f), 1, n)
  /\ UNCHANGED <<written, readBuffer, received, readerState>>

(* parse_frame: the bytes of the frame are drained. *)
ParseFrame ==
  /\ readerState = "open"
  /\ \E found \in TryExtractFrame(readBuffer) :
       /\ received' = Append(received, found.payload)
       /\ readBuffer' = SubSeq(readBuffer, found.used + 1, Len(readBuffer))
  /\ UNCHANGED <<written, bytes, writerState, readerState>>

ReadBuf ==
  /\ readerState = "open" /\ TryExtractFrame(readBuffer) = {}
  /\ \E n \in 1..Len(bytes) :
       /\ readBuffer' = readBuffer \o SubSeq(bytes, 1, n)
       /\ bytes' = SubSeq(bytes, n + 1, Len(bytes))
  /\ UNCHANGED <<written, writerState, received, readerState>>

EndOfStream ==
  /\ readerState = "open" /\ TryExtractFrame(readBuffer) = {}
  /\ bytes = <<>> /\ writerState # "open"
  /\ readerState' = IF readBuffer = <<>> THEN "None" ELSE "reset"
  /\ UNCHANGED <<written, bytes, writerState, readBuffer, received>>

(* The error of read_buf: what is in the buffer and on its way is lost. *)
ReadBufFails ==
  /\ readerState = "open" /\ TryExtractFrame(readBuffer) = {}
  /\ readerState' = "failed"
  /\ UNCHANGED <<written, bytes, writerState, readBuffer, received>>

StreamNext ==
  WriteFrame \/ CloseStream \/ ParseFrame \/ ReadBuf \/ EndOfStream \/ ReadBufFails

StreamSpec == StreamInit /\ [][StreamNext]_streamVars

-----------------------------------------------------------------------------
(* However the stream is cut into pieces, the frames arrive whole and in order; at the
   end of the stream all of them have arrived, and whether it ended behind a frame or
   within one is what read_frame says (Connection::read_frame). *)
StreamInv ==
  /\ Len(received) <= Len(written)
  /\ \A i \in DOMAIN received : received[i] = written[i].payload
  /\ readerState \in {"None", "reset"} => Len(received) = Len(written)
  /\ readerState = "None" => writerState = "closed"
  /\ readerState = "reset" => writerState = "cut"
=============================================================================
