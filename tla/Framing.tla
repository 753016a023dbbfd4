------------------------------- MODULE Framing -------------------------------
(***************************************************************************)
(* UnixSocketBase (unix_socket_base.hpp) over one direction of a Unix      *)
(* SOCK_STREAM socket.  The writer is sendMessage: one write() of the      *)
(* header {signature, size}, then one write() of the payload.  The reader  *)
(* is receiveMessage: one read() of sizeof(header), its validation, then   *)
(* one read() of `size` bytes handed to the action.                        *)
(*                                                                         *)
(* The socket is modelled at the level the kernel gives its guarantees:    *)
(* a write() is queued as buffers ("chunks") of at most Chunk bytes, each  *)
(* queued atomically while the bytes in flight are fewer than SockBuf; a   *)
(* read() returns min(queued, requested) bytes as soon as one is queued,   *)
(* or 0 at end of stream.  A byte is abstracted to its place in a frame:   *)
(* the frame it belongs to, header or payload, and its offset there.  A    *)
(* header read from anything but the header bytes of one frame fails the  *)
(* signature check.  The reader's fd is blocking (UnixSocketServer never   *)
(* sets O_NONBLOCK on an accepted socket); the writer's fd is blocking or  *)
(* not, as NonBlocking says.  posixSyscallError is taken to return errno   *)
(* when the call returned -1 and 0 otherwise, whatever the byte count.     *)
(***************************************************************************)
EXTENDS Naturals, Sequences, SequencesExt, FiniteSetsExt

CONSTANTS
  HdrLen,        \* sizeof(MsgHeader)
  MsgMaxSize,    \* MsgMaxSize: the largest size a reader accepts
  Chunk,         \* the largest buffer the kernel queues for one write()
  SockBuf,       \* SO_SNDBUF: a chunk is queued only while fewer bytes are in flight
  Sizes,         \* payload sizes sendMessage may be called with
  MaxFrames,     \* bound on sendMessage calls
  NonBlocking    \* the writer's fd has O_NONBLOCK

ASSUME HdrLen \in Nat \ {0} /\ Chunk >= HdrLen /\ SockBuf \in Nat \ {0}
ASSUME Sizes \subseteq Nat /\ MaxFrames \in Nat /\ NonBlocking \in BOOLEAN

VARIABLES
  sent,      \* one record per sendMessage call: payload size and outcome
             \* ("torn": it returned with only part of the frame queued)
  wpc,       \* writer: "idle", or inside the "hdr" or "pay" write()
  wleft,     \* bytes of the current write() not yet queued
  wsys,      \* bytes the current write() has queued so far
  wclosed,   \* the writer closed its fd (the peer process exits)
  stream,    \* bytes queued in the socket, oldest first
  rpc,       \* reader: "hdr", "pay", or closed on "eof" / "einval"
  rsize,     \* msg_size of the header just validated
  delivered  \* payloads the reader's action was called with

vars == <<sent, wpc, wleft, wsys, wclosed, stream, rpc, rsize, delivered>>

FrameIds == 1..MaxFrames
Byte == [f : FrameIds, h : BOOLEAN, i : Nat]

\* The bytes sendMessage(k-th frame) writes in its header or its payload.
HeaderBytes(k) == [i \in 1..HdrLen |-> [f |-> k, h |-> TRUE, i |-> i]]
PayloadBytes(k) == [i \in 1..sent[k].size |-> [f |-> k, h |-> FALSE, i |-> i]]

TypeOK ==
  /\ sent \in Seq([size : Sizes, st : {"writing", "ok", "failed", "torn"}])
  /\ wpc \in {"idle", "hdr", "pay"} /\ wleft \in Nat /\ wsys \in Nat
  /\ wclosed \in BOOLEAN
  /\ stream \in Seq(Byte) /\ Len(stream) < SockBuf + Chunk
  /\ rpc \in {"hdr", "pay", "eof", "einval"} /\ rsize \in Nat
  /\ delivered \in Seq(Seq(Byte))

Init ==
  /\ sent = <<>> /\ wpc = "idle" /\ wleft = 0 /\ wsys = 0 /\ wclosed = FALSE
  /\ stream = <<>>
  /\ rpc = "hdr" /\ rsize = 0 /\ delivered = <<>>

ReaderOpen == rpc \in {"hdr", "pay"}
Cur == Len(sent)

\* sendMessage is called: the header write() begins.
SendMessage(n) ==
  /\ wpc = "idle" /\ ~wclosed /\ Len(sent) < MaxFrames
  /\ sent' = Append(sent, [size |-> n, st |-> "writing"])
  /\ wpc' = "hdr" /\ wleft' = HdrLen /\ wsys' = 0
  /\ UNCHANGED <<wclosed, stream, rpc, rsize, delivered>>

\* The outcome of the frame once `short` (some write() returned early).
Outcome(short) == IF short \/ sent[Cur].st = "torn" THEN "torn" ELSE "ok"

\* The current write() returned a byte count, `short` of its length or not,
\* taken as success either way: go on to the payload write(), or return 0
\* from sendMessage.
WriteReturned(short) ==
  IF wpc = "hdr"
    THEN /\ wpc' = "pay" /\ wleft' = sent[Cur].size /\ wsys' = 0
         /\ sent' = IF short THEN [sent EXCEPT ![Cur].st = "torn"] ELSE sent
    ELSE /\ wpc' = "idle" /\ wleft' = 0 /\ wsys' = 0
         /\ sent' = [sent EXCEPT ![Cur].st = Outcome(short)]

\* sendMessage returns the error of the current write(); the frame is torn
\* if any of its bytes were queued.
WriteFailed ==
  /\ sent' = [sent EXCEPT ![Cur].st =
                 IF wpc = "hdr" /\ wsys = 0 THEN "failed" ELSE "torn"]
  /\ wpc' = "idle" /\ wleft' = 0 /\ wsys' = 0

\* Mutant: a chunk is queued whatever the bytes in flight.
WriteChunkIgnoresSndBuf ==
  /\ wpc \in {"hdr", "pay"} /\ ReaderOpen
  /\ LET n     == Min({wleft, Chunk})
         whole == IF wpc = "hdr" THEN HeaderBytes(Cur) ELSE PayloadBytes(Cur)
     IN /\ stream' = stream \o SubSeq(whole, wsys + 1, wsys + n)
        /\ IF n = wleft THEN WriteReturned(FALSE)
                        ELSE wleft' = wleft - n /\ wsys' = wsys + n /\ UNCHANGED <<wpc, sent>>
  /\ UNCHANGED <<wclosed, rpc, rsize, delivered>>

\* The kernel queues the next chunk of the current write(); the write()
\* returns once its last byte is queued.
WriteChunk ==
  /\ wpc \in {"hdr", "pay"} /\ ReaderOpen
  /\ Len(stream) < SockBuf
  /\ LET n     == Min({wleft, Chunk})
         whole == IF wpc = "hdr" THEN HeaderBytes(Cur) ELSE PayloadBytes(Cur)
     IN /\ stream' = stream \o SubSeq(whole, wsys + 1, wsys + n)
        /\ IF n = wleft THEN WriteReturned(FALSE)
                        ELSE wleft' = wleft - n /\ wsys' = wsys + n /\ UNCHANGED <<wpc, sent>>
  /\ UNCHANGED <<wclosed, rpc, rsize, delivered>>

\* A non-blocking write() finds no room: it returns the bytes queued so
\* far, or -1/EAGAIN if there are none.
WriteWouldBlock ==
  /\ NonBlocking /\ wpc \in {"hdr", "pay"} /\ ReaderOpen
  /\ Len(stream) >= SockBuf
  /\ IF wsys = 0 THEN WriteFailed ELSE WriteReturned(TRUE)
  /\ UNCHANGED <<wclosed, stream, rpc, rsize, delivered>>

\* The reader has closed its end: write() fails with EPIPE.
WriteBrokenPipe ==
  /\ wpc \in {"hdr", "pay"} /\ ~ReaderOpen
  /\ WriteFailed
  /\ UNCHANGED <<wclosed, stream, rpc, rsize, delivered>>

\* The writing process closes its socket between messages.
CloseWriter ==
  /\ wpc = "idle" /\ ~wclosed
  /\ wclosed' = TRUE
  /\ UNCHANGED <<sent, wpc, wleft, wsys, stream, rpc, rsize, delivered>>

\* A read() of up to `want` bytes may proceed: it blocks while nothing is
\* queued and the writer is still open.
Readable == stream # <<>> \/ wclosed
Got(want) == SubSeq(stream, 1, Min({Len(stream), want}))

\* The header bytes decode to a header carrying the right signature.
ValidHeader(b) ==
  Len(b) = HdrLen /\ b = HeaderBytes(b[1].f)

\* Mutant: msg_size taken one byte too long.
ReadHeaderSizeOffByOne ==
  /\ rpc = "hdr" /\ Readable
  /\ LET b == Got(HdrLen) IN
       /\ stream' = SubSeq(stream, Len(b) + 1, Len(stream))
       /\ CASE b = <<>> -> rpc' = "eof" /\ UNCHANGED rsize
            [] ValidHeader(b) /\ sent[b[1].f].size \in 1..MsgMaxSize ->
                 rpc' = "pay" /\ rsize' = sent[b[1].f].size + 1
            [] OTHER -> rpc' = "einval" /\ UNCHANGED rsize
  /\ UNCHANGED <<sent, wpc, wleft, wsys, wclosed, delivered>>

\* Mutant: the limit check written as size >= MsgMaxSize.
ReadHeaderRejectsMax ==
  /\ rpc = "hdr" /\ Readable
  /\ LET b == Got(HdrLen) IN
       /\ stream' = SubSeq(stream, Len(b) + 1, Len(stream))
       /\ CASE b = <<>> -> rpc' = "eof" /\ UNCHANGED rsize
            [] ValidHeader(b) /\ sent[b[1].f].size \in 1..(MsgMaxSize - 1) ->
                 rpc' = "pay" /\ rsize' = sent[b[1].f].size
            [] OTHER -> rpc' = "einval" /\ UNCHANGED rsize
  /\ UNCHANGED <<sent, wpc, wleft, wsys, wclosed, delivered>>

\* The header read and its validation (receiveMessage, step 1).
ReadHeader ==
  /\ rpc = "hdr" /\ Readable
  /\ LET b == Got(HdrLen) IN
       /\ stream' = SubSeq(stream, Len(b) + 1, Len(stream))
       /\ CASE b = <<>> -> rpc' = "eof" /\ UNCHANGED rsize
            [] ValidHeader(b) /\ sent[b[1].f].size \in 1..MsgMaxSize ->
                 rpc' = "pay" /\ rsize' = sent[b[1].f].size
            [] OTHER -> rpc' = "einval" /\ UNCHANGED rsize
  /\ UNCHANGED <<sent, wpc, wleft, wsys, wclosed, delivered>>

\* Mutant: the payload is read but the action is never called.
ReadPayloadDropsAction ==
  /\ rpc = "pay" /\ Readable
  /\ LET b == Got(rsize) IN
       /\ stream' = SubSeq(stream, Len(b) + 1, Len(stream))
       /\ rpc' = IF Len(b) = rsize THEN "hdr" ELSE "einval"
  /\ UNCHANGED <<sent, wpc, wleft, wsys, wclosed, rsize, delivered>>

\* The payload read, the short-read check and the action (step 2).
ReadPayload ==
  /\ rpc = "pay" /\ Readable
  /\ LET b == Got(rsize) IN
       /\ stream' = SubSeq(stream, Len(b) + 1, Len(stream))
       /\ IF Len(b) = rsize
            THEN rpc' = "hdr" /\ delivered' = Append(delivered, b)
            ELSE rpc' = "einval" /\ UNCHANGED delivered
  /\ UNCHANGED <<sent, wpc, wleft, wsys, wclosed, rsize>>

Writer ==
  \/ \E n \in Sizes : SendMessage(n)
  \/ WriteChunk \/ WriteWouldBlock \/ WriteBrokenPipe \/ CloseWriter

Reader == ReadHeader \/ ReadPayload

Next == Writer \/ Reader

\* The kernel queues a blocked write() once there is room, and the reader's
\* executor runs its callback whenever the fd is readable.
Fairness == WF_vars(WriteChunk) /\ WF_vars(WriteBrokenPipe) /\ WF_vars(Reader)

Spec == Init /\ [][Next]_vars /\ Fairness

-----------------------------------------------------------------------------
(* Properties *)

\* The frames whose sendMessage did not fail before queueing a byte, in order.
Kept == SelectSeq([k \in 1..Len(sent) |-> k], LAMBDA k : sent[k].st # "failed")
Expected == [j \in DOMAIN Kept |-> PayloadBytes(Kept[j])]

\* The receive path's promise: every payload handed to the action of
\* receiveMessage is, in order, the whole payload of the next frame written
\* by sendMessage.  The two write() calls, the kernel's chunking and the
\* reads never lose, split, splice or repeat a frame.
FramesIntact == IsPrefix(delivered, Expected)

\* A frame left half-queued by a write() that returned early (a partial
\* count, or an error after the header) is the only way the byte stream
\* can lose frame alignment.
TornOrIntact == (\A k \in DOMAIN sent : sent[k].st # "torn") => FramesIntact

\* receiveMessage closes the connection with EINVAL only if the writer sent
\* a size outside 1..MsgMaxSize or tore a frame: a stream of valid frames
\* (spec: payloads up to 1 MiB) is never rejected.
ValidFramesAccepted ==
  rpc = "einval" =>
    \E k \in DOMAIN sent : sent[k].size \notin 1..MsgMaxSize \/ sent[k].st = "torn"

\* Framing refines a FIFO of whole frames, which is what IpcCommon assumes
\* of the socket: a frame is put when sendMessage is called and taken when
\* the reader's action receives it.
AsFrame(k) == [id |-> k, size |-> sent[k].size]

FQ == INSTANCE FrameQueue WITH
        Frames   <- [id : FrameIds, size : Sizes],
        inFlight <- [j \in 1..(Len(Kept) - Len(delivered)) |-> AsFrame(Kept[Len(delivered) + j])],
        received <- [j \in DOMAIN delivered |-> [id |-> delivered[j][1].f, size |-> Len(delivered[j])]]

\* Every frame sendMessage is called with is received, whole and in order.
FrameQueueSpec == FQ!Spec

=============================================================================
