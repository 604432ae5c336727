------------------------------ MODULE MainLoop ------------------------------
(***************************************************************************)
(* The wire between the two processes, byte by byte, and what the Python    *)
(* process does with it: NxTinygrad.Protocol and priv/worker/protocol.py,   *)
(* main.py's loop and dispatch, and the commands that move bytes, with the  *)
(* numpy carriers of dtype.py.                                              *)
(*                                                                          *)
(* A frame is a sequence of symbols, which are tuples: every fixed-width    *)
(* integer n is the symbol <<n>>, a blob has one symbol for each byte, JSON *)
(* text is an opening brace and one symbol for the object it encodes.  The  *)
(* field of the blob count holds the values below CountBase (2^16), the      *)
(* length before an answer those below PrefixBase (2^32).  Of the numbers     *)
(* that two symbols may stand for, the model knows what adding a zero to one  *)
(* tells apart.                                                             *)
(***************************************************************************)
EXTENDS Integers, Sequences, FiniteSets, SequencesExt

CONSTANTS
  Byte,          \* symbols of a blob
  Requests,      \* what the client may ask: [command, ..., blobs]
  MaxRequests,   \* bound: requests of one run of the worker
  CountBase,     \* values of the blob count field
  MaxFrame,      \* MAX_FRAME_BYTES
  PrefixBase,    \* values of the length before an answer
  PipeSize,      \* symbols in the pipe at which the port is busy
  HostOutputs,   \* bound: outputs of an executable run with host outputs
  Zero, MinusZero, NaN,            \* components of a complex element; one NaN is
  Negative, NotFinite, Signaling   \* all the quiet ones, Negative has no NaN

ASSUME RequestAssumption == \A r \in Requests : r.blobs \in Seq(Seq(Byte))
ASSUME BoundAssumption ==
  /\ MaxRequests \in Nat /\ MaxFrame \in Nat /\ PipeSize \in Nat /\ HostOutputs \in Nat
  /\ CountBase \in Nat \ {0} /\ PrefixBase \in Nat
ASSUME ComponentAssumption ==
  /\ {Zero, MinusZero, NaN} \cup Negative \cup NotFinite \subseteq Seq(Byte)
  /\ Len(Zero) = 2 /\ Len(MinusZero) = 2 /\ Len(NaN) = 2
  /\ MinusZero \in Negative /\ Zero \notin Negative
  /\ NaN \in NotFinite \ Signaling /\ Signaling \subseteq NotFinite

VARIABLES
  sent,      \* requests the client wrote, with their ids
  closed,    \* the client's end of stdin is closed
  stdin,     \* symbols on their way to the worker
  buf,       \* what read_exact holds
  need,      \* how many symbols it waits for
  reading,   \* "prefix" or "body"
  exit,      \* the exit code, or Running
  handled,   \* requests the worker carried out
  answers,   \* and what it answered
  registry,  \* TensorRegistry: id -> [dtype, tensor]
  nextId,
  origin,    \* ghost: id -> the dtype and the blob the buffer was made from
  replies    \* what the client decoded: the VM delivers packets whole, in order

workerVars == <<buf, need, reading, exit, handled, answers, registry, nextId,
                origin>>
vars == <<sent, closed, stdin, workerVars, replies>>

Running == 0 - 1
Magic == <<7>>
Open  == <<8>>    \* the brace
Number(symbol) == symbol[1]

-----------------------------------------------------------------------------
(* The frame *)

Lengths(blobs) == [i \in DOMAIN blobs |-> <<Len(blobs[i])>>]
Layout(id, count, meta, blobs) ==
  <<Magic, <<id>>, <<2>>, <<count>>, <<0>> >> \o Lengths(blobs)
     \o <<Open, <<"object", meta>> >> \o FlattenSeq(blobs)

\* Elixir's bit syntax keeps the low bits of a count that is too large...
Encode(id, meta, blobs) == Layout(id, Len(blobs) % CountBase, meta, blobs)

\* Mutant: the length table after the metadata.
EncodeTableLast(id, meta, blobs) ==
  <<Magic, <<id>>, <<2>>, <<Len(blobs)>>, <<0>>, Open, <<"object", meta>> >>
     \o Lengths(blobs) \o FlattenSeq(blobs)
EncodeFrame(id, meta, blobs) == Layout(id, Len(blobs), meta, blobs)

\* ... where struct.pack raises, as it does over a length beyond the prefix.
EncodeRaises(id, meta, blobs) ==
  Len(blobs) >= CountBase \/ Len(EncodeFrame(id, meta, blobs)) >= PrefixBase

Header == 5
Bad == [ok |-> FALSE]

\* Where each blob begins, and the end of the last.
Starts(table, first) ==
  LET from[i \in 1 .. Len(table) + 1] ==
        IF i = 1 THEN first ELSE from[i - 1] + Number(table[i - 1])
  IN  from

\* decode_frame of protocol.py and Protocol.decode, which check the same
\* things in the same order, the last one that nothing follows the blobs.
Decode(p) ==
  LET count   == Number(p[4])
      json    == Number(p[3])
      table   == SubSeq(p, Header + 1, Header + count)
      at      == Header + count
      text    == SubSeq(p, at + 1, at + json)
      from    == Starts(table, at + json)
  IN  IF Len(p) < Header \/ p[1] # Magic \/ at > Len(p) THEN Bad
      ELSE IF Len(text) # json \/ text[1] # Open THEN Bad
      ELSE IF from[count + 1] # Len(p) THEN Bad
      ELSE [ok |-> TRUE, id |-> Number(p[2]), meta |-> text[2][2],
            blobs |-> [i \in 1 .. count |-> SubSeq(p, from[i] + 1, from[i + 1])]]
\* Mutant: an accumulated list handed on as it is.
DecodeUnreversed(p) ==
  LET d == Decode(p) IN IF d.ok THEN [d EXCEPT !.blobs = Reverse(@)] ELSE d
DecodeFrame(p) == Decode(p)

-----------------------------------------------------------------------------
(* The numpy carriers *)

\* Bytes of an element; a complex one is two components.
Itemsize == [u8 |-> 1, bf16 |-> 2, c64 |-> 4]
Supported == DOMAIN Itemsize
IsComplex(dtype) == dtype = "c64"
Count(shape) == FoldLeft(LAMBDA n, d : n * d, 1, shape)

\* np.frombuffer(blob, dtype).reshape(shape): each raises for itself.
Fits(blob, dtype, shape) ==
  Len(blob) % Itemsize[dtype] = 0 /\ Len(blob) \div Itemsize[dtype] = Count(shape)
FromBuffer(blob, dtype) ==
  [i \in 1 .. (Len(blob) \div Itemsize[dtype]) |->
      SubSeq(blob, (i - 1) * Itemsize[dtype] + 1, i * Itemsize[dtype])]
ToBytes(arr) == FlattenSeq(arr)

\* A complex array becomes floats with a last axis [real, imag]; bf16 travels
\* in uint16 and has its bits taken over; anything else is stored as it is.
\* Mutant: the components as planes, the new axis in front.
WireTensorPlanes(arr, dtype, shape) ==
  LET half == Itemsize[dtype] \div 2
  IN  IF IsComplex(dtype)
      THEN [shape |-> <<2>> \o shape,
            data  |-> [i \in DOMAIN arr |-> SubSeq(arr[i], 1, half)]
                        \o [i \in DOMAIN arr |-> SubSeq(arr[i], half + 1, 2 * half)]]
      ELSE [shape |-> shape, data |-> arr]
WireTensor(arr, dtype, shape) ==
  LET half == Itemsize[dtype] \div 2
  IN  IF IsComplex(dtype)
      THEN [shape |-> Append(shape, 2),
            data  |-> FlattenSeq([i \in DOMAIN arr |->
                        <<SubSeq(arr[i], 1, half), SubSeq(arr[i], half + 1, 2 * half)>>])]
      ELSE [shape |-> shape, data |-> arr]

\* re + 1j * im in numpy: the product is (0 * im - 0, 0 + im), whose real part
\* is a NaN unless im is finite, and a zero with im's sign otherwise.
AddZero(x) == IF x = MinusZero THEN Zero ELSE IF x \in Signaling THEN NaN ELSE x
RealPart(re, im) ==
  IF im \in NotFinite THEN NaN
  ELSE IF im \in Negative /\ re = MinusZero THEN re ELSE AddZero(re)

WireNumpy(t, dtype) ==
  IF IsComplex(dtype)
  THEN [i \in 1 .. (Len(t.data) \div 2) |->
          RealPart(t.data[2 * i - 1], t.data[2 * i]) \o AddZero(t.data[2 * i])]
  ELSE t.data

-----------------------------------------------------------------------------
(* The commands *)

Ok(result, blobs) == [ok |-> TRUE, result |-> result, blobs |-> blobs]
Error(class)      == [ok |-> FALSE, class |-> class, blobs |-> <<>>]
Meta(answer) == [k \in DOMAIN answer \ {"blobs"} |-> answer[k]]
None == [none |-> 0]
Buffer(id) == [id |-> id]

Without(ids) == [i \in DOMAIN registry \ ids |-> registry[i]]
With(f, ids, value) == [i \in DOMAIN f \cup ids |-> IF i \in ids THEN value ELSE f[i]]

Answers(a) == answers' = Append(answers, a)
Unchanged  == UNCHANGED <<registry, nextId, origin>>

\* The class of the error an upload ends with, "" for none.
UploadError(m, blobs) ==
  IF blobs = <<>> THEN "ProtocolError"
  ELSE IF m.dtype \notin Supported THEN "UnsupportedDtype"
  ELSE IF ~Fits(blobs[1], m.dtype, m.shape) THEN "ValueError" ELSE ""

Received(m, blob) ==
  [dtype  |-> m.dtype,
   tensor |-> WireTensor(FromBuffer(blob, m.dtype), m.dtype, m.shape)]
MadeFrom(m, blob) == [dtype |-> m.dtype, blob |-> blob]

\* TensorRegistry.put, for n buffers alike, of one origin.
Put(n, buffer, made) ==
  LET ids == nextId .. (nextId + n - 1)
  IN  /\ registry' = With(registry, ids, buffer)
      /\ origin' = With(origin, ids, made)
      /\ nextId' = nextId + n

\* Mutant: an id is registered before the blob is looked at.
CmdUploadPutsFirst(m, blobs) ==
  /\ m.command = "upload"
  /\ IF UploadError(m, blobs) = ""
     THEN Put(1, Received(m, blobs[1]), MadeFrom(m, blobs[1])) /\ Answers(Ok(Buffer(nextId), <<>>))
     ELSE /\ Answers(Error(UploadError(m, blobs)))
          /\ Put(1, [dtype |-> "u8", tensor |-> [shape |-> m.shape, data |-> <<>>]],
                  MadeFrom(m, <<>>))
CmdUpload(m, blobs) ==
  /\ m.command = "upload"
  /\ IF UploadError(m, blobs) # "" THEN Answers(Error(UploadError(m, blobs))) /\ Unchanged
     ELSE Put(1, Received(m, blobs[1]), MadeFrom(m, blobs[1])) /\ Answers(Ok(Buffer(nextId), <<>>))

Missing(id) == id \notin DOMAIN registry
Data(id) == ToBytes(WireNumpy(registry[id].tensor, registry[id].dtype))

CmdDownload(m) ==
  /\ m.command = "download" /\ Unchanged
  /\ Answers(IF Missing(m.id) THEN Error("StaleReference")
             ELSE Ok(Buffer(m.id), <<Data(m.id)>>))

CmdRelease(m) ==
  /\ m.command = "release"
  /\ registry' = Without(m.ids)
  /\ Answers(Ok([released |-> Cardinality(m.ids \cap DOMAIN registry)], <<>>))
  /\ UNCHANGED <<nextId, origin>>

\* An execute whose outputs all equal its input.  Host outputs become blobs.
\* Of the two device outputs the n-th may fail to be copied, after the ones
\* before it were registered.
CmdExecute(m) ==
  /\ m.command = "execute"
  /\ IF Missing(m.id) THEN Answers(Error("StaleReference")) /\ Unchanged
     ELSE IF m.host
     THEN /\ Unchanged
          /\ \E n \in 1 .. HostOutputs :
               Answers(Ok(Buffer(m.id), [i \in 1 .. n |-> Data(m.id)]))
     ELSE \E n \in 0 .. 2 :
              /\ Put(n, registry[m.id], origin[m.id])
              /\ Answers(IF n = 2 THEN Ok(Buffer(nextId), <<>>) ELSE Error("RuntimeError"))

\* One eager node of inline inputs, which passes its last one on or fails; it
\* fails over an input that an upload would not take either.
CmdRunNode(m, blobs) ==
  /\ m.command = "run_node"
  /\ \/ blobs # <<>> /\ UploadError(m, <<Last(blobs)>>) = ""
        /\ Put(1, Received(m, Last(blobs)), MadeFrom(m, Last(blobs)))
        /\ Answers(Ok(Buffer(nextId), <<>>))
     \/ Unchanged /\ Answers(Error("ProtocolError"))

CmdShutdown(m) == m.command = "shutdown" /\ Answers(Ok(None, <<>>)) /\ Unchanged

\* The commands left out only read: hello, device_info, stats, synchronize.
Known == {"upload", "download", "release", "execute", "run_node", "shutdown"}
CmdUnknown(m) == m.command \notin Known /\ Answers(Error("ProtocolError")) /\ Unchanged

\* Handler.handle: every exception of a command becomes a reply.
Handle(m, blobs) ==
  \/ CmdUpload(m, blobs)
  \/ CmdDownload(m)
  \/ CmdRelease(m)
  \/ CmdExecute(m)
  \/ CmdRunNode(m, blobs)
  \/ CmdShutdown(m)
  \/ CmdUnknown(m)

-----------------------------------------------------------------------------
(* The client and the pipe *)

Init ==
  /\ sent = <<>> /\ closed = FALSE /\ stdin = <<>>
  /\ buf = <<>> /\ need = 2 /\ reading = "prefix" /\ exit = Running
  /\ handled = <<>> /\ answers = <<>>
  /\ registry = <<>> /\ nextId = 1 /\ origin = <<>>
  /\ replies = <<>>

\* Port.command: the frame with its length before it.  No request is so long
\* that its length needs more than that prefix.
Write(r) ==
  LET id == Len(sent) + 1
      f  == Encode(id, r.meta, r.blobs)
  IN  /\ ~closed /\ exit = Running /\ Len(sent) < MaxRequests /\ Len(stdin) <= PipeSize
      /\ sent' = Append(sent, [id |-> id, meta |-> r.meta, blobs |-> r.blobs])
      /\ stdin' = stdin \o << <<Len(f) \div 16>>, <<Len(f) % 16>> >> \o f
      /\ UNCHANGED <<closed, workerVars, replies>>

\* The port is closed; what was not yet in the pipe is lost.
Close ==
  /\ ~closed /\ exit = Running
  /\ closed' = TRUE
  /\ \E n \in {0, 1, 3, Len(stdin) - 1, Len(stdin)} \cap (0 .. Len(stdin)) :
        stdin' = SubSeq(stdin, 1, n)
  /\ UNCHANGED <<sent, workerVars, replies>>

-----------------------------------------------------------------------------
(* The worker *)

NotHandled == UNCHANGED <<handled, answers, registry, nextId, origin>>
OnlyReads  == NotHandled /\ UNCHANGED <<sent, closed, replies>>

\* read_exact: a read returns one symbol, or all that is there and wanted.
Chunk(n) ==
  /\ buf' = buf \o SubSeq(stdin, 1, n)
  /\ stdin' = SubSeq(stdin, n + 1, Len(stdin))
\* Mutant: waits until everything wanted is there in one piece.
ReadWhole ==
  /\ exit = Running /\ Len(buf) < need /\ Len(stdin) >= need - Len(buf)
  /\ Chunk(need - Len(buf))
  /\ UNCHANGED <<need, reading, exit>> /\ OnlyReads
ReadChunk ==
  /\ exit = Running /\ stdin # <<>> /\ Len(buf) < need
  /\ \E n \in {1, need - Len(buf)} : n <= Len(stdin) /\ Chunk(n)
  /\ UNCHANGED <<need, reading, exit>> /\ OnlyReads

\* End of input: clean before a packet (or inside its prefix), fatal inside it.
InputEnds ==
  /\ exit = Running /\ closed /\ stdin = <<>> /\ Len(buf) < need
  /\ exit' = IF reading = "prefix" THEN 0 ELSE 2
  /\ UNCHANGED <<stdin, buf, need, reading>> /\ OnlyReads

\* read_packet: the length, then the payload.
PacketLength == 16 * Number(buf[1]) + Number(buf[2])
\* Mutant: a frame of exactly the largest size is refused.
ReadPrefixBelow ==
  /\ exit = Running /\ reading = "prefix" /\ Len(buf) = need
  /\ IF PacketLength >= MaxFrame THEN exit' = 2 /\ UNCHANGED <<buf, need, reading>>
     ELSE buf' = <<>> /\ need' = PacketLength /\ reading' = "body" /\ UNCHANGED exit
  /\ UNCHANGED stdin /\ OnlyReads
ReadPrefix ==
  /\ exit = Running /\ reading = "prefix" /\ Len(buf) = need
  /\ IF PacketLength > MaxFrame THEN exit' = 2 /\ UNCHANGED <<buf, need, reading>>
     ELSE buf' = <<>> /\ need' = PacketLength /\ reading' = "body" /\ UNCHANGED exit
  /\ UNCHANGED stdin /\ OnlyReads

HasPacket == exit = Running /\ reading = "body" /\ Len(buf) = need

Undecodable ==
  /\ HasPacket /\ ~DecodeFrame(buf).ok
  /\ exit' = 2
  /\ UNCHANGED <<stdin, buf, need, reading>> /\ OnlyReads

\* One turn of main's loop: decode, handle, encode, write, and stop if told to.
\* An answer that cannot be encoded, or written to a closed port, ends the process.
Serve ==
  /\ HasPacket /\ DecodeFrame(buf).ok
  /\ LET r == DecodeFrame(buf)
     IN  /\ handled' = Append(handled, [id |-> r.id, meta |-> r.meta, blobs |-> r.blobs])
         /\ Handle(r.meta, r.blobs)
         /\ LET a == Last(answers')
            IN  IF EncodeRaises(r.id, Meta(a), a.blobs) \/ closed THEN exit' = 1 /\ UNCHANGED replies
                ELSE /\ replies' = Append(replies, DecodeFrame(EncodeFrame(r.id, Meta(a), a.blobs)))
                     /\ exit' = IF r.meta.command = "shutdown" THEN 0 ELSE Running
  /\ buf' = <<>> /\ need' = 2 /\ reading' = "prefix"
  /\ UNCHANGED <<sent, closed, stdin>>

Worker == ReadChunk \/ InputEnds \/ ReadPrefix \/ Undecodable \/ Serve
Next == (\E r \in Requests : Write(r)) \/ Close \/ Worker
Spec == Init /\ [][Next]_vars
\* The Python process runs while it has something to do.
FairSpec == Spec /\ WF_vars(Worker)

-----------------------------------------------------------------------------
(* Properties *)

\* However the pipe cuts the stream, the worker carries out exactly the requests
\* that were written, in their order, with their own ids, arguments and blobs:
\* no wrapped count, short read or closed pipe makes it see another request
\* (protocol.py: read_exact, read_packet, decode_frame).
NeverMisread == IsPrefix(handled, sent)

\* "Every request gets exactly one response with the same request id"
\* (docs/protocol.md:24), as far as the worker got: the i-th reply decodes, has
\* the i-th request's id and is what the worker answered to it. Only an answer
\* whose writing ended the worker (exit 1) is missing.
OneReplyEach ==
  /\ \A i \in DOMAIN replies :
        /\ replies[i].ok /\ replies[i].id = sent[i].id
        /\ replies[i].meta = Meta(answers[i]) /\ replies[i].blobs = answers[i].blobs
  /\ Len(replies) = Len(handled) - (IF exit = 1 THEN 1 ELSE 0)

\* A download, and a host output, is what was uploaded, whatever the dtype's
\* carrier does to it on the way into and out of tinygrad, and whatever was
\* released, copied or registered since: as many bytes, and every element byte
\* for byte, save a complex one that does not survive re + 1j * im (main.py:
\* cmd_upload, cmd_download, cmd_execute; dtype.py: wire_tensor, wire_numpy).
Steady(re, im) ==
  /\ im \notin NotFinite /\ im # MinusZero /\ re \notin Signaling
  /\ re = MinusZero => im \in Negative
Survives(e) == Steady(SubSeq(e, 1, 2), SubSeq(e, 3, 4))
SameBytes(made, blob) ==
  /\ Len(blob) = Len(made.blob)
  /\ LET was == FromBuffer(made.blob, made.dtype)
     IN  \A i \in DOMAIN was :
           (IsComplex(made.dtype) => Survives(was[i]))
             => FromBuffer(blob, made.dtype)[i] = was[i]
BytesSurvive ==
  \A i \in DOMAIN answers : \A k \in DOMAIN answers[i].blobs :
    /\ handled[i].meta.id \in DOMAIN origin
    /\ SameBytes(origin[handled[i].meta.id], answers[i].blobs[k])

\* A request that is answered with an error leaves every buffer as it was, and
\* none behind, save a device execute whose later output fails (main.py:190).
ErrorsKeepBuffers ==
  [][LET i == Len(answers')
     IN  i > Len(answers) /\ ~answers'[i].ok =>
           /\ \A b \in DOMAIN registry : b \in DOMAIN registry' /\ registry'[b] = registry[b]
           /\ nextId' # nextId =>
                handled'[i].meta.command = "execute" /\ nextId' = nextId + 1]_vars

\* The worker ends only when its input ends, when it is told to, or over a frame
\* it cannot take: a request too large or with more blobs than the field counts,
\* or an answer with more blobs, or of more bytes, than its two fields count
\* (main.py: main; protocol.py: write_packet, encode_frame).
Wraps(r) == Len(r.blobs) >= CountBase
TooLarge(r) == Len(Encode(r.id, r.meta, r.blobs)) > MaxFrame
EndsForAReason ==
  /\ exit = 0 => closed \/ handled[Len(handled)].meta.command = "shutdown"
  /\ exit = 1 => closed \/ LET a == Last(answers)
                            IN  EncodeRaises(Last(handled).id, Meta(a), a.blobs)
  /\ exit = 2 => closed \/ \E i \in DOMAIN sent : Wraps(sent[i]) \/ TooLarge(sent[i])

\* A request that was written is answered, unless the worker ends.
EveryRequestAnswered ==
  \A n \in 1 .. MaxRequests : Len(sent) >= n ~> Len(replies) >= n \/ exit # Running
=============================================================================
