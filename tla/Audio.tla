---- MODULE Audio ----
(* From a request's body to the audio that is played (src/carle/speak/server.py's
   body reading, decode.py): the body arrives by length or in chunks, may stop
   short or fail, and goes one of three ways: a clip is read whole, under a cap,
   and given to a decoder; a declared raw stream is cut into frames and the
   frames into device-sized blocks; a compressed stream is handed to av through
   a file-like reader. The n-th byte of a body is n, so that
   a lost, repeated or moved byte shows. Sample values, the mixing of channels
   and the resampler are left out: a raw stream at the device's rate passes
   through it unchanged. What av and the other backends decode is theirs, and so
   is which of them a container's first bytes call for. *)
EXTENDS Integers, FiniteSets, SequencesExt

CONSTANTS
  Bodies,       \* [chunked, sizes, sent, bad]: see below
  Ways,         \* what is asked of the body
  ReadSize,     \* how much a read takes of a body of declared length
  MaxClip,      \* bytes of a clip
  FrameBytes,   \* of raw PCM: item size times channels
  BlockFrames,  \* frames of a device block
  AvReads       \* how much av asks for

\* frame_bytes and frames_per_block are checked before the first byte is read; a
\* size is a header's number, and the connection ends after some bytes.
ASSUME AudioAssumption ==
  /\ ReadSize \in Nat /\ MaxClip \in Nat /\ AvReads \subseteq Nat
  /\ FrameBytes \in Nat \ {0} /\ BlockFrames \in Nat \ {0}
  /\ \A b \in Bodies: b.sizes \in Seq(Nat) /\ b.sent \in Nat

(* A body has the sizes its sender declares, one for Content-Length or one for
   every chunk; sent says after how many bytes of data the connection ended,
   bad which chunk's size line cannot be read, 0 if none. *)
VARIABLES
  body,         \* the body, fixed
  way,          \* a clip: "clip", or "pcm" if declared raw; a stream: "raw", "av"
                \* (sniffed) or "named" (av, source_format given)
  piece,        \* the chunk being read
  offset,       \* bytes of it read
  got,          \* every byte the body's iterator has yielded
  over,         \* the iterator has ended
  buffer,       \* bytes held: the clip so far, pending, or the reader's
  frames,       \* raw: frames held for the next block
  blocks,       \* raw: blocks yielded
  want, taken,  \* av: the read it is in, and all it has been given
  outcome

audio == <<body, way, piece, offset, got, over, buffer, frames, blocks, want, taken, outcome>>
consumer == <<buffer, frames, blocks, want, taken, outcome>>

Whole == {"clip", "pcm"}

Smaller(a, b) == IF a < b THEN a ELSE b

---------------------------------------------------------------------------
(* _iter_body and _iter_chunked.                                             *)

Unread == body.sent - Len(got)

\* One read: of a chunk all of it, of a declared length at most ReadSize, and
\* less if the connection has ended.
ReadLength ==
  LET rest == body.sizes[piece] - offset
  IN Smaller(Unread, IF body.chunked THEN rest ELSE Smaller(ReadSize, rest))

HasChunk == piece <= Len(body.sizes) /\ piece # body.bad
Yields == ~over /\ HasChunk /\ ReadLength > 0
Bytes == [i \in 1..ReadLength |-> Len(got) + i]

\* The iterator yields Bytes, and goes on to the next chunk after the last of one.
Step ==
  /\ got' = got \o Bytes
  /\ IF offset + ReadLength = body.sizes[piece]
     THEN piece' = piece + 1 /\ offset' = 0
     ELSE piece' = piece /\ offset' = offset + ReadLength
  /\ UNCHANGED <<body, way, over>>

\* The consumer asks the iterator for more: av's reader while it is short of the
\* read it is in, and before that for the first bytes, if these are sniffed.
Asks ==
  /\ outcome = "open" /\ ~over
  /\ way \notin {"av", "named"} \/ want > Len(buffer) \/ (way = "av" /\ got = <<>>)

\* It ends with the last chunk, at a size line it cannot read, and where the
\* connection ends, all alike.
BodyEnds ==
  /\ Asks /\ ~Yields /\ over' = TRUE
  /\ UNCHANGED <<body, way, piece, offset, got, consumer>>

\* A Content-Length that is no number, or a connection that is reset, raises in
\* the iterator: the request fails, in its handler or its producer.
ReadFails ==
  /\ Asks /\ outcome' = "failed"
  /\ UNCHANGED <<body, way, piece, offset, got, over, buffer, frames, blocks, want, taken>>

---------------------------------------------------------------------------
(* Clips: _read_body, decode_clip.                                           *)

\* A plausible bug: the cap is checked on what was there before.
ReadClipLate ==
  /\ way \in Whole /\ outcome = "open" /\ Yields /\ Step
  /\ IF Len(buffer) > MaxClip
     THEN outcome' = "too large" /\ buffer' = buffer
     ELSE outcome' = outcome /\ buffer' = buffer \o Bytes
  /\ UNCHANGED <<frames, blocks, want, taken>>

\* The body is given up the moment it exceeds the cap.
ReadClip ==
  /\ way \in Whole /\ outcome = "open" /\ Yields /\ Step
  /\ IF Len(buffer) + ReadLength > MaxClip
     THEN outcome' = "too large" /\ buffer' = buffer
     ELSE outcome' = outcome /\ buffer' = buffer \o Bytes
  /\ UNCHANGED <<frames, blocks, want, taken>>

\* The bytes go to the backend of the container they look like, which decodes
\* them or not; declared raw PCM has to be whole frames, of which there may be none.
DecodeClip ==
  /\ outcome = "open" /\ over
  /\ \/ way = "clip" /\ outcome' \in {"decoded", "error"}
     \/ way = "pcm" /\ outcome' = IF Len(buffer) % FrameBytes = 0 THEN "decoded" ELSE "error"
  /\ UNCHANGED <<body, way, piece, offset, got, over, buffer, frames, blocks, want, taken>>

---------------------------------------------------------------------------
(* Raw streams: _stream_raw_pcm and _rechunk.                                *)

\* As many pieces of the size as there are, and what is left.
Pieces(s, size) == [i \in 1..(Len(s) \div size) |-> SubSeq(s, (i - 1) * size + 1, i * size)]
Rest(s, size) == SubSeq(s, (Len(s) \div size) * size + 1, Len(s))
Frames(bytes) == Pieces(bytes, FrameBytes)
Blocks(fs) == Pieces(fs, BlockFrames)

\* A plausible bug: the bytes of a frame split over two chunks are dropped.
PushRawDropping ==
  /\ way = "raw" /\ outcome = "open" /\ Yields /\ Step
  /\ buffer' = <<>>
  /\ blocks' = blocks \o Blocks(frames \o Frames(Bytes))
  /\ frames' = Rest(frames \o Frames(Bytes), BlockFrames)
  /\ UNCHANGED <<want, taken, outcome>>

\* The whole frames of what is pending go on, the rest waits; as many blocks as
\* are full are yielded.
PushRaw ==
  /\ way = "raw" /\ outcome = "open" /\ Yields /\ Step
  /\ LET pending == buffer \o Bytes
         held == frames \o Frames(pending)
     IN /\ buffer' = Rest(pending, FrameBytes)
        /\ blocks' = blocks \o Blocks(held)
        /\ frames' = Rest(held, BlockFrames)
  /\ UNCHANGED <<want, taken, outcome>>

\* A plausible bug: the frames held for a block are played before the error.
EndRawFlushing ==
  /\ way = "raw" /\ outcome = "open" /\ over
  /\ outcome' = IF buffer # <<>> \/ blocks \o frames = <<>> THEN "error" ELSE "played"
  /\ blocks' = IF frames # <<>> THEN Append(blocks, frames) ELSE blocks
  /\ frames' = <<>>
  /\ UNCHANGED <<body, way, piece, offset, got, over, buffer, want, taken>>

\* A stream that ends inside a frame, or without one, is an error, and then the
\* frames held for a block are not played; else the last block may be short.
EndRaw ==
  /\ way = "raw" /\ outcome = "open" /\ over
  /\ outcome' = IF buffer # <<>> \/ blocks \o frames = <<>> THEN "error" ELSE "played"
  /\ blocks' = IF outcome' = "played" /\ frames # <<>> THEN Append(blocks, frames) ELSE blocks
  /\ frames' = IF outcome' = "played" THEN <<>> ELSE frames
  /\ UNCHANGED <<body, way, piece, offset, got, over, buffer, want, taken>>

---------------------------------------------------------------------------
(* Compressed streams: _stream_with_av and _ChunkReader.                     *)

\* Unless the container is named, the first bytes are taken for its magic and
\* given to the reader as its head.
SniffHead ==
  /\ way = "av" /\ outcome = "open" /\ got = <<>>
  /\ \/ Yields /\ Step /\ buffer' = Bytes /\ outcome' = outcome
     \/ over /\ outcome' = "error" /\ UNCHANGED <<body, way, piece, offset, got, over, buffer>>
  /\ UNCHANGED <<frames, blocks, want, taken>>

AvReading == outcome = "open" /\ (way = "av" => got # <<>>) /\ way \in {"av", "named"}

AvAsks ==
  /\ AvReading /\ want = 0
  /\ want' \in AvReads
  /\ UNCHANGED <<body, way, piece, offset, got, over, buffer, frames, blocks, taken, outcome>>

\* read(n) fills its buffer to n or to the end of the body ...
FillReader ==
  /\ AvReading /\ want > Len(buffer) /\ Yields /\ Step
  /\ buffer' = buffer \o Bytes
  /\ UNCHANGED <<frames, blocks, want, taken, outcome>>

\* ... and hands out at most n: after the end nothing, which is the end to av,
\* and an error if it was given nothing before.
AvTakes ==
  /\ AvReading /\ want > 0 /\ (want <= Len(buffer) \/ over)
  /\ LET n == Smaller(want, Len(buffer))
     IN /\ taken' = taken \o SubSeq(buffer, 1, n) /\ buffer' = SubSeq(buffer, n + 1, Len(buffer))
        /\ want' = 0
        /\ outcome' = IF n = 0 /\ taken = <<>> THEN "error" ELSE outcome
  /\ UNCHANGED <<body, way, piece, offset, got, over, frames, blocks>>

\* av is done with what it was given: it decoded some audio, or none, or met what
\* it cannot decode, which are errors.
AvEnds ==
  /\ AvReading /\ want = 0 /\ taken # <<>>
  /\ outcome' \in {"played", "error"}
  /\ UNCHANGED <<body, way, piece, offset, got, over, buffer, frames, blocks, want, taken>>

---------------------------------------------------------------------------

AudioInit ==
  /\ body \in Bodies /\ way \in Ways
  /\ piece = 1 /\ offset = 0 /\ got = <<>> /\ over = FALSE
  /\ buffer = <<>> /\ frames = <<>> /\ blocks = <<>> /\ want = 0 /\ taken = <<>> /\ outcome = "open"

AudioNext ==
  \/ BodyEnds \/ ReadFails
  \/ ReadClip \/ DecodeClip
  \/ PushRaw \/ EndRaw
  \/ SniffHead \/ AvAsks \/ FillReader \/ AvTakes \/ AvEnds

AudioSpec == AudioInit /\ [][AudioNext]_audio

---------------------------------------------------------------------------
(* Properties.                                                               *)

\* Every block but the last fills the device's buffer, which truncates a longer
\* one and ends at a shorter one, and only a stream that was played to its end
\* has a short last block. (_rechunk)
DeviceBlocks ==
  \A i \in DOMAIN blocks:
    /\ Len(blocks[i]) \in 1..BlockFrames
    /\ Len(blocks[i]) < BlockFrames => i = Len(blocks) /\ outcome = "played"

\* The bytes of the body from the n-th on, and the frames from the n-th on.
From(n, length) == [k \in 1..length |-> n + k]
FramesFrom(n, fs) == \A j \in DOMAIN fs: fs[j] = From((n + j - 1) * FrameBytes, FrameBytes)

\* The frames in the blocks, of which the last alone may be short.
Framed ==
  IF blocks = <<>> THEN 0 ELSE (Len(blocks) - 1) * BlockFrames + Len(blocks[Len(blocks)])

\* The audio is the body: bytes reach the player, the decoder or av in the
\* body's order, none lost, repeated or shifted into another frame, whatever
\* the chunks they came in and the reads they left by; and a raw stream's reach
\* the player in blocks the device plays whole.
AudioIsBody ==
  /\ got = From(0, Len(got)) /\ Len(got) <= body.sent
  /\ way = "raw" =>
       /\ \A i \in DOMAIN blocks: FramesFrom((i - 1) * BlockFrames, blocks[i])
       /\ FramesFrom(Framed, frames)
       /\ buffer = From((Framed + Len(frames)) * FrameBytes, Len(buffer))
       /\ Len(got) = (Framed + Len(frames)) * FrameBytes + Len(buffer)
  /\ DeviceBlocks
  /\ way \in {"av", "named"} => taken \o buffer = got
  /\ way \in Whole => IF outcome = "too large" THEN IsPrefix(buffer, got) ELSE buffer = got

\* The end tells the truth of a body that was read to its end: a raw stream is
\* played if and only if what came is some whole frames, a raw clip is decoded if
\* and only if it is whole frames (no frame will do: a stream is never "a
\* successful playback of zero audio", a clip can be); and a clip is refused if
\* and only if it exceeds the cap, of which no more is held.
OutcomeOfBody ==
  /\ way = "raw" /\ outcome \in {"played", "error"} =>
       (outcome = "played" <=> Len(got) > 0 /\ Len(got) % FrameBytes = 0)
  /\ way = "pcm" /\ outcome \in {"decoded", "error"} =>
       (outcome = "decoded" <=> Len(got) % FrameBytes = 0)
  /\ way \in Whole => /\ Len(buffer) <= MaxClip
                      /\ outcome = "too large" <=> Len(got) > MaxClip
====
