----------------------------- MODULE BackupStream -----------------------------
(***************************************************************************)
(* The encrypted container of a vault archive (lib/vaultBackup/envelope.ts, *)
(* format.ts, stream.ts): a header, then frames of a fixed size that are    *)
(* each authenticated in their place, the last of them marked final and as  *)
(* short as it happens to be.  The writer cuts a stream whose chunks have    *)
(* any size; the reader, given the file in chunks of any other size, must   *)
(* cut it in the same places, and on the way the file may have lost its     *)
(* end, or frames of it, or got those of another archive.                   *)
(***************************************************************************)
EXTENDS Naturals, Sequences, SequencesExt

CONSTANTS ChunkBytes,  \* plaintext of a full frame
          TagBytes,    \* what authentication adds to it
          HeadBytes,
          MaxBytes,    \* of plaintext
          MaxPiece     \* of a chunk handed over at once

ASSUME StreamAssumption == {ChunkBytes, TagBytes, HeadBytes, MaxPiece} \subseteq Nat \ {0} /\ MaxBytes \in Nat

VARIABLES size,      \* of the plaintext
          writer,
          media,     \* the file's bytes
          harmed,    \* something happened to it
          reader

streamVars == <<size, writer, media, harmed, reader>>

\* A byte of a file: of which archive, which frame (0 is the header), where in
\* it, and what the frame says of itself.
Mine == 1
Other == 2
Cell == [archive : {Mine, Other}, frame : Nat, at : Nat \ {0}, bytes : Nat, final : BOOLEAN]

HeaderOf(a) ==
    [i \in 1 .. HeadBytes |-> [archive |-> a, frame |-> 0, at |-> i, bytes |-> 0, final |-> FALSE]]
FrameOf(a, k, n, last) ==
    [i \in 1 .. n + TagBytes |-> [archive |-> a, frame |-> k, at |-> i, bytes |-> n, final |-> last]]

Writer == [stage : {"begin", "open", "done", "broken"}, taken : Nat, pending : Nat, frames : Nat]
Reader == [stage : {"idle", "open", "ok", "refused"}, right : BOOLEAN, at : Nat, queue : Seq(Cell),
           header : 0 .. Other, pulled : Nat, got : Seq(Nat \X Nat)]

StreamInit ==
    /\ size \in 0 .. MaxBytes /\ media = <<>> /\ harmed = FALSE
    /\ writer = [stage |-> "begin", taken |-> 0, pending |-> 0, frames |-> 0]
    /\ reader = [stage |-> "idle", right |-> TRUE, at |-> 0, queue |-> <<>>, header |-> 0, pulled |-> 0, got |-> <<>>]

-----------------------------------------------------------------------------
(* Writing *)

Header ==
    /\ writer.stage = "begin" /\ writer' = [writer EXCEPT !.stage = "open"]
    /\ media' = HeaderOf(Mine) /\ UNCHANGED <<size, harmed, reader>>

\* The full frames that n pending bytes make.
Full(n) == n \div ChunkBytes
OneAtMost(n) == IF n >= ChunkBytes THEN 1 ELSE 0
Framed(n) == Full(n)

Piece ==
    /\ writer.stage = "open"
    /\ \E n \in 1 .. MaxPiece :
          LET pending == writer.pending + n
              k == Framed(pending)
          IN /\ writer.taken + n <= size
             /\ writer' = [writer EXCEPT !.taken = @ + n, !.pending = pending - k * ChunkBytes, !.frames = @ + k]
             /\ media' = media \o FlattenSeq([j \in 1 .. k |-> FrameOf(Mine, writer.frames + j, ChunkBytes, FALSE)])
    /\ UNCHANGED <<size, harmed, reader>>

\* Whatever is left, if only nothing.
LastFrame(k, n) == FrameOf(Mine, k, n, TRUE)
LastFrameIfAny(k, n) == IF n = 0 THEN <<>> ELSE FrameOf(Mine, k, n, TRUE)
Ending(k, n) == LastFrame(k, n)
Final ==
    /\ writer.stage = "open" /\ writer.taken = size
    /\ writer' = [writer EXCEPT !.stage = "done", !.pending = 0, !.frames = @ + 1]
    /\ media' = media \o Ending(writer.frames + 1, writer.pending)
    /\ UNCHANGED <<size, harmed, reader>>

\* The source fails, or the download is cancelled: the file ends there.
Break ==
    /\ writer.stage = "open" /\ writer' = [writer EXCEPT !.stage = "broken"]
    /\ UNCHANGED <<size, media, harmed, reader>>

-----------------------------------------------------------------------------
(* What may become of the file; its frames are found where the writer put them *)

FrameAt(k) == HeadBytes + (k - 1) * (ChunkBytes + TagBytes)
End(k) == IF k < writer.frames THEN FrameAt(k + 1) ELSE Len(media)
Without(i, j) == SubSeq(media, 1, i) \o SubSeq(media, j + 1, Len(media))

Harm(bytes) ==
    /\ writer.stage \in {"done", "broken"} /\ reader.stage = "idle" /\ ~harmed
    /\ bytes # media /\ media' = bytes /\ harmed' = TRUE /\ UNCHANGED <<size, writer, reader>>

Cut == \E n \in 0 .. Len(media) : Harm(SubSeq(media, 1, n))
DropFrame == \E k \in 1 .. writer.frames : Harm(Without(FrameAt(k), End(k)))
RepeatFrame ==
    \E k \in 1 .. writer.frames :
        Harm(SubSeq(media, 1, End(k)) \o SubSeq(media, FrameAt(k) + 1, Len(media)))
SwapFrames ==
    \E k \in 1 .. writer.frames : k + 1 <= writer.frames /\
        Harm(SubSeq(media, 1, FrameAt(k)) \o SubSeq(media, FrameAt(k + 1) + 1, End(k + 1))
             \o SubSeq(media, FrameAt(k) + 1, End(k)) \o SubSeq(media, End(k + 1) + 1, Len(media)))
\* A frame, or all that follows the header, of another archive with this password.
Mix ==
    \/ \E k \in 1 .. writer.frames :
          Harm(SubSeq(media, 1, FrameAt(k))
               \o [i \in 1 .. End(k) - FrameAt(k) |-> [media[FrameAt(k) + i] EXCEPT !.archive = Other]]
               \o SubSeq(media, End(k) + 1, Len(media)))
    \/ Harm(HeaderOf(Other) \o SubSeq(media, HeadBytes + 1, Len(media)))

-----------------------------------------------------------------------------
(* Reading *)

Pick ==
    /\ writer.stage \in {"done", "broken"} /\ reader.stage = "idle"
    /\ \E right \in BOOLEAN : reader' = [reader EXCEPT !.stage = "open", !.right = right]
    /\ UNCHANGED <<size, writer, media, harmed>>

FullCipher == ChunkBytes + TagBytes

\* The stream's state only opens the frame that comes next, whole.
Authentic(cells, r) ==
    /\ r.right /\ Len(cells) >= TagBytes
    /\ cells = FrameOf(r.header, r.pulled + 1, cells[1].bytes, cells[1].final)
AuthenticAlone(cells, r) ==
    /\ r.right /\ Len(cells) >= TagBytes
    /\ cells = FrameOf(r.header, cells[1].frame, cells[1].bytes, cells[1].final)
MayOpen(cells, r) == Authentic(cells, r)
Plain(cells) == [i \in 1 .. Len(cells) - TagBytes |-> <<cells[1].archive, (cells[1].frame - 1) * ChunkBytes + i>>]

\* More than a full frame: the last one is known only by what does not follow it.
MoreFollows(n) == n > FullCipher
IsMessage(cells) == ~cells[1].final
IsFinal(cells) == cells[1].final
AnyTag(cells) == TRUE
LastTag(cells) == IsFinal(cells)

Pulled(r) ==
    LET cells == SubSeq(r.queue, 1, FullCipher) IN
    IF ~MoreFollows(Len(r.queue)) THEN r
    ELSE IF ~MayOpen(cells, r) \/ ~IsMessage(cells) THEN [r EXCEPT !.stage = "refused", !.queue = <<>>]
    ELSE [r EXCEPT !.queue = SubSeq(r.queue, FullCipher + 1, Len(r.queue)), !.pulled = @ + 1,
                   !.got = @ \o Plain(cells)]
\* The header is read once enough has come.
Opened(r) ==
    IF r.header # 0 \/ Len(r.queue) < HeadBytes THEN r
    ELSE [r EXCEPT !.header = r.queue[1].archive, !.queue = SubSeq(r.queue, HeadBytes + 1, Len(r.queue))]
\* As many frames as the queue may hold after one piece.
Drained(r) ==
    LET pulls[k \in 0 .. MaxPiece + 1] ==
            IF k = 0 THEN r
            ELSE IF pulls[k - 1].header = 0 \/ pulls[k - 1].stage = "refused" THEN pulls[k - 1]
            ELSE Pulled(pulls[k - 1])
    IN pulls[MaxPiece + 1]

Read ==
    /\ reader.stage = "open"
    /\ \E n \in 1 .. MaxPiece :
          /\ reader.at + n <= Len(media)
          /\ reader' = Drained(Opened([reader EXCEPT !.at = @ + n,
                                                     !.queue = @ \o SubSeq(media, reader.at + 1, reader.at + n)]))
    /\ UNCHANGED <<size, writer, media, harmed>>

Finish ==
    LET cells == reader.queue IN
    /\ reader.stage = "open" /\ reader.at = Len(media)
    /\ reader' = IF reader.header = 0 \/ Len(cells) < TagBytes \/ Len(cells) > FullCipher \/ ~MayOpen(cells, reader)
                    \/ ~LastTag(cells)
                 THEN [reader EXCEPT !.stage = "refused", !.queue = <<>>]
                 ELSE [reader EXCEPT !.stage = "ok", !.queue = <<>>, !.pulled = @ + 1, !.got = @ \o Plain(cells)]
    /\ UNCHANGED <<size, writer, media, harmed>>

-----------------------------------------------------------------------------
WriteStep == Header \/ Piece \/ Final \/ Break
HarmStep == Cut \/ DropFrame \/ RepeatFrame \/ SwapFrames \/ Mix
ReadStep == Pick \/ Read \/ Finish
StreamNext == WriteStep \/ HarmStep \/ ReadStep

StreamSpec == StreamInit /\ [][StreamNext]_streamVars

-----------------------------------------------------------------------------
StreamTypeOK ==
    /\ size \in 0 .. MaxBytes /\ media \in Seq(Cell) /\ harmed \in BOOLEAN
    /\ writer \in Writer /\ writer.pending < ChunkBytes
    /\ reader \in Reader /\ reader.at <= Len(media)

\* The bytes of my archive, in order.
Text(n) == [i \in 1 .. n |-> <<Mine, i>>]

(* A file written to its end and left alone opens with its password, whatever *)
(* the pieces it was written and read in, at every length - a whole number of *)
(* frames too.                                                                *)
WrittenIsReadable ==
    reader.stage = "refused" => ~reader.right \/ harmed \/ writer.stage = "broken"

(* A file opens only as a whole: what is missing, repeated, moved or from     *)
(* another archive is an error, never a shorter vault.                        *)
OnlyTheWholeOpens ==
    reader.stage = "ok" => reader.got = Text(size) /\ reader.right /\ writer.stage = "done"

(* What the reader hands on before the end is the beginning of what was       *)
(* written, in order.                                                         *)
ReadsInOrder == reader.got = Text(Len(reader.got)) /\ Len(reader.got) <= size
=============================================================================
