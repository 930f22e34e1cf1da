------------------------------- MODULE IoBuf --------------------------------
(***************************************************************************)
(* --noop with a cache: lines of text come in through one io_buf and       *)
(* records of bytes leave through another (io.cc, io.h, noop.cc).  readto  *)
(* looks for the end of a line in what is loaded, loads more, moves what   *)
(* is left to the front when the buffer is full, and doubles the buffer    *)
(* when a line does not fit; buf_write flushes when a piece does not fit   *)
(* behind the others, and doubles the buffer when it is empty.             *)
(*                                                                         *)
(* A byte is named for where it comes from, <<file, position>>; all that   *)
(* matters of its value is whether it ends a line.  A record is the bytes  *)
(* of its line, in pieces: what features become is module CacheCodec.      *)
(*                                                                         *)
(* read() and write() may fail.  A read() that does is taken for the end   *)
(* of its file, and nobody is told; a write() that fails, or ends early,   *)
(* is answered with a complaint, and what it left is thrown away.          *)
(***************************************************************************)
EXTENDS Integers, SequencesExt

CONSTANTS IoJobs,    \* the files: sequences of sequences of "end of line?"
          BufSize,   \* the size of an io_buf, 2^16 bytes
          MaxIoFailures  \* bound: calls of read() and write() that fail

ASSUME IoAssumption ==
  /\ IoJobs \subseteq Seq(Seq(BOOLEAN)) /\ BufSize \in Nat \ {0}
  /\ MaxIoFailures \in Nat

VARIABLES
  ioFiles,
  in,       \* in.loaded: space.begin to endloaded; in.taken: up to space.end
  lines,    \* the lines readto has returned
  pieces,   \* what the record of the last line has yet to write
  out,      \* the output buffer
  flushed,  \* the bytes in the file
  complaints, \* how often "error, failed to write example" was printed
  failed,   \* failed.calls so far; the files they cut, the bytes they lost
  ioAt      \* "read", "write", "flush" or "done"

outVars == <<out, flushed, complaints>>
ioVars == <<ioFiles, in, lines, pieces, outVars, failed, ioAt>>

EndsLine(b) == ioFiles[b[1]][b[2]]

IoStart(jobs) ==
  /\ ioFiles \in jobs
  /\ in = [loaded |-> <<>>, taken |-> 0, size |-> BufSize, current |-> 1,
           pos |-> [f \in DOMAIN ioFiles |-> 0]]
  /\ lines = <<>> /\ pieces = <<>>
  /\ out = [bytes |-> <<>>, size |-> BufSize] /\ flushed = <<>>
  /\ complaints = 0 /\ failed = [calls |-> 0, cut |-> {}, lost |-> {}]
  /\ ioAt = "read"
IoInit == IoStart(IoJobs)

----------------------------------------------------------------------------
(* readto: the line ends in what is loaded.  An empty line is returned     *)
(* like the end of the input, and ends the pass.                           *)
LineEnds == {k \in in.taken + 1..Len(in.loaded) : EndsLine(in.loaded[k])}

ReadLine ==
  /\ ioAt = "read" /\ LineEnds # {}
  /\ LET k == CHOOSE k \in LineEnds : \A j \in LineEnds : k <= j
         line == SubSeq(in.loaded, in.taken + 1, k - 1)
     IN /\ in' = [in EXCEPT !.taken = k]
        /\ IF line = <<>> THEN ioAt' = "flush" /\ UNCHANGED <<lines, pieces>>
           ELSE /\ lines' = Append(lines, line)
                /\ \E cut \in 0..Len(line) :
                     pieces' = SelectSeq(<<SubSeq(line, 1, cut),
                                           SubSeq(line, cut + 1, Len(line))>>,
                                         LAMBDA p : p # <<>>)
                /\ ioAt' = "write"
  /\ UNCHANGED <<ioFiles, outVars, failed>>

(* What is left moves to the front when the buffer is full.                *)
ShiftShort(b) ==
  IF Len(b.loaded) = b.size
  THEN [b EXCEPT !.loaded = SubSeq(@, b.taken + 2, Len(@)), !.taken = 0] ELSE b
Shift(b) ==
  IF Len(b.loaded) = b.size
  THEN [b EXCEPT !.loaded = SubSeq(@, b.taken + 1, Len(@)), !.taken = 0] ELSE b

(* fill: still full means that it begins with this line.                   *)
Grown(b) == [b EXCEPT !.size = IF Len(b.loaded) = @ THEN 2 * @ ELSE @]

(* read() returns some of what is there.                                   *)
Fill ==
  LET b == Grown(Shift(in))
      f == b.current
      left == Len(ioFiles[f]) - b.pos[f]
  IN /\ ioAt = "read" /\ LineEnds = {} /\ left > 0
     /\ \E n \in 1..left :
          /\ Len(b.loaded) + n <= b.size
          /\ in' = [b EXCEPT !.pos[f] = @ + n,
                      !.loaded = @ \o [k \in 1..n |-> <<f, b.pos[f] + k>>]]
     /\ UNCHANGED <<ioFiles, lines, pieces, outVars, failed, ioAt>>

(* fill gives 0 at the end of the file, and when read() fails before it:   *)
(* the next file goes on in the same line.  After the last, readto returns *)
(* nothing, whatever is left in the buffer.                                *)
AtEnd == in.pos[in.current] = Len(ioFiles[in.current])

ReadFails ==
  /\ ~AtEnd /\ failed.calls < MaxIoFailures
  /\ failed' = [failed EXCEPT !.calls = @ + 1, !.cut = @ \cup {in.current}]

NextFile ==
  /\ ioAt = "read" /\ LineEnds = {}
  /\ \/ AtEnd /\ UNCHANGED failed
     \/ ReadFails
  /\ in' = [Grown(Shift(in)) EXCEPT !.current = @ + 1]
  /\ ioAt' = IF in.current < Len(ioFiles) THEN "read" ELSE "flush"
  /\ UNCHANGED <<ioFiles, lines, pieces, outVars>>

----------------------------------------------------------------------------
(* flush: write() returns how much it wrote, or -1.  Whatever that is, the *)
(* buffer is empty afterwards.                                             *)
ComplainsOfErrors(result) == result < 0
Complains(result) == result # Len(out.bytes)

Flush ==
  \E result \in -1..Len(out.bytes) :
    LET written == IF result < 0 THEN 0 ELSE result
        left == SubSeq(out.bytes, written + 1, Len(out.bytes))
    IN /\ \/ result = Len(out.bytes) /\ UNCHANGED failed
          \/ /\ result # Len(out.bytes) /\ failed.calls < MaxIoFailures
             /\ failed' = [failed EXCEPT !.calls = @ + 1, !.lost = @ \cup Range(left)]
       /\ flushed' = flushed \o SubSeq(out.bytes, 1, written)
       /\ complaints' = complaints + IF Complains(result) THEN 1 ELSE 0
       /\ out' = [out EXCEPT !.bytes = <<>>]

(* buf_write: room for a piece, a flush, or a larger buffer.               *)
Fits == Len(out.bytes) + Len(Head(pieces)) <= out.size

BufWrite ==
  /\ ioAt = "write" /\ pieces # <<>> /\ Fits
  /\ out' = [out EXCEPT !.bytes = @ \o Head(pieces)]
  /\ pieces' = Tail(pieces)
  /\ UNCHANGED <<ioFiles, in, lines, flushed, complaints, failed, ioAt>>

MakeRoom ==
  /\ ioAt = "write" /\ pieces # <<>> /\ ~Fits
  /\ IF out.bytes # <<>> THEN Flush
     ELSE /\ out' = [out EXCEPT !.size = 2 * @]
          /\ UNCHANGED <<flushed, complaints, failed>>
  /\ UNCHANGED <<ioFiles, in, lines, pieces, ioAt>>

(* finish_example, and the parser takes the next line.                     *)
NextLine ==
  /\ ioAt = "write" /\ pieces = <<>>
  /\ ioAt' = "read"
  /\ UNCHANGED <<ioFiles, in, lines, pieces, outVars, failed>>

(* reset_source at the end of the pass.  The cache gets its name whatever  *)
(* flush has come to.                                                      *)
LastFlush ==
  /\ ioAt = "flush" /\ Flush
  /\ ioAt' = "done"
  /\ UNCHANGED <<ioFiles, in, lines, pieces>>

IoReading == ReadLine \/ Fill \/ NextFile
IoWriting == BufWrite \/ MakeRoom \/ NextLine \/ LastFlush
IoSpec == IoInit /\ [][IoReading \/ IoWriting]_ioVars /\ WF_ioVars(IoReading \/ IoWriting)

----------------------------------------------------------------------------
Everything == FlattenSeq([f \in DOMAIN ioFiles |->
                [k \in 1..IF f \in failed.cut THEN in.pos[f] ELSE Len(ioFiles[f]) |->
                   <<f, k>>]])
Ends == {k \in DOMAIN Everything : EndsLine(Everything[k])}

(* The line that ends at k, of the files laid end to end.                  *)
LineAt(k) ==
  LET from == CHOOSE j \in 0..k - 1 :
                /\ j = 0 \/ j \in Ends
                /\ \A i \in j + 1..k - 1 : i \notin Ends
  IN SubSeq(Everything, from + 1, k - 1)

(* readto, fill: however read() cuts the files, wherever the buffer ends,  *)
(* the lines are those of the files laid end to end, byte for byte, up to  *)
(* the first empty line and without an unterminated last one.  A read()    *)
(* that fails takes away the rest of its own file, and nothing else.       *)
StreamsKept ==
  LET at == SetToSortSeq(Ends, <)
      full == [n \in DOMAIN at |-> LineAt(at[n])]
      stop == {n \in DOMAIN full : full[n] = <<>>}
      seen == IF stop = {} THEN full
              ELSE SubSeq(full, 1, (CHOOSE n \in stop : \A k \in stop : n <= k) - 1)
  IN /\ IsPrefix(lines, seen)
     /\ ioAt \in {"flush", "done"} => lines = seen

(* buf_write, flush: the cache is the records of these lines, each byte in *)
(* its place and once, but for those that a write() was left with; there   *)
(* are none unless the user was told "error, failed to write example".     *)
LossesReported ==
  /\ flushed \o out.bytes \o FlattenSeq(pieces)
       = SelectSeq(FlattenSeq(lines), LAMBDA b : b \notin failed.lost)
  /\ ioAt = "done" => out.bytes \o FlattenSeq(pieces) = <<>>
  /\ complaints = 0 => failed.lost = {}
=============================================================================
