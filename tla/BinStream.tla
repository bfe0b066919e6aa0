----------------------------- MODULE BinStream -----------------------------
(***************************************************************************)
(* ifbinstream and ofbinstream (system/ioser.h, KVstore/ioser.h): the      *)
(* buffered files that spilled tasks and the tables of the key-value store *)
(* are written to and read from.                                           *)
(*                                                                         *)
(* A byte is its place in the stream, 1 for the first one, so a byte that  *)
(* is lost, repeated or moved shows; 0 is a byte nobody wrote.  The reader *)
(* asks for the items the writer put, in their order, as the operators >>  *)
(* of a type do for its operators <<.                                      *)
(***************************************************************************)
EXTENDS Integers, Sequences

CONSTANTS
  BUF,       \* STREAM_MEMBUF_SIZE
  WORD,      \* sizeof(size_t): the length before a string or a vector
  Scalars,   \* the sizes of the other scalars
  Lengths,   \* the lengths of strings and vectors, in bytes
  MAX_ITEMS  \* bound: items in a file

HALF == BUF \div 2

\* What the constants satisfy; the model-checking module assumes it.
Sizes ==
  /\ BUF \in Nat \ {0} /\ Lengths \subseteq Nat /\ MAX_ITEMS \in Nat
  /\ Scalars \cup {WORD} \subseteq 1 .. HALF

VARIABLES
  items,   \* what has been put: <<"scalar", size>> or <<"long", length>>
  file,    \* the bytes of the file
  membuf,  \* the bytes of membuf before bufpos (writer) or bufsize (reader)
  bufpos,  \* the reader's position in membuf
  offset,  \* the reader's position in the file
  totpos,  \* bytes put, or asked for
  took,    \* items read
  left,    \* bytes of the current string still to be read
  got,     \* what the last read returned
  mode     \* "writing", "closed", "reading" or "aborted"

reader == <<bufpos, offset, took, left, got>>
vars == <<items, file, membuf, totpos, reader, mode>>

Least(a, b) == IF a < b THEN a ELSE b
Upto(n) == [i \in 1 .. n |-> i]
Bytes(from, n) == [i \in 1 .. n |-> from + i]
-----------------------------------------------------------------------------
(* ifbinstream                                                             *)

Init ==
  /\ items = <<>> /\ file = <<>> /\ membuf = <<>> /\ totpos = 0
  /\ bufpos = 0 /\ offset = 0 /\ took = 0 /\ left = 0 /\ got = <<>>
  /\ mode = "writing"

\* raw_bytes and raw_byte: what leaves membuf, in whole buffers, and what stays;
\* a buffer is flushed when more is to come, so a full one may stay.
Flushed_OneBuffer(bytes) == IF Len(bytes) > BUF THEN BUF ELSE 0
Flushed(bytes) ==
  LET flush[n \in Nat] == IF Len(bytes) - n > BUF THEN flush[n + BUF] ELSE n
  IN flush[0]

\* fwrite wrote less than it was given (the disk is full): the assertion in
\* bufflush holds for the eighth try only, and ends the process at the second.
ShortWrite(bytes) ==
  \E n \in 0 .. Len(bytes) - 1 :
    /\ file' = file \o SubSeq(bytes, 1, n)
    /\ mode' = "aborted"
    /\ UNCHANGED <<items, membuf, totpos>>

Put(item, n) ==
  LET bytes == membuf \o Bytes(totpos, n)
      out == Flushed(bytes)
  IN /\ mode = "writing" /\ Len(items) < MAX_ITEMS
     /\ UNCHANGED reader
     /\ \/ /\ file' = file \o SubSeq(bytes, 1, out)
           /\ membuf' = SubSeq(bytes, out + 1, Len(bytes))
           /\ totpos' = totpos + n
           /\ items' = Append(items, item)
           /\ UNCHANGED mode
        \/ ShortWrite(SubSeq(bytes, 1, out))

PutScalar == \E n \in Scalars : Put(<<"scalar", n>>, n)
\* The length, then the bytes.
PutLong == \E n \in Lengths : Put(<<"long", n>>, WORD + n)

Close ==
  /\ mode = "writing"
  /\ UNCHANGED reader
  /\ \/ /\ file' = file \o membuf /\ membuf' = <<>>
        /\ mode' = "closed" /\ UNCHANGED <<items, totpos>>
     \/ ShortWrite(membuf)
-----------------------------------------------------------------------------
(* ofbinstream                                                             *)

FileBytes(from, n) == SubSeq(file, from + 1, Least(from + n, Len(file)))

\* The constructor or open, with the first fill.
Open ==
  /\ mode = "closed" /\ mode' = "reading"
  /\ membuf' = FileBytes(0, BUF) /\ offset' = Len(membuf')
  /\ bufpos' = 0 /\ totpos' = 0
  /\ UNCHANGED <<items, file, took, left, got>>

eof == totpos >= Len(file)

\* memcpy moves the last gap bytes to the head of membuf; where the two places
\* overlap the bytes are anything.
KeptGap(gap) == IF gap <= bufpos THEN SubSeq(membuf, bufpos + 1, Len(membuf))
                ELSE [i \in 1 .. gap |-> 0]

\* raw_bytes(n), and raw_byte for n = 1: in place, or after a refill behind gap.
RawBytes(n) ==
  LET gap == Len(membuf) - bufpos
      refilled == KeptGap(gap) \o FileBytes(offset, BUF - gap)
      padded == refilled \o [i \in 1 .. n |-> 0]
  IN /\ totpos' = totpos + n
     /\ IF gap >= n
        THEN /\ got' = SubSeq(membuf, bufpos + 1, bufpos + n)
             /\ bufpos' = bufpos + n
             /\ UNCHANGED <<membuf, offset>>
        ELSE /\ got' = SubSeq(padded, 1, n)
             /\ bufpos' = n
             /\ membuf' = refilled
             /\ offset' = offset + Len(FileBytes(offset, BUF - gap))

Expected == items[took + 1]
ReadScalar ==
  /\ mode = "reading" /\ left = 0 /\ ~eof
  /\ Expected[1] = "scalar"
  /\ RawBytes(Expected[2])
  /\ took' = took + 1
  /\ UNCHANGED <<items, file, left, mode>>

\* Strings and vectors come in pieces of half a buffer: what raw_bytes returns
\* is in membuf.
Piece_Buffer == Least(left, BUF)
Piece == Least(left, HALF)
ReadLength ==
  /\ mode = "reading" /\ left = 0 /\ ~eof
  /\ Expected[1] = "long"
  /\ RawBytes(WORD)
  /\ left' = Expected[2]
  /\ took' = took + 1
  /\ UNCHANGED <<items, file, mode>>
ReadPiece ==
  /\ mode = "reading" /\ left > 0
  /\ RawBytes(Piece)
  /\ left' = left - Piece
  /\ UNCHANGED <<items, file, took, mode>>

Next == PutScalar \/ PutLong \/ Close \/ Open \/ ReadScalar \/ ReadLength \/ ReadPiece

Spec == Init /\ [][Next]_vars
-----------------------------------------------------------------------------
(* Properties                                                              *)

TypeOK ==
  /\ items \in Seq({"scalar", "long"} \X Nat)
  /\ {file, membuf, got} \subseteq Seq(Nat)
  /\ {bufpos, offset, totpos, took, left} \subseteq Nat
  /\ mode \in {"writing", "closed", "reading", "aborted"}

\* The file and the buffer together are what was put, in order and without a
\* gap, however items and buffers are cut; a short write leaves the beginning of
\* it and no reader ever, and a closed file is all of it.  Tasks that were
\* spilled come back from nowhere else.
WrittenInOrder ==
  /\ mode = "writing" => file \o membuf = Upto(totpos) /\ Len(membuf) <= BUF
  /\ mode = "closed" => file = Upto(totpos)
  /\ mode = "aborted" => file = Upto(Len(file))

\* A read returns the bytes that were put at its place: the refill keeps the
\* bytes at the end of membuf that were not read yet, in their place.
\* eof is true after the last item and not before: the loops that read spilled
\* tasks end with it.
ReadBack ==
  mode = "reading" =>
    /\ got = Bytes(totpos - Len(got), Len(got))
    /\ bufpos <= Len(membuf)
    /\ eof <=> took = Len(items) /\ left = 0
=============================================================================
