-------------------------------- MODULE MsFifo --------------------------------
(* How the MemoryStick hosts of tifm_ms.c and jmb38x_ms.c move data by the        *)
(* processor: words of four bytes through a FIFO that the controller fills or      *)
(* empties meanwhile, or, up to eight bytes at jmb38x_ms, through two registers.   *)
(* Bytes are named by their positions in the request; 0 is a byte of no request.   *)
EXTENDS Naturals, Sequences, SequencesExt

CONSTANTS Requests,      \* of lengths of pieces, cut where the buffer's pages end
          Depth,         \* words the FIFO holds
          WordInBetween  \* a word may come between the last look at EMP and the read after it

VARIABLES
  chip, dir, asked,      \* "tifm_ms" or "jmb38x_ms", "read" or "write", the pieces
  pieces,                \* what is left of them
  mem,                   \* what a read has put into the buffer; read by a write so far
  io_word,               \* the bytes between the buffer and the FIFO: io_pos of them
  fifo, line,            \* words in the FIFO, and passed to or from the card
  phase,                 \* "wait", "loop", "after", "done"
  regs                   \* TPC_P0 and TPC_P1
fifoVars == <<chip, dir, asked, pieces, mem, io_word, fifo, line, phase, regs>>

W == 4
Less(a, b) == IF a < b THEN a ELSE b
Total(list) == FoldLeft(LAMBDA sum, p : sum + p, 0, list)
Pad(bytes)  == [i \in 1..W |-> IF i <= Len(bytes) THEN bytes[i] ELSE 0]

Size   == Total(asked)
Words  == (Size + W - 1) \div W
WordOf(n) == Pad([i \in 1..Less(W, Size - ((n - 1) * W)) |-> ((n - 1) * W) + i])

\* Requests of up to eight bytes do not use the FIFO of jmb38x_ms.
ByRegs == chip = "jmb38x_ms" /\ Size <= 2 * W

Init ==
  /\ chip \in {"tifm_ms", "jmb38x_ms"} /\ dir \in {"read", "write"}
  /\ asked \in Requests /\ pieces = asked
  /\ mem = <<>> /\ io_word = <<>> /\ fifo = <<>> /\ line = <<>>
  /\ phase = "wait" /\ regs = <<0, 0, 0, 0, 0, 0, 0, 0>>

-----------------------------------------------------------------------------
\* The card's side of the FIFO.
HwMoves ==
  /\ ~ByRegs
  /\ IF dir = "read"
     THEN /\ Len(line) < Words /\ Len(fifo) < Depth
          /\ phase # "after" \/ WordInBetween
          /\ \E w \in {WordOf(Len(line) + 1)} : fifo' = Append(fifo, w) /\ line' = Append(line, w)
     ELSE fifo # <<>> /\ fifo' = Tail(fifo) /\ line' = Append(line, Head(fifo))
  /\ UNCHANGED <<chip, dir, asked, pieces, mem, io_word, phase, regs>>

\* The event: there is something to read, or room to write.
Ready ==
  /\ phase = "wait" /\ ~ByRegs
  /\ IF dir = "read" THEN fifo # <<>> ELSE Len(fifo) < Depth
  /\ phase' = "loop"
  /\ UNCHANGED <<chip, dir, asked, pieces, mem, io_word, fifo, line, regs>>

\* read_data(): the rest of the last word, whole words, and a word of which the buffer has
\* room for a part. Of that io_pos counts one byte too many: a zero will follow the rest.
Taken(n) ==
  LET first == Less(Len(io_word), n)
      rest  == n - first
      whole == Less(rest \div W, Len(fifo))
      part  == rest - (whole * W)
      split == part > 0 /\ Len(fifo) > whole
  IN  [out  |-> SubSeq(io_word, 1, first) \o FlattenSeq(SubSeq(fifo, 1, whole))
                \o (IF split THEN SubSeq(fifo[whole + 1], 1, part) ELSE <<>>),
       word |-> IF split THEN Append(SubSeq(fifo[whole + 1], part + 1, W), 0)
                ELSE SubSeq(io_word, first + 1, Len(io_word)),
       fifo |-> SubSeq(fifo, whole + (IF split THEN 2 ELSE 1), Len(fifo))]

\* write_data(): the last word is filled up and goes first, if the FIFO has room; then
\* whole words, and up to three bytes are kept.
Given(n) ==
  LET bytes == [i \in 1..n |-> Len(mem) + i]
      first == IF io_word = <<>> THEN 0 ELSE Less(W - Len(io_word), n)
      begun == io_word \o SubSeq(bytes, 1, first)
      room  == Depth - Len(fifo)
      sent  == IF Len(begun) = W THEN 1 ELSE 0
      stuck == begun # <<>> /\ (sent = 0 \/ room = 0)
      whole == Less((n - first) \div W, room - sent)
      off   == first + (whole * W)
      kept  == IF n - off < W THEN n - off ELSE 0
  IN IF stuck THEN [off |-> first, word |-> begun, fifo |-> fifo]
     ELSE [off  |-> off + kept, word |-> SubSeq(bytes, off + 1, off + kept),
           fifo |-> fifo \o (IF sent = 1 THEN <<begun>> ELSE <<>>)
                    \o [i \in 1..whole |-> SubSeq(bytes, first + ((i - 1) * W) + 1,
                                                  first + (i * W))]]

Advance(n) == IF n = Head(pieces) THEN Tail(pieces)
              ELSE <<Head(pieces) - n>> \o Tail(pieces)

\* One round of the loop in transfer_data(): one piece, or none if nothing moves.
TransferPiece ==
  /\ phase = "loop" /\ pieces # <<>>
  /\ IF dir = "read"
     THEN \E t \in {Taken(Head(pieces))} :
            /\ mem' = mem \o t.out /\ io_word' = t.word /\ fifo' = t.fifo
            /\ IF t.out = <<>> THEN phase' = "after" /\ UNCHANGED pieces
               ELSE pieces' = Advance(Len(t.out)) /\ UNCHANGED phase
     ELSE \E g \in {Given(Head(pieces))} :
            /\ mem' = mem \o [i \in 1..g.off |-> Len(mem) + i]
            /\ io_word' = g.word /\ fifo' = g.fifo
            /\ IF g.off = 0 THEN phase' = "after" /\ UNCHANGED pieces
               ELSE pieces' = Advance(g.off) /\ UNCHANGED phase
  /\ UNCHANGED <<chip, dir, asked, line, regs>>

\* writel() to a FIFO that is full is lost.
Pushed(words) == SubSeq(fifo \o words, 1, Less(Len(fifo) + Len(words), Depth))

\* The end of transfer_data(): what is left in io_word is written, at tifm_ms with a word
\* of zeros after it; in any other case tifm_ms reads a word to no purpose (of
\* a FIFO that is set to the other direction it takes nothing).
AfterLoop ==
  /\ phase = "after" \/ (phase = "loop" /\ pieces = <<>>)
  /\ phase' = IF pieces = <<>> THEN "done" ELSE "wait"
  /\ fifo' = IF pieces = <<>> /\ dir = "write"
             THEN Pushed((IF io_word # <<>> THEN <<Pad(io_word)>> ELSE <<>>)
                         \o (IF chip = "tifm_ms" THEN <<Pad(<<>>)>> ELSE <<>>))
             ELSE IF chip = "tifm_ms" /\ dir = "read" /\ fifo # <<>> THEN Tail(fifo) ELSE fifo
  /\ UNCHANGED <<chip, dir, asked, pieces, mem, io_word, line, regs>>

\* At EOTRAN jmb38x_ms calls transfer_data() once more.
Again ==
  /\ phase = "done" /\ chip = "jmb38x_ms" /\ dir = "write" /\ ~ByRegs /\ fifo = <<>>
  /\ Len(line) = Words
  /\ fifo' = IF io_word # <<>> THEN <<Pad(io_word)>> ELSE <<>>
  /\ fifo' # fifo
  /\ UNCHANGED <<chip, dir, asked, pieces, mem, io_word, line, phase, regs>>

\* write_reg_data() shifts the bytes of the second register by more than its width:
\* they may get to their places or not.
WriteRegs ==
  /\ ByRegs /\ dir = "write" /\ phase = "wait" /\ phase' = "done" /\ pieces' = <<>>
  /\ \E lost \in SUBSET {i \in 1..Size : i > W} :
       regs' = [i \in 1..(2 * W) |-> IF i > Size \/ i \in lost THEN 0 ELSE i]
  /\ UNCHANGED <<chip, dir, asked, mem, io_word, fifo, line>>

\* drain_fifo() with read_reg_data(), at EOTPC.
ReadRegs ==
  /\ ByRegs /\ dir = "read" /\ phase = "wait" /\ phase' = "done" /\ pieces' = <<>>
  /\ regs' = [i \in 1..(2 * W) |-> IF i <= Size THEN i ELSE 0]
  /\ mem' = SubSeq(regs', 1, Less(W, Size)) \o SubSeq(regs', W + 1, Size)
  /\ UNCHANGED <<chip, dir, asked, io_word, fifo, line>>

Next == HwMoves \/ Ready \/ TransferPiece \/ AfterLoop \/ Again \/ WriteRegs \/ ReadRegs

-----------------------------------------------------------------------------
\* Every piece but the last is whole words: what buffers of the block layer are made of.
Aligned == \A i \in 1..(Len(asked) - 1) : asked[i] % W = 0
\* The last word is written without a look at the FIFO.
Fits    == Words <= Depth \/ (Size % W = 0 /\ Aligned)

\* A read puts the card's bytes into the buffer one after the other.
ReadInOrder ==
  (dir = "read" /\ Aligned) => /\ mem = [i \in 1..Len(mem) |-> i]
                               /\ phase = "done" => Len(mem) = Size

\* A write gives the card the buffer's words one after the other, and none is lost.
WrittenInOrder ==
  (dir = "write" /\ Fits /\ ~ByRegs) =>
    \E sent \in {line \o fifo} :
      /\ \A n \in 1..Less(Len(sent), Words) : sent[n] = WordOf(n)
      /\ phase = "done" => Len(sent) >= Words

\* The first register holds its bytes when the command is given.
RegsWritten ==
  (ByRegs /\ dir = "write" /\ phase = "done") => \A i \in 1..Less(W, Size) : regs[i] = i

BytesInOrder == ReadInOrder /\ WrittenInOrder /\ RegsWritten
=============================================================================
