---------------------------- MODULE JsonStreams ----------------------------
(***************************************************************************)
(* The streams between rapidjson and a file, which read and write through  *)
(* a buffer of a fixed size, and the memory of its stacks and buffers: the *)
(* pool of chunks that never frees a block, and the stack that grows in    *)
(* it.  The configuration is read through BasicIStreamWrapper (config.cpp),*)
(* its values live in the pool.                                            *)
(*                                                                         *)
(* Three machines: a stream that reads a file, next to one that has it in  *)
(* memory; a stream that writes a file; and two stacks that grow in one    *)
(* pool.  Character 0 is the NUL that marks the end of a stream.  Memory is*)
(* never short: no caller of the library looks at a failed allocation.     *)
(***************************************************************************)
EXTENDS Integers, Sequences, SequencesExt, FiniteSets, FiniteSetsExt

CONSTANTS
    Align,              \* RAPIDJSON_ALIGN rounds up to this
    Files,              \* what is read
    ReadSizes,          \* the sizes of the buffer of a stream that reads
    MaxOverrun,         \* bounds the reads at the end of the file
    PutChars,           \* what is written
    WriteSizes,         \* the sizes of the buffer of a stream that writes
    Rooms,              \* how many characters the disk takes
    Counts,             \* how often PutN puts one, and what is reserved
    PushedBytes,        \* the bytes that are pushed at once
    Capacities,         \* of a chunk, and of a stack at first
    MaxOperations       \* bounds the operations on a file or on the stacks

ASSUME StreamsAssumption ==
    /\ Align \in Nat \ {0}
    /\ Files \subseteq Seq(Nat)
    /\ ReadSizes \subseteq Nat \ {0}
    /\ PutChars \subseteq Nat
    /\ WriteSizes \subseteq Nat \ {0}
    /\ Rooms \subseteq Nat
    /\ Counts \subseteq Nat
    /\ PushedBytes \subseteq Seq(Nat) \ {<<>>}
    /\ Capacities \subseteq Nat

VARIABLES
    reader,             \* the stream that reads
    at,                 \* where a MemoryStream of the same file stands
    cursor,             \* the lines and columns of a CursorStreamWrapper
    overrun,            \* how often the end was read
    writer,             \* the stream that writes
    filling,            \* what PutN has yet to put
    put,                \* all that was put
    pool,               \* the MemoryPoolAllocator
    stacks,             \* two Stacks that allocate from it
    lists,              \* what they hold
    operations          \* the operations so far

readerVars == <<reader, at, cursor, overrun>>
writerVars == <<writer, filling, put>>
poolVars == <<pool, stacks, lists>>
streamVars == <<readerVars, writerVars, poolVars, operations>>

-----------------------------------------------------------------------------
(* BasicIStreamWrapper and FileReadStream.  The buffer holds the characters*)
(* that were read, with a NUL after the last ones of the file; current and *)
(* last are indices of the buffer, from 0.                                 *)

Opened(file, bufferSize) ==
    [file |-> file, left |-> file, bufferSize |-> bufferSize, buffer |-> <<0>>,
     current |-> 0, last |-> 0, readCount |-> 0, count |-> 0, eof |-> FALSE]

\* read() fails, or fread() returns less: the end of the file.
IsShort(n, bufferSize) == n < bufferSize

Refill(r) ==
    LET n == Min({r.bufferSize, Len(r.left)})
        got == SubSeq(r.left, 1, n)
        short == IsShort(n, r.bufferSize)
    IN  [r EXCEPT !.count = @ + r.readCount, !.readCount = n, !.current = 0,
                  !.left = SubSeq(@, n + 1, Len(@)), !.eof = short,
                  !.buffer = IF short THEN Append(got, 0) ELSE got,
                  !.last = IF short THEN n ELSE n - 1]

Read(r) ==
    IF r.current < r.last THEN [r EXCEPT !.current = @ + 1]
    ELSE IF ~r.eof THEN Refill(r) ELSE r

Open(file, bufferSize) == Refill(Opened(file, bufferSize))

Peek(r) == r.buffer[r.current + 1]
Tell(r) == r.count + r.current
\* Four characters for the detection of the encoding, or nothing: the NUL of
\* the end is not one of them.
Peek4(r) ==
    IF r.current + 4 - (IF r.eof THEN 0 ELSE 1) <= r.last
    THEN SubSeq(r.buffer, r.current + 1, r.current + 4) ELSE <<>>

-----------------------------------------------------------------------------
(* MemoryStream and CursorStreamWrapper.                                   *)

PeekMemory(text, k) == IF k = Len(text) THEN 0 ELSE text[k + 1]
TakeMemory(text, k) == IF k = Len(text) THEN k ELSE k + 1
Peek4Memory(text, k) == IF k + 4 <= Len(text) THEN SubSeq(text, k + 1, k + 4) ELSE <<>>

NewLine == 10
CursorTake(c, ch) ==
    IF ch = NewLine THEN [line |-> c.line + 1, col |-> 0] ELSE [c EXCEPT !.col = @ + 1]

ReaderInit ==
    /\ \E file \in Files, size \in ReadSizes : reader = Open(file, size)
    /\ at = 0
    /\ cursor = [line |-> 1, col |-> 0]
    /\ overrun = 0

TakeChar ==
    /\ overrun < MaxOverrun
    /\ reader' = Read(reader)
    /\ at' = TakeMemory(reader.file, at)
    /\ cursor' = CursorTake(cursor, Peek(reader))
    /\ overrun' = IF at = Len(reader.file) THEN overrun + 1 ELSE overrun

-----------------------------------------------------------------------------
(* FileWriteStream: a buffer before a file for which there is so much room *)
(* on the disk; what fwrite() did not take is dropped without a word.      *)

Created(bufferSize, room) ==
    [file |-> <<>>, buffer |-> <<>>, bufferSize |-> bufferSize, room |-> room]

Flush(w) ==
    LET n == Min({Len(w.buffer), w.room - Len(w.file)})
    IN  [w EXCEPT !.file = @ \o SubSeq(w.buffer, 1, n), !.buffer = <<>>]

PutChar(w, c) ==
    LET f == IF Len(w.buffer) >= w.bufferSize THEN Flush(w) ELSE w
    IN  [f EXCEPT !.buffer = Append(@, c)]

Fill(c, n) == [k \in 1 .. n |-> c]
PutFill(w, c, n) == [w EXCEPT !.buffer = @ \o Fill(c, n)]
Avail == writer.bufferSize - Len(writer.buffer)

WriterInit ==
    /\ \E size \in WriteSizes, room \in Rooms : writer = Created(size, room)
    /\ filling = [c |-> 0, n |-> 0]
    /\ put = <<>>

PutOne ==
    /\ filling.n = 0
    /\ \E c \in PutChars : writer' = PutChar(writer, c) /\ put' = Append(put, c)
    /\ UNCHANGED filling

FlushFile ==
    /\ filling.n = 0
    /\ writer' = Flush(writer)
    /\ UNCHANGED <<filling, put>>

\* PutN, and the turns of its loop.
PutN ==
    /\ filling.n = 0
    /\ \E c \in PutChars, n \in Counts :
           filling' = [c |-> c, n |-> n] /\ put' = put \o Fill(c, n)
    /\ UNCHANGED writer

FillBuffer ==
    /\ filling.n > Avail
    /\ writer' = Flush(PutFill(writer, filling.c, Avail))
    /\ filling' = [filling EXCEPT !.n = @ - Avail]
    /\ UNCHANGED put

FillRest ==
    /\ 0 < filling.n /\ filling.n <= Avail
    /\ writer' = PutFill(writer, filling.c, filling.n)
    /\ filling' = [filling EXCEPT !.n = 0]
    /\ UNCHANGED put

-----------------------------------------------------------------------------
(* MemoryPoolAllocator.  An address is a chunk and an offset in it; only   *)
(* the newest chunk serves allocations.                                    *)

NULL == <<>>
AlignUp(n) == n + Align - 1 - ((n + Align - 1) % Align)

Pool(capacity) == [chunkCapacity |-> capacity, chunks |-> <<>>]

AddChunk(p, capacity) ==
    [p EXCEPT !.chunks = Append(@, [size |-> 0, cells |-> Fill(0, capacity)])]

Full(p, n) == p.chunks = <<>> \/ Last(p.chunks).size + n > Len(Last(p.chunks).cells)

Malloc(p, bytes) ==
    LET n == AlignUp(bytes)
        q == IF Full(p, n) THEN AddChunk(p, Max({p.chunkCapacity, n})) ELSE p
        head == Len(q.chunks)
    IN  IF bytes = 0 THEN [pool |-> p, at |-> NULL]
        ELSE [pool |-> [q EXCEPT !.chunks[head].size = @ + n],
              at |-> <<head, q.chunks[head].size>>]

Copy(p, from, to, n) ==
    [p EXCEPT !.chunks[to[1]].cells = [k \in DOMAIN @ |->
        IF k - to[2] \in 1 .. n THEN p.chunks[from[1]].cells[from[2] + k - to[2]] ELSE @[k]]]

IsLast(p, block, old) == block[1] = Len(p.chunks) /\ block[2] + old = Last(p.chunks).size

Realloc(p, block, originalSize, newSize) ==
    LET old == AlignUp(originalSize)
        new == AlignUp(newSize)
        head == Len(p.chunks)
        fits == p.chunks[head].size + new - old <= Len(p.chunks[head].cells)
        Moved(m) == [pool |-> Copy(m.pool, block, m.at, old), at |-> m.at]
    IN  IF block = NULL THEN Malloc(p, newSize)
        ELSE IF newSize = 0 THEN [pool |-> p, at |-> NULL]
        ELSE IF old >= new THEN [pool |-> p, at |-> block]
        ELSE IF IsLast(p, block, old) /\ fits
        THEN [pool |-> [p EXCEPT !.chunks[head].size = @ + new - old], at |-> block]
        ELSE Moved(Malloc(p, new))

PoolCapacity(p) ==
    LET sum[k \in 0 .. Len(p.chunks)] ==
            IF k = 0 THEN 0 ELSE sum[k - 1] + Len(p.chunks[k].cells)
    IN  sum[Len(p.chunks)]
PoolSize(p) ==
    LET sum[k \in 0 .. Len(p.chunks)] ==
            IF k = 0 THEN 0 ELSE sum[k - 1] + p.chunks[k].size
    IN  sum[Len(p.chunks)]

-----------------------------------------------------------------------------
(* The stack, whose bytes are one block of the pool.                       *)

Stack(initialCapacity) == [at |-> NULL, size |-> 0, capacity |-> 0, initial |-> initialCapacity]

Resize(p, s, newCapacity) ==
    LET Resized(r) == [pool |-> r.pool, stack |-> [s EXCEPT !.at = r.at, !.capacity = newCapacity]]
    IN  Resized(Realloc(p, s.at, s.capacity, newCapacity))

Expand(p, s, count) ==
    LET grown == IF s.at = NULL THEN s.initial ELSE s.capacity + (s.capacity + 1) \div 2
    IN  Resize(p, s, Max({grown, s.size + count}))

Reserve(p, s, count) ==
    IF count > s.capacity - s.size THEN Expand(p, s, count) ELSE [pool |-> p, stack |-> s]

\* Push, and the caller's writes to the bytes that it was given.
PushUnsafe(r, values) ==
    LET base == r.stack.at[2] + r.stack.size
    IN  [pool |-> [r.pool EXCEPT !.chunks[r.stack.at[1]].cells = [k \in DOMAIN @ |->
                      IF k - base \in DOMAIN values THEN values[k - base] ELSE @[k]]],
         stack |-> [r.stack EXCEPT !.size = @ + Len(values)]]
Push(p, s, values) == PushUnsafe(Reserve(p, s, Len(values)), values)

Pop(s, count) == [s EXCEPT !.size = @ - count]
Clear(s) == [s EXCEPT !.size = 0]
ShrinkToFit(p, s) ==
    IF s.size = 0 THEN [pool |-> p, stack |-> [s EXCEPT !.at = NULL, !.capacity = 0]]
    ELSE Resize(p, s, s.size)

\* GetString and ShrinkToFit of a StringBuffer have a NUL pushed and popped.
Popped(r) == [pool |-> r.pool, stack |-> Pop(r.stack, 1)]
Shrunk(r) == ShrinkToFit(r.pool, r.stack)
GetString(p, s) == Popped(Push(p, s, <<0>>))
ShrinkBuffer(p, s) == Popped(Shrunk(Push(p, s, <<0>>)))

Bytes(p, s) == [k \in 1 .. s.size |-> p.chunks[s.at[1]].cells[s.at[2] + k]]

PoolInit ==
    /\ \E chunk, initial \in Capacities :
           /\ pool = Pool(chunk)
           /\ stacks = <<Stack(initial), Stack(initial)>>
    /\ lists = <<<<>>, <<>>>>

OnStack(i, r) == pool' = r.pool /\ stacks' = [stacks EXCEPT ![i] = r.stack]
OnTop(i, s) == UNCHANGED pool /\ stacks' = [stacks EXCEPT ![i] = s]

PushBytes(i) ==
    \E values \in PushedBytes :
        /\ OnStack(i, Push(pool, stacks[i], values))
        /\ lists' = [lists EXCEPT ![i] = @ \o values]
PopByte(i) ==
    /\ stacks[i].size > 0
    /\ OnTop(i, Pop(stacks[i], 1))
    /\ lists' = [lists EXCEPT ![i] = Front(@)]
ClearStack(i) ==
    /\ OnTop(i, Clear(stacks[i]))
    /\ lists' = [lists EXCEPT ![i] = <<>>]
ReserveBytes(i) ==
    /\ \E n \in Counts : OnStack(i, Reserve(pool, stacks[i], n))
    /\ UNCHANGED lists
ShrinkStack(i) == OnStack(i, ShrinkToFit(pool, stacks[i])) /\ UNCHANGED lists
GetBuffer(i) == OnStack(i, GetString(pool, stacks[i])) /\ UNCHANGED lists
ShrinkString(i) == OnStack(i, ShrinkBuffer(pool, stacks[i])) /\ UNCHANGED lists
SwapStacks ==
    /\ stacks' = <<stacks[2], stacks[1]>>
    /\ lists' = <<lists[2], lists[1]>>
    /\ UNCHANGED pool

-----------------------------------------------------------------------------
StreamsInit == ReaderInit /\ WriterInit /\ PoolInit /\ operations = 0

Operation == operations < MaxOperations /\ operations' = operations + 1

ReaderNext == TakeChar /\ UNCHANGED <<writerVars, poolVars, operations>>
WriterNext ==
    /\ \/ Operation /\ (PutOne \/ FlushFile \/ PutN)
       \/ UNCHANGED operations /\ (FillBuffer \/ FillRest)
    /\ UNCHANGED <<readerVars, poolVars>>
PoolNext ==
    /\ Operation
    /\ \/ SwapStacks
       \/ \E i \in 1 .. 2 :
              \/ PushBytes(i) \/ PopByte(i) \/ ClearStack(i) \/ ReserveBytes(i)
              \/ ShrinkStack(i) \/ GetBuffer(i) \/ ShrinkString(i)
    /\ UNCHANGED <<readerVars, writerVars>>
StreamsNext == ReaderNext \/ WriterNext \/ PoolNext

-----------------------------------------------------------------------------
(* What is asked of them.                                                  *)

\* Whatever the size of the buffer, the file is read as the string that it
\* holds: the same character, position and four characters ahead after any
\* number of reads, and the end for ever; four characters are refused only
\* where the buffer ends before them.  The cursor has counted what was taken.
ReadsTheFile ==
    LET file == reader.file
        IsLineEnd(k) == file[k] = NewLine
    IN  /\ Peek(reader) = PeekMemory(file, at) /\ Tell(reader) = at
        /\ IF reader.current = 0 /\ reader.bufferSize >= 4
           THEN Peek4(reader) = Peek4Memory(file, at)
           ELSE Peek4(reader) \in {Peek4Memory(file, at), <<>>}
        /\ cursor.line = 1 + Cardinality({k \in 1 .. at : IsLineEnd(k)})
        /\ \E b \in 0 .. at :
               /\ b > 0 => IsLineEnd(b)
               /\ \A k \in b + 1 .. at : ~IsLineEnd(k)
               /\ cursor.col = at - b + overrun

\* What was put is in the file and in the buffer, in its order, and a flush
\* leaves nothing behind; on a full disk the file has the first part of it.
\* The buffer never has more than its size.
WritesTheFile ==
    LET flushed == Flush(writer).file IN
    /\ Len(writer.buffer) <= writer.bufferSize
    /\ Len(writer.file) < writer.room =>
       writer.file \o writer.buffer \o Fill(filling.c, filling.n) = put
    /\ IsPrefix(writer.file, put) /\ IsPrefix(flushed, put)
    /\ filling.n = 0 /\ Len(put) <= writer.room => flushed = put

\* Two stacks that grow in one pool keep their own bytes, whatever is done to
\* them, and no chunk gives out more than it has.
KeepsBytes ==
    /\ \A i \in 1 .. 2 : Bytes(pool, stacks[i]) = lists[i]
    /\ \A c \in DOMAIN pool.chunks : pool.chunks[c].size <= Len(pool.chunks[c].cells)
    /\ PoolSize(pool) <= PoolCapacity(pool)
=============================================================================
