-------------------------------- MODULE Sha1 --------------------------------
(***************************************************************************)
(* sha1.digest (sha1.c, sha1_lua.c) around its compression function.  A    *)
(* block is BLOCK bytes and each of the two words of the bit count W bits, *)
(* both small; the last COUNT bytes of the padding hold the count.  The    *)
(* compression function is symbolic: the state is the sequence of the      *)
(* blocks it has absorbed, and, since the build does not define            *)
(* SHA1HANDSOFF, it works in the memory of the block it is given and       *)
(* leaves that overwritten.                                                *)
(***************************************************************************)
EXTENDS Integers, Sequences

CONSTANTS BLOCK,   \* bytes of a block: 64
          COUNT,   \* bytes of the padding that hold the count: 8
          W,       \* bits of a word of the count: 32
          BYTE     \* bits of a byte: 8

Word == 2^W

\* Bytes: those of a message are <<"byte", n>>, and these two of the padding.
One == <<"pad", 128>>
Zero == <<"pad", 0>>

\* What stands in memory for the byte b of a block that was expanded in place.
Expanded(b) == <<"expanded", b>>

SHA1_Init == [state |-> <<>>, count |-> <<0, 0>>, buffer |-> [i \in 1..BLOCK |-> Zero]]

\* The block at offset off of the memory mem: absorbed, and expanded in place.
SHA1_Transform(state, mem, off) ==
    [state |-> Append(state, SubSeq(mem, off + 1, off + BLOCK)),
     mem |-> [i \in 1..Len(mem) |-> IF i - off \in 1..BLOCK THEN Expanded(mem[i]) ELSE mem[i]]]

\* memcpy(&buffer[at], &data[from], n)
Filled(buffer, at, data, from, n) ==
    [i \in 1..BLOCK |-> IF i - at \in 1..n THEN data[from + i - at] ELSE buffer[i]]

\* A wrong Counted: the carry out of the first word is forgotten.
noCarry(count, len) ==
    <<(count[1] + len * BYTE) % Word, (count[2] + (len * BYTE) \div Word) % Word>>

\* The count of bits after len more bytes.  The first sum wraps to a word
\* and is then compared with len << 3, which does not: len is a size_t.
Counted(count, len) ==
    LET low == (count[1] + len * BYTE) % Word
        carry == IF low < len * BYTE THEN 1 ELSE 0
    IN  <<low, (count[2] + carry + (len * BYTE) \div Word) % Word>>

\* The whole blocks of data from i on, each hashed where it stands.
RECURSIVE WholeBlocks(_, _, _)
WholeBlocks(state, data, i) ==
    IF i + BLOCK - 1 >= Len(data) THEN [state |-> state, data |-> data, i |-> i]
    ELSE LET t == SHA1_Transform(state, data, i)
         IN  WholeBlocks(t.state, t.mem, i + BLOCK)

\* SHA1_Update: the context after it, and the caller's data after it.
SHA1_Update(ctx, data) ==
    LET len == Len(data)
        j == (ctx.count[1] \div BYTE) % BLOCK
        count == Counted(ctx.count, len)
        first == BLOCK - j
        b == SHA1_Transform(ctx.state, Filled(ctx.buffer, j, data, 0, first), 0)
        w == WholeBlocks(b.state, data, first)
    IN  IF j + len > BLOCK - 1
        THEN [ctx |-> [state |-> w.state, count |-> count,
                       buffer |-> Filled(b.mem, 0, w.data, w.i, len - w.i)],
              data |-> w.data]
        ELSE [ctx |-> [ctx EXCEPT !.count = count,
                                  !.buffer = Filled(ctx.buffer, j, data, 0, len)],
              data |-> data]

\* The padding of SHA1_Final, byte by byte until the count's place is reached.
PadStops(ctx) == (ctx.count[1] \div BYTE) % BLOCK = BLOCK - COUNT
RECURSIVE Padded(_)
Padded(ctx) == IF PadStops(ctx) THEN ctx ELSE Padded(SHA1_Update(ctx, <<Zero>>).ctx)

\* The bytes of the count are those it had before the padding; how they are
\* spelled out is left to CountBytes.
CountBytes(count) == [i \in 1..COUNT |-> <<"count", <<i, count>>>>]
SHA1_Final(ctx) ==
    SHA1_Update(Padded(SHA1_Update(ctx, <<One>>).ctx), CountBytes(ctx.count)).ctx.state

\* sha1.digest of a string, in one call of Update: the digest and what the
\* string holds afterwards.
sha1_digest(input) ==
    LET u == SHA1_Update(SHA1_Init, input)
    IN  [digest |-> SHA1_Final(u.ctx), input |-> u.data]
=============================================================================
