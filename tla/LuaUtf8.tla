------------------------------ MODULE LuaUtf8 ------------------------------
(***************************************************************************)
(* The utf8 library (lutf8lib.c) and the encoder it shares with the lexer  *)
(* (luaO_utf8esc).  A string is a sequence of bytes 0..255; the C string   *)
(* behind it ends with a zero byte that the loops may read.  Positions are *)
(* those of the C code, from 0, except in arguments and results.           *)
(***************************************************************************)
EXTENDS Integers, Sequences

MAXUNICODE == 1114111   \* 0x10FFFF

Bit6(c) == (c \div 64) % 2 = 1
At(s, o) == IF o < Len(s) THEN s[o + 1] ELSE 0
iscont(c) == c \div 64 = 2

u_posrelat(pos, len) ==
    IF pos >= 0 THEN pos ELSE IF -pos > len THEN 0 ELSE len + pos + 1

Limit == [count \in 0..3 |-> CASE count = 0 -> 255 [] count = 1 -> 127
                               [] count = 2 -> 2047 [] count = 3 -> 65535]
Malformed == [ok |-> FALSE]

\* What the continuation bytes and the first byte may add up to.
Acceptable(count, res) == count <= 3 /\ res <= MAXUNICODE /\ res > Limit[count]

\* The loop over the continuation bytes: c is the first byte shifted left
\* once for each of the count bytes read (more than three are refused at the
\* end whatever they hold, so that the sum need not be carried on).
RECURSIVE Continue(_, _, _, _, _)
Continue(s, o, c, count, res) ==
    IF ~Bit6(c)
    THEN LET code == res + (c % 128) * 2^(count * 5)
         IN  IF count <= 3 /\ Acceptable(count, code)
             THEN [ok |-> TRUE, code |-> code, next |-> o + count + 1]
             ELSE Malformed
    ELSE LET cc == At(s, o + count + 1)
         IN  IF ~iscont(cc) THEN Malformed
             ELSE Continue(s, o, c * 2, count + 1,
                           IF count < 4 THEN res * 64 + (cc % 64) ELSE res)

utf8_decode(s, o) ==
    LET c == At(s, o)
    IN  IF c < 128 THEN [ok |-> TRUE, code |-> c, next |-> o + 1]
        ELSE Continue(s, o, c, 0, 0)

Argument == [k |-> "error"]
Value(v) == [k |-> "ok", v |-> v]

\* utf8.len(s, i, j)
RECURSIVE CountFrom(_, _, _, _)
CountFrom(s, posi, posj, n) ==
    IF posi > posj THEN Value(n)
    ELSE LET d == utf8_decode(s, posi)
         IN  IF d.ok THEN CountFrom(s, d.next, posj, n + 1)
             ELSE [k |-> "malformed", v |-> posi + 1]
utflen(s, i, j) ==
    LET posi == u_posrelat(i, Len(s))
        posj == u_posrelat(j, Len(s))
    IN  IF posi < 1 \/ posi - 1 > Len(s) \/ posj - 1 >= Len(s) THEN Argument
        ELSE CountFrom(s, posi - 1, posj - 1, 0)

\* utf8.codepoint(s, i, j)
RECURSIVE CodesFrom(_, _, _, _)
CodesFrom(s, o, end, codes) ==
    IF o >= end THEN Value(codes)
    ELSE LET d == utf8_decode(s, o)
         IN  IF d.ok THEN CodesFrom(s, d.next, end, Append(codes, d.code)) ELSE Argument
codepoint(s, i, j) ==
    LET posi == u_posrelat(i, Len(s))
        pose == u_posrelat(j, Len(s))
    IN  IF posi < 1 \/ pose > Len(s) THEN Argument
        ELSE IF posi > pose THEN Value(<<>>) ELSE CodesFrom(s, posi - 1, pose, <<>>)

\* The encoder: continuation bytes from the last one forwards, as long as the
\* rest is too large for the bits that the first byte has left.
RECURSIVE Encode(_, _, _)
Encode(x, mfb, tail) ==
    LET more == <<128 + (x % 64)>> \o tail
        rest == x \div 64
        m == mfb \div 2
    IN  IF rest > m THEN Encode(rest, m, more)
        ELSE <<(254 - 2 * m) + rest>> \o more
luaO_utf8esc(x) == IF x < 128 THEN <<x>> ELSE Encode(x, 63, <<>>)

\* utf8.char(...)
pushutfchar(code) ==
    IF code \in 0..MAXUNICODE THEN Value(luaO_utf8esc(code)) ELSE Argument
RECURSIVE utfchar(_)
utfchar(codes) ==
    IF codes = <<>> THEN Value(<<>>)
    ELSE LET h == pushutfchar(codes[1])
             t == utfchar(Tail(codes))
         IN  IF h.k = "error" \/ t.k = "error" THEN Argument ELSE Value(h.v \o t.v)

\* utf8.offset(s, n, i): steps back over a character, and forward over one.
RECURSIVE StartOf(_, _)
StartOf(s, o) == IF o > 0 /\ iscont(At(s, o)) THEN StartOf(s, o - 1) ELSE o
RECURSIVE SkipConts(_, _)
SkipConts(s, o) == IF iscont(At(s, o)) THEN SkipConts(s, o + 1) ELSE o
RECURSIVE Back(_, _, _)
Back(s, o, n) == IF n < 0 /\ o > 0 THEN Back(s, StartOf(s, o - 1), n + 1) ELSE <<o, n>>
RECURSIVE Forth(_, _, _)
Forth(s, o, n) == IF n > 0 /\ o < Len(s) THEN Forth(s, SkipConts(s, o + 1), n - 1) ELSE <<o, n>>

byteoffset(s, n, i) ==
    LET posi == u_posrelat(i, Len(s)) - 1
        r == CASE n = 0 -> <<StartOf(s, posi), 0>>
               [] n < 0 -> Back(s, posi, n)
               [] n > 0 -> Forth(s, posi, n - 1)
    IN  CASE posi < 0 \/ posi > Len(s) -> Argument
          [] posi >= 0 /\ posi <= Len(s) /\ n # 0 /\ iscont(At(s, posi)) -> Argument
          [] OTHER -> IF r[2] = 0 THEN Value(r[1] + 1) ELSE [k |-> "nil"]

\* One step of the iterator of utf8.codes, from the position of the last one.
iter_aux(s, last) ==
    LET n == CASE last - 1 < 0 -> 0
               [] last - 1 \in 0..(Len(s) - 1) -> SkipConts(s, last)
               [] OTHER -> last - 1
        d == utf8_decode(s, n)
    IN  CASE n >= Len(s) -> [k |-> "end"]
          [] n < Len(s) /\ (~d.ok \/ iscont(At(s, d.next))) -> Argument
          [] OTHER -> Value(<<n + 1, d.code>>)

\* for p, c in utf8.codes(s): the pairs, or the error.
RECURSIVE iter_codes(_, _, _)
iter_codes(s, last, pairs) ==
    LET r == iter_aux(s, last)
    IN  CASE r.k = "end" -> Value(pairs)
          [] r.k = "error" -> Argument
          [] OTHER -> iter_codes(s, r.v[1], Append(pairs, r.v))
=============================================================================
