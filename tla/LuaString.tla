----------------------------- MODULE LuaString ------------------------------
(***************************************************************************)
(* The functions of lstrlib.c on positions and lengths: string.sub, byte,  *)
(* char, reverse and rep.  A string is a sequence of bytes.  A size_t has  *)
(* the values 0..SIZE_MAX, and no string is longer than MAXSIZE.           *)
(***************************************************************************)
EXTENDS Integers, Sequences, SequencesExt

CONSTANTS SIZE_MAX, MAXSIZE, UCHAR_MAX

size_t(n) == n % (SIZE_MAX + 1)

Error == [k |-> "error"]
Values(s) == [k |-> "ok", v |-> s]

\* A wrong posrelat: the length is not asked when the position is negative.
noFloor(pos, len) == IF pos >= 0 THEN pos ELSE size_t(len + pos + 1)

\* A negative position counts from the end of a string of length len; the
\* minus sign is unsigned, since the smallest integer has no opposite.
posrelat(pos, len) ==
    CASE pos >= 0 -> pos
      [] pos < 0 /\ size_t(0 - pos) > len -> 0
      [] OTHER -> len + pos + 1

AtLeast1(pos) == IF pos < 1 THEN 1 ELSE pos
AtMost(pos, len) == IF pos > len THEN len ELSE pos

str_sub(s, i, j) ==
    LET start == AtLeast1(posrelat(i, Len(s)))
        end == AtMost(posrelat(j, Len(s)), Len(s))
    IN  IF start <= end THEN SubSeq(s, start, end) ELSE <<>>

\* The bytes i..j as values; intmax is INT_MAX and room what the Lua stack
\* still takes.
str_byte(s, i, j, intmax, room) ==
    LET posi == AtLeast1(posrelat(i, Len(s)))
        pose == AtMost(posrelat(j, Len(s)), Len(s))
    IN  CASE posi > pose -> Values(<<>>)
          [] posi <= pose /\ (pose - posi >= intmax \/ pose - posi + 1 > room) -> Error
          [] OTHER -> Values([n \in 1..(pose - posi + 1) |-> s[posi + n - 1]])

str_char(args) ==
    IF \A n \in 1..Len(args) : args[n] \in 0..UCHAR_MAX THEN Values(args) ELSE Error

str_reverse(s) == [n \in 1..Len(s) |-> s[Len(s) - n + 1]]

\* Whether n copies, each with a separator, may be more than MAXSIZE.
TooLarge(l, lsep, n) == size_t(l + lsep) < l \/ size_t(l + lsep) > MAXSIZE \div n

\* The buffer has totallen bytes and is filled copy by copy.
str_rep(s, n, sep) ==
    LET totallen == size_t(size_t(n * Len(s)) + size_t((n - 1) * Len(sep)))
        copies == FlattenSeq([i \in 1..(n - 1) |-> s \o sep]) \o s
    IN  CASE n <= 0 -> Values(<<>>)
          [] n > 0 /\ TooLarge(Len(s), Len(sep), n) -> Error
          [] OTHER -> [k |-> "ok", v |-> copies, size |-> totallen]
=============================================================================
