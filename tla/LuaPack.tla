------------------------------ MODULE LuaPack ------------------------------
(***************************************************************************)
(* string.pack, packsize and unpack (lstrlib.c).  A format is a sequence   *)
(* of options <<letter, number>>, number 0 where the text has none; a byte *)
(* has NB bits and a Lua integer SZINT bytes, so that the sizes below,     *)
(* equal to and above that of an integer can all be enumerated.            *)
(***************************************************************************)
EXTENDS Integers, Sequences

CONSTANTS NB,          \* bits of a byte
          SZINT,       \* bytes of a lua_Integer
          SizeOfInt,   \* bytes of an int, the default size of i and I
          MAXINTSIZE,  \* the largest size of an integral option
          MAXALIGN     \* the native alignment

PADBYTE == 0
Byte == 2^NB
Modulus == 2^(NB * SZINT)

lua_Unsigned(n) == n % Modulus
lua_Integer(u) == IF u >= Modulus \div 2 THEN u - Modulus ELSE u

Error == [k |-> "error"]

\* The header and the numbers an option may carry.
initheader == [islittle |-> TRUE, maxalign |-> 1]
getnum(o, df) == IF o[2] = 0 THEN df ELSE o[2]
InLimits(n) == n \in 1..MAXINTSIZE

\* Kind and size of an option, and the header after it.
getoption(h, o) ==
    LET n == getnum(o, SizeOfInt)
        Option(k, size) == [k |-> k, size |-> size, h |-> h]
    IN  CASE o[1] = "b" -> Option("Kint", 1)
          [] o[1] = "B" -> Option("Kuint", 1)
          [] o[1] = "j" -> Option("Kint", SZINT)
          [] o[1] = "J" -> Option("Kuint", SZINT)
          [] o[1] = "i" -> IF InLimits(n) THEN Option("Kint", n) ELSE Error
          [] o[1] = "I" -> IF InLimits(n) THEN Option("Kuint", n) ELSE Error
          [] o[1] = "s" -> IF InLimits(n) THEN Option("Kstring", n) ELSE Error
          [] o[1] = "c" -> IF o[2] = 0 THEN Error ELSE Option("Kchar", o[2])
          [] o[1] = "z" -> Option("Kzstr", 0)
          [] o[1] = "x" -> Option("Kpadding", 1)
          [] o[1] = "X" -> Option("Kpaddalign", 0)
          [] o[1] = "<" -> [k |-> "Knop", size |-> 0, h |-> [h EXCEPT !.islittle = TRUE]]
          [] o[1] = ">" -> [k |-> "Knop", size |-> 0, h |-> [h EXCEPT !.islittle = FALSE]]
          [] o[1] = "!" -> LET a == getnum(o, MAXALIGN)
                           IN  IF InLimits(a)
                               THEN [k |-> "Knop", size |-> 0, h |-> [h EXCEPT !.maxalign = a]]
                               ELSE Error
          [] OTHER -> Error

PowerOf2(n) == n \in {2^i : i \in 0..8}

\* The option at the head of fmt with its alignment, and how much of fmt it
\* takes: X takes its alignment from the option that follows it.
getdetails(h, totalsize, fmt) ==
    LET o == getoption(h, fmt[1])
        x == IF Len(fmt) = 1 THEN Error ELSE getoption(h, fmt[2])
        isX == o.k = "Kpaddalign"
        asked == IF isX THEN x.size ELSE o.size
        align == IF asked > h.maxalign THEN h.maxalign ELSE asked
        Details(n) == [k |-> o.k, size |-> o.size, ntoalign |-> n, used |-> IF isX THEN 2 ELSE 1,
                       h |-> IF isX THEN x.h ELSE o.h]
    IN  CASE o.k = "error" -> Error
          [] o.k # "error" /\ isX /\ (x.k \in {"error", "Kchar"} \/ x.size = 0) -> Error
          [] OTHER -> IF asked <= 1 \/ o.k = "Kchar" THEN Details(0)
                      ELSE IF ~PowerOf2(align) THEN Error
                      ELSE Details((align - (totalsize % align)) % align)

---------------------------------------------------------------------------
\* Byte i, counted from the least significant, goes where the order says.
Place(i, size, islittle) == IF islittle THEN i + 1 ELSE size - i

\* Wrong: the bytes beyond a Lua integer are always zero.
zeroExtend(neg) == 0
SignByte(neg) == IF neg THEN Byte - 1 ELSE 0

packint(u, islittle, size, neg) ==
    [p \in 1..size |->
        LET i == CHOOSE i \in 0..(size - 1) : Place(i, size, islittle) = p
        IN  IF i >= SZINT THEN SignByte(neg) ELSE (u \div Byte^i) % Byte]

\* The bytes of one argument, or Error; and how much they add to totalsize
\* beyond the size of the option.
PackValue(d, v) ==
    LET lim == 2^(d.size * NB - 1)
        OK(bytes, more) == [k |-> "ok", bytes |-> bytes, more |-> more]
    IN  CASE d.k = "Kint" ->
                IF d.size < SZINT /\ ~(-lim <= v /\ v < lim) THEN Error
                ELSE OK(packint(lua_Unsigned(v), d.h.islittle, d.size, v < 0), 0)
          [] d.k = "Kuint" ->
                IF d.size < SZINT /\ lua_Unsigned(v) >= 2^(d.size * NB) THEN Error
                ELSE OK(packint(lua_Unsigned(v), d.h.islittle, d.size, FALSE), 0)
          [] d.k = "Kchar" -> IF Len(v) = d.size THEN OK(v, 0) ELSE Error
          [] d.k = "Kstring" ->
                IF d.size < SZINT /\ Len(v) >= 2^(d.size * NB) THEN Error
                ELSE OK(packint(Len(v), d.h.islittle, d.size, FALSE) \o v, Len(v))
          [] d.k = "Kzstr" -> IF \E i \in 1..Len(v) : v[i] = 0 THEN Error
                              ELSE OK(Append(v, 0), Len(v) + 1)

TakesValue(d) == d.k \notin {"Kpadding", "Kpaddalign", "Knop"}

\* The rest of a format: bytes so far in b, arguments still to pack in args.
RECURSIVE Pack(_, _, _, _, _)
Pack(h, totalsize, fmt, args, b) ==
    IF fmt = <<>> THEN [k |-> "ok", bytes |-> b]
    ELSE LET d == getdetails(h, totalsize, fmt)
             rest == SubSeq(fmt, d.used + 1, Len(fmt))
             size == totalsize + d.ntoalign + d.size
             padded == b \o [i \in 1..d.ntoalign |-> PADBYTE]
             v == IF args = <<>> THEN Error ELSE PackValue(d, args[1])
         IN  CASE d.k = "error" -> Error
               [] d.k # "error" /\ ~TakesValue(d) ->
                     Pack(d.h, size, rest, args,
                          IF d.k = "Kpadding" THEN Append(padded, PADBYTE) ELSE padded)
               [] OTHER -> IF v.k = "error" THEN Error
                           ELSE Pack(d.h, size + v.more, rest, Tail(args), padded \o v.bytes)

str_pack(fmt, args) == Pack(initheader, 0, fmt, args, <<>>)

RECURSIVE PackSize(_, _, _)
PackSize(h, totalsize, fmt) ==
    IF fmt = <<>> THEN [k |-> "ok", size |-> totalsize]
    ELSE LET d == getdetails(h, totalsize, fmt)
         IN  IF d.k \in {"error", "Kstring", "Kzstr"} THEN Error
             ELSE PackSize(d.h, totalsize + d.ntoalign + d.size, SubSeq(fmt, d.used + 1, Len(fmt)))

str_packsize(fmt) == PackSize(initheader, 0, fmt)

---------------------------------------------------------------------------
\* The integer in the size bytes of data after pos.
unpackint(data, pos, islittle, size, issigned) ==
    LET limit == IF size <= SZINT THEN size ELSE SZINT
        B(i) == data[pos + Place(i, size, islittle)]
        sum[i \in 0..limit] == IF i = 0 THEN 0 ELSE sum[i - 1] + B(i - 1) * Byte^(i - 1)
        half == 2^(size * NB - 1)
        res == IF size < SZINT /\ issigned /\ sum[limit] >= half
               THEN lua_Unsigned(sum[limit] - 2 * half) ELSE sum[limit]
        mask == IF ~issigned \/ lua_Integer(res) >= 0 THEN 0 ELSE Byte - 1
    IN  IF \E i \in limit..(size - 1) : B(i) # mask THEN Error
        ELSE [k |-> "ok", value |-> lua_Integer(res)]

\* strlen(data + pos): the string may end at the end of the data.
strlen(data, pos) ==
    LET Z == {n \in 0..(Len(data) - pos) : pos + n = Len(data) \/ data[pos + n + 1] = 0}
    IN  CHOOSE n \in Z : \A m \in Z : n <= m

\* One value of kind d at pos, and where the next option starts.
UnpackValue(d, data, pos) ==
    LET int == unpackint(data, pos, d.h.islittle, d.size, d.k = "Kint")
        OK(value, next) == [k |-> "ok", value |-> value, next |-> next]
    IN  CASE d.k \in {"Kint", "Kuint"} ->
                IF int.k = "error" THEN Error ELSE OK(int.value, pos + d.size)
          [] d.k = "Kchar" -> OK(SubSeq(data, pos + 1, pos + d.size), pos + d.size)
          [] d.k = "Kstring" ->
                LET start == pos + d.size
                IN  IF int.k = "error" THEN Error
                    ELSE IF start + int.value > Len(data) THEN Error
                    ELSE OK(SubSeq(data, start + 1, start + int.value), start + int.value)
          [] d.k = "Kzstr" -> LET n == strlen(data, pos)
                              IN  OK(SubSeq(data, pos + 1, pos + n), pos + n + 1)

RECURSIVE Unpack(_, _, _, _, _)
Unpack(h, fmt, data, pos, values) ==
    IF fmt = <<>> THEN [k |-> "ok", values |-> values, next |-> pos + 1]
    ELSE LET d == getdetails(h, pos, fmt)
             rest == SubSeq(fmt, d.used + 1, Len(fmt))
             at == pos + d.ntoalign
             v == UnpackValue(d, data, at)
         IN  CASE d.k = "error" -> Error
               [] d.k # "error" /\ at + d.size > Len(data) -> Error
               [] d.k # "error" /\ at + d.size <= Len(data) /\ ~TakesValue(d) ->
                     Unpack(d.h, rest, data, at + d.size, values)
               [] OTHER -> IF v.k = "error" THEN Error
                           ELSE Unpack(d.h, rest, data, v.next, Append(values, v.value))

str_unpack(fmt, data) == Unpack(initheader, fmt, data, 0, <<>>)
============================================================================
