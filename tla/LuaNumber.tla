----------------------------- MODULE LuaNumber -----------------------------
(***************************************************************************)
(* The two kinds of number of the Lua interpreter: integers of W bits that *)
(* wrap around, and floats with a mantissa of NBM bits (lobject.c, lvm.c,  *)
(* luaconf.h).  W and NBM are small; what matters is that W > NBM, so that *)
(* some integers have no exact float.                                      *)
(*                                                                         *)
(* A value is a tuple with its type first.  A float is given in halves, so *)
(* <<"flt", 3>> is 1.5; Inf, -Inf and NaN have names.                      *)
(***************************************************************************)
EXTENDS Integers

CONSTANTS
    W,      \* bits of lua_Integer
    NBM     \* bits of the mantissa of lua_Number

ASSUME WidthAssumption == W \in Nat \ {0, 1} /\ NBM \in 1 .. (W - 1)

LUA_MININTEGER == -(2 ^ (W - 1))
LUA_MAXINTEGER == 2 ^ (W - 1) - 1
Integer == LUA_MININTEGER .. LUA_MAXINTEGER

\* intop: unsigned arithmetic, read as signed.
Wrap(n) == ((n - LUA_MININTEGER) % (2 ^ W)) + LUA_MININTEGER

Abs(n) == IF n < 0 THEN -n ELSE n
\* Division and remainder of C, which truncate.
CDiv(m, n) == IF (m < 0) = (n < 0) THEN Abs(m) \div Abs(n) ELSE -(Abs(m) \div Abs(n))
CMod(m, n) == m - n * CDiv(m, n)

\* No integer: what a failing conversion or a division by zero gives.
NoInteger == 2 ^ W

\* Division by -1 would overflow at the minimum.
luaV_div(m, n) ==
    IF n \in {-1, 0} THEN IF n = 0 THEN NoInteger ELSE Wrap(-m)
    ELSE CDiv(m, n) - (IF (m < 0) # (n < 0) /\ CMod(m, n) # 0 THEN 1 ELSE 0)
luaV_mod(m, n) ==
    IF n \in {-1, 0} THEN IF n = 0 THEN NoInteger ELSE 0
    ELSE CMod(m, n) + (IF CMod(m, n) # 0 /\ (m < 0) # (n < 0) THEN n ELSE 0)

\* A shift right is logical: the bits of x as an unsigned number.
luaV_shiftl(x, y) ==
    IF y <= -W \/ y >= W THEN 0
    ELSE IF y < 0 THEN Wrap((x % (2 ^ W)) \div (2 ^ (-y)))
    ELSE Wrap(x * 2 ^ y)

-----------------------------------------------------------------------------
(* Floats.                                                                  *)

IntV(n) == <<"int", n>>
FltV(h) == <<"flt", h>>
Inf == <<"inf">>
MInf == <<"-inf">>
NaN == <<"nan">>
IsNumber(v) == v[1] \in {"int", "flt", "inf", "-inf", "nan"}
IsFloat(v) == IsNumber(v) /\ v[1] # "int"

\* The float nearest to h halves; of two the one with the even mantissa.
Round(h) ==
    LET a == Abs(h)
        e == CHOOSE x \in 0 .. (2 * W) : a < 2 ^ (NBM + x) /\ (x = 0 \/ a >= 2 ^ (NBM + x - 1))
        u == 2 ^ e
        q == a \div u
        r == a % u
        m == IF 2 * r > u \/ (2 * r = u /\ q % 2 = 1) THEN q + 1 ELSE q
    IN IF h < 0 THEN -(m * u) ELSE m * u

\* cast_num, and the comparison of floats; a NaN compares false.
cast_num(i) == FltV(Round(2 * i))
Rank(f) == CASE f = Inf -> 2 ^ (2 * W) [] f = MInf -> -(2 ^ (2 * W)) [] OTHER -> f[2]
luai_numlt(f, h) == f # NaN /\ h # NaN /\ Rank(f) < Rank(h)
luai_numle(f, h) == f # NaN /\ h # NaN /\ Rank(f) <= Rank(h)

l_intfitsf(i) == -(2 ^ NBM) <= i /\ i <= 2 ^ NBM
\* The minimum has an exact float, the maximum plus one too.
MinFloat == FltV(2 * LUA_MININTEGER)
MaxFloat1 == FltV(-2 * LUA_MININTEGER)
Truncate(f) == CDiv(f[2], 2)

LTintfloat(i, f) ==
    IF l_intfitsf(i) THEN luai_numlt(cast_num(i), f)
    ELSE IF luai_numle(MaxFloat1, f) THEN TRUE
    ELSE luai_numlt(MinFloat, f) /\ i < Truncate(f)
LEintfloat(i, f) ==
    IF l_intfitsf(i) THEN luai_numle(cast_num(i), f)
    ELSE IF luai_numle(MaxFloat1, f) THEN TRUE
    ELSE luai_numle(MinFloat, f) /\ i <= Truncate(f)

LTnum(l, r) ==
    CASE l[1] = "int" /\ r[1] = "int" -> l[2] < r[2]
      [] l[1] = "int" /\ IsFloat(r) -> LTintfloat(l[2], r)
      [] IsFloat(l) /\ IsFloat(r) -> luai_numlt(l, r)
      [] OTHER -> l # NaN /\ ~LEintfloat(r[2], l)
LEnum(l, r) ==
    CASE l[1] = "int" /\ r[1] = "int" -> l[2] <= r[2]
      [] l[1] = "int" /\ IsFloat(r) -> LEintfloat(l[2], r)
      [] IsFloat(l) /\ IsFloat(r) -> luai_numle(l, r)
      [] OTHER -> l # NaN /\ ~LTintfloat(r[2], l)

\* lua_numbertointeger and luaV_tointeger: mode 0 takes integral values only,
\* 1 the floor, 2 the ceiling.
Floor(f) == f[2] \div 2
luaV_tointeger(v, mode) ==
    CASE v[1] = "int" -> v[2]
      [] v[1] = "flt" ->
           LET n == Floor(v) + (IF v[2] % 2 # 0 /\ mode > 1 THEN 1 ELSE 0)
           IN IF v[2] % 2 # 0 /\ mode = 0 THEN NoInteger
              ELSE IF luai_numle(MinFloat, FltV(2 * n)) /\ luai_numlt(FltV(2 * n), MaxFloat1)
              THEN n ELSE NoInteger
      [] OTHER -> NoInteger
tonumber(v) == IF v[1] = "int" THEN cast_num(v[2]) ELSE v

\* luaV_equalobj on numbers of different kinds: as integers.
EqNum(l, r) ==
    IF l[1] = "int" /\ r[1] = "int" THEN l = r
    ELSE IF IsFloat(l) /\ IsFloat(r) THEN l # NaN /\ l = r
    ELSE luaV_tointeger(l, 0) # NoInteger /\ luaV_tointeger(r, 0) # NoInteger
         /\ luaV_tointeger(l, 0) = luaV_tointeger(r, 0)

\* forlimit: the limit of an integer loop, clipped when it is a float out of
\* range; stopnow when the loop must not run at all.
forlimit(v, step) ==
    LET p == luaV_tointeger(v, IF step < 0 THEN 2 ELSE 1)
    IN IF p # NoInteger THEN [p |-> p, stopnow |-> FALSE]
       ELSE IF luai_numlt(FltV(0), tonumber(v))
       THEN [p |-> LUA_MAXINTEGER, stopnow |-> step < 0]
       ELSE [p |-> LUA_MININTEGER, stopnow |-> step >= 0]

-----------------------------------------------------------------------------
(* luaO_arith.                                                              *)

IntOnly == {"SHL", "SHR", "BNOT"}
intarith(op, a, b) ==
    CASE op = "ADD" -> Wrap(a + b)
      [] op = "SUB" -> Wrap(a - b)
      [] op = "MUL" -> Wrap(a * b)
      [] op = "MOD" -> luaV_mod(a, b)
      [] op = "IDIV" -> luaV_div(a, b)
      [] op = "SHL" -> luaV_shiftl(a, b)
      [] op = "SHR" -> luaV_shiftl(a, Wrap(-b))
      [] op = "UNM" -> Wrap(-a)
      [] op = "BNOT" -> Wrap(-a - 1)

\* Sums of floats that stay in range are rounded.
numarith(op, x, y) ==
    CASE op = "ADD" -> FltV(Round(x[2] + y[2]))
      [] op = "SUB" -> FltV(Round(x[2] - y[2]))
      [] op = "UNM" -> FltV(-x[2])

NoResult == <<"error">>
luaO_arith(op, a, b) ==
    IF op \in IntOnly
    THEN IF luaV_tointeger(a, 0) # NoInteger /\ luaV_tointeger(b, 0) # NoInteger
         THEN IntV(intarith(op, luaV_tointeger(a, 0), luaV_tointeger(b, 0)))
         ELSE NoResult
    ELSE IF a[1] = "int" /\ b[1] = "int"
    THEN IF op \in {"MOD", "IDIV"} /\ b[2] = 0 THEN NoResult
         ELSE IntV(intarith(op, a[2], b[2]))
    ELSE IF IsNumber(a) /\ IsNumber(b) THEN numarith(op, tonumber(a), tonumber(b))
    ELSE NoResult
=============================================================================
