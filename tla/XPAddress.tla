----------------------------- MODULE XPAddress ------------------------------
(***************************************************************************)
(* The addresses of xpio's sockets, "192.168.1.1:80", as xpio_c.c reads    *)
(* and prints them.  A string is a sequence of characters, the digits      *)
(* being 0..9.  An octet has OCTET values, a port OCTET^2 and an unsigned  *)
(* OCTET^4; an address is the four octets in network order.                *)
(***************************************************************************)
EXTENDS Integers, Sequences, SequencesExt

CONSTANT OCTET

Dot == 10
Colon == 11
isDigit(ch) == ch \in 0..9
unsigned(n) == n % OCTET^4

\* The number at the start of s, and what follows it; no digits are 0.
RECURSIVE ScanDigits(_, _)
ScanDigits(s, n) ==
    IF s # <<>> /\ isDigit(s[1]) THEN ScanDigits(Tail(s), unsigned(n * 10 + s[1]))
    ELSE [n |-> n, rest |-> s]
scanNum(s) == ScanDigits(s, 0)

\* The numbers before the colon, and the port.
RECURSIVE Components(_, _)
Components(s, nums) ==
    CASE s = <<>> -> [k |-> "ok", nums |-> nums, port |-> 0]
      [] s # <<>> /\ s[1] = Colon -> [k |-> "ok", nums |-> nums, port |-> scanNum(Tail(s)).n]
      [] s # <<>> /\ s[1] # Colon /\ Len(nums) >= 4 -> [k |-> "error"]
      [] OTHER -> LET r == scanNum(s)
                  IN  Components(IF r.rest # <<>> /\ r.rest[1] = Dot THEN Tail(r.rest) ELSE r.rest,
                                 Append(nums, r.n))

\* What component i of n counts for: the last one is the rest of the number.
Weight(i, n) == IF n > i THEN OCTET^(4 - i) ELSE 1

Octets(n) == [i \in 1..4 |-> (n \div OCTET^(4 - i)) % OCTET]

addrFromString(s) ==
    LET c == Components(s, <<>>)
        n == Len(c.nums)
        sum == FoldLeft(LAMBDA x, i : unsigned(x + unsigned(c.nums[i] * Weight(i, n))), 0,
                        [i \in 1..n |-> i])
    IN  IF c.k = "error" THEN c
        ELSE [k |-> "ok", addr |-> Octets(sum), port |-> c.port % OCTET^2]

\* What lua_pushfstring makes of %d.
RECURSIVE Decimal(_)
Decimal(n) == IF n < 10 THEN <<n>> ELSE Decimal(n \div 10) \o <<n % 10>>

xpsocket_getXname(addr, port) ==
    Decimal(addr[1]) \o <<Dot>> \o Decimal(addr[2]) \o <<Dot>> \o Decimal(addr[3]) \o <<Dot>>
        \o Decimal(addr[4]) \o <<Colon>> \o Decimal(port)
=============================================================================
