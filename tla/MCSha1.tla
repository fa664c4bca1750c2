------------------------------- MODULE MCSha1 -------------------------------
(* A Lua string given to sha1.digest, which works on the string's memory.   *)
EXTENDS Sha1

CONSTANT Longest   \* bound on the length of the string

VARIABLES string,  \* what the string holds
          given,   \* what the program put there
          digest   \* what sha1.digest returned, <<>> before

Init == /\ \E n \in 0..Longest : given = [i \in 1..n |-> <<"byte", i>>]
        /\ string = given /\ digest = <<>>

Hash == /\ digest = <<>>
        /\ LET r == sha1_digest(string) IN digest' = r.digest /\ string' = r.input
        /\ UNCHANGED given

Spec == Init /\ [][Hash]_<<string, given, digest>>

\* A string keeps its bytes when its digest is taken (sha1_lua.c passes the
\* memory that luaL_checklstring gives it to SHA1_Update).
StringImmutable == string = given
=============================================================================
