-------------------------------- MODULE MCLua -------------------------------
(* The programs of MCLuaCompile and the calls of MCLuaLibrary in one run:   *)
(* a behaviour is a program compiled and run, or one call of the library.   *)
EXTENDS MCLuaCompile

CONSTANTS MAXCCALLS, LUA_MAXCAPTURES,
          NB, SZINT, SizeOfInt, MAXINTSIZE, MAXALIGN, LibMaxInteger, INT_MAX, WIDTH,
          BLOCK, COUNT, WORD, BYTE, SIZE_MAX, MAXSIZE, UCHAR_MAX, OCTET,
          ItemsBound, OptionsBound, ArrayBound, BytesBound, ChunkBound

VARIABLES call, returned

Lib == INSTANCE MCLuaLibrary WITH LUA_MAXINTEGER <- LibMaxInteger

ProgramCall == \E n \in DOMAIN MCPrograms : call = [op |-> "program", n |-> n] /\ returned = FALSE

LuaInit == Lib!Init \/ ProgramCall

LuaNext ==
    \/ Lib!Next
    \/ returned /\ UNCHANGED <<call, returned>>

LuaSpec == LuaInit /\ [][LuaNext]_<<call, returned>>

-----------------------------------------------------------------------------
(* Each holds of the step in which the call returns.                        *)

\* The compiler, the dumped form and the interpreter together keep the meaning
\* of the program: what it emits, what it returns and whether it fails are
\* those of its syntax tree.
MatchesReference == [][call.op = "program" => KeepsMeaning(MCPrograms[call.n])]_<<call, returned>>

\* No assertion of the compiler fails, and a closure never refers to a stack
\* slot whose function has returned.
CodeSound == [][call.op = "program" => SoundCode(MCPrograms[call.n])]_<<call, returned>>

\* The matcher of lstrlib.c gives the first of all the ways in which a pattern
\* can match, although failed attempts leave their captures behind; gsub
\* replaces exactly what gmatch gives.
PatternsAgree == [][Lib!PatternsAgree]_<<call, returned>>

\* Positions in strings: sub, byte, char, rep and a plain search agree at both
\* ends of the string and of the integers, and so do the functions of the utf8
\* library on every sequence of bytes.
StringsAgree == [][Lib!SlicesAgree /\ Lib!Utf8Agrees]_<<call, returned>>

\* What was written reads back: string.unpack gives what string.pack wrote,
\* whatever the sizes, the byte order and the alignment; the lexer gives the
\* lexemes a text was put together from and counts every line break once, with
\* or without looking ahead; and an address reads as getsockname printed it, in
\* its short forms as xpio.md describes them.
ReadsBack == [][Lib!PackRoundTrips /\ Lib!TokensRead /\ Lib!AddressRead]_<<call, returned>>

\* table.sort keeps the elements under any order function and sorts them under
\* an order; insert, remove, move, unpack and concat lose and invent none.
TablesAgree == [][Lib!SortSorts /\ Lib!ElementsMoved]_<<call, returned>>

\* The digest absorbs exactly the blocks of the padded message, however it was
\* cut into updates and also when the low word of the count wraps.
DigestIsStandard == [][Lib!DigestIsStandard]_<<call, returned>>
=============================================================================
