------------------------------ MODULE LuaChunk ------------------------------
(***************************************************************************)
(* A chunk from its text to its results: LuaParser compiles it, at once or *)
(* after luaU_dump and luaU_undump have carried it over LuaVM runs it, and *)
(* LuaReference says what it should have done.                             *)
(***************************************************************************)
EXTENDS LuaParser, LuaDump, LuaReference

CONSTANT LUAI_MAXSTACK   \* slots of the Lua stack

VM(s) == INSTANCE LuaVM WITH S <- s

\* luaD_protectedparser: f_parser compiles the text of the tree.
Compiled(tree) == luaY_parser(Tokens(tree))

\* string.dump of the main function, and load of the result.
Reloaded(m, strip) == luaU_undump(luaU_dump(m.p, strip))

\* luaV_execute, until the main function has returned or an error was raised.
\* live: the upvalues were sound after every instruction.
RECURSIVE luaV_execute(_)
luaV_execute(s) ==
    IF s.phase \notin {"loaded", "run"} THEN s
    ELSE LET next == VM(s)!Step
         IN luaV_execute([next EXCEPT !.live = @ /\ VM(next)!UpvaluesLive])

\* lua_call of a function that luaY_parser or luaU_undump has returned.
lua_call(m) ==
    luaV_execute([phase |-> IF m.ok THEN "loaded" ELSE "error", main |-> m.p,
                  L |-> <<>>, heap |-> <<>>, out |-> <<>>, live |-> TRUE])

Observed(s) ==
    [ok |-> s.phase = "done", out |-> s.out, results |-> IF s.phase = "done" THEN VM(s)!Results ELSE <<>>]

-----------------------------------------------------------------------------
\* What a program emits, what it returns and whether it fails are those of its
\* syntax tree, when it runs as compiled, and when it was dumped with or
\* without its debug information and loaded again.
KeepsMeaning(tree) ==
    LET m == Compiled(tree)
        forms == IF m.ok THEN {m, Reloaded(m, FALSE), Reloaded(m, TRUE)} ELSE {m}
        meaning == Meaning(tree)
    IN \A f \in forms : Observed(lua_call(f)) = meaning

\* No assertion of the compiler (lua_assert) fails: registers are freed in the
\* order they were reserved, jump lists are closed when they must be, blocks
\* start with no temporaries.  And a closure never refers to a stack slot whose
\* function has returned.
SoundCode(tree) ==
    LET m == Compiled(tree)
        s == lua_call(m)
    IN m.ok => m.sound /\ s.live
=============================================================================
