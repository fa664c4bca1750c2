---------------------------- MODULE MCLuaRuntime ----------------------------
(* Two parts of the interpreter that share no state, in one run: calls,     *)
(* errors and coroutines (LuaDo) and tables (LuaTable).  One of them moves  *)
(* in a behaviour, the other stays as it starts.                            *)
EXTENDS LuaDo, TLC

CONSTANTS A, B                               \* coroutines
CONSTANTS Ints, Strs, Hash, Values, Sizes    \* of LuaTable

VARIABLES moves,   \* "calls" or "table"
          tbl, key, visited, travel
tableVars == <<tbl, key, visited, travel>>
Table == INSTANCE LuaTable WITH t <- tbl

Symm == Permutations({A, B})
AllFunctions == {"Lua", "pcall", "xpcall", "dofile", "sort", "resume", "wrap", "yield", "error"}
\* Keys for the array part, one far from it, and strings that collide.
SomeInts == {1, 2, 4}
SomeHash == [p |-> 2, q |-> 6]
SomeValues == {<<"v">>}

RuntimeInit ==
    /\ moves \in {"calls", "table"}
    /\ Init /\ Table!Init
    /\ moves # "table" => tbl = Table!luaH_resize(Table!luaH_new, 0, 0)

RuntimeNext ==
    \/ moves = "calls" /\ Next /\ UNCHANGED <<moves, tableVars>>
    \/ moves = "table" /\ Table!Next /\ UNCHANGED <<moves, vars>>

RuntimeSpec == RuntimeInit /\ [][RuntimeNext]_<<moves, vars, tableVars>>

\* ltable.c implements the map of LuaMap, traversal included: what an
\* assignment stored is read back and no other field changes, and #t is a
\* border of the table.
ImplementsMap == Table!ImplementsMap /\ []Table!StoresAndLength
=============================================================================
