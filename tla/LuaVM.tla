------------------------------- MODULE LuaVM -------------------------------
(***************************************************************************)
(* luaV_execute (lvm.c) with the calls of ldo.c and the upvalues of        *)
(* lfunc.c: one instruction of a compiled function.  S is the state before *)
(* it and Step the state after it, as the interpreter is sequential.       *)
(*                                                                         *)
(* A value is a tuple, its type first: <<"nil">>, <<"bool", b>>, a number  *)
(* of LuaNumber, <<"str", s>>, and <<"table", i>> and <<"fun", i>> for     *)
(* number i of the heap's tables and closures.  <<"cfun">> is a C function *)
(* that records its arguments in out and returns them.                     *)
(*                                                                         *)
(* No value has metamethods here: an operation that would try one raises   *)
(* the error that ends the program.  The stack never moves (correctstack   *)
(* makes a reallocation invisible) but is limited to LUAI_MAXSTACK slots.  *)
(***************************************************************************)
EXTENDS LuaCode, FiniteSets

CONSTANTS
    LUAI_MAXSTACK,     \* slots of the Lua stack
    S                  \* phase: "loaded", "run", then "done" or "error"
                       \* main: the main function's prototype
                       \* L: lua_State: stack, top and ci, a frame being
                       \*    [func, base, top, pc, nresults]; openupval: the open upvalues
                       \* heap: upval [open, at, v]; closure [path, ups]; cache; table
                       \* out: what the program has emitted

main == S.main
L == S.L
heap == S.heap
out == S.out

Nil == <<"nil">>
l_isfalse(v) == v \in {Nil, <<"bool", FALSE>>}
Slots == 0 .. (LUAI_MAXSTACK - 1)

\* A prototype is reached from the main one through the lists p.
RECURSIVE ProtoAt(_, _)
ProtoAt(p, path) == IF path = <<>> THEN p ELSE ProtoAt(p.p[Head(path) + 1], Tail(path))

-----------------------------------------------------------------------------
(* The frame that runs.                                                     *)

Ci == Last(L.ci)
Cl == heap.closure[L.stack[Ci.func][2]]
P == ProtoAt(main, Cl.path)
I == P.code[Ci.pc + 1]

R(x) == L.stack[Ci.base + x]
RA == R(I.a)
RK(x) == IF ISK(x) THEN P.k[x - BITRK + 1] ELSE R(x)
RKB == RK(I.b)
RKC == RK(I.c)

SetReg(l, x, v) == [l EXCEPT !.stack[Ci.base + x] = v]
\* savedpc: after the instruction and n more.
Advance(l, n) == [l EXCEPT !.ci[Len(l.ci)].pc = @ + 1 + n]
SetTop(l, t) == [l EXCEPT !.top = t]

\* What an instruction leaves: only L changes, or the heap too.
Become(l) == [S EXCEPT !.L = l]
BecomeBoth(l, h) == [S EXCEPT !.L = l, !.heap = h]
luaG_runerror == [S EXCEPT !.phase = "error"]
Result(v) == Become(Advance(SetReg(L, I.a, v), 0))

-----------------------------------------------------------------------------
(* Upvalues.                                                                *)

UpvalueGet(u) == IF heap.upval[u].open THEN L.stack[heap.upval[u].at] ELSE heap.upval[u].v

\* luaF_findupval: one upvalue for a stack slot, however many closures use it.
luaF_findupval(l, h, level) ==
    LET found == {u \in l.openupval : h.upval[u].at = level}
        new == Len(h.upval) + 1
    IN IF found # {} THEN [l |-> l, h |-> h, u |-> CHOOSE u \in found : TRUE]
       ELSE [l |-> [l EXCEPT !.openupval = @ \union {new}],
             h |-> [h EXCEPT !.upval = Append(@, [open |-> TRUE, at |-> level, v |-> Nil])],
             u |-> new]

\* Wrong: the upvalue at level itself stays open.
closesAbove(l, h, level) == {u \in l.openupval : h.upval[u].at > level}

\* luaF_close: upvalues at or above level take their values out of the stack.
Closing(l, h, level) == {u \in l.openupval : h.upval[u].at >= level}
CloseHeap(l, h, level) ==
    [h EXCEPT !.upval = [u \in DOMAIN @ |->
       IF u \in Closing(l, h, level) THEN [open |-> FALSE, at |-> 0, v |-> l.stack[@[u].at]] ELSE @[u]]]
CloseStack(l, h, level) == [l EXCEPT !.openupval = @ \ Closing(l, h, level)]

-----------------------------------------------------------------------------
(* Tables, without metatables.                                              *)

\* luaH_newkey: a float key with an integer value becomes the integer.
TableKey(v) == IF v[1] = "flt" /\ luaV_tointeger(v, 0) # NoInteger THEN IntV(luaV_tointeger(v, 0)) ELSE v
luaH_get(t, key) == IF TableKey(key) \in DOMAIN t THEN t[TableKey(key)] ELSE Nil
luaH_set(t, key, v) ==
    IF v = Nil THEN [k \in DOMAIN t \ {TableKey(key)} |-> t[k]] ELSE (TableKey(key) :> v) @@ t
luaH_getn(t) == CHOOSE n \in 0 .. Cardinality(DOMAIN t) :
                   (n = 0 \/ IntV(n) \in DOMAIN t) /\ IntV(n + 1) \notin DOMAIN t

luaV_gettable(t, key, reg, l) ==
    IF t[1] = "table" THEN Become(Advance(SetReg(l, reg, luaH_get(heap.table[t[2]], key)), 0))
    ELSE luaG_runerror
luaV_settable(t, key, v) ==
    IF t[1] = "table" /\ key \notin {Nil, NaN}
    THEN BecomeBoth(Advance(L, 0), [heap EXCEPT !.table[t[2]] = luaH_set(@, key, v)])
    ELSE luaG_runerror

luaV_equalobj(a, b) == IF IsNumber(a) /\ IsNumber(b) THEN EqNum(a, b) ELSE a = b

-----------------------------------------------------------------------------
(* Calls (ldo.c).                                                           *)

\* luaD_precall of a Lua function with the arguments func + 1 .. top - 1.
\* Missing parameters become nil; a vararg function gets its fixed ones
\* above the arguments, whose first slots are cleared (adjust_varargs).
ActualArgs(l, func, p) == LET n == l.top - func - 1 IN IF n < p.numparams THEN p.numparams ELSE n
NewBase(l, func, p) == IF p.is_vararg THEN func + 1 + ActualArgs(l, func, p) ELSE func + 1
FitsStack(l, func, p) == NewBase(l, func, p) + p.maxstacksize <= LUAI_MAXSTACK

PassedArgs(l, func, p) ==
    LET base == NewBase(l, func, p)
        fixed == func + 1
        arg(s) == IF s < l.top THEN l.stack[s] ELSE Nil
    IN [s \in Slots |->
          IF s >= base /\ s < base + p.numparams THEN arg(fixed + (s - base))
          ELSE IF p.is_vararg /\ s >= fixed /\ s < fixed + p.numparams THEN Nil
          ELSE IF s >= l.top /\ s < fixed + ActualArgs(l, func, p) THEN Nil
          ELSE l.stack[s]]

luaD_precall(l, func, p, nresults) ==
    LET base == NewBase(l, func, p)
        frame == [func |-> func, base |-> base, top |-> base + p.maxstacksize, pc |-> 0,
                  nresults |-> nresults]
    IN [l EXCEPT !.stack = PassedArgs(l, func, p), !.top = frame.top, !.ci = Append(@, frame)]

\* luaD_poscall: as many results as wanted, at the place of the function.
luaD_poscall(l, func, wanted, first, nres) ==
    LET n == IF wanted = LUA_MULTRET THEN nres ELSE wanted
    IN [l EXCEPT !.stack = [s \in Slots |->
                              IF s < func \/ s >= func + n THEN l.stack[s]
                              ELSE IF s - func < nres THEN l.stack[first + (s - func)] ELSE Nil],
                 !.top = func + n]

\* The caller's top is restored unless it asked for all results.
BackInCaller(l, wanted) ==
    IF wanted = LUA_MULTRET \/ l.ci = <<>> THEN l ELSE SetTop(l, Last(l.ci).top)

ArgsOf(l, func) == [i \in 1 .. (l.top - func - 1) |-> l.stack[func + i]]

\* What is seen of a value from outside: which table or function it is, not.
View(v) == IF v[1] \in {"table", "fun", "cfun"} THEN <<"object">> ELSE v

\* A call of what is in slot func; l has the arguments in place.
CallValue(l, func, wanted) ==
    LET f == l.stack[func]
        p == ProtoAt(main, heap.closure[f[2]].path)
        args == ArgsOf(l, func)
    IN CASE f[1] = "cfun" ->
              [S EXCEPT !.out = @ \o [i \in 1 .. Len(args) |-> View(args[i])],
                        !.L = BackInCaller(luaD_poscall(l, func, wanted, func + 1, Len(args)), wanted)]
         [] f[1] = "fun" ->
              IF FitsStack(l, func, p) THEN Become(luaD_precall(l, func, p, wanted)) ELSE luaG_runerror
         [] OTHER -> luaG_runerror

-----------------------------------------------------------------------------
(* lua_load sets the first upvalue to the globals; lua_call starts the      *)
(* chunk.                                                                   *)

Start ==
    [S EXCEPT !.phase = "run",
              !.heap = [upval |-> <<[open |-> FALSE, at |-> 0, v |-> <<"table", 1>>]>>,
                        closure |-> <<[path |-> <<>>, ups |-> <<1>>]>>, cache |-> <<>>,
                        table |-> << <<"str", "emit">> :> <<"cfun">> >>],
              !.L = luaD_precall([stack |-> [s \in Slots |-> IF s = 0 THEN <<"fun", 1>> ELSE Nil], top |-> 1,
                                  ci |-> <<>>, openupval |-> {}], 0, main, LUA_MULTRET)]

-----------------------------------------------------------------------------
(* The instructions.                                                        *)

OpMove == Result(R(I.b))
OpLoadK == Result(P.k[I.b + 1])
OpLoadBool == Become(Advance(SetReg(L, I.a, <<"bool", I.b = 1>>), I.c))
OpLoadNil ==
    LET nils == (Ci.base + I.a) .. (Ci.base + I.a + I.b)
    IN Become(Advance([L EXCEPT !.stack = [s \in Slots |-> IF s \in nils THEN Nil ELSE @[s]]], 0))

OpGetUpval == Result(UpvalueGet(Cl.ups[I.b + 1]))
OpSetUpval ==
    LET u == Cl.ups[I.b + 1]
    IN IF heap.upval[u].open
       THEN Become(Advance([L EXCEPT !.stack[heap.upval[u].at] = RA], 0))
       ELSE BecomeBoth(Advance(L, 0), [heap EXCEPT !.upval[u].v = RA])

OpGetTabUp == luaV_gettable(UpvalueGet(Cl.ups[I.b + 1]), RKC, I.a, L)
OpGetTable == luaV_gettable(R(I.b), RKC, I.a, L)
\* The object is copied before the method is read, which may overwrite it;
\* the key is read after the copy.
OpSelf ==
    LET l == SetReg(L, I.a + 1, R(I.b))
        key == IF ISK(I.c) THEN RKC ELSE l.stack[Ci.base + I.c]
    IN luaV_gettable(l.stack[Ci.base + I.b], key, I.a, l)
OpSetTabUp == luaV_settable(UpvalueGet(Cl.ups[I.a + 1]), RKB, RKC)
OpSetTable == luaV_settable(RA, RKB, RKC)
OpNewTable ==
    BecomeBoth(Advance(SetReg(L, I.a, <<"table", Len(heap.table) + 1>>), 0),
               [heap EXCEPT !.table = Append(@, <<>>)])

\* The items of a constructor are in the registers after the table.
OpSetList ==
    LET n == IF I.b = 0 THEN L.top - (Ci.base + I.a) - 1 ELSE I.b
        first == (I.c - 1) * LFIELDS_PER_FLUSH
        add(t, i) == luaH_set(t, IntV(first + i), R(I.a + i))
    IN BecomeBoth(SetTop(Advance(L, 0), Ci.top),
                  [heap EXCEPT !.table[RA[2]] = FoldLeft(add, @, [i \in 1 .. n |-> i])])

\* The arithmetic and the bitwise instructions; an error when an operand is
\* no number, no integer, or a zero divisor.
Arith(a, b) ==
    LET v == IF IsNumber(a) /\ IsNumber(b) THEN luaO_arith(I.op, a, b) ELSE NoResult
    IN IF v = NoResult THEN luaG_runerror ELSE Result(v)
OpBinary == Arith(RKB, RKC)
OpUnary == Arith(R(I.b), R(I.b))
OpNot == Result(<<"bool", l_isfalse(R(I.b))>>)
OpLen ==
    CASE R(I.b)[1] = "table" -> Result(IntV(luaH_getn(heap.table[R(I.b)[2]])))
      [] R(I.b)[1] = "str" -> Result(IntV(Len(R(I.b)[2])))
      [] OTHER -> luaG_runerror

\* luaV_concat: the operands are joined from the last to the first.
tostring(v) == IF v[1] = "int" THEN ToString(v[2]) ELSE v[2]
OpConcat ==
    LET vs == [i \in 1 .. (I.c - I.b + 1) |-> R(I.b + i - 1)]
    IN IF \A i \in DOMAIN vs : vs[i][1] \in {"str", "int"}
       THEN LET s == FoldRight(LAMBDA v, acc : tostring(v) \o acc, vs, "")
            IN Become(SetTop(Advance(SetReg(SetReg(L, I.b, <<"str", s>>), I.a, <<"str", s>>), 0), Ci.top))
       ELSE luaG_runerror

-----------------------------------------------------------------------------
(* Jumps and tests.                                                         *)

\* dojump: instruction j jumps from its own place, e instructions further on.
dojump(l, j, e) ==
    LET level == Ci.base + j.a - 1
    IN IF j.a > 0 THEN BecomeBoth(Advance(CloseStack(l, heap, level), j.b + e), CloseHeap(l, heap, level))
       ELSE Become(Advance(l, j.b + e))
OpJmp == dojump(L, I, 0)

\* A test that holds executes the jump after it, one that fails skips it.
Test(l, holds) == IF holds THEN dojump(l, P.code[Ci.pc + 2], 1) ELSE Become(Advance(L, 1))
OpEq == Test(L, luaV_equalobj(RKB, RKC) = (I.a = 1))
OpLess ==
    IF IsNumber(RKB) /\ IsNumber(RKC)
    THEN Test(L, (IF I.op = "LT" THEN LTnum(RKB, RKC) ELSE LEnum(RKB, RKC)) = (I.a = 1))
    ELSE luaG_runerror
OpTest == Test(L, l_isfalse(RA) = (I.c = 0))
OpTestSet == Test(SetReg(L, I.a, R(I.b)), l_isfalse(R(I.b)) = (I.c = 0))

\* FORPREP takes one step back, since it jumps to the FORLOOP.
OpForPrep ==
    LET plimit == R(I.a + 1)
        pstep == R(I.a + 2)
        set(init, limit, step) ==
          Become(Advance(SetReg(SetReg(SetReg(L, I.a, init), I.a + 1, limit), I.a + 2, step), I.b))
        lim == forlimit(plimit, pstep[2])
        start == IF lim.stopnow THEN 0 ELSE RA[2]
    IN IF ~(IsNumber(RA) /\ IsNumber(plimit) /\ IsNumber(pstep)) THEN luaG_runerror
       ELSE IF RA[1] = "int" /\ pstep[1] = "int"
       THEN set(IntV(Wrap(start - pstep[2])), IntV(lim.p), pstep)
       ELSE set(numarith("SUB", tonumber(RA), tonumber(pstep)), tonumber(plimit), tonumber(pstep))
OpForLoop ==
    LET limit == R(I.a + 1)
        step == R(I.a + 2)
        idx == IF RA[1] = "int" THEN IntV(Wrap(RA[2] + step[2])) ELSE numarith("ADD", RA, step)
        more == IF LTnum(IntV(0), step) THEN LEnum(idx, limit) ELSE LEnum(limit, idx)
    IN Become(IF more THEN Advance(SetReg(SetReg(L, I.a, idx), I.a + 3, idx), I.b) ELSE Advance(L, 0))

-----------------------------------------------------------------------------
(* Calls and closures.                                                      *)

\* With b = 0 the instruction before has set the top.
CallTop == IF I.b # 0 THEN Ci.base + I.a + I.b ELSE L.top
OpCall == CallValue(SetTop(Advance(L, 0), CallTop), Ci.base + I.a, I.c - 1)

\* The called frame replaces the caller's, whose upvalues are closed first.
OpTailCall ==
    LET func == Ci.base + I.a
        f == L.stack[func]
        p == ProtoAt(main, heap.closure[f[2]].path)
        l0 == SetTop(Advance(L, 0), CallTop)
        called == luaD_precall(l0, func, p, LUA_MULTRET)
        n == Last(called.ci)
        shift == func - Ci.func
        moved == [s \in Slots |->
                    IF s >= Ci.func /\ s + shift < n.base + p.numparams THEN called.stack[s + shift]
                    ELSE called.stack[s]]
        frame == [n EXCEPT !.func = Ci.func, !.base = @ - shift, !.top = @ - shift,
                           !.nresults = Ci.nresults]
        closes == P.p # <<>>
        l1 == [(IF closes THEN CloseStack(called, heap, Ci.base) ELSE called)
                 EXCEPT !.stack = moved, !.top = frame.top, !.ci = Append(Front(L.ci), frame)]
    IN IF f[1] # "fun" \/ ~FitsStack(l0, func, p) THEN CallValue(l0, func, LUA_MULTRET)
       ELSE BecomeBoth(l1, IF closes THEN CloseHeap(called, heap, Ci.base) ELSE heap)

OpReturn ==
    LET nres == IF I.b # 0 THEN I.b - 1 ELSE L.top - (Ci.base + I.a)
        closed == IF P.p # <<>> THEN CloseStack(L, heap, Ci.base) ELSE L
        back == [luaD_poscall(closed, Ci.func, Ci.nresults, Ci.base + I.a, nres) EXCEPT !.ci = Front(@)]
    IN [S EXCEPT !.heap = IF P.p # <<>> THEN CloseHeap(L, @, Ci.base) ELSE @,
                 !.L = BackInCaller(back, Ci.nresults),
                 !.phase = IF Len(L.ci) = 1 THEN "done" ELSE "run"]

\* The iterator is called with copies of the state and the control variable.
OpTForCall ==
    LET cb == I.a + 3
        l == SetReg(SetReg(SetReg(L, cb + 2, R(I.a + 2)), cb + 1, R(I.a + 1)), cb, RA)
    IN CallValue(SetTop(Advance(l, 0), Ci.base + cb + 3), Ci.base + cb, I.c)
OpTForLoop ==
    Become(IF R(I.a + 1) # Nil THEN Advance(SetReg(L, I.a, R(I.a + 1)), I.b) ELSE Advance(L, 0))

\* getcached: the last closure of the prototype is used again when its
\* upvalues are the same variables.  pushclosure makes a new one.
OpClosure ==
    LET path == Append(Cl.path, I.b)
        uv == P.p[I.b + 1].upvalues
        add(x, i) ==
          LET y == luaF_findupval(x.l, x.h, Ci.base + uv[i].idx)
          IN IF uv[i].instack THEN [l |-> y.l, h |-> y.h, ups |-> Append(x.ups, y.u)]
             ELSE [x EXCEPT !.ups = Append(@, Cl.ups[uv[i].idx + 1])]
        new == FoldLeft(add, [l |-> L, h |-> heap, ups |-> <<>>], [i \in 1 .. Len(uv) |-> i])
        c == heap.cache[path]
        same == path \in DOMAIN heap.cache /\ heap.closure[c].ups = new.ups
        id == Len(heap.closure) + 1
    IN IF same THEN Result(<<"fun", c>>)
       ELSE BecomeBoth(Advance(SetReg(new.l, I.a, <<"fun", id>>), 0),
                       [new.h EXCEPT !.closure = Append(@, [path |-> path, ups |-> new.ups]),
                                     !.cache = (path :> id) @@ @])

\* The extra arguments are below the base.
OpVarArg ==
    LET n == Ci.base - Ci.func - P.numparams - 1
        b == IF I.b = 0 THEN n ELSE I.b - 1
        ra == Ci.base + I.a
        l == [L EXCEPT !.stack = [s \in Slots |->
                IF s < ra \/ s >= ra + b THEN @[s]
                ELSE IF s - ra < n THEN @[Ci.base - n + (s - ra)] ELSE Nil]]
    IN IF ra + b > LUAI_MAXSTACK THEN luaG_runerror
       ELSE Become(Advance(IF I.b = 0 THEN SetTop(l, ra + n) ELSE l, 0))

-----------------------------------------------------------------------------
Execute ==
    CASE I.op = "MOVE" -> OpMove
      [] I.op = "LOADK" -> OpLoadK
      [] I.op = "LOADBOOL" -> OpLoadBool
      [] I.op = "LOADNIL" -> OpLoadNil
      [] I.op = "GETUPVAL" -> OpGetUpval
      [] I.op = "SETUPVAL" -> OpSetUpval
      [] I.op = "GETTABUP" -> OpGetTabUp
      [] I.op = "GETTABLE" -> OpGetTable
      [] I.op = "SELF" -> OpSelf
      [] I.op = "SETTABUP" -> OpSetTabUp
      [] I.op = "SETTABLE" -> OpSetTable
      [] I.op = "NEWTABLE" -> OpNewTable
      [] I.op = "SETLIST" -> OpSetList
      [] I.op \in {"ADD", "SUB", "MUL", "MOD", "IDIV", "SHL", "SHR"} -> OpBinary
      [] I.op \in {"UNM", "BNOT"} -> OpUnary
      [] I.op = "NOT" -> OpNot
      [] I.op = "LEN" -> OpLen
      [] I.op = "CONCAT" -> OpConcat
      [] I.op = "JMP" -> OpJmp
      [] I.op = "EQ" -> OpEq
      [] I.op \in {"LT", "LE"} -> OpLess
      [] I.op = "TEST" -> OpTest
      [] I.op = "TESTSET" -> OpTestSet
      [] I.op = "FORPREP" -> OpForPrep
      [] I.op = "FORLOOP" -> OpForLoop
      [] I.op = "CALL" -> OpCall
      [] I.op = "TAILCALL" -> OpTailCall
      [] I.op = "RETURN" -> OpReturn
      [] I.op = "TFORCALL" -> OpTForCall
      [] I.op = "TFORLOOP" -> OpTForLoop
      [] I.op = "CLOSURE" -> OpClosure
      [] I.op = "VARARG" -> OpVarArg

Step == IF S.phase = "loaded" THEN Start ELSE Execute

\* What the program has left on the stack.
Results == [i \in 1 .. L.top |-> View(L.stack[i - 1])]

\* Every open upvalue is a register of a frame that is still running, and a
\* slot has one upvalue, whichever closures share it.
UpvaluesLive ==
    /\ \A u \in L.openupval : \E f \in 1 .. Len(L.ci) :
          heap.upval[u].at \in L.ci[f].base .. (L.ci[f].top - 1)
    /\ \A u, w \in L.openupval : heap.upval[u].at = heap.upval[w].at => u = w
=============================================================================
