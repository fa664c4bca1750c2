------------------------------ MODULE LuaCode ------------------------------
(***************************************************************************)
(* lcode.c: how the Lua compiler emits code for one function.              *)
(*                                                                         *)
(* fs is the state of the function being compiled (FuncState and Proto):   *)
(* code, constants k, jpc (the jumps waiting for the next instruction),    *)
(* lasttarget, freereg, nactvar, maxstacksize and the cache h of the       *)
(* scanner that gives a constant's last place.  e is an expdesc: its kind  *)
(* k, info, the index idx and the place vt of the table when it is         *)
(* VINDEXED, and the lists t and f of jumps taken when it is true, false.  *)
(* Places in the code count from 0, as there.  An operator that changes    *)
(* both returns them as [fs, e]; one that returns a place, [fs, r].        *)
(***************************************************************************)
EXTENDS LuaNumber, Sequences, SequencesExt, TLC

CONSTANTS
    MAXREGS,            \* registers of a function
    MAXINDEXRK,         \* last constant that fits an RK operand
    LFIELDS_PER_FLUSH   \* list items stored by one OP_SETLIST

NO_JUMP == -1
NO_REG == 255
LUA_MULTRET == -1
BITRK == 256
ISK(x) == x >= BITRK
RKASK(k) == k + BITRK

Instruction(o, a, b, c) == [op |-> o, a |-> a, b |-> b, c |-> c]
\* testTMode: the next instruction is a jump.
Tests == {"EQ", "LT", "LE", "TEST", "TESTSET"}
Unary == {"UNM", "BNOT", "LEN"}
Foldable == {"ADD", "SUB", "MUL", "MOD", "IDIV", "SHL", "SHR", "UNM", "BNOT"}

init_exp(k, info) == [k |-> k, info |-> info, idx |-> 0, vt |-> "", t |-> NO_JUMP, f |-> NO_JUMP]
hasjumps(e) == e.t # e.f
hasmultret(e) == e.k \in {"VCALL", "VVARARG"}
With(fs, e) == [fs |-> fs, e |-> e]

\* The assertions of the compiler: sound is FALSE once one has failed.
lua_assert(fs, holds) == [fs EXCEPT !.sound = @ /\ holds]

pc(fs) == Len(fs.code)
CodeAt(fs, i) == fs.code[i + 1]

-----------------------------------------------------------------------------
(* Jump lists, linked through the jumps' own offsets.                       *)

getjump(fs, p) ==
    LET offset == CodeAt(fs, p).b IN IF offset = NO_JUMP THEN NO_JUMP ELSE p + 1 + offset

RECURSIVE JumpList(_, _)
JumpList(fs, list) ==
    IF list = NO_JUMP THEN <<>> ELSE <<list>> \o JumpList(fs, getjump(fs, list))

fixjump(fs, p, dest) == [fs EXCEPT !.code[p + 1].b = dest - (p + 1)]

getjumpcontrol(fs, p) == IF p >= 1 /\ CodeAt(fs, p - 1).op \in Tests THEN p - 1 ELSE p

need_value(fs, list) ==
    \E p \in Range(JumpList(fs, list)) : CodeAt(fs, getjumpcontrol(fs, p)).op # "TESTSET"

\* patchtestreg, for a jump that a TESTSET controls.
patchtestreg(fs, p, reg) ==
    LET i == getjumpcontrol(fs, p)
        ins == CodeAt(fs, i)
    IN [fs EXCEPT !.code[i + 1] =
          IF reg # NO_REG /\ reg # ins.b THEN [ins EXCEPT !.a = reg]
          ELSE Instruction("TEST", ins.b, 0, ins.c)]

removevalues(fs, list) ==
    FoldLeft(LAMBDA s, p : IF CodeAt(s, getjumpcontrol(s, p)).op = "TESTSET"
                           THEN patchtestreg(s, p, NO_REG) ELSE s,
             fs, JumpList(fs, list))

\* Jumps that leave a value go to vtarget, the others to dtarget.
patchlistaux(fs, list, vtarget, reg, dtarget) ==
    FoldLeft(LAMBDA s, p : IF CodeAt(s, getjumpcontrol(s, p)).op = "TESTSET"
                           THEN fixjump(patchtestreg(s, p, reg), p, vtarget)
                           ELSE fixjump(s, p, dtarget),
             fs, JumpList(fs, list))

dischargejpc(fs) == [patchlistaux(fs, fs.jpc, pc(fs), NO_REG, pc(fs)) EXCEPT !.jpc = NO_JUMP]

luaK_concat(fs, l1, l2) ==
    IF l2 = NO_JUMP THEN [fs |-> fs, r |-> l1]
    ELSE IF l1 = NO_JUMP THEN [fs |-> fs, r |-> l2]
    ELSE [fs |-> fixjump(fs, Last(JumpList(fs, l1)), l2), r |-> l1]

\* Wrong: the instruction before a jump target may still be changed.
noLabel(fs) == fs

\* The next instruction is a jump target: nothing is merged across it.
luaK_getlabel(fs) == [fs EXCEPT !.lasttarget = pc(fs)]

luaK_patchtohere(fs, list) ==
    LET s == luaK_getlabel(fs)
        c == luaK_concat(s, s.jpc, list)
    IN [c.fs EXCEPT !.jpc = c.r]

luaK_patchlist(fs, list, target) ==
    IF target = pc(fs) THEN luaK_patchtohere(fs, list)
    ELSE patchlistaux(fs, list, target, NO_REG, target)

\* The jumps of the list close the upvalues from level on.
luaK_patchclose(fs, list, level) ==
    FoldLeft(LAMBDA s, p : [lua_assert(s, CodeAt(s, p).op = "JMP"
                                          /\ (CodeAt(s, p).a = 0 \/ CodeAt(s, p).a >= level + 1))
                             EXCEPT !.code[p + 1].a = level + 1],
             fs, JumpList(fs, list))

-----------------------------------------------------------------------------
(* Instructions, registers, constants.                                      *)

luaK_code(fs, o, a, b, c) ==
    LET s == dischargejpc(fs) IN [s EXCEPT !.code = Append(@, Instruction(o, a, b, c))]

luaK_jump(fs) ==
    LET s == luaK_code([fs EXCEPT !.jpc = NO_JUMP], "JMP", 0, NO_JUMP, 0)
    IN luaK_concat(s, pc(fs), fs.jpc)

condjump(fs, o, a, b, c) == luaK_jump(luaK_code(fs, o, a, b, c))
luaK_ret(fs, first, nret) == luaK_code(fs, "RETURN", first, nret + 1, 0)

\* Registers from .. from + n - 1 become nil, by the instruction before when
\* it is a LOADNIL that no jump can miss.
luaK_nil(fs, from, n) ==
    LET l == from + n - 1
        prev == Last(fs.code)
        pl == prev.a + prev.b
        first == IF prev.a < from THEN prev.a ELSE from
        last == IF pl > l THEN pl ELSE l
    IN IF /\ pc(fs) > fs.lasttarget /\ prev.op = "LOADNIL"
          /\ (prev.a <= from /\ from <= pl + 1) \/ (from <= prev.a /\ prev.a <= l + 1)
       THEN [fs EXCEPT !.code[pc(fs)] = Instruction("LOADNIL", first, last - first, 0)]
       ELSE luaK_code(fs, "LOADNIL", from, n - 1, 0)

luaK_checkstack(fs, n) ==
    IF fs.freereg + n <= fs.maxstacksize THEN fs
    ELSE [fs EXCEPT !.maxstacksize = fs.freereg + n,
                    !.err = @ \/ fs.freereg + n >= MAXREGS]
luaK_reserveregs(fs, n) == [luaK_checkstack(fs, n) EXCEPT !.freereg = @ + n]

FreeReg(fs, reg) ==
    IF ISK(reg) \/ reg < fs.nactvar THEN fs
    ELSE lua_assert([fs EXCEPT !.freereg = @ - 1], reg = fs.freereg - 1)
freeexp(fs, e) == IF e.k = "VNONRELOC" THEN FreeReg(fs, e.info) ELSE fs

\* addk: the constant's place, cached by the scanner for all functions.
addk(fs, v) ==
    LET known == v \in DOMAIN fs.h /\ fs.h[v] < Len(fs.k) /\ fs.k[fs.h[v] + 1] = v
    IN IF known THEN [fs |-> fs, r |-> fs.h[v]]
       ELSE [fs |-> [fs EXCEPT !.k = Append(@, v), !.h = (v :> Len(fs.k)) @@ @],
             r |-> Len(fs.k)]

\* The value of a constant expression.
ConstantOf(e) ==
    CASE e.k = "VNIL" -> <<"nil">>
      [] e.k = "VTRUE" -> <<"bool", TRUE>>
      [] e.k = "VFALSE" -> <<"bool", FALSE>>
      [] e.k \in {"VKINT", "VKFLT"} -> e.info

luaK_codek(fs, reg, k) == luaK_code(fs, "LOADK", reg, k, 0)

-----------------------------------------------------------------------------
(* Expressions to registers.                                                *)

luaK_setreturns(fs, e, nresults) ==
    CASE e.k = "VCALL" -> [fs EXCEPT !.code[e.info + 1].c = nresults + 1]
      [] e.k = "VVARARG" ->
           luaK_reserveregs([fs EXCEPT !.code[e.info + 1].b = nresults + 1,
                                       !.code[e.info + 1].a = fs.freereg], 1)
      [] OTHER -> fs

luaK_setoneret(fs, e) ==
    CASE e.k = "VCALL" -> With(fs, [e EXCEPT !.k = "VNONRELOC", !.info = CodeAt(fs, e.info).a])
      [] e.k = "VVARARG" -> With([fs EXCEPT !.code[e.info + 1].b = 2], [e EXCEPT !.k = "VRELOCABLE"])
      [] OTHER -> With(fs, e)

\* e becomes relocatable: the instruction emitted last leaves it in any register.
Relocable(fs, e, o, b, c) ==
    LET s == luaK_code(fs, o, 0, b, c)
    IN With(s, [e EXCEPT !.k = "VRELOCABLE", !.info = pc(s) - 1])

luaK_dischargevars(fs, e) ==
    CASE e.k = "VLOCAL" -> With(fs, [e EXCEPT !.k = "VNONRELOC"])
      [] e.k = "VUPVAL" -> Relocable(fs, e, "GETUPVAL", e.info, 0)
      [] e.k = "VINDEXED" ->
           IF e.vt = "VLOCAL"
           THEN Relocable(FreeReg(FreeReg(fs, e.idx), e.info), e, "GETTABLE", e.info, e.idx)
           ELSE Relocable(FreeReg(fs, e.idx), e, "GETTABUP", e.info, e.idx)
      [] hasmultret(e) -> luaK_setoneret(fs, e)
      [] OTHER -> With(fs, e)

discharge2reg(fs0, e0, reg) ==
    LET d == luaK_dischargevars(fs0, e0)
        fs == d.fs
        e == d.e
        done(s) == With(s, [e EXCEPT !.k = "VNONRELOC", !.info = reg])
    IN CASE e.k = "VNIL" -> done(luaK_nil(fs, reg, 1))
         [] e.k \in {"VTRUE", "VFALSE"} ->
              done(luaK_code(fs, "LOADBOOL", reg, IF e.k = "VTRUE" THEN 1 ELSE 0, 0))
         [] e.k = "VK" -> done(luaK_codek(fs, reg, e.info))
         [] e.k \in {"VKINT", "VKFLT"} ->
              LET a == addk(fs, ConstantOf(e)) IN done(luaK_codek(a.fs, reg, a.r))
         [] e.k = "VRELOCABLE" -> done([fs EXCEPT !.code[e.info + 1].a = reg])
         [] e.k = "VNONRELOC" ->
              done(IF reg = e.info THEN fs ELSE luaK_code(fs, "MOVE", reg, e.info, 0))
         [] OTHER -> With(lua_assert(fs, e.k \in {"VVOID", "VJMP"}), e)

discharge2anyreg(fs, e) ==
    IF e.k = "VNONRELOC" THEN With(fs, e)
    ELSE LET s == luaK_reserveregs(fs, 1) IN discharge2reg(s, e, s.freereg - 1)

code_label(fs, a, b, jump) == luaK_code(luaK_getlabel(fs), "LOADBOOL", a, b, jump)

\* Jumps without a value get one from a pair of LOADBOOLs after the code.
exp2reg(fs0, e0, reg) ==
    LET d == discharge2reg(fs0, e0, reg)
        jump == d.e.k = "VJMP"
        c == IF jump THEN luaK_concat(d.fs, d.e.t, d.e.info) ELSE [fs |-> d.fs, r |-> d.e.t]
        t == c.r
        f == d.e.f
        need == need_value(c.fs, t) \/ need_value(c.fs, f)
        fj == IF jump THEN [fs |-> c.fs, r |-> NO_JUMP] ELSE luaK_jump(c.fs)
        lf == code_label(fj.fs, reg, 0, 1)
        lt == code_label(lf, reg, 1, 0)
        s == luaK_getlabel(IF need THEN luaK_patchtohere(lt, fj.r) ELSE c.fs)
        p_f == IF need THEN pc(lf) - 1 ELSE NO_JUMP
        p_t == IF need THEN pc(lt) - 1 ELSE NO_JUMP
        final == patchlistaux(patchlistaux(s, f, pc(s), reg, p_f), t, pc(s), reg, p_t)
    IN With(IF t # f THEN final ELSE c.fs, init_exp("VNONRELOC", reg))

luaK_exp2nextreg(fs, e) ==
    LET d == luaK_dischargevars(fs, e)
        s == luaK_reserveregs(freeexp(d.fs, d.e), 1)
    IN exp2reg(s, d.e, s.freereg - 1)

luaK_exp2anyreg(fs, e) ==
    LET d == luaK_dischargevars(fs, e)
    IN IF d.e.k = "VNONRELOC" /\ ~hasjumps(d.e) THEN d
       ELSE IF d.e.k = "VNONRELOC" /\ d.e.info >= d.fs.nactvar THEN exp2reg(d.fs, d.e, d.e.info)
       ELSE luaK_exp2nextreg(d.fs, d.e)

luaK_exp2anyregup(fs, e) ==
    IF e.k # "VUPVAL" \/ hasjumps(e) THEN luaK_exp2anyreg(fs, e) ELSE With(fs, e)
luaK_exp2val(fs, e) ==
    IF hasjumps(e) THEN luaK_exp2anyreg(fs, e) ELSE luaK_dischargevars(fs, e)

\* An operand: a register, or a constant when it fits (r).
luaK_exp2RK(fs0, e0) ==
    LET v == luaK_exp2val(fs0, e0)
        k == addk(v.fs, ConstantOf(v.e))
        inreg(fs, e) == LET x == luaK_exp2anyreg(fs, e) IN [fs |-> x.fs, e |-> x.e, r |-> x.e.info]
        const(fs, i) == [fs |-> fs, e |-> [v.e EXCEPT !.k = "VK", !.info = i], r |-> RKASK(i)]
    IN CASE v.e.k \in {"VTRUE", "VFALSE", "VNIL"} /\ Len(v.fs.k) <= MAXINDEXRK -> const(k.fs, k.r)
         [] v.e.k \in {"VKINT", "VKFLT"} ->
              IF k.r <= MAXINDEXRK THEN const(k.fs, k.r)
              ELSE inreg(k.fs, [v.e EXCEPT !.k = "VK", !.info = k.r])
         [] v.e.k = "VK" /\ v.e.info <= MAXINDEXRK -> const(v.fs, v.e.info)
         [] OTHER -> inreg(v.fs, v.e)

luaK_storevar(fs, var, ex) ==
    CASE var.k = "VLOCAL" -> exp2reg(freeexp(fs, ex), ex, var.info).fs
      [] var.k = "VUPVAL" ->
           LET x == luaK_exp2anyreg(fs, ex)
           IN freeexp(luaK_code(x.fs, "SETUPVAL", x.e.info, var.info, 0), x.e)
      [] var.k = "VINDEXED" ->
           LET x == luaK_exp2RK(fs, ex)
               op == IF var.vt = "VLOCAL" THEN "SETTABLE" ELSE "SETTABUP"
           IN freeexp(luaK_code(x.fs, op, var.info, var.idx, x.r), x.e)

luaK_self(fs, e, key) ==
    LET x == luaK_exp2anyreg(fs, e)
        s == freeexp(x.fs, x.e)
        k == luaK_exp2RK(luaK_reserveregs(s, 2), key)
        done == freeexp(luaK_code(k.fs, "SELF", s.freereg, x.e.info, k.r), k.e)
    IN With(done, [x.e EXCEPT !.k = "VNONRELOC", !.info = s.freereg])

luaK_indexed(fs, t, k) ==
    LET x == luaK_exp2RK(lua_assert(fs, ~hasjumps(t)), k)
    IN With(x.fs, [t EXCEPT !.k = "VINDEXED", !.idx = x.r,
                            !.vt = IF t.k = "VUPVAL" THEN "VUPVAL" ELSE "VLOCAL"])

-----------------------------------------------------------------------------
(* Conditions and operators.                                                *)

invertjump(fs, e) ==
    LET i == getjumpcontrol(fs, e.info)
    IN [lua_assert(fs, CodeAt(fs, i).op \in {"EQ", "LT", "LE"}) EXCEPT !.code[i + 1].a = 1 - @]

\* A test of not x tests x instead.
jumponcond(fs, e, cond) ==
    IF e.k = "VRELOCABLE" /\ CodeAt(fs, e.info).op = "NOT"
    THEN condjump([fs EXCEPT !.code = Front(@)], "TEST", CodeAt(fs, e.info).b, 0, 1 - cond)
    ELSE LET d == discharge2anyreg(fs, e)
         IN condjump(freeexp(d.fs, d.e), "TESTSET", NO_REG, d.e.info, cond)

luaK_goiftrue(fs, e0) ==
    LET d == luaK_dischargevars(fs, e0)
        e == d.e
        j == CASE e.k = "VJMP" -> [fs |-> invertjump(d.fs, e), r |-> e.info]
               [] e.k \in {"VK", "VKFLT", "VKINT", "VTRUE"} -> [fs |-> d.fs, r |-> NO_JUMP]
               [] OTHER -> jumponcond(d.fs, e, 0)
        c == luaK_concat(j.fs, e.f, j.r)
    IN With(luaK_patchtohere(c.fs, e.t), [e EXCEPT !.f = c.r, !.t = NO_JUMP])

luaK_goiffalse(fs, e0) ==
    LET d == luaK_dischargevars(fs, e0)
        e == d.e
        j == CASE e.k = "VJMP" -> [fs |-> d.fs, r |-> e.info]
               [] e.k \in {"VNIL", "VFALSE"} -> [fs |-> d.fs, r |-> NO_JUMP]
               [] OTHER -> jumponcond(d.fs, e, 1)
        c == luaK_concat(j.fs, e.t, j.r)
    IN With(luaK_patchtohere(c.fs, e.f), [e EXCEPT !.t = c.r, !.f = NO_JUMP])

codenot(fs, e0) ==
    LET d == luaK_dischargevars(fs, e0)
        e == d.e
        a == discharge2anyreg(d.fs, e)
        n == CASE e.k \in {"VNIL", "VFALSE"} -> With(d.fs, [e EXCEPT !.k = "VTRUE"])
               [] e.k \in {"VK", "VKFLT", "VKINT", "VTRUE"} -> With(d.fs, [e EXCEPT !.k = "VFALSE"])
               [] e.k = "VJMP" -> With(invertjump(d.fs, e), e)
               [] OTHER -> Relocable(freeexp(a.fs, a.e), a.e, "NOT", a.e.info, 0)
        swapped == [n.e EXCEPT !.t = n.e.f, !.f = n.e.t]
    IN With(removevalues(removevalues(n.fs, swapped.f), swapped.t), swapped)

tonumeral(e) == e.k \in {"VKINT", "VKFLT"} /\ e.t = NO_JUMP /\ e.f = NO_JUMP

\* constfolding: not when it would raise an error, and not to a float zero.
validop(op, v1, v2) ==
    CASE op \in IntOnly -> luaV_tointeger(v1, 0) # NoInteger /\ luaV_tointeger(v2, 0) # NoInteger
      [] op \in {"IDIV", "MOD"} -> v2[2] # 0
      [] OTHER -> TRUE
constfolding(op, e1, e2) ==
    tonumeral(e1) /\ tonumeral(e2) /\ validop(op, e1.info, e2.info)
        /\ luaO_arith(op, e1.info, e2.info) # FltV(0)

codeexpval(fs, op, e1, e2) ==
    IF op \in Foldable /\ constfolding(op, e1, e2)
    THEN LET v == luaO_arith(op, e1.info, e2.info)
         IN With(fs, [e1 EXCEPT !.k = IF v[1] = "int" THEN "VKINT" ELSE "VKFLT", !.info = v])
    ELSE LET x2 == IF op \in Unary THEN [fs |-> fs, e |-> e2, r |-> 0] ELSE luaK_exp2RK(fs, e2)
             x1 == IF op \in Unary
                   THEN LET x == luaK_exp2anyreg(fs, e1) IN [fs |-> x.fs, e |-> x.e, r |-> x.e.info]
                   ELSE luaK_exp2RK(x2.fs, e1)
             s == IF x1.r > x2.r THEN freeexp(freeexp(x1.fs, x1.e), x2.e)
                                 ELSE freeexp(freeexp(x1.fs, x2.e), x1.e)
         IN Relocable(s, x1.e, op, x1.r, x2.r)

\* Only EQ keeps a negated condition; > and >= exchange their operands.
codecomp(fs, op, cond, e1, e2) ==
    LET x1 == luaK_exp2RK(fs, e1)
        x2 == luaK_exp2RK(x1.fs, e2)
        s == freeexp(freeexp(x2.fs, x2.e), x1.e)
        swap == cond = 0 /\ op # "EQ"
        j == condjump(s, op, IF swap THEN 1 ELSE cond,
                      IF swap THEN x2.r ELSE x1.r, IF swap THEN x1.r ELSE x2.r)
    IN With(j.fs, [x1.e EXCEPT !.k = "VJMP", !.info = j.r])

luaK_prefix(fs, op, e) ==
    IF op = "NOT" THEN codenot(fs, e) ELSE codeexpval(fs, op, e, init_exp("VKINT", IntV(0)))

luaK_infix(fs, op, v) ==
    CASE op = "AND" -> luaK_goiftrue(fs, v)
      [] op = "OR" -> luaK_goiffalse(fs, v)
      [] op = "CONCAT" -> luaK_exp2nextreg(fs, v)
      [] op \in Foldable /\ tonumeral(v) -> With(fs, v)
      [] OTHER -> LET x == luaK_exp2RK(fs, v) IN With(x.fs, x.e)

\* A right-associated chain of concatenations is one instruction.
CodeConcat(fs, e1, e2) ==
    LET v == luaK_exp2val(fs, e2)
        x == luaK_exp2nextreg(v.fs, v.e)
    IN IF v.e.k = "VRELOCABLE" /\ CodeAt(v.fs, v.e.info).op = "CONCAT"
       THEN With([lua_assert(freeexp(v.fs, e1), e1.info = CodeAt(v.fs, v.e.info).b - 1)
                    EXCEPT !.code[v.e.info + 1].b = e1.info],
                 [e1 EXCEPT !.k = "VRELOCABLE", !.info = v.e.info])
       ELSE codeexpval(x.fs, "CONCAT", e1, x.e)

luaK_posfix(fs, op, e1, e2) ==
    LET closed == CASE op = "AND" -> e1.t = NO_JUMP [] op = "OR" -> e1.f = NO_JUMP [] OTHER -> TRUE
        d == luaK_dischargevars(lua_assert(fs, closed), e2)
    IN CASE op = "AND" -> LET c == luaK_concat(d.fs, d.e.f, e1.f) IN With(c.fs, [d.e EXCEPT !.f = c.r])
         [] op = "OR" -> LET c == luaK_concat(d.fs, d.e.t, e1.t) IN With(c.fs, [d.e EXCEPT !.t = c.r])
         [] op = "CONCAT" -> CodeConcat(fs, e1, e2)
         [] op \in {"EQ", "LT", "LE"} -> codecomp(fs, op, 1, e1, e2)
         [] op = "NE" -> codecomp(fs, "EQ", 0, e1, e2)
         [] op = "GT" -> codecomp(fs, "LT", 0, e1, e2)
         [] op = "GE" -> codecomp(fs, "LE", 0, e1, e2)
         [] OTHER -> codeexpval(fs, op, e1, e2)

luaK_setlist(fs, base, nelems, tostore) ==
    [luaK_code(fs, "SETLIST", base, IF tostore = LUA_MULTRET THEN 0 ELSE tostore,
               (nelems - 1) \div LFIELDS_PER_FLUSH + 1) EXCEPT !.freereg = base + 1]
=============================================================================
