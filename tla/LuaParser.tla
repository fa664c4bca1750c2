----------------------------- MODULE LuaParser -----------------------------
(***************************************************************************)
(* lparser.c: the one-pass compiler from tokens to the code of LuaCode.    *)
(*                                                                         *)
(* A token is a tuple: a reserved word or symbol <<"while">>, or a name or *)
(* literal with its value, <<"NAME", n>>, <<"STRING", s>>, <<"NUMBER", v>>.*)
(* c is the state of the parser: the tokens tok and the place pos in them, *)
(* the functions being compiled (fs, the innermost last) and Dyndata: the  *)
(* active variables, the pending gotos gt and the active labels.  A rule   *)
(* takes c to the state after it, with the expression it has read as       *)
(* [c, e].  After a syntax error the rest of the input is skipped.         *)
(*                                                                         *)
(* Line numbers and the other debug information are left out, and so are   *)
(* the limits of nesting and of the number of variables and upvalues.      *)
(***************************************************************************)
EXTENDS LuaCode

LUA_ENV == "_ENV"

Cur(c) == Last(c.fs)
SetFs(c, f) == [c EXCEPT !.fs[Len(c.fs)] = f]
\* What an operator of LuaCode returns, put back into c.
Put(c, x) == [c |-> SetFs(c, x.fs), e |-> x.e]

Token(c) == IF c.pos > Len(c.tok) THEN <<"EOS">> ELSE c.tok[c.pos]
At(c, t) == Token(c)[1] = t
luaX_next(c) == [c EXCEPT !.pos = @ + 1]
luaX_lookahead(c) == IF c.pos + 1 > Len(c.tok) THEN <<"EOS">> ELSE c.tok[c.pos + 1]
luaX_syntaxerror(c) == [c EXCEPT !.err = TRUE, !.pos = Len(c.tok) + 1]
semerror(c) == [c EXCEPT !.err = TRUE]
checknext(c, t) == IF At(c, t) THEN luaX_next(c) ELSE luaX_syntaxerror(c)
testnext(c, t) == IF At(c, t) THEN luaX_next(c) ELSE c
\* str_checkname: the name and the state after it.
NameAt(c) == IF At(c, "NAME") THEN Token(c)[2] ELSE "?"

block_follow(c, withuntil) ==
    Token(c)[1] \in {"else", "elseif", "end", "EOS"} \/ (withuntil /\ At(c, "until"))

-----------------------------------------------------------------------------
(* Variables.                                                               *)

codestring(c, s) ==
    LET k == addk(Cur(c), <<"str", s>>) IN Put(c, With(k.fs, init_exp("VK", k.r)))

new_localvar(c, name) == [c EXCEPT !.actvar = Append(@, name)]
adjustlocalvars(c, nvars) == SetFs(c, [Cur(c) EXCEPT !.nactvar = @ + nvars])
removevars(c, tolevel) ==
    SetFs([c EXCEPT !.actvar = SubSeq(@, 1, Len(@) - (Cur(c).nactvar - tolevel))],
          [Cur(c) EXCEPT !.nactvar = tolevel])

\* The register of the innermost active variable of that name, -1 if none.
searchvar(c, fs, name) ==
    LET regs == {i \in 0 .. (fs.nactvar - 1) : c.actvar[fs.firstlocal + i + 1] = name}
    IN IF regs = {} THEN -1 ELSE CHOOSE i \in regs : \A j \in regs : j <= i
searchupvalue(fs, name) ==
    LET ups == {i \in 1 .. Len(fs.upvalues) : fs.upvalues[i].name = name}
    IN IF ups = {} THEN -1 ELSE (CHOOSE i \in ups : TRUE) - 1

\* The block that declares the variable closes upvalues when it is left.
markupval(fs, level) ==
    LET bs == {b \in 1 .. Len(fs.bl) : fs.bl[b].nactvar <= level}
    IN [fs EXCEPT !.bl[CHOOSE b \in bs : \A x \in bs : x <= b].upval = TRUE]

\* The variable in function number l, as an upvalue of all functions between.
RECURSIVE singlevaraux(_, _, _, _)
singlevaraux(c, l, name, base) ==
    IF l = 0 THEN [c |-> c, e |-> init_exp("VVOID", 0)]
    ELSE LET fs == c.fs[l]
             v == searchvar(c, fs, name)
             up == searchupvalue(fs, name)
             outer == singlevaraux(c, l - 1, name, FALSE)
         IN IF v >= 0
            THEN [c |-> IF base THEN c ELSE [c EXCEPT !.fs[l] = markupval(fs, v)],
                  e |-> init_exp("VLOCAL", v)]
            ELSE IF up >= 0 THEN [c |-> c, e |-> init_exp("VUPVAL", up)]
            ELSE IF outer.e.k = "VVOID" THEN outer
            ELSE [c |-> [outer.c EXCEPT !.fs[l].upvalues =
                           Append(@, [name |-> name, instack |-> outer.e.k = "VLOCAL",
                                      idx |-> outer.e.info])],
                  e |-> init_exp("VUPVAL", Len(fs.upvalues))]

singlevar(c) ==
    LET name == NameAt(c)
        n == checknext(c, "NAME")
        v == singlevaraux(n, Len(n.fs), name, TRUE)
        env == singlevaraux(n, Len(n.fs), LUA_ENV, TRUE)
        key == codestring(env.c, name)
    IN IF v.e.k = "VVOID" THEN Put(key.c, luaK_indexed(Cur(key.c), env.e, key.e)) ELSE v

adjust_assign(fs, nvars, nexps, e) ==
    LET extra == nvars - nexps
        want == IF extra + 1 < 0 THEN 0 ELSE extra + 1
        r == luaK_setreturns(fs, e, want)
        x == IF e.k = "VVOID" THEN fs ELSE luaK_exp2nextreg(fs, e).fs
    IN IF hasmultret(e) THEN IF want > 1 THEN luaK_reserveregs(r, want - 1) ELSE r
       ELSE IF extra > 0 THEN luaK_nil(luaK_reserveregs(x, extra), x.freereg, extra)
       ELSE x

-----------------------------------------------------------------------------
(* Blocks, labels and gotos.                                                *)

Curbl(c) == Last(Cur(c).bl)

closegoto(c, g, label) ==
    LET gt == c.gt[g]
        s == SetFs(c, luaK_patchlist(Cur(c), gt.pc, label.pc))
        d == IF gt.nactvar < label.nactvar THEN semerror(s) ELSE s
    IN [d EXCEPT !.gt = RemoveAt(@, g)]

\* findlabel: the goto is closed when its label is already in this block.
Visible(c, name) == {i \in (Curbl(c).firstlabel + 1) .. Len(c.label) : c.label[i].name = name}
findlabel(c, g) ==
    LET lb == c.label[CHOOSE i \in Visible(c, c.gt[g].name) : TRUE]
        close == c.gt[g].nactvar > lb.nactvar
        d == IF close THEN SetFs(c, luaK_patchclose(Cur(c), c.gt[g].pc, lb.nactvar)) ELSE c
    IN IF Visible(c, c.gt[g].name) = {} THEN c ELSE closegoto(d, g, lb)

newlabelentry(c, name, place) == [name |-> name, nactvar |-> Cur(c).nactvar, pc |-> place]

RECURSIVE findgotos(_, _, _)
findgotos(c, lb, i) ==
    IF i > Len(c.gt) THEN c
    ELSE IF c.gt[i].name = lb.name THEN findgotos(closegoto(c, i, lb), lb, i)
    ELSE findgotos(c, lb, i + 1)

\* Gotos that leave a block close its upvalues and look for labels outside.
RECURSIVE movegotosout(_, _, _)
movegotosout(c, bl, i) ==
    IF i > Len(c.gt) THEN c
    ELSE LET out == c.gt[i].nactvar > bl.nactvar
             s == IF out /\ bl.upval THEN SetFs(c, luaK_patchclose(Cur(c), c.gt[i].pc, bl.nactvar)) ELSE c
             f == findlabel(IF out THEN [s EXCEPT !.gt[i].nactvar = bl.nactvar] ELSE s, i)
         IN movegotosout(f, bl, IF Len(f.gt) = Len(c.gt) THEN i + 1 ELSE i)

enterblock(c, isloop) ==
    LET fs == Cur(c)
        bl == [isloop |-> isloop, nactvar |-> fs.nactvar, firstlabel |-> Len(c.label),
               firstgoto |-> Len(c.gt), upval |-> FALSE]
    IN SetFs(c, lua_assert([fs EXCEPT !.bl = Append(@, bl)], fs.freereg = fs.nactvar))

breaklabel(c) ==
    LET lb == newlabelentry(c, "break", pc(Cur(c)))
    IN findgotos([c EXCEPT !.label = Append(@, lb)], lb, Curbl(c).firstgoto + 1)

leaveblock(c) ==
    LET bl == Curbl(c)
        inner == Len(Cur(c).bl) > 1
        j == luaK_jump(Cur(c))
        closed == IF inner /\ bl.upval
                  THEN SetFs(c, luaK_patchtohere(luaK_patchclose(j.fs, j.r, bl.nactvar), j.r))
                  ELSE c
        b == IF bl.isloop THEN breaklabel(closed) ELSE closed
        r == removevars(SetFs(b, [Cur(b) EXCEPT !.bl = Front(@)]), bl.nactvar)
        s == [SetFs(r, [Cur(r) EXCEPT !.freereg = Cur(r).nactvar])
                EXCEPT !.label = SubSeq(@, 1, bl.firstlabel)]
    IN IF inner THEN movegotosout(s, bl, bl.firstgoto + 1)
       ELSE IF bl.firstgoto < Len(s.gt) THEN semerror(s) ELSE s

-----------------------------------------------------------------------------
(* Functions.                                                               *)

open_func(c) ==
    LET fs == [code |-> <<>>, k |-> <<>>, p |-> <<>>, upvalues |-> <<>>, numparams |-> 0,
               is_vararg |-> FALSE, maxstacksize |-> 2, lasttarget |-> 0, jpc |-> NO_JUMP,
               freereg |-> 0, nactvar |-> 0, firstlocal |-> Len(c.actvar), bl |-> <<>>,
               h |-> IF c.fs = <<>> THEN <<>> ELSE Cur(c).h, err |-> FALSE, sound |-> TRUE]
    IN enterblock([c EXCEPT !.fs = Append(@, fs)], FALSE)

\* The finished prototype.
Proto(fs) ==
    [code |-> fs.code, k |-> fs.k, p |-> fs.p, upvalues |-> fs.upvalues,
     numparams |-> fs.numparams, is_vararg |-> fs.is_vararg, maxstacksize |-> fs.maxstacksize]

\* close_func, then the closure is created in the function around it.
close_func(c) == leaveblock(SetFs(c, luaK_ret(Cur(c), 0, 0)))
codeclosure(c) ==
    LET fs == Cur(c)
        outer == [c EXCEPT !.fs = Front(@), !.err = @ \/ fs.err]
        into == [Cur(outer) EXCEPT !.p = Append(@, Proto(fs)), !.h = fs.h, !.sound = @ /\ fs.sound]
        x == Relocable(into, init_exp("VVOID", 0), "CLOSURE", Len(into.p) - 1, 0)
    IN Put(outer, luaK_exp2nextreg(x.fs, x.e))

RECURSIVE subexpr(_, _)
RECURSIVE statement(_)
RECURSIVE statlist(_)
expr(c) == LET x == subexpr(c, 0) IN [c |-> x.c, e |-> x.e]

RECURSIVE parlist(_, _)
parlist(c, nparams) ==
    CASE At(c, "NAME") ->
           LET n == luaX_next(new_localvar(c, NameAt(c)))
           IN IF At(n, ",") THEN parlist(luaX_next(n), nparams + 1) ELSE [c |-> n, n |-> nparams + 1]
      [] At(c, "...") -> [c |-> luaX_next(SetFs(c, [Cur(c) EXCEPT !.is_vararg = TRUE])), n |-> nparams]
      [] OTHER -> [c |-> IF At(c, ")") /\ nparams = 0 THEN c ELSE luaX_syntaxerror(c), n |-> nparams]

body(c, ismethod) ==
    LET o == checknext(open_func(c), "(")
        m == IF ismethod THEN adjustlocalvars(new_localvar(o, "self"), 1) ELSE o
        ps == parlist(m, 0)
        a == adjustlocalvars(ps.c, ps.n)
        fs == luaK_reserveregs([Cur(a) EXCEPT !.numparams = Cur(a).nactvar], Cur(a).nactvar)
        b == statlist(checknext(SetFs(a, fs), ")"))
    IN codeclosure(close_func(checknext(b, "end")))

-----------------------------------------------------------------------------
(* Expressions.                                                             *)

RECURSIVE explist(_)
explist(c) ==
    LET x == expr(c)
        more == explist(luaX_next(SetFs(x.c, luaK_exp2nextreg(Cur(x.c), x.e).fs)))
    IN IF At(x.c, ",") THEN [more EXCEPT !.n = @ + 1] ELSE [c |-> x.c, e |-> x.e, n |-> 1]

fieldsel(c, v) ==
    LET x == luaK_exp2anyregup(Cur(c), v)
        n == luaX_next(SetFs(c, x.fs))
        key == codestring(checknext(n, "NAME"), NameAt(n))
    IN Put(key.c, luaK_indexed(Cur(key.c), x.e, key.e))

yindex(c) ==
    LET x == expr(luaX_next(c))
        v == luaK_exp2val(Cur(x.c), x.e)
    IN [c |-> checknext(SetFs(x.c, v.fs), "]"), e |-> v.e]

\* cc, the state of a constructor: its last list item v, its table's register
\* t, the counts nh and na, and the items not yet stored.
recfield(c, cc) ==
    LET reg == Cur(c).freereg
        key == IF At(c, "NAME") THEN codestring(luaX_next(c), NameAt(c)) ELSE yindex(c)
        eq == checknext(key.c, "=")
        rk == luaK_exp2RK(Cur(eq), key.e)
        x == expr(SetFs(eq, rk.fs))
        v == luaK_exp2RK(Cur(x.c), x.e)
        fs == [luaK_code(v.fs, "SETTABLE", cc.t, rk.r, v.r) EXCEPT !.freereg = reg]
    IN [c |-> SetFs(x.c, fs), cc |-> [cc EXCEPT !.nh = @ + 1]]

closelistfield(c, cc) ==
    LET x == luaK_exp2nextreg(Cur(c), cc.v)
        flush == cc.tostore = LFIELDS_PER_FLUSH
        fs == IF flush THEN luaK_setlist(x.fs, cc.t, cc.na, cc.tostore) ELSE x.fs
    IN IF cc.v.k = "VVOID" THEN [c |-> c, cc |-> cc]
       ELSE [c |-> SetFs(c, fs),
             cc |-> [cc EXCEPT !.v = init_exp("VVOID", 0), !.tostore = IF flush THEN 0 ELSE @]]

lastlistfield(c, cc) ==
    LET multi == luaK_setlist(luaK_setreturns(Cur(c), cc.v, LUA_MULTRET), cc.t, cc.na, LUA_MULTRET)
        x == IF cc.v.k = "VVOID" THEN Cur(c) ELSE luaK_exp2nextreg(Cur(c), cc.v).fs
    IN IF cc.tostore = 0 THEN c
       ELSE SetFs(c, IF hasmultret(cc.v) THEN multi ELSE luaK_setlist(x, cc.t, cc.na, cc.tostore))

field(c, cc) ==
    LET x == expr(c)
    IN IF At(c, "[") \/ (At(c, "NAME") /\ luaX_lookahead(c) = <<"=">>) THEN recfield(c, cc)
       ELSE [c |-> x.c, cc |-> [cc EXCEPT !.v = x.e, !.na = @ + 1, !.tostore = @ + 1]]

RECURSIVE fieldlist(_, _)
fieldlist(c, cc) ==
    LET l == closelistfield(c, cc)
        f == field(l.c, l.cc)
    IN IF At(c, "}") THEN [c |-> c, cc |-> cc]
       ELSE IF Token(f.c)[1] \in {",", ";"} THEN fieldlist(luaX_next(f.c), f.cc)
       ELSE f

\* The sizes NEWTABLE is given (luaO_int2fb) only allocate; they are left out.
constructor(c) ==
    LET x == Relocable(Cur(c), init_exp("VVOID", 0), "NEWTABLE", 0, 0)
        t == luaK_exp2nextreg(x.fs, x.e)
        l == fieldlist(checknext(SetFs(c, t.fs), "{"),
                       [v |-> init_exp("VVOID", 0), t |-> t.e.info, nh |-> 0, na |-> 0, tostore |-> 0])
    IN [c |-> lastlistfield(checknext(l.c, "}"), l.cc), e |-> t.e]

\* The arguments of a call of the function in register f.info.
CallArgs(c) ==
    LET l == explist(luaX_next(c))
    IN CASE At(c, "(") /\ luaX_lookahead(c) = <<")">> ->
              [c |-> luaX_next(luaX_next(c)), e |-> init_exp("VVOID", 0)]
         [] At(c, "(") ->
              [c |-> checknext(SetFs(l.c, luaK_setreturns(Cur(l.c), l.e, LUA_MULTRET)), ")"), e |-> l.e]
         [] At(c, "{") -> constructor(c)
         [] At(c, "STRING") -> codestring(luaX_next(c), Token(c)[2])
         [] OTHER -> [c |-> luaX_syntaxerror(c), e |-> init_exp("VVOID", 0)]
funcargs(c, f) ==
    LET a == CallArgs(c)
        base == f.info
        open == hasmultret(a.e)
        s == IF open \/ a.e.k = "VVOID" THEN Cur(a.c) ELSE luaK_exp2nextreg(Cur(a.c), a.e).fs
        nparams == IF open THEN LUA_MULTRET ELSE s.freereg - (base + 1)
        call == luaK_code(lua_assert(s, f.k = "VNONRELOC"), "CALL", base, nparams + 1, 2)
    IN Put(a.c, With([call EXCEPT !.freereg = base + 1], init_exp("VCALL", pc(call) - 1)))

primaryexp(c) ==
    LET x == expr(luaX_next(c))
        p == checknext(x.c, ")")
    IN CASE At(c, "(") -> Put(p, luaK_dischargevars(Cur(p), x.e))
         [] At(c, "NAME") -> singlevar(c)
         [] OTHER -> [c |-> luaX_syntaxerror(c), e |-> init_exp("VVOID", 0)]

RECURSIVE suffixes(_, _)
suffixes(c, v) ==
    CASE At(c, ".") -> LET x == fieldsel(c, v) IN suffixes(x.c, x.e)
      [] At(c, "[") ->
           LET t == luaK_exp2anyregup(Cur(c), v)
               key == yindex(SetFs(c, t.fs))
               x == luaK_indexed(Cur(key.c), t.e, key.e)
           IN suffixes(SetFs(key.c, x.fs), x.e)
      [] At(c, ":") ->
           LET n == luaX_next(c)
               key == codestring(checknext(n, "NAME"), NameAt(n))
               s == luaK_self(Cur(key.c), v, key.e)
               x == funcargs(SetFs(key.c, s.fs), s.e)
           IN suffixes(x.c, x.e)
      [] Token(c)[1] \in {"(", "STRING", "{"} ->
           LET f == luaK_exp2nextreg(Cur(c), v)
               x == funcargs(SetFs(c, f.fs), f.e)
           IN suffixes(x.c, x.e)
      [] OTHER -> [c |-> c, e |-> v]
suffixedexp(c) == LET p == primaryexp(c) IN suffixes(p.c, p.e)

simpleexp(c) ==
    LET t == Token(c)
        lit(k, info) == [c |-> luaX_next(c), e |-> init_exp(k, info)]
        dots == Relocable(Cur(c), init_exp("VVOID", 0), "VARARG", 1, 0)
    IN CASE t[1] = "NUMBER" -> lit(IF t[2][1] = "int" THEN "VKINT" ELSE "VKFLT", t[2])
         [] t[1] = "STRING" -> codestring(luaX_next(c), t[2])
         [] t[1] = "nil" -> lit("VNIL", 0)
         [] t[1] = "true" -> lit("VTRUE", 0)
         [] t[1] = "false" -> lit("VFALSE", 0)
         [] t[1] = "..." ->
              IF Cur(c).is_vararg
              THEN [c |-> luaX_next(SetFs(c, dots.fs)), e |-> [dots.e EXCEPT !.k = "VVARARG"]]
              ELSE [c |-> luaX_syntaxerror(c), e |-> init_exp("VVOID", 0)]
         [] t[1] = "{" -> constructor(c)
         [] t[1] = "function" -> body(luaX_next(c), FALSE)
         [] OTHER -> suffixedexp(c)

getunopr(t) ==
    CASE t = "not" -> "NOT" [] t = "-" -> "UNM" [] t = "~" -> "BNOT" [] t = "#" -> "LEN" [] OTHER -> ""
BinOpr ==
    [x \in {"+", "-", "*", "%", "//", "<<", ">>", "..", "==", "~=", "<", "<=", ">", ">=", "and", "or"} |->
       CASE x = "+" -> "ADD" [] x = "-" -> "SUB" [] x = "*" -> "MUL" [] x = "%" -> "MOD" [] x = "//" -> "IDIV"
         [] x = "<<" -> "SHL" [] x = ">>" -> "SHR" [] x = ".." -> "CONCAT" [] x = "==" -> "EQ"
         [] x = "~=" -> "NE" [] x = "<" -> "LT" [] x = "<=" -> "LE" [] x = ">" -> "GT" [] x = ">=" -> "GE"
         [] x = "and" -> "AND" [] x = "or" -> "OR"]
getbinopr(t) == IF t \in DOMAIN BinOpr THEN BinOpr[t] ELSE ""
\* Left and right priorities; equal ones associate to the left.
priority(op) ==
    CASE op \in {"ADD", "SUB"} -> <<10, 10>>
      [] op \in {"MUL", "MOD", "IDIV"} -> <<11, 11>>
      [] op \in {"SHL", "SHR"} -> <<7, 7>>
      [] op = "CONCAT" -> <<9, 8>>
      [] op \in {"EQ", "NE", "LT", "LE", "GT", "GE"} -> <<3, 3>>
      [] op = "AND" -> <<2, 2>>
      [] op = "OR" -> <<1, 1>>
UNARY_PRIORITY == 12

\* op: the first operator that was not read.
RECURSIVE Operators(_, _, _, _)
Operators(c, v, op, limit) ==
    LET i == luaK_infix(Cur(c), op, v)
        r == subexpr(luaX_next(SetFs(c, i.fs)), priority(op)[2])
        x == luaK_posfix(Cur(r.c), op, i.e, r.e)
    IN IF op = "" \/ priority(op)[1] <= limit THEN [c |-> c, e |-> v, op |-> op]
       ELSE Operators(SetFs(r.c, x.fs), x.e, r.op, limit)
subexpr(c, limit) ==
    LET uop == getunopr(Token(c)[1])
        s == subexpr(luaX_next(c), UNARY_PRIORITY)
        x == IF uop = "" THEN simpleexp(c) ELSE Put(s.c, luaK_prefix(Cur(s.c), uop, s.e))
    IN Operators(x.c, x.e, getbinopr(Token(x.c)[1]), limit)

-----------------------------------------------------------------------------
(* Statements.                                                              *)

block(c) == leaveblock(statlist(enterblock(c, FALSE)))

\* A local or upvalue assigned to, that an earlier target of the same
\* assignment uses as table or index, is copied first.
check_conflict(c, lhs, v) ==
    LET extra == Cur(c).freereg
        table(x) == x.k = "VINDEXED" /\ x.vt = v.k /\ x.info = v.info
        index(x) == x.k = "VINDEXED" /\ v.k = "VLOCAL" /\ x.idx = v.info
        safe(x) == LET y == IF table(x) THEN [x EXCEPT !.vt = "VLOCAL", !.info = extra] ELSE x
                   IN IF index(x) THEN [y EXCEPT !.idx = extra] ELSE y
        op == IF v.k = "VLOCAL" THEN "MOVE" ELSE "GETUPVAL"
    IN IF \E i \in 1 .. Len(lhs) : table(lhs[i]) \/ index(lhs[i])
       THEN [c |-> SetFs(c, luaK_reserveregs(luaK_code(Cur(c), op, extra, v.info, 0), 1)),
             lhs |-> [i \in 1 .. Len(lhs) |-> safe(lhs[i])]]
       ELSE [c |-> c, lhs |-> lhs]

vkisvar(e) == e.k \in {"VLOCAL", "VUPVAL", "VINDEXED"}

RECURSIVE targets(_, _)
targets(c, lhs) ==
    LET x == suffixedexp(luaX_next(c))
        n == IF x.e.k = "VINDEXED" THEN [c |-> x.c, lhs |-> lhs] ELSE check_conflict(x.c, lhs, x.e)
    IN IF ~vkisvar(Last(lhs)) THEN [c |-> luaX_syntaxerror(c), lhs |-> lhs]
       ELSE IF At(c, ",") THEN targets(n.c, Append(n.lhs, x.e))
       ELSE [c |-> c, lhs |-> lhs]

\* Values are stored from the last target to the first.
assignment(c, v) ==
    LET t == targets(c, <<v>>)
        nvars == Len(t.lhs)
        l == explist(checknext(t.c, "="))
        one == luaK_setoneret(Cur(l.c), l.e)
        a == adjust_assign(Cur(l.c), nvars, l.n, l.e)
        direct == l.n = nvars
        s == IF direct THEN luaK_storevar(one.fs, Last(t.lhs), one.e)
             ELSE IF l.n > nvars THEN [a EXCEPT !.freereg = @ - (l.n - nvars)] ELSE a
        rest == IF direct THEN Front(t.lhs) ELSE t.lhs
        store(fs, var) == luaK_storevar(fs, var, init_exp("VNONRELOC", fs.freereg - 1))
    IN IF t.c.err THEN t.c ELSE SetFs(l.c, FoldLeft(store, s, Reverse(rest)))

\* The jumps r leave the condition when it is false.
cond(c) ==
    LET x == expr(c)
        v == luaK_goiftrue(Cur(x.c), IF x.e.k = "VNIL" THEN [x.e EXCEPT !.k = "VFALSE"] ELSE x.e)
    IN [c |-> SetFs(x.c, v.fs), r |-> v.e.f]

\* break is a goto to a label of that name.
gotostat(c, place) ==
    LET isgoto == At(c, "goto")
        n == luaX_next(c)
        gt == newlabelentry(c, IF isgoto THEN NameAt(n) ELSE "break", place)
        s == IF isgoto THEN checknext(n, "NAME") ELSE n
    IN findlabel([s EXCEPT !.gt = Append(@, gt)], Len(s.gt) + 1)

RECURSIVE skipnoopstat(_)
skipnoopstat(c) == IF Token(c)[1] \in {";", "::"} THEN skipnoopstat(statement(c)) ELSE c

labelstat(c) ==
    LET name == NameAt(c)
        repeated == Visible(c, name) # {}
        n == checknext(checknext(c, "NAME"), "::")
        l == Len(n.label) + 1
        s == skipnoopstat([(IF repeated THEN semerror(n) ELSE n)
                             EXCEPT !.label = Append(@, newlabelentry(n, name, pc(Cur(n))))])
        d == IF block_follow(s, FALSE) THEN [s EXCEPT !.label[l].nactvar = Curbl(s).nactvar] ELSE s
    IN findgotos(d, d.label[l], Curbl(d).firstgoto + 1)

Jump(c) == LET j == luaK_jump(Cur(c)) IN [c |-> SetFs(c, j.fs), r |-> j.r]

whilestat(c) ==
    LET s == SetFs(luaX_next(c), luaK_getlabel(Cur(c)))
        condexit == cond(s)
        b == block(checknext(enterblock(condexit.c, TRUE), "do"))
        j == luaK_jump(Cur(b))
        e == leaveblock(checknext(SetFs(b, luaK_patchlist(j.fs, j.r, pc(Cur(s)))), "end"))
    IN SetFs(e, luaK_patchtohere(Cur(e), condexit.r))

\* The condition is read inside the scope of the body.
repeatstat(c) ==
    LET s == SetFs(luaX_next(c), luaK_getlabel(Cur(c)))
        b == checknext(statlist(enterblock(enterblock(s, TRUE), FALSE)), "until")
        x == cond(b)
        bl2 == Curbl(x.c)
        e == leaveblock(IF bl2.upval THEN SetFs(x.c, luaK_patchclose(Cur(x.c), x.r, bl2.nactvar)) ELSE x.c)
    IN leaveblock(SetFs(e, luaK_patchlist(Cur(e), x.r, pc(Cur(s)))))

exp1(c) == LET x == expr(c) IN SetFs(x.c, luaK_exp2nextreg(Cur(x.c), x.e).fs)

forbody(c, base, nvars, isnum) ==
    LET s == checknext(adjustlocalvars(c, 3), "do")
        prep == IF isnum THEN SetFs(s, luaK_code(Cur(s), "FORPREP", base, NO_JUMP, 0)) ELSE Jump(s).c
        v == adjustlocalvars(enterblock(prep, FALSE), nvars)
        b == leaveblock(block(SetFs(v, luaK_reserveregs(Cur(v), nvars))))
        p == pc(Cur(prep)) - 1
        h == luaK_patchtohere(Cur(b), p)
        e == IF isnum THEN luaK_code(h, "FORLOOP", base, NO_JUMP, 0)
             ELSE luaK_code(luaK_code(h, "TFORCALL", base, 0, nvars), "TFORLOOP", base + 2, NO_JUMP, 0)
    IN SetFs(b, luaK_patchlist(e, pc(e) - 1, p + 1))

Control(c) == FoldLeft(new_localvar, c, <<"(for 1)", "(for 2)", "(for 3)">>)

fornum(c, name) ==
    LET base == Cur(c).freereg
        i == exp1(checknext(new_localvar(Control(c), name), "="))
        l == exp1(checknext(i, ","))
        k == addk(Cur(l), <<"int", 1>>)
        s == IF At(l, ",") THEN exp1(luaX_next(l))
             ELSE SetFs(l, luaK_reserveregs(luaK_codek(k.fs, k.fs.freereg, k.r), 1))
    IN forbody(s, base, 1, TRUE)

RECURSIVE namelist(_, _)
namelist(c, n) ==
    IF At(c, ",")
    THEN LET x == luaX_next(c) IN namelist(checknext(new_localvar(x, NameAt(x)), "NAME"), n + 1)
    ELSE [c |-> c, n |-> n]

forlist(c, name) ==
    LET base == Cur(c).freereg
        ns == namelist(new_localvar(Control(c), name), 1)
        l == explist(checknext(ns.c, "in"))
        fs == luaK_checkstack(adjust_assign(Cur(l.c), 3, l.n, l.e), 3)
    IN forbody(SetFs(l.c, fs), base, ns.n, FALSE)

forstat(c) ==
    LET n == luaX_next(enterblock(c, TRUE))
        s == checknext(n, "NAME")
        b == CASE At(s, "=") -> fornum(s, NameAt(n))
               [] Token(s)[1] \in {",", "in"} -> forlist(s, NameAt(n))
               [] OTHER -> luaX_syntaxerror(s)
    IN leaveblock(checknext(b, "end"))

\* if c then goto l: the condition jumps to the label itself.  esc: the jumps
\* over the parts that follow.
test_then_block(c, esc) ==
    LET x == expr(luaX_next(c))
        s == checknext(x.c, "then")
        jumps == Token(s)[1] \in {"goto", "break"}
        iff == luaK_goiffalse(Cur(s), x.e)
        g == skipnoopstat(gotostat(enterblock(SetFs(s, iff.fs), FALSE), iff.e.t))
        ift == luaK_goiftrue(Cur(s), x.e)
        over == Jump(g)
        b == leaveblock(statlist(IF jumps THEN over.c ELSE enterblock(SetFs(s, ift.fs), FALSE)))
        jf == IF jumps THEN over.r ELSE ift.e.f
        j == luaK_jump(Cur(b))
        l == luaK_concat(j.fs, esc, j.r)
    IN IF jumps /\ block_follow(g, FALSE) THEN [c |-> leaveblock(g), r |-> esc]
       ELSE IF Token(b)[1] \in {"else", "elseif"}
       THEN [c |-> SetFs(b, luaK_patchtohere(l.fs, jf)), r |-> l.r]
       ELSE [c |-> SetFs(b, luaK_patchtohere(Cur(b), jf)), r |-> esc]

RECURSIVE elseifs(_, _)
elseifs(c, esc) ==
    LET t == test_then_block(c, esc) IN IF At(t.c, "elseif") THEN elseifs(t.c, t.r) ELSE t
ifstat(c) ==
    LET t == elseifs(c, NO_JUMP)
        e == checknext(IF At(t.c, "else") THEN block(luaX_next(t.c)) ELSE t.c, "end")
    IN SetFs(e, luaK_patchtohere(Cur(e), t.r))

\* The name is in scope in the function's own body.
localfunc(c) == body(adjustlocalvars(checknext(new_localvar(c, NameAt(c)), "NAME"), 1), FALSE).c

localstat(c) ==
    LET ns == namelist(checknext(new_localvar(c, NameAt(c)), "NAME"), 1)
        l == IF At(ns.c, "=") THEN explist(luaX_next(ns.c))
             ELSE [c |-> ns.c, e |-> init_exp("VVOID", 0), n |-> 0]
    IN adjustlocalvars(SetFs(l.c, adjust_assign(Cur(l.c), ns.n, l.n, l.e)), ns.n)

RECURSIVE funcname(_, _)
funcname(c, v) ==
    LET x == fieldsel(c, v)
    IN CASE At(c, ".") -> funcname(x.c, x.e)
         [] At(c, ":") -> [c |-> x.c, e |-> x.e, ismethod |-> TRUE]
         [] OTHER -> [c |-> c, e |-> v, ismethod |-> FALSE]
funcstat(c) ==
    LET v == singlevar(luaX_next(c))
        n == funcname(v.c, v.e)
        b == body(n.c, n.ismethod)
    IN SetFs(b.c, luaK_storevar(Cur(b.c), n.e, b.e))

exprstat(c) ==
    LET v == suffixedexp(c)
    IN CASE Token(v.c)[1] \in {"=", ","} -> assignment(v.c, v.e)
         [] v.e.k = "VCALL" -> SetFs(v.c, [Cur(v.c) EXCEPT !.code[v.e.info + 1].c = 1])
         [] OTHER -> luaX_syntaxerror(v.c)

retstat(c) ==
    LET l == explist(c)
        fs == Cur(l.c)
        m == luaK_setreturns(fs, l.e, LUA_MULTRET)
        tail == lua_assert([m EXCEPT !.code[l.e.info + 1].op = "TAILCALL"],
                           CodeAt(m, l.e.info).a = m.nactvar)
        one == luaK_exp2anyreg(fs, l.e)
        many == luaK_exp2nextreg(fs, l.e).fs
        r == IF block_follow(c, TRUE) \/ At(c, ";") THEN SetFs(c, luaK_ret(Cur(c), 0, 0))
             ELSE IF hasmultret(l.e)
             THEN SetFs(l.c, luaK_ret(IF l.e.k = "VCALL" /\ l.n = 1 THEN tail ELSE m,
                                      fs.nactvar, LUA_MULTRET))
             ELSE IF l.n = 1 THEN SetFs(l.c, luaK_ret(one.fs, one.e.info, 1))
             ELSE SetFs(l.c, luaK_ret(lua_assert(many, l.n = many.freereg - fs.nactvar), fs.nactvar, l.n))
    IN testnext(r, ";")

Statement(c) ==
    CASE At(c, ";") -> luaX_next(c)
      [] At(c, "if") -> ifstat(c)
      [] At(c, "while") -> whilestat(c)
      [] At(c, "do") -> checknext(block(luaX_next(c)), "end")
      [] At(c, "for") -> forstat(c)
      [] At(c, "repeat") -> repeatstat(c)
      [] At(c, "function") -> funcstat(c)
      [] At(c, "local") -> IF luaX_lookahead(c) = <<"function">>
                           THEN localfunc(luaX_next(luaX_next(c))) ELSE localstat(luaX_next(c))
      [] At(c, "::") -> labelstat(luaX_next(c))
      [] At(c, "return") -> retstat(luaX_next(c))
      [] Token(c)[1] \in {"break", "goto"} -> LET j == Jump(c) IN gotostat(j.c, j.r)
      [] OTHER -> exprstat(c)
\* After every statement its temporary registers are free.
statement(c) ==
    LET s == Statement(c)
        fs == Cur(s)
    IN SetFs(s, [lua_assert(fs, fs.maxstacksize >= fs.freereg /\ fs.freereg >= fs.nactvar)
                   EXCEPT !.freereg = fs.nactvar])

statlist(c) ==
    IF block_follow(c, TRUE) THEN c
    ELSE IF At(c, "return") THEN statement(c)
    ELSE statlist(statement(c))

\* The main function: vararg, with the environment as its upvalue.
luaY_parser(tokens) ==
    LET c == open_func([tok |-> tokens, pos |-> 1, fs |-> <<>>, actvar |-> <<>>, gt |-> <<>>,
                        label |-> <<>>, err |-> FALSE])
        m == SetFs(c, [Cur(c) EXCEPT !.is_vararg = TRUE,
                         !.upvalues = <<[name |-> LUA_ENV, instack |-> TRUE, idx |-> 0]>>])
        b == statlist(m)
        e == close_func(IF At(b, "EOS") THEN b ELSE luaX_syntaxerror(b))
    IN [ok |-> ~e.err /\ ~Cur(e).err, p |-> Proto(Cur(e)),
        sound |-> Cur(e).sound /\ e.actvar = <<>> /\ e.gt = <<>> /\ e.label = <<>>]
=============================================================================
