---------------------------- MODULE MCLuaCompile ----------------------------
(***************************************************************************)
(* Programs for the compiler and the interpreter: expressions of three     *)
(* operands in several places, and statements that nest loops, closures,   *)
(* gotos and calls with any number of results.  Each runs as compiled, and *)
(* dumped and loaded with and without its debug information.               *)
(***************************************************************************)
EXTENDS LuaChunk

CONSTANT TreeStep   \* one expression in TreeStep is used

Var(n) == <<"var", n>>
Num(n) == <<"num", IntV(n)>>
Flt(h) == <<"num", FltV(h)>>
Str(s) == <<"string", s>>
NilE == <<"nil">>
Bin(op, a, b) == <<"bin", op, a, b>>
At1(t, k) == <<"index", t, k>>
CallE(f, args) == <<"call", f, args>>
EmitE(args) == CallE(Var("emit"), args)
Emit(e) == <<"eval", EmitE(<<e>>)>>
EmitAll(es) == <<"eval", EmitE(es)>>
Do(f, args) == <<"eval", CallE(f, args)>>
Local(n, e) == <<"local", <<n>>, <<e>>>>
Locals(ns, es) == <<"local", ns, es>>
Set(t, e) == <<"assign", <<t>>, <<e>>>>
Let(n, e) == Set(Var(n), e)
Fun(params, b) == <<"fun", params, FALSE, b>>
VFun(params, b) == <<"fun", params, TRUE, b>>
If1(c, b) == <<"if", << <<c, b>> >>, <<>>>>
IfElse(c, b, d) == <<"if", << <<c, b>> >>, d>>
Ret(es) == <<"return", es>>
Inc(n) == Let(n, Bin("ADD", Var(n), Num(1)))
Break == <<"break">>
Goto(l) == <<"goto", l>>
Label(l) == <<"label", l>>
Empty == <<"table", <<>>>>

-----------------------------------------------------------------------------
\* x op y op z in both groupings, the last operand negated or not.
Leaves == << Var("a"), Var("b"), Num(2), NilE, EmitE(<<Num(1), Num(5)>>) >>
Connectives == << "AND", "OR", "EQ", "ADD" >>
Tree(i) ==
    LET x == Leaves[(i % 5) + 1]
        y == Leaves[((i \div 5) % 5) + 1]
        z0 == Leaves[((i \div 25) % 5) + 1]
        p == Connectives[((i \div 125) % 4) + 1]
        q == Connectives[((i \div 500) % 4) + 1]
        z == IF (i \div 2000) % 2 = 1 THEN <<"un", "NOT", z0>> ELSE z0
    IN IF i \div 4000 = 1 THEN Bin(p, x, Bin(q, y, z)) ELSE Bin(p, Bin(q, x, y), z)
NTrees == 8000

\* An expression as argument, value, condition, or result.
InContext(e, n) ==
    << Locals(<<"a", "b", "c">>, <<Num(2), NilE>>), Let("g", Num(3)) >> \o
    CASE n = 0 -> <<Emit(e)>>
      [] n = 1 -> <<Local("d", e), Emit(Var("d"))>>
      [] n = 2 -> <<IfElse(e, <<Emit(Num(6))>>, <<Emit(Num(7))>>)>>
      [] n = 3 -> <<Ret(<<e>>)>>
      [] n = 4 -> << <<"while", e, <<Let("a", NilE), Break>>>>, Emit(Var("a"))>>
      [] n = 5 -> <<Local("t", Empty),
                    <<"assign", <<At1(Var("t"), Num(1)), Var("a")>>, <<e, Num(4)>>>>,
                    EmitAll(<<At1(Var("t"), Num(1)), Var("a")>>)>>
      [] n = 6 -> << <<"repeat", <<Locals(<<"x">>, <<>>), Let("c", e)>>, Bin("OR", Var("c"), Bin("EQ", Var("x"), NilE))>>,
                     Emit(Var("c"))>>
TreePrograms == [i \in 1 .. (NTrees \div TreeStep) |-> InContext(Tree(i * TreeStep - 1), i % 7)]

\* Arithmetic of constants, folded, and of locals, not: every pair of levels.
Operators2 == << "SUB", "MUL", "MOD", "IDIV", "SHL", "SHR", "LT", "GE", "CONCAT", "NE" >>
ArithPrograms ==
    [i \in 1 .. 200 |->
       LET p == Operators2[((i - 1) % 10) + 1]
           q == Operators2[(((i - 1) \div 10) % 10) + 1]
           l == i > 100
           x == IF l THEN Var("x") ELSE Num(7)
           y == IF l THEN <<"un", "UNM", Var("y")>> ELSE <<"un", "UNM", Num(2)>>
           z == IF l THEN Var("z") ELSE <<"un", "BNOT", Num(3)>>
           e == IF i % 2 = 0 THEN Bin(p, x, Bin(q, y, z)) ELSE Bin(p, Bin(q, x, y), z)
       IN << Locals(<<"x", "y", "z">>, <<Num(5), Num(3), Num(2)>>), Emit(e) >>]

-----------------------------------------------------------------------------
(* Loops over i, closures that outlive them, and ways out of them.          *)

Push(f) == Set(At1(Var("fs"), Bin("ADD", <<"un", "LEN", Var("fs")>>, Num(1))), f)
Is2 == Bin("EQ", Var("i"), Num(2))
Counter(n) == Fun(<<>>, <<Inc(n), Ret(<<Var(n)>>)>>)
Reader(n) == Fun(<<>>, <<Ret(<<Var(n)>>)>>)
Bodies ==
  << <<Emit(Var("i"))>>,
     <<If1(Is2, <<Break>>), Emit(Var("i"))>>,
     <<Local("j", Var("i")), Push(Counter("j")), Push(Reader("j"))>>,
     << <<"do", <<If1(Is2, <<Goto("cont")>>), Local("k", Var("i")), Push(Counter("k"))>>>>, Label("cont"), Emit(Num(0))>>,
     <<If1(Is2, <<Ret(<<Var("i"), Num(9)>>)>>), Local("u", Var("i")), Push(Reader("u"))>>,
     <<Local("k", Bin("MUL", Var("i"), Num(2))), Push(Counter("k")), If1(Is2, <<Emit(Var("k")), Break>>), Inc("k")>>,
     << <<"for", "j", <<Num(1), Num(2)>>,
           <<Local("v", Var("j")), Push(Counter("v")), If1(Bin("EQ", Var("j"), Var("i")), <<Goto("out")>>),
             Emit(Var("j"))>>>>, Label("out"), Emit(Var("i"))>>,
     << <<"do", <<Local("w", Var("i")), Push(Counter("w")), IfElse(Is2, <<Goto("cont")>>, <<Inc("w")>>)>>>>,
        Label("cont"), Emit(Var("i"))>>,
     <<Push(Fun(<<"p">>, <<Let("n", Bin("ADD", Var("n"), Var("i"))),
                           Ret(<<Fun(<<>>, <<Let("n", Bin("ADD", Var("n"), Num(1))), Ret(<<Var("n"), Var("p")>>)>>)>>)>>)),
       Emit(Var("n"))>> >>

Loop(n, b) ==
    CASE n = 1 -> << <<"for", "i", <<Num(1), Num(3)>>, b>> >>
      [] n = 2 -> <<Local("i", Num(0)), <<"while", Bin("LT", Var("i"), Num(3)), <<Inc("i")>> \o b>> >>
      [] n = 3 -> <<Local("i", Num(0)), <<"repeat", <<Inc("i")>> \o b, Bin("GE", Var("i"), Num(3))>> >>
      [] n = 4 -> << <<"localfun", "iter", Fun(<<"s", "v">>, <<If1(Bin("LT", Var("v"), Var("s")),
                        <<Ret(<<Bin("ADD", Var("v"), Num(1)), Var("s")>>)>>)>>)>>,
                     <<"forin", <<"i", "m">>, <<Var("iter"), Num(3), Num(0)>>, b>> >>
      [] n = 5 -> << <<"for", "i", <<Num(3), Num(1), <<"un", "UNM", Num(1)>>>>, b>> >>
      [] n = 6 -> << <<"while", <<"true">>,
                       <<Local("i", Num(0)), Label("top"), Inc("i"), <<"do", b>>,
                         If1(Bin("LT", Var("i"), Num(3)), <<Goto("top")>>), Break>>>> >>

CallFirst == <<If1(At1(Var("fs"), Num(1)), <<EmitAll(<<CallE(At1(Var("fs"), Num(1)), <<Num(4)>>)>>)>>),
               If1(At1(Var("fs"), Num(2)), <<EmitAll(<<CallE(At1(Var("fs"), Num(2)), <<Num(4)>>)>>)>>),
               Emit(Var("n"))>>
\* In the main function, or in a function called once with a result.
LoopPrograms ==
    [x \in 1 .. 108 |->
       LET b == Bodies[((x - 1) % 9) + 1]
           l == Loop((((x - 1) \div 9) % 6) + 1, b)
           pre == <<Local("fs", Empty), Local("n", Num(0))>>
       IN IF x > 54 THEN pre \o << <<"localfun", "f", VFun(<<"q">>, l \o <<EmitAll(<< <<"dots">> >>), Ret(<<Num(8)>>)>>)>>,
                                   EmitAll(<<CallE(Var("f"), <<Num(1), Num(2)>>)>>)>> \o CallFirst
          ELSE pre \o << <<"do", l>> >> \o CallFirst]

-----------------------------------------------------------------------------
(* Calls, results, constructors, assignments, scopes, errors.               *)

Pair(a, b) == Fun(<<>>, <<Ret(<<a, b>>)>>)
MiscPrograms == <<
  \* varargs and multiple results
  << <<"localfun", "f", VFun(<<"x">>, <<EmitAll(<< <<"dots">> >>), Locals(<<"y", "z">>, << <<"dots">> >>),
                                        Ret(<<Var("y"), <<"dots">>>>)>>)>>,
     EmitAll(<<CallE(Var("f"), <<Num(1), Num(2), Num(3)>>)>>),
     EmitAll(<< <<"paren", CallE(Var("f"), <<Num(1), Num(2), Num(3)>>)>>, Num(0)>>),
     Local("t", <<"table", << <<"item", CallE(Var("f"), <<Num(1), Num(4)>>)>>,
                              <<"item", CallE(Var("f"), <<Num(1), Num(5), Num(6)>>)>> >>>>),
     EmitAll(<< <<"un", "LEN", Var("t")>>, At1(Var("t"), Num(4)) >>),
     Locals(<<"p", "q", "r">>, <<CallE(Var("f"), <<>>)>>), EmitAll(<<Var("p"), Var("q"), Var("r")>>) >>,
  \* constructors flushed in several parts, with keys between
  << Local("f", Pair(Num(1), Num(2))),
     Local("t", <<"table", << <<"item", Num(1)>>, <<"pair", Str("x"), Num(2)>>, <<"item", Num(3)>>, <<"item", Num(4)>>,
                              <<"pair", Num(9), Num(5)>>, <<"item", CallE(Var("f"), <<>>)>> >>>>),
     EmitAll(<< <<"un", "LEN", Var("t")>>, At1(Var("t"), Str("x")), At1(Var("t"), Num(3)), At1(Var("t"), Num(5)),
                At1(Var("t"), Num(9)) >>),
     Do(Var("emit"), <<Str("s")>>), Do(Var("emit"), << <<"table", << <<"item", Num(1)>> >>>> >>) >>,
  \* methods and nested fields
  << Local("t", <<"table", << <<"pair", Str("a"), Empty>>, <<"pair", Str("v"), Num(4)>> >>>>),
     Set(At1(Var("t"), Str("get")), Fun(<<"self", "d">>, <<Ret(<<Bin("ADD", At1(Var("self"), Str("v")), Var("d"))>>)>>)),
     Set(At1(At1(Var("t"), Str("a")), Str("b")), Fun(<<"x">>, <<Ret(<<Var("x"), Var("t")>>)>>)),
     EmitAll(<< <<"method", Var("t"), "get", <<Num(3)>>>>, CallE(At1(At1(Var("t"), Str("a")), Str("b")), <<Num(5)>>) >>),
     Emit(<<"method", Var("t"), "none", <<>>>>) >>,
  \* assignments whose targets use each other
  << Locals(<<"i", "t">>, <<Num(1), Empty>>),
     <<"assign", <<Var("i"), At1(Var("t"), Var("i"))>>, <<Bin("ADD", Var("i"), Num(1)), Num(6)>>>>,
     EmitAll(<<Var("i"), At1(Var("t"), Num(1)), At1(Var("t"), Num(2))>>),
     <<"assign", <<At1(Var("t"), Var("i")), Var("i"), Var("t")>>, <<Num(7), Var("t"), Num(8)>>>>,
     EmitAll(<<At1(Var("i"), Num(2)), Var("t")>>),
     Locals(<<"x", "y">>, <<Num(1), Num(2)>>), <<"assign", <<Var("x"), Var("y")>>, <<Var("y"), Var("x")>>>>,
     EmitAll(<<Var("x"), Var("y")>>) >>,
  << Locals(<<"u", "k">>, <<Empty, Num(1)>>),
     <<"localfun", "f", Fun(<<>>, << <<"assign", <<At1(Var("u"), Var("k")), Var("u"), Var("k")>>, <<Num(3), Num(4), Num(5), Num(6)>>>>,
                                     Ret(<<Var("u"), Var("k")>>)>>)>>,
     Local("old", Var("u")), EmitAll(<<CallE(Var("f"), <<>>)>>), Emit(At1(Var("old"), Num(1))) >>,
  \* tail calls need no stack; other calls do
  << <<"localfun", "down", Fun(<<"n">>, <<Local("m", Var("n")), Local("f", Reader("m")),
                                          If1(Bin("EQ", Var("n"), Num(0)), <<Ret(<<Var("f")>>)>>),
                                          Ret(<<CallE(Var("down"), <<Bin("SUB", Var("n"), Num(1))>>)>>)>>)>>,
     EmitAll(<<CallE(CallE(Var("down"), <<Num(9)>>), <<>>)>>) >>,
  << <<"localfun", "sum", VFun(<<"n">>, <<If1(Bin("LE", Var("n"), Num(0)), <<Ret(<<Num(0)>>)>>),
                                          Ret(<<Bin("ADD", Var("n"), CallE(Var("sum"), <<Bin("SUB", Var("n"), Num(1))>>))>>)>>)>>,
     Emit(CallE(Var("sum"), <<Num(2)>>)), Ret(<<CallE(Var("emit"), <<Num(1), Num(2)>>)>>) >>,
  \* strings
  << Locals(<<"a", "b">>, <<Str("x"), Str("y")>>),
     Emit(Bin("CONCAT", Bin("CONCAT", Var("a"), Var("b")), Bin("CONCAT", Num(1), Bin("CONCAT", Str(""), Var("a"))))),
     Emit(<<"un", "LEN", Bin("CONCAT", Var("a"), Str("zz"))>>), Emit(Bin("CONCAT", Var("a"), NilE)) >>,
  \* shadowing, globals, nested upvalues
  << Local("x", Num(1)), Local("x", Bin("ADD", Var("x"), Num(1))),
     <<"do", <<Local("x", Bin("ADD", Var("x"), Num(1))), Emit(Var("x"))>>>>, Emit(Var("x")),
     Let("set", Fun(<<"v">>, <<Let("x", Var("v")), Let("y", Var("v"))>>)), Do(Var("set"), <<Num(7)>>),
     EmitAll(<<Var("x"), Var("y")>>) >>,
  << Local("n", Num(0)),
     Local("make", Fun(<<"p">>, <<Local("q", Var("p")), Ret(<<Counter("q"), Fun(<<>>, <<Let("n", Bin("ADD", Var("n"), Var("q"))), Ret(<<Counter("n")>>)>>)>>)>>)),
     Locals(<<"f", "g">>, <<CallE(Var("make"), <<Num(3)>>)>>), Emit(CallE(Var("f"), <<>>)),
     Emit(CallE(CallE(Var("g"), <<>>), <<>>)), Emit(CallE(Var("f"), <<>>)), Emit(Var("n")) >>,
  \* if, elseif, else
  << <<"for", "i", <<Num(1), Num(4)>>,
        << <<"if", << <<Bin("AND", Bin("GT", Var("i"), Num(1)), Bin("LT", Var("i"), Num(3))), <<Emit(Num(10))>>>>,
                     <<Bin("OR", Bin("EQ", Var("i"), Num(4)), <<"un", "NOT", Var("i")>>), <<Emit(Num(11))>>>> >>,
                  <<Emit(Var("i"))>>>> >>>> >>,
  \* a goto that is the only statement of its branch, and a loop closed by one
  << Local("i", Num(0)), Label("top"), Inc("i"),
     IfElse(Bin("LT", Var("i"), Num(2)), <<Goto("top")>>, <<Emit(Var("i"))>>),
     If1(Bin("LT", Var("i"), Num(4)), <<Goto("top")>>), Emit(Num(5)) >>,
  \* a register that a branch sets to nil, then a variable that is nil too
  << Local("c", <<"false">>), <<"do", <<Local("z", Num(5)), Emit(Var("z"))>>>>,
     If1(Var("c"), <<Local("d", NilE)>>), Local("e", NilE), Emit(Var("e")) >>,
  \* a scope entered again by a goto has new variables
  << Locals(<<"i", "f", "g">>, <<Num(0)>>), Label("again"),
     <<"do", <<Local("x", Var("i")), Let("g", Var("f")), Let("f", Counter("x")), Inc("i"),
               If1(Bin("LT", Var("i"), Num(3)), <<Goto("again")>>)>>>>,
     EmitAll(<<CallE(Var("f"), <<>>)>>), EmitAll(<<CallE(Var("g"), <<>>)>>), EmitAll(<<CallE(Var("g"), <<>>)>>) >>,
  \* the condition of a repeat uses a captured variable of its body
  << Locals(<<"i", "f">>, <<Num(0)>>),
     <<"repeat", <<Inc("i"), Local("x", Var("i")), Let("f", Counter("x"))>>, Bin("GE", Var("x"), Num(2))>>,
     Emit(CallE(Var("f"), <<>>)) >>,
  \* loops at the limits of the numbers
  << <<"for", "i", <<Num(LUA_MAXINTEGER - 2), Num(LUA_MAXINTEGER - 1)>>, <<Emit(Var("i"))>>>>,
     <<"for", "i", <<Num(LUA_MININTEGER + 2), Num(LUA_MININTEGER + 1), <<"un", "UNM", Num(1)>>>>, <<Emit(Var("i"))>>>>,
     <<"for", "i", <<Num(3), Num(1)>>, <<Emit(Var("i"))>>>>,
     <<"for", "i", <<Num(1), Flt(5)>>, <<Emit(Var("i"))>>>>,
     <<"for", "i", <<Flt(2), Num(2), Flt(1)>>, <<Emit(Var("i"))>>>>,
     <<"for", "i", <<Num(LUA_MININTEGER), <<"num", Inf>>, <<"un", "UNM", Num(1)>>>>, <<Emit(Var("i"))>>>>,
     <<"for", "i", <<Num(1), <<"num", MInf>>>>, <<Emit(Var("i"))>>>> >>,
  \* errors
  << Emit(Num(1)), Local("x", NilE), Emit(Bin("ADD", Num(1), Var("x"))), Emit(Num(2)) >>,
  << Local("x", NilE), Do(Var("x"), <<Num(1)>>) >>,
  << Local("x", Num(1)), Set(At1(Var("x"), Num(1)), Num(2)) >>,
  << Local("t", Empty), Set(At1(Var("t"), NilE), Num(2)) >>,
  << Local("x", Num(0)), Emit(Bin("IDIV", Num(1), Var("x"))) >>,
  << Emit(Bin("LT", Num(1), NilE)) >>,
  << <<"for", "i", <<Num(1), NilE>>, <<Emit(Var("i"))>>>> >>,
  << Local("t", Empty), Set(At1(Var("t"), Flt(4)), Num(1)), Emit(At1(Var("t"), Num(2))),
     Set(At1(Var("t"), Num(2)), NilE), Emit(<<"un", "LEN", Var("t")>>), Emit(<<"un", "LEN", NilE>>) >>
>>

MCPrograms == TreePrograms \o ArithPrograms \o LoopPrograms \o MiscPrograms

\* A generic for with more than three expressions after in.
FourExpressions ==
  << << <<"localfun", "iter", Fun(<<"s", "v">>, <<If1(Bin("LT", Var("v"), Var("s")),
                        <<Ret(<<Bin("ADD", Var("v"), Num(1))>>)>>)>>)>>,
        <<"forin", <<"i", "j">>, <<Var("iter"), Num(2), Num(0), Num(9)>>,
          <<Local("x", Bin("MUL", Var("i"), Num(2))), EmitAll(<<Var("i"), Var("j"), Var("x")>>)>>>> >> >>
\* A label between two declarations without values.
LabelPrograms ==
  << << Local("i", Num(0)), <<"while", <<"true">>,
          <<Local("x", NilE), Label("l1"), Locals(<<"y", "z">>, <<>>), EmitAll(<<Var("x"), Var("y")>>), Inc("i"),
            <<"assign", <<Var("x"), Var("y")>>, <<Num(3), Num(4)>>>>,
            If1(Bin("LT", Var("i"), Num(3)), <<Goto("l1")>>), Break>>>> >> >>
=============================================================================
