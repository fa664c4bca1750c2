---------------------------- MODULE LuaReference ----------------------------
(***************************************************************************)
(* What a Lua program means, by its syntax tree: the reference the         *)
(* compiler and the interpreter are checked against.  It follows the       *)
(* language, not the implementation: variables are cells found by name, a  *)
(* block runs its statements in order, a loop or a goto is a jump between  *)
(* statements.  Nothing here models code.                                  *)
(*                                                                         *)
(* Trees are tuples, their kind first.  Expressions: <<"nil">>, <<"true">>,*)
(* <<"false">>, <<"dots">>, <<"num", v>>, <<"string", s>>, <<"var", n>>,   *)
(* <<"index", t, k>>, <<"call", f, args>>, <<"method", o, n, args>>,       *)
(* <<"fun", params, vararg, block>>, <<"bin", op, a, b>>, <<"un", op, a>>, *)
(* <<"paren", a>>, <<"table", fields>> with fields <<"item", a>> and       *)
(* <<"pair", k, a>>.  Statements: <<"local", names, es>>,                  *)
(* <<"localfun", n, f>>, <<"assign", targets, es>>, <<"eval", call>>,      *)
(* <<"do", block>>, <<"while", e, block>>, <<"repeat", block, e>>,         *)
(* <<"if", arms, else>> with arms <<e, block>>, <<"for", n, es, block>>,   *)
(* <<"forin", names, es, block>>, <<"return", es>>, <<"break">>,           *)
(* <<"goto", l>>, <<"label", l>>.                                          *)
(***************************************************************************)
EXTENDS LuaNumber, Sequences, SequencesExt, FiniteSets, TLC

NilV == <<"nil">>
Falsy(v) == v \in {NilV, <<"bool", FALSE>>}
Bool(b) == <<"bool", b>>
FirstOf(vs) == IF vs = <<>> THEN NilV ELSE vs[1]
Nth(vs, i) == IF i <= Len(vs) THEN vs[i] ELSE NilV
Seen(v) == IF v[1] \in {"table", "fun", "cfun"} THEN <<"object">> ELSE v

\* A state s: the cells, tables and functions made, the output, and whether
\* no error has been raised.  Results are [s, v] with v a list of values.
Res(s, vs) == [s |-> s, v |-> vs]
Fail(s) == Res([s EXCEPT !.ok = FALSE], <<>>)

Key(k) == IF k[1] = "flt" /\ luaV_tointeger(k, 0) # NoInteger THEN IntV(luaV_tointeger(k, 0)) ELSE k
Fetch(s, t, k) ==
    IF t[1] # "table" THEN Fail(s)
    ELSE Res(s, <<IF Key(k) \in DOMAIN s.tab[t[2]] THEN s.tab[t[2]][Key(k)] ELSE NilV>>)
Store(s, t, k, v) ==
    IF ~s.ok THEN s
    ELSE IF t[1] # "table" \/ k \in {NilV, NaN} THEN [s EXCEPT !.ok = FALSE]
    ELSE [s EXCEPT !.tab[t[2]] = IF v = NilV THEN [x \in DOMAIN @ \ {Key(k)} |-> @[x]] ELSE (Key(k) :> v) @@ @]

\* New variables with their first values.
Bind(s, env, names, vs) ==
    FoldLeft(LAMBDA x, i : [s |-> [x.s EXCEPT !.cell = Append(@, Nth(vs, i))],
                            env |-> (names[i] :> Len(x.s.cell) + 1) @@ x.env],
             [s |-> s, env |-> env], [i \in 1 .. Len(names) |-> i])

Arithmetic == {"ADD", "SUB", "MUL", "MOD", "IDIV", "SHL", "SHR"}
Text(v) == IF v[1] = "int" THEN ToString(v[2]) ELSE v[2]
BinaryValue(s, op, a, b) ==
    LET numbers == IsNumber(a) /\ IsNumber(b)
        order(holds) == IF numbers THEN Res(s, <<Bool(holds)>>) ELSE Fail(s)
        equal == IF numbers THEN EqNum(a, b) ELSE a = b
    IN CASE op \in Arithmetic ->
              IF numbers /\ luaO_arith(op, a, b) # NoResult THEN Res(s, <<luaO_arith(op, a, b)>>) ELSE Fail(s)
         [] op = "CONCAT" -> IF {a[1], b[1]} \subseteq {"str", "int"}
                             THEN Res(s, << <<"str", Text(a) \o Text(b)>> >>) ELSE Fail(s)
         [] op = "EQ" -> Res(s, <<Bool(equal)>>)
         [] op = "NE" -> Res(s, <<Bool(~equal)>>)
         [] op = "LT" -> order(LTnum(a, b))
         [] op = "LE" -> order(LEnum(a, b))
         [] op = "GT" -> order(LTnum(b, a))
         [] op = "GE" -> order(LEnum(b, a))
UnaryValue(s, op, a) ==
    LET sizes == {n \in 0 .. Cardinality(DOMAIN s.tab[a[2]]) :
                    IntV(n + 1) \notin DOMAIN s.tab[a[2]] /\ (n = 0 \/ IntV(n) \in DOMAIN s.tab[a[2]])}
    IN CASE op = "NOT" -> Res(s, <<Bool(Falsy(a))>>)
         [] op = "LEN" -> CASE a[1] = "str" -> Res(s, <<IntV(Len(a[2]))>>)
                            [] a[1] = "table" -> Res(s, <<IntV(CHOOSE n \in sizes : TRUE)>>)
                            [] OTHER -> Fail(s)
         [] OTHER -> IF IsNumber(a) /\ luaO_arith(op, a, a) # NoResult
                     THEN Res(s, <<luaO_arith(op, a, a)>>) ELSE Fail(s)

-----------------------------------------------------------------------------
RECURSIVE Eval(_, _, _)
RECURSIVE RunFrom(_, _, _, _)

Eval1(s, env, e) == LET r == Eval(s, env, e) IN [r EXCEPT !.v = FirstOf(@)]

\* A list of expressions: only the last keeps all its values.
EvalList(s, env, es) ==
    FoldLeft(LAMBDA x, i : LET r == Eval(x.s, env, es[i])
                           IN Res(r.s, x.v \o (IF i = Len(es) THEN r.v ELSE <<FirstOf(r.v)>>)),
             Res(s, <<>>), [i \in 1 .. Len(es) |-> i])

Call(s, f, args) ==
    LET fn == s.fun[f[2]]
        b == Bind(s, fn.env, Append(fn.params, "..."),
                  [i \in 1 .. (Len(fn.params) + 1) |->
                     IF i <= Len(fn.params) THEN Nth(args, i)
                     ELSE <<"list", SubSeq(args, Len(fn.params) + 1, Len(args))>>])
        r == RunFrom(b.s, fn.block, 1, <<b.env>>)
    IN IF ~s.ok THEN Res(s, <<>>)
       ELSE CASE f[1] = "cfun" ->
                   Res([s EXCEPT !.out = @ \o [i \in 1 .. Len(args) |-> Seen(args[i])]], args)
              [] f[1] = "fun" -> Res(r.s, IF r.sig[1] = "return" THEN r.sig[2] ELSE <<>>)
              [] OTHER -> Fail(s)

TableOf(s, env, fields) ==
    LET n == Len(s.tab) + 1
        t == <<"table", n>>
        add(x, i) ==
          IF fields[i][1] = "pair"
          THEN LET k == Eval1(x.s, env, fields[i][2])
                   v == Eval1(k.s, env, fields[i][3])
               IN [x EXCEPT !.s = Store(v.s, t, k.v, v.v)]
          ELSE LET r == Eval(x.s, env, fields[i][2])
                   vs == IF i = Len(fields) THEN r.v ELSE <<FirstOf(r.v)>>
               IN [s |-> FoldLeft(LAMBDA y, j : Store(y, t, IntV(x.n + j), vs[j]), r.s,
                                  [j \in 1 .. Len(vs) |-> j]),
                   n |-> x.n + Len(vs)]
        all == FoldLeft(add, [s |-> [s EXCEPT !.tab = Append(@, <<>>)], n |-> 0],
                        [i \in 1 .. Len(fields) |-> i])
    IN Res(all.s, <<t>>)

Eval(s, env, e) ==
    CASE e[1] = "nil" -> Res(s, <<NilV>>)
      [] e[1] \in {"true", "false"} -> Res(s, <<Bool(e[1] = "true")>>)
      [] e[1] = "num" -> Res(s, <<e[2]>>)
      [] e[1] = "string" -> Res(s, << <<"str", e[2]>> >>)
      [] e[1] = "dots" -> Res(s, s.cell[env["..."]][2])
      [] e[1] = "var" -> IF e[2] \in DOMAIN env THEN Res(s, <<s.cell[env[e[2]]]>>)
                         ELSE Fetch(s, <<"table", 1>>, <<"str", e[2]>>)
      [] e[1] = "index" -> LET t == Eval1(s, env, e[2])
                               k == Eval1(t.s, env, e[3])
                           IN Fetch(k.s, t.v, k.v)
      [] e[1] = "call" -> LET f == Eval1(s, env, e[2])
                              a == EvalList(f.s, env, e[3])
                          IN Call(a.s, f.v, a.v)
      [] e[1] = "method" -> LET o == Eval1(s, env, e[2])
                                f == Fetch(o.s, o.v, <<"str", e[3]>>)
                                a == EvalList(f.s, env, e[4])
                            IN Call(a.s, FirstOf(f.v), <<o.v>> \o a.v)
      [] e[1] = "fun" -> Res([s EXCEPT !.fun = Append(@, [params |-> e[2], block |-> e[4], env |-> env])],
                             << <<"fun", Len(s.fun) + 1>> >>)
      [] e[1] = "paren" -> LET r == Eval1(s, env, e[2]) IN Res(r.s, <<r.v>>)
      [] e[1] = "un" -> LET a == Eval1(s, env, e[3]) IN UnaryValue(a.s, e[2], a.v)
      [] e[1] = "table" -> TableOf(s, env, e[2])
      [] e[1] = "bin" ->
           LET a == Eval1(s, env, e[3])
               b == Eval1(a.s, env, e[4])
           IN CASE e[2] = "AND" -> Res((IF Falsy(a.v) THEN a ELSE b).s, <<(IF Falsy(a.v) THEN a ELSE b).v>>)
                [] e[2] = "OR" -> Res((IF Falsy(a.v) THEN b ELSE a).s, <<(IF Falsy(a.v) THEN b ELSE a).v>>)
                [] OTHER -> BinaryValue(b.s, e[2], a.v, b.v)

-----------------------------------------------------------------------------
(* Statements give [s, env, sig]: sig is how they ended.                    *)

Normal == <<"next">>
End(s, env, sig) == [s |-> s, env |-> env, sig |-> IF s.ok THEN sig ELSE <<"error">>]
Block(s, env, b) == RunFrom(s, b, 1, <<env>>)

\* All tables, keys and values are evaluated before the first is assigned.
Assign(s, env, targets, es) ==
    LET place(x, i) ==
          LET t == Eval1(x.s, env, targets[i][2])
              k == Eval1(t.s, env, targets[i][3])
          IN IF targets[i][1] = "var" THEN [x EXCEPT !.v = Append(@, <<NilV, NilV>>)]
             ELSE [s |-> k.s, v |-> Append(x.v, <<t.v, k.v>>)]
        idx == [i \in 1 .. Len(targets) |-> i]
        p == FoldLeft(place, Res(s, <<>>), idx)
        r == EvalList(p.s, env, es)
        put(x, i) ==
          LET v == Nth(r.v, i)
          IN CASE ~x.ok -> x
               [] targets[i][1] = "index" -> Store(x, p.v[i][1], p.v[i][2], v)
               [] targets[i][2] \in DOMAIN env -> [x EXCEPT !.cell[env[targets[i][2]]] = v]
               [] OTHER -> Store(x, <<"table", 1>>, <<"str", targets[i][2]>>, v)
    IN FoldLeft(put, r.s, idx)

RECURSIVE While(_, _, _, _)
While(s, env, e, b) ==
    LET c == Eval1(s, env, e)
        r == Block(c.s, env, b)
    IN IF ~c.s.ok \/ Falsy(c.v) THEN End(c.s, env, Normal)
       ELSE IF r.sig = Normal THEN While(r.s, env, e, b)
       ELSE End(r.s, env, IF r.sig = <<"break">> THEN Normal ELSE r.sig)

\* The condition sees the variables of the body.
RECURSIVE Repeat(_, _, _, _)
Repeat(s, env, b, e) ==
    LET r == Block(s, env, b)
        c == Eval1(r.s, r.env, e)
    IN IF r.sig # Normal THEN End(r.s, env, IF r.sig = <<"break">> THEN Normal ELSE r.sig)
       ELSE IF ~c.s.ok \/ ~Falsy(c.v) THEN End(c.s, env, Normal)
       ELSE Repeat(c.s, env, b, e)

\* The loop variable runs over v, v + step, ... up to the limit; the sum of
\* integers wraps around as everywhere.
RECURSIVE For(_, _, _, _, _, _, _)
For(s, env, n, v, limit, step, b) ==
    LET within == IF LTnum(IntV(0), step) THEN LEnum(v, limit) ELSE LEnum(limit, v)
        sum == v[2] + step[2]
        x == Bind(s, env, <<n>>, <<v>>)
        r == Block(x.s, x.env, b)
    IN IF ~within THEN End(s, env, Normal)
       ELSE IF r.sig = Normal
       THEN For(r.s, env, n, <<v[1], IF v[1] = "int" THEN Wrap(sum) ELSE sum>>, limit, step, b)
       ELSE End(r.s, env, IF r.sig = <<"break">> THEN Normal ELSE r.sig)

RECURSIVE ForIn(_, _, _, _, _, _, _)
ForIn(s, env, names, f, st, control, b) ==
    LET r == Call(s, f, <<st, control>>)
        x == Bind(r.s, env, names, r.v)
        d == Block(x.s, x.env, b)
    IN IF ~r.s.ok \/ FirstOf(r.v) = NilV THEN End(r.s, env, Normal)
       ELSE IF d.sig = Normal THEN ForIn(d.s, env, names, f, st, FirstOf(r.v), b)
       ELSE End(d.s, env, IF d.sig = <<"break">> THEN Normal ELSE d.sig)

RECURSIVE If(_, _, _, _, _)
If(s, env, arms, i, otherwise) ==
    LET c == Eval1(s, env, arms[i][1])
    IN IF i > Len(arms) THEN Block(s, env, otherwise)
       ELSE IF ~c.s.ok THEN End(c.s, env, Normal)
       ELSE IF Falsy(c.v) THEN If(c.s, env, arms, i + 1, otherwise)
       ELSE Block(c.s, env, arms[i][2])

ForNum(s, env, x) ==
    LET r == EvalList(s, env, x[3])
        step == IF Len(r.v) < 3 THEN IntV(1) ELSE r.v[3]
        flt == r.v[1][1] # "int" \/ step[1] # "int"
        num(v) == IF flt THEN tonumber(v) ELSE v
    IN IF ~r.s.ok \/ ~(IsNumber(r.v[1]) /\ IsNumber(r.v[2]) /\ IsNumber(step))
       THEN End([r.s EXCEPT !.ok = FALSE], env, Normal)
       ELSE For(r.s, env, x[2], num(r.v[1]), r.v[2], num(step), x[4])

Statement1(s, env, x) ==
    LET outer(r) == End(r.s, env, r.sig)
    IN CASE x[1] = "local" -> LET r == EvalList(s, env, x[3])
                                  b == Bind(r.s, env, x[2], r.v)
                              IN End(b.s, b.env, Normal)
         [] x[1] = "localfun" -> LET b == Bind(s, env, <<x[2]>>, <<NilV>>)
                                     f == Eval1(b.s, b.env, x[3])
                                 IN End([f.s EXCEPT !.cell[b.env[x[2]]] = f.v], b.env, Normal)
         [] x[1] = "assign" -> End(Assign(s, env, x[2], x[3]), env, Normal)
         [] x[1] = "eval" -> End(Eval(s, env, x[2]).s, env, Normal)
         [] x[1] = "do" -> outer(Block(s, env, x[2]))
         [] x[1] = "while" -> While(s, env, x[2], x[3])
         [] x[1] = "repeat" -> Repeat(s, env, x[2], x[3])
         [] x[1] = "if" -> outer(If(s, env, x[2], 1, x[3]))
         [] x[1] = "for" -> ForNum(s, env, x)
         [] x[1] = "forin" -> LET r == EvalList(s, env, x[3])
                              IN ForIn(r.s, env, x[2], Nth(r.v, 1), Nth(r.v, 2), Nth(r.v, 3), x[4])
         [] x[1] = "return" -> LET r == EvalList(s, env, x[2]) IN End(r.s, env, <<"return", r.v>>)
         [] x[1] = "label" -> End(s, env, Normal)
         [] OTHER -> End(s, env, x)

\* Statements i, i + 1, ... of a block; envs[j] holds at statement j.
RunFrom(s, b, i, envs) ==
    LET r == Statement1(s, envs[i], b[i])
        labels == {j \in 1 .. Len(b) : r.sig[1] = "goto" /\ b[j] = <<"label", r.sig[2]>>}
        j == CHOOSE j \in labels : TRUE
        there == [k \in 1 .. j |-> IF k <= Len(envs) THEN envs[k] ELSE r.env]
    IN IF i > Len(b) THEN End(s, envs[i], Normal)
       ELSE IF r.sig = Normal THEN RunFrom(r.s, b, i + 1, Append(envs, r.env))
       ELSE IF labels # {} THEN RunFrom(r.s, b, j, there)
       ELSE r

\* The outcome of a whole program.
Meaning(b) ==
    LET s == [cell |-> << <<"list", <<>>>> >>, tab |-> << <<"str", "emit">> :> <<"cfun">> >>, fun |-> <<>>,
              out |-> <<>>, ok |-> TRUE]
        r == Block(s, "..." :> 1, b)
        vs == IF r.sig[1] = "return" THEN r.sig[2] ELSE <<>>
    IN [ok |-> r.s.ok, out |-> r.s.out,
        results |-> IF r.s.ok THEN [i \in 1 .. Len(vs) |-> Seen(vs[i])] ELSE <<>>]

-----------------------------------------------------------------------------
(* The text of a program, as tokens: parentheses only where the manual's    *)
(* table of precedences asks for them.                                      *)

Symbol ==
    [ADD |-> "+", SUB |-> "-", MUL |-> "*", MOD |-> "%", IDIV |-> "//", SHL |-> "<<", SHR |-> ">>",
     CONCAT |-> "..", EQ |-> "==", NE |-> "~=", LT |-> "<", LE |-> "<=", GT |-> ">", GE |-> ">=",
     AND |-> "and", OR |-> "or", NOT |-> "not", LEN |-> "#", UNM |-> "-", BNOT |-> "~"]
Levels == << {"OR"}, {"AND"}, {"LT", "GT", "LE", "GE", "NE", "EQ"}, {"SHL", "SHR"}, {"CONCAT"},
             {"ADD", "SUB"}, {"MUL", "IDIV", "MOD"} >>
UnaryLevel == Len(Levels) + 1
LevelOf(op) == CHOOSE n \in DOMAIN Levels : op \in Levels[n]

Join(parts, sep) ==
    FlattenSeq([i \in 1 .. Len(parts) |-> IF i = 1 THEN parts[1] ELSE << <<sep>> >> \o parts[i]])
Name(n) == << <<"NAME", n>> >>
Names(ns) == Join([i \in 1 .. Len(ns) |-> Name(ns[i])], ",")
Paren(ts) == << <<"(">> >> \o ts \o << <<")">> >>

RECURSIVE TokensOf(_, _)
RECURSIVE Tokens(_)
Exprs(es) == Join([i \in 1 .. Len(es) |-> TokensOf(es[i], 0)], ",")
Prefix(e) == IF e[1] \in {"var", "index", "call", "method", "paren"} THEN TokensOf(e, 0)
             ELSE Paren(TokensOf(e, 0))
FunctionBody(f) ==
    << <<"(">> >> \o Names(f[2])
    \o (IF f[3] THEN (IF f[2] = <<>> THEN <<>> ELSE << <<",">> >>) \o << <<"...">> >> ELSE <<>>)
    \o << <<")">> >> \o Tokens(f[4]) \o << <<"end">> >>
Field(f) ==
    CASE f[1] = "item" -> TokensOf(f[2], 0)
      [] f[1] = "pair" /\ f[2][1] = "string" -> Name(f[2][2]) \o << <<"=">> >> \o TokensOf(f[3], 0)
      [] OTHER -> << <<"[">> >> \o TokensOf(f[2], 0) \o << <<"]">>, <<"=">> >> \o TokensOf(f[3], 0)

\* An expression where operators below the level need parentheses.
TokensOf(e, level) ==
    CASE e[1] \in {"nil", "true", "false"} -> << <<e[1]>> >>
      [] e[1] = "dots" -> << <<"...">> >>
      [] e[1] = "num" -> << <<"NUMBER", e[2]>> >>
      [] e[1] = "string" -> << <<"STRING", e[2]>> >>
      [] e[1] = "var" -> Name(e[2])
      [] e[1] = "index" -> IF e[3][1] = "string" THEN Prefix(e[2]) \o << <<".">> >> \o Name(e[3][2])
                           ELSE Prefix(e[2]) \o << <<"[">> >> \o TokensOf(e[3], 0) \o << <<"]">> >>
      [] e[1] = "call" -> IF Len(e[3]) = 1 /\ e[3][1][1] \in {"string", "table"}
                          THEN Prefix(e[2]) \o TokensOf(e[3][1], 0)
                          ELSE Prefix(e[2]) \o Paren(Exprs(e[3]))
      [] e[1] = "method" -> Prefix(e[2]) \o << <<":">> >> \o Name(e[3]) \o Paren(Exprs(e[4]))
      [] e[1] = "fun" -> << <<"function">> >> \o FunctionBody(e)
      [] e[1] = "paren" -> Paren(TokensOf(e[2], 0))
      [] e[1] = "table" -> << <<"{">> >> \o Join([i \in 1 .. Len(e[2]) |-> Field(e[2][i])], ",") \o << <<"}">> >>
      [] e[1] = "un" -> LET ts == << <<Symbol[e[2]]>> >> \o TokensOf(e[3], UnaryLevel)
                        IN IF level > UnaryLevel THEN Paren(ts) ELSE ts
      [] e[1] = "bin" ->
           LET n == LevelOf(e[2])
               right == e[2] = "CONCAT"
               ts == TokensOf(e[3], IF right THEN n + 1 ELSE n) \o << <<Symbol[e[2]]>> >>
                     \o TokensOf(e[4], IF right THEN n ELSE n + 1)
           IN IF level > n THEN Paren(ts) ELSE ts

RECURSIVE Dotted(_)
Dotted(e) == e[1] = "var" \/ (e[1] = "index" /\ e[3][1] = "string" /\ Dotted(e[2]))
Words(b, words) == << <<words[1]>> >> \o Tokens(b) \o << <<words[2]>> >>
StatementTokens(x) ==
    CASE x[1] = "local" -> << <<"local">> >> \o Names(x[2])
                           \o (IF x[3] = <<>> THEN <<>> ELSE << <<"=">> >> \o Exprs(x[3]))
      [] x[1] = "localfun" -> << <<"local">>, <<"function">> >> \o Name(x[2]) \o FunctionBody(x[3])
      [] x[1] = "assign" ->
           IF x[2][1][1] = "index" /\ Dotted(x[2][1]) /\ x[3][1][1] = "fun" /\ FirstOf(x[3][1][2]) = "self"
           THEN << <<"function">> >> \o Prefix(x[2][1][2]) \o << <<":">> >> \o Name(x[2][1][3][2])
                \o FunctionBody([x[3][1] EXCEPT ![2] = Tail(@)])
           ELSE IF Dotted(x[2][1]) /\ Len(x[2]) = 1 /\ Len(x[3]) = 1 /\ x[3][1][1] = "fun"
           THEN << <<"function">> >> \o TokensOf(x[2][1], 0) \o FunctionBody(x[3][1])
           ELSE Exprs(x[2]) \o << <<"=">> >> \o Exprs(x[3])
      [] x[1] = "eval" -> TokensOf(x[2], 0)
      [] x[1] = "do" -> Words(x[2], <<"do", "end">>)
      [] x[1] = "while" -> << <<"while">> >> \o TokensOf(x[2], 0) \o Words(x[3], <<"do", "end">>)
      [] x[1] = "repeat" -> Words(x[2], <<"repeat", "until">>) \o TokensOf(x[3], 0)
      [] x[1] = "if" ->
           FlattenSeq([i \in 1 .. Len(x[2]) |->
                         << <<IF i = 1 THEN "if" ELSE "elseif">> >> \o TokensOf(x[2][i][1], 0)
                         \o << <<"then">> >> \o Tokens(x[2][i][2])])
           \o (IF x[3] = <<>> THEN << <<"end">> >> ELSE Words(x[3], <<"else", "end">>))
      [] x[1] = "for" -> << <<"for">> >> \o Name(x[2]) \o << <<"=">> >> \o Exprs(x[3])
                         \o Words(x[4], <<"do", "end">>)
      [] x[1] = "forin" -> << <<"for">> >> \o Names(x[2]) \o << <<"in">> >> \o Exprs(x[3])
                           \o Words(x[4], <<"do", "end">>)
      [] x[1] = "return" -> << <<"return">> >> \o Exprs(x[2])
      [] x[1] = "goto" -> << <<"goto">> >> \o Name(x[2])
      [] x[1] = "label" -> << <<"::">> >> \o Name(x[2]) \o << <<"::">> >>
      [] x[1] = "break" -> << <<"break">> >>
Tokens(b) == FlattenSeq([i \in 1 .. Len(b) |-> StatementTokens(b[i])])
=============================================================================
