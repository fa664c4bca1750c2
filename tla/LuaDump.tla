------------------------------ MODULE LuaDump ------------------------------
(***************************************************************************)
(* ldump.c and lundump.c: a compiled function as a precompiled chunk, and  *)
(* the function read back from it.  A chunk is the sequence of the items   *)
(* the dumper writes, each a tuple <<kind, value>>; the bytes of an item   *)
(* are left out, and so are the source names, the lines and the local      *)
(* variables of the debug information.                                     *)
(***************************************************************************)
EXTENDS Integers, Sequences, SequencesExt

Header == << <<"literal", "signature">>, <<"byte", "LUAC_VERSION">>, <<"byte", "LUAC_FORMAT">>,
             <<"literal", "LUAC_DATA">>, <<"byte", "sizes">>, <<"int", "LUAC_INT">>, <<"num", "LUAC_NUM">> >>

\* A vector: its length, then what Item writes for each element.
DumpVector(s, Item(_)) == << <<"int", Len(s)>> >> \o FlattenSeq([i \in 1 .. Len(s) |-> Item(s[i])])

DumpCode(f) == DumpVector(f.code, LAMBDA i : << <<"ins", i>> >>)
DumpConstants(f) ==
    DumpVector(f.k, LAMBDA v : << <<"byte", v[1]>> >> \o
                               (IF Len(v) = 1 THEN <<>> ELSE << <<"const", v[2]>> >>))
DumpUpvalues(f) ==
    DumpVector(f.upvalues, LAMBDA u : << <<"byte", u.instack>>, <<"byte", u.idx>> >>)
\* Without the debug information there are no names of upvalues.
DumpDebug(f, strip) ==
    DumpVector(IF strip THEN <<>> ELSE f.upvalues, LAMBDA u : << <<"string", u.name>> >>)

RECURSIVE DumpFunction(_, _)
DumpFunction(f, strip) ==
    << <<"byte", f.numparams>>, <<"byte", f.is_vararg>>, <<"byte", f.maxstacksize>> >>
    \o DumpCode(f) \o DumpConstants(f) \o DumpUpvalues(f)
    \o DumpVector(f.p, LAMBDA g : DumpFunction(g, strip))
    \o DumpDebug(f, strip)

luaU_dump(f, strip) == Header \o << <<"byte", Len(f.upvalues)>> >> \o DumpFunction(f, strip)

-----------------------------------------------------------------------------
(* Loading.  S: the items in, the next place at; short once the chunk ended *)
(* too early or its header was wrong, after which only defaults are read.   *)

\* LoadBlock: the next item.
Load(S) ==
    IF S.at <= Len(S.in) THEN [S |-> [S EXCEPT !.at = @ + 1], v |-> S.in[S.at][2]]
    ELSE [S |-> [S EXCEPT !.short = TRUE], v |-> 0]
\* LoadInt, of a length: nothing more is read from a chunk that has ended.
LoadInt(S) == LET n == Load(S) IN IF n.S.short THEN [n EXCEPT !.v = 0] ELSE n

LoadVector(S, Item(_)) ==
    LET n == LoadInt(S)
        add(x, i) == LET y == Item(x.S) IN [S |-> y.S, v |-> Append(x.v, y.v)]
    IN FoldLeft(add, [S |-> n.S, v |-> <<>>], [i \in 1 .. n.v |-> i])

LoadCode(S) == LoadVector(S, Load)
LoadConstants(S) ==
    LET constant(s) ==
          LET t == Load(s)
              v == Load(t.S)
          IN IF t.S.short THEN [t EXCEPT !.v = <<"nil">>]
             ELSE IF t.v \in {"nil", "inf", "-inf", "nan"} THEN [t EXCEPT !.v = <<t.v>>]
             ELSE [v EXCEPT !.v = <<t.v, v.v>>]
    IN LoadVector(S, constant)
LoadUpvalues(S) ==
    LET upvalue(s) ==
          LET i == Load(s)
              x == Load(i.S)
          IN [S |-> x.S, v |-> [name |-> "", instack |-> i.v, idx |-> x.v]]
    IN LoadVector(S, upvalue)
LoadDebug(S, upvalues) ==
    LET names == LoadVector(S, Load)
    IN [names EXCEPT !.v = [i \in 1 .. Len(upvalues) |->
                              IF i <= Len(names.v) THEN [upvalues[i] EXCEPT !.name = names.v[i]]
                              ELSE upvalues[i]]]

RECURSIVE LoadFunction(_)
LoadFunction(S) ==
    LET np == Load(S)
        va == Load(np.S)
        ms == Load(va.S)
        code == LoadCode(ms.S)
        k == LoadConstants(code.S)
        up == LoadUpvalues(k.S)
        p == LoadVector(up.S, LoadFunction)
        debug == LoadDebug(p.S, up.v)
    IN [S |-> debug.S,
        v |-> [code |-> code.v, k |-> k.v, p |-> p.v, upvalues |-> debug.v, numparams |-> np.v,
               is_vararg |-> va.v, maxstacksize |-> ms.v]]

checkHeader(S) ==
    IF Len(S.in) >= Len(Header) /\ SubSeq(S.in, 1, Len(Header)) = Header
    THEN [S EXCEPT !.at = Len(Header) + 1]
    ELSE [S EXCEPT !.short = TRUE, !.at = Len(S.in) + 1]

luaU_undump(chunk) ==
    LET nup == Load(checkHeader([in |-> chunk, at |-> 1, short |-> FALSE]))
        f == LoadFunction(nup.S)
    IN [ok |-> ~f.S.short, p |-> f.v, sound |-> f.S.short \/ nup.v = Len(f.v.upvalues)]
=============================================================================
