------------------------------ MODULE Compiler ------------------------------
(***************************************************************************)
(* The C compiler of src/cc (parse.c and codegen.c): a recursive-descent   *)
(* parser from tokens to a tree, a stack-machine code generator with       *)
(* labels, branch fixups and a frame per function.  Characters and         *)
(* instruction encodings are abstracted: a token is a record, an           *)
(* instruction a tuple.  The reference it is checked against, what C says  *)
(* of the same programs, is at the end.                                    *)
(***************************************************************************)
EXTENDS Integers, Sequences, SequencesExt, FiniteSets

CONSTANTS
    MAXLAB, MAXBFX,
    GADDR,              \* first address of the globals
    FUEL, Diverges      \* steps the reference evaluation takes, and its value after those

-----------------------------------------------------------------------------
(* Types, as the names of the few the language has.                        *)

Types == {"int", "char", "int*", "char*", "int[2]", "pair"}
SizeOf(ty) == CASE ty = "char" -> 1 [] ty \in {"int[2]", "pair"} -> 16 [] OTHER -> 8
BaseOf(ty) == CASE ty \in {"int*", "int[2]"} -> "int" [] ty = "char*" -> "char" [] OTHER -> "int"
IsPtrLike(ty) == ty \in {"int*", "char*", "int[2]"}
PtrTo(ty) == IF ty = "char" THEN "char*" ELSE "int*"

(* struct_decl: a member is put at the next multiple of its alignment; the *)
(* one struct here is struct { char c; int v; }.                           *)
AlignUp(n, a) == ((n + a - 1) \div a) * a
StructMembers == << <<"c", "char">>, <<"v", "int">> >>
Place(acc, ty) == LET at == AlignUp(acc[1], IF SizeOf(ty) >= 8 THEN 8 ELSE 1)
                  IN <<at + SizeOf(ty), Append(acc[2], at)>>
MemberOffset(name) ==
    LET offs == FoldLeft(LAMBDA acc, mb : Place(acc, mb[2]), <<0, <<>>>>, StructMembers)[2]
    IN offs[CHOOSE i \in DOMAIN StructMembers : StructMembers[i][1] = name]
MemberType(name) == StructMembers[CHOOSE i \in DOMAIN StructMembers : StructMembers[i][1] = name][2]

-----------------------------------------------------------------------------
(* The parser: a cursor with the locals declared so far, and the node made. *)

At(p, s) == p.tk # <<>> /\ Head(p.tk).k = "punct" /\ Head(p.tk).t = s
Kind(p)  == IF p.tk = <<>> THEN "eof" ELSE Head(p.tk).k
next(p)  == [p EXCEPT !.tk = Tail(@)]
fail(p)  == [p EXCEPT !.failed = TRUE]
expect(p, s) == IF At(p, s) THEN next(p) ELSE fail(p)
Node(p, n) == [p |-> p, n |-> n]

find_var(p, name) ==
    LET i == {j \in DOMAIN p.locals : p.locals[j][1] = name}
        g == {j \in DOMAIN p.globals : p.globals[j][1] = name}
    IN IF i # {} THEN p.locals[CHOOSE j \in i : \A l \in i : l <= j][2]
       ELSE IF g # {} THEN p.globals[CHOOSE j \in g : TRUE][2] ELSE "none"

new_num(v) == [k |-> "num", v |-> v, ty |-> "int", kids |-> <<>>, id |-> ""]
new_node(k, ty, kids) == [k |-> k, v |-> 0, ty |-> ty, kids |-> kids, id |-> ""]
new_binary(op, l, r) == new_node(op, "int", <<l, r>>)

new_add(l, r) ==
    IF ~IsPtrLike(l.ty) /\ ~IsPtrLike(r.ty) THEN new_binary("+", l, r)
    ELSE LET pl == IF IsPtrLike(l.ty) THEN l ELSE r
             ix == IF IsPtrLike(l.ty) THEN r ELSE l
         IN new_node("+", PtrTo(BaseOf(pl.ty)),
                     <<pl, new_binary("*", ix, new_num(SizeOf(BaseOf(pl.ty))))>>)
new_sub(l, r) ==
    CASE IsPtrLike(l.ty) /\ ~IsPtrLike(r.ty) ->
            new_node("-", PtrTo(BaseOf(l.ty)),
                     <<l, new_binary("*", r, new_num(SizeOf(BaseOf(l.ty))))>>)
      [] IsPtrLike(l.ty) /\ IsPtrLike(r.ty) ->
            new_binary("/", new_binary("-", l, r), new_num(SizeOf(BaseOf(l.ty))))
      [] OTHER -> new_binary("-", l, r)

(* a > b is made b < a: the operands change places.                        *)
Combine_mutant(op, l, r) ==
    CASE op = "+" -> new_add(l, r) [] op = "-" -> new_sub(l, r)
      [] op = ">" -> new_binary("<", r, l) [] op = ">=" -> new_binary("<", r, l)
      [] OTHER -> new_binary(op, l, r)
Combine(op, l, r) ==
    CASE op = "+" -> new_add(l, r) [] op = "-" -> new_sub(l, r)
      [] op = ">" -> new_binary("<", r, l) [] op = ">=" -> new_binary("<=", r, l)
      [] OTHER -> new_binary(op, l, r)

Level == << {"*", "/", "%"}, {"+", "-"}, {"<", "<=", ">", ">="}, {"==", "!="}, {"&&"}, {"||"} >>

(* declspec: a type name and stars.                                        *)
TypeNames == {"int", "char", "struct"}
looks_like_type(p) == \E t \in TypeNames : At(p, t)
declspec(p) ==
    LET base == IF At(p, "int") THEN "int" ELSE IF At(p, "char") THEN "char" ELSE "pair"
        q == IF base = "pair" THEN next(next(p)) ELSE next(p)
    IN IF ~looks_like_type(p) THEN [p |-> fail(p), ty |-> "int"]
       ELSE IF At(q, "*") THEN [p |-> next(q), ty |-> PtrTo(base)] ELSE [p |-> q, ty |-> base]

(* Expressions and statements contain one another: the recursion between   *)
(* them goes through Parse, which stands for parse.c's forward             *)
(* declarations.                                                           *)
RECURSIVE Parse(_, _)
assign(p) == Parse("assign", p)
unary(p) == Parse("unary", p)
stmt(p) == Parse("stmt", p)

RECURSIVE binary(_, _), binary_rest(_, _), postfix_rest(_), args(_, _)

primary(p) ==
    CASE At(p, "(") -> LET e == assign(next(p)) IN Node(expect(e.p, ")"), e.n)
      [] Kind(p) = "num" -> Node(next(p), new_num(Head(p.tk).v))
      [] Kind(p) = "ident" ->
            LET name == Head(p.tk).t
                q == next(p)
            IN IF At(q, "(")
               THEN LET as == IF At(next(q), ")") THEN [p |-> next(q), n |-> <<>>]
                              ELSE args(next(q), <<>>)
                    IN Node(expect(as.p, ")"), [new_node("call", "int", as.n) EXCEPT !.id = name])
               ELSE IF find_var(p, name) = "none" THEN Node(fail(q), new_num(0))
               ELSE Node(q, [new_node("var", find_var(p, name), <<>>) EXCEPT !.id = name])
      [] OTHER -> Node(fail(p), new_num(0))

args(p, acc) == LET e == assign(p) IN
    IF At(e.p, ",") THEN args(next(e.p), Append(acc, e.n)) ELSE [p |-> e.p, n |-> Append(acc, e.n)]

postfix_rest(r) ==
    CASE At(r.p, "[") ->
            LET i == assign(next(r.p))
                a == new_add(r.n, i.n)
            IN postfix_rest(Node(expect(i.p, "]"), new_node("deref", BaseOf(a.ty), <<a>>)))
      [] At(r.p, ".") ->
            LET q == next(r.p)
                name == Head(q.tk).t
            IN IF Kind(q) # "ident" \/ r.n.ty # "pair" THEN Node(fail(q), r.n)
               ELSE postfix_rest(Node(next(q), [new_node("member", MemberType(name), <<r.n>>)
                                                  EXCEPT !.v = MemberOffset(name)]))
      [] OTHER -> r
postfix(p) == postfix_rest(primary(p))

unary_body(p) ==
    CASE At(p, "sizeof") ->
            IF At(next(p), "(") /\ looks_like_type(next(next(p)))
            THEN LET d == declspec(next(next(p))) IN Node(expect(d.p, ")"), new_num(SizeOf(d.ty)))
            ELSE LET e == unary(next(p)) IN Node(e.p, new_num(SizeOf(e.n.ty)))
      [] At(p, "+") -> unary(next(p))
      [] At(p, "-") -> LET e == unary(next(p)) IN Node(e.p, new_node("neg", "int", <<e.n>>))
      [] At(p, "!") -> LET e == unary(next(p)) IN Node(e.p, new_node("not", "int", <<e.n>>))
      [] At(p, "*") -> LET e == unary(next(p)) IN
            Node(IF IsPtrLike(e.n.ty) THEN e.p ELSE fail(e.p),
                 new_node("deref", BaseOf(e.n.ty), <<e.n>>))
      [] At(p, "&") -> LET e == unary(next(p)) IN
            Node(e.p, new_node("addr", PtrTo(e.n.ty), <<e.n>>))
      [] OTHER -> postfix(p)

(* mul, add_expr, relational, equality, logand, logor: a loop per level,   *)
(* each over the level below.                                              *)
binary(p, k) == IF k = 0 THEN unary(p) ELSE binary_rest(binary(p, k - 1), k)
binary_rest(r, k) ==
    LET ops == {op \in Level[k] : At(r.p, op)} IN
    IF ops = {} THEN r
    ELSE LET op == CHOOSE o \in ops : TRUE
             rhs == binary(next(r.p), k - 1)
         IN binary_rest(Node(rhs.p, Combine(op, r.n, rhs.n)), k)

assign_body(p) ==
    LET l == binary(p, Len(Level)) IN
    IF At(l.p, "=") THEN LET r == assign(next(l.p)) IN Node(r.p, new_node("assign", l.n.ty, <<l.n, r.n>>))
    ELSE l

-----------------------------------------------------------------------------
(* Statements.  A case label is entered in the list of the innermost       *)
(* switch, newest first, under a number of its own.                        *)

None == new_node("none", "int", <<>>)
RECURSIVE block(_, _), declarators(_, _, _)

paren(p) == LET e == assign(expect(p, "(")) IN Node(expect(e.p, ")"), e.n)
Label(v, default, uid) == [new_node("label", default, <<new_num(uid)>>) EXCEPT !.v = v]
case_label(p, v, default) ==
    LET q == [expect(p, ":") EXCEPT !.ncase = @ + 1,
                 !.switches = IF @ = <<>> THEN @
                              ELSE <<<<Label(v, default, p.ncase)>> \o Head(@)>> \o Tail(@)]
        b == stmt(IF p.switches = <<>> THEN fail(q) ELSE q)
    IN Node(b.p, [new_node("case", "int", <<b.n>>) EXCEPT !.v = p.ncase])

declarators(p, ty, acc) ==
    LET q   == next(p)
        arr == At(q, "[")
        q2  == IF arr THEN expect(next(next(q)), "]") ELSE q
        vt  == IF arr THEN "int[2]" ELSE ty
        q3  == [q2 EXCEPT !.locals = Append(@, <<Head(p.tk).t, vt>>)]
        lhs == [new_node("var", vt, <<>>) EXCEPT !.id = Head(p.tk).t]
        e   == assign(next(q3))
        done == IF At(q3, "=") THEN Node(e.p, Append(acc, new_node("assign", vt, <<lhs, e.n>>)))
                ELSE Node(q3, acc)
    IN IF Kind(p) # "ident" THEN Node(fail(p), acc)
       ELSE IF At(done.p, ",") THEN declarators(next(done.p), ty, done.n)
       ELSE Node(expect(done.p, ";"), done.n)
declaration(p) == LET d == declspec(p)
                      r == declarators(d.p, d.ty, <<>>)
                  IN Node(r.p, new_node("block", "int", r.n))

block(p, acc) ==
    IF At(p, "}") \/ Kind(p) = "eof" \/ p.failed THEN Node(expect(p, "}"), new_node("block", "int", acc))
    ELSE LET r == IF looks_like_type(p) THEN declaration(p) ELSE stmt(p) IN block(r.p, Append(acc, r.n))

expr_stmt(p) == LET e == assign(p) IN Node(expect(e.p, ";"), e.n)
optional(p, end) == IF At(p, end) THEN Node(next(p), None)
                    ELSE LET e == assign(p) IN Node(expect(e.p, end), e.n)

stmt_body(p) ==
    CASE At(p, "return") -> LET e == expr_stmt(next(p)) IN Node(e.p, new_node("return", "int", <<e.n>>))
      [] At(p, "if") ->
            LET c == paren(next(p))
                t == stmt(c.p)
                e == IF At(t.p, "else") THEN stmt(next(t.p)) ELSE Node(t.p, None)
            IN Node(e.p, new_node("if", "int", <<c.n, t.n, e.n>>))
      [] At(p, "while") ->
            LET c == paren(next(p))
                b == stmt(c.p)
            IN Node(b.p, new_node("while", "int", <<c.n, b.n>>))
      [] At(p, "for") ->
            LET i == optional(expect(next(p), "("), ";")
                c == optional(i.p, ";")
                n == optional(c.p, ")")
                b == stmt(n.p)
            IN Node(b.p, new_node("for", "int", <<i.n, c.n, n.n, b.n>>))
      [] At(p, "switch") ->
            LET c == paren(next(p))
                b == stmt([c.p EXCEPT !.switches = <<<<>>>> \o @])
            IN Node([b.p EXCEPT !.switches = Tail(@)],
                    new_node("switch", "int", <<c.n, b.n, new_node("cases", "int", Head(b.p.switches))>>))
      [] At(p, "case") ->
            LET neg == At(next(p), "-")
                q == IF neg THEN next(next(p)) ELSE next(p)
            IN IF Kind(q) # "num" THEN Node(fail(q), None)
               ELSE case_label(next(q), IF neg THEN -Head(q.tk).v ELSE Head(q.tk).v, "case")
      [] At(p, "default") -> case_label(next(p), 0, "default")
      [] At(p, "break") -> Node(expect(next(p), ";"), new_node("break", "int", <<>>))
      [] At(p, "continue") -> Node(expect(next(p), ";"), new_node("continue", "int", <<>>))
      [] At(p, "{") -> block(next(p), <<>>)
      [] OTHER -> expr_stmt(p)

Parse(what, p) == CASE what = "assign" -> assign_body(p)
                    [] what = "unary" -> unary_body(p)
                    [] what = "stmt" -> stmt_body(p)

(* function_rest and global_decl; cc_parse takes them in turn.             *)
RECURSIVE params(_), cc_parse(_, _)
params(p) ==
    LET d == declspec(p)
        q == [next(d.p) EXCEPT !.locals = Append(@, <<Head(d.p.tk).t, d.ty>>)]
    IN IF At(p, ")") THEN p ELSE IF At(q, ",") THEN params(next(q)) ELSE q
function_rest(p, name) ==
    LET q == params(expect([p EXCEPT !.locals = <<>>], "("))
        b == stmt(expect(q, ")"))
    IN [p |-> b.p, fn |-> [name |-> name, nparams |-> Len(q.locals), locals |-> b.p.locals,
                           body |-> b.n]]
global_decl(p, name, ty) ==
    LET q == IF At(p, "=") THEN next(next(p)) ELSE p
        v == IF At(p, "=") THEN Head(next(p).tk).v ELSE 0
    IN [expect(q, ";") EXCEPT !.globals = Append(@, <<name, ty, v>>)]
cc_parse(p, funcs) ==
    LET d == declspec(p)
        name == Head(d.p.tk).t
        q == next(d.p)
        r == function_rest(q, name)
    IN IF p.tk = <<>> \/ p.failed THEN [p |-> p, funcs |-> funcs]
       ELSE IF At(q, "(") THEN cc_parse(r.p, Append(funcs, r.fn))
       ELSE cc_parse(global_decl(q, name, d.ty), funcs)

Parsed(toks) == cc_parse([tk |-> toks, locals |-> <<>>, globals |-> <<>>, switches |-> <<>>,
                          ncase |-> 0, failed |-> FALSE], <<>>)

-----------------------------------------------------------------------------
(* The code generator: g is the emit buffer with labels and fixups.  A     *)
(* value is left in x0; a branch is emitted with target 0 and patched.     *)

emit(g, i) == [g EXCEPT !.code = Append(@, i)]
branch(g, op, l) ==
    [emit(g, <<op, 0, 0>>) EXCEPT
        !.bfx = IF Len(@) < MAXBFX THEN Append(@, [site |-> Len(g.code) + 1, lab |-> l]) ELSE @]
newlabels(g, n) == IF g.nlab + n > MAXLAB THEN [g EXCEPT !.failed = TRUE] ELSE [g EXCEPT !.nlab = @ + n]
place(g, l) == [g EXCEPT !.lab = (l :> Len(g.code) + 1) @@ @]
resolve_branches(g) ==
    [g EXCEPT !.code = FoldLeft(LAMBDA c, b : [c EXCEPT ![b.site][2] = g.lab[b.lab]], g.code, g.bfx),
              !.bfx = <<>>]

load(g, ty) == CASE ty = "int[2]" -> g
                 [] ty = "char" -> emit(g, <<"ldrb", 0, 0>>)
                 [] OTHER -> emit(g, <<"ldr", 0, 0>>)

(* codegen.c's forward declarations, as for the parser.                    *)
RECURSIVE Gen(_, _, _)
gen_expr(g, n) == Gen("expr", g, n)
gen_stmt(g, n) == Gen("stmt", g, n)

RECURSIVE gen_addr(_, _)

gen_addr(g, n) ==
    CASE n.k = "var" -> IF n.id \in DOMAIN g.off THEN emit(g, <<"frame", 0, g.off[n.id]>>)
                        ELSE emit(g, <<"imm", 0, g.gaddr[n.id]>>)
      [] n.k = "deref" -> gen_expr(g, n.kids[1])
      [] n.k = "member" -> IF n.v = 0 THEN gen_addr(g, n.kids[1])
                           ELSE emit(gen_addr(g, n.kids[1]), <<"addi", 0, n.v>>)
      [] OTHER -> [g EXCEPT !.failed = TRUE]

gen_binary(g, n) ==
    LET r == emit(gen_expr(g, n.kids[2]), <<"push", 0, 0>>)
        l == emit(gen_expr(r, n.kids[1]), <<"pop", 1, 0>>)
    IN emit(l, <<n.k, 0, 0>>)

gen_call(g, n) ==
    LET pushed == FoldLeft(LAMBDA h, a : emit(gen_expr(h, a), <<"push", 0, 0>>), g, n.kids)
        popped == FoldLeft(LAMBDA h, i : emit(h, <<"pop", Len(n.kids) - i, 0>>), pushed,
                           [i \in 1 .. Len(n.kids) |-> i])
    IN IF n.id \in g.funcs
       THEN [emit(popped, <<"call", 0, 0>>) EXCEPT !.cfx = Append(@, <<Len(popped.code) + 1, n.id>>)]
       ELSE [g EXCEPT !.failed = TRUE]

(* && and ||: the right operand is only reached when it decides.           *)
gen_logic(g, n, op, short) ==
    LET l == g.nlab
        a == branch(gen_expr(newlabels(g, 2), n.kids[1]), op, l)
        b == branch(gen_expr(a, n.kids[2]), op, l)
        c == branch(emit(b, <<"imm", 0, 1 - short>>), "b", l + 1)
    IN place(emit(place(c, l), <<"imm", 0, short>>), l + 1)

gen_expr_body(g, n) ==
    IF g.failed THEN g
    ELSE CASE n.k = "num" -> emit(g, <<"imm", 0, n.v>>)
           [] n.k \in {"var", "member"} -> load(gen_addr(g, n), n.ty)
           [] n.k = "assign" ->
                LET a == emit(gen_addr(g, n.kids[1]), <<"push", 0, 0>>)
                    v == emit(gen_expr(a, n.kids[2]), <<"pop", 1, 0>>)
                IN emit(v, <<IF n.kids[1].ty = "char" THEN "strb" ELSE "str", 0, 0>>)
           [] n.k = "deref" -> load(gen_expr(g, n.kids[1]), n.ty)
           [] n.k = "addr" -> gen_addr(g, n.kids[1])
           [] n.k \in {"neg", "not"} -> emit(gen_expr(g, n.kids[1]), <<n.k, 0, 0>>)
           [] n.k = "&&" -> gen_logic(g, n, "cbz", 0)
           [] n.k = "||" -> gen_logic(g, n, "cbnz", 1)
           [] n.k = "call" -> gen_call(g, n)
           [] n.k = "none" -> g
           [] OTHER -> gen_binary(g, n)

(* Every turn of a loop asks cc_tick and leaves when the budget is spent.   *)
emit_budget_check(g, l) == branch(emit(g, <<"tick", 0, 0>>), "cbz", l)

Enter(g, brk, cont) == [g EXCEPT !.brk = <<brk>> \o @, !.cont = IF cont = -1 THEN @ ELSE <<cont>> \o @]
Leave(g, loop) == [g EXCEPT !.brk = Tail(@), !.cont = IF loop THEN Tail(@) ELSE @]

gen_while(g, n) ==
    LET l == g.nlab
        c == branch(gen_expr(place(newlabels(g, 2), l), n.kids[1]), "cbz", l + 1)
        b == Leave(gen_stmt(Enter(c, l + 1, l), n.kids[2]), TRUE)
    IN place(branch(emit_budget_check(b, l + 1), "b", l), l + 1)

gen_for(g, n) ==
    LET l == g.nlab
        i == place(gen_expr(newlabels(g, 3), n.kids[1]), l)
        c == IF n.kids[2].k = "none" THEN i ELSE branch(gen_expr(i, n.kids[2]), "cbz", l + 2)
        b == Leave(gen_stmt(Enter(c, l + 2, l + 1), n.kids[4]), TRUE)
        e == gen_expr(place(b, l + 1), n.kids[3])
    IN place(branch(emit_budget_check(e, l + 2), "b", l), l + 2)

gen_switch(g, n) ==
    LET l == g.nlab
        cases == n.kids[3].kids
        uid(c) == c.kids[1].v
        g1 == gen_expr(newlabels(g, 1), n.kids[1])
        test(h, c) ==
            LET h1 == [newlabels(h, 1) EXCEPT !.clabel = (uid(c) :> h.nlab) @@ @] IN
            IF c.ty = "default" THEN h1 ELSE branch(emit(h1, <<"cmpi", 1, c.v>>), "beq", h.nlab)
        g2 == FoldLeft(test, g1, cases)
        def == {i \in DOMAIN cases : cases[i].ty = "default"}
        g3 == branch(g2, "b", IF def = {} THEN l
                              ELSE g2.clabel[uid(cases[CHOOSE i \in def : \A j \in def : j <= i])])
    IN place(Leave(gen_stmt(Enter(g3, l, -1), n.kids[2]), FALSE), l)

gen_stmt_body(g, n) ==
    IF g.failed THEN g
    ELSE CASE n.k = "return" -> branch(gen_expr(g, n.kids[1]), "b", 0)
           [] n.k = "if" ->
                LET l == g.nlab
                    c == branch(gen_expr(newlabels(g, 2), n.kids[1]), "cbz", l)
                    t == place(branch(gen_stmt(c, n.kids[2]), "b", l + 1), l)
                IN place(gen_stmt(t, n.kids[3]), l + 1)
           [] n.k = "while" -> gen_while(g, n)
           [] n.k = "for" -> gen_for(g, n)
           [] n.k = "switch" -> gen_switch(g, n)
           [] n.k = "case" -> gen_stmt(place(g, g.clabel[n.v]), n.kids[1])
           [] n.k = "break" -> IF g.brk = <<>> THEN [g EXCEPT !.failed = TRUE] ELSE branch(g, "b", Head(g.brk))
           [] n.k = "continue" -> IF g.cont = <<>> THEN [g EXCEPT !.failed = TRUE]
                                  ELSE branch(g, "b", Head(g.cont))
           [] n.k = "block" -> FoldLeft(gen_stmt, g, n.kids)
           [] OTHER -> gen_expr(g, n)

Gen(what, g, n) == IF what = "expr" THEN gen_expr_body(g, n) ELSE gen_stmt_body(g, n)

(* Frame slots, newest local first, each end rounded up to 8 bytes.        *)
Offsets(locals) ==
    FoldLeft(LAMBDA f, v : LET o == AlignUp(f.top + SizeOf(v[2]), 8)
                           IN [top |-> o, off |-> (v[1] :> o) @@ f.off],
             [top |-> 0, off |-> <<>>], Reverse(locals))

gen_func(g, fn) ==
    LET fr == Offsets(fn.locals)
        g0 == [g EXCEPT !.entry = (fn.name :> Len(g.code) + 1) @@ @, !.off = fr.off, !.nlab = 1,
                        !.lab = <<>>, !.brk = <<>>, !.cont = <<>>]
        g1 == emit(g0, <<"enter", 0, AlignUp(fr.top, 16)>>)
        spill(h, i) == emit(h, <<IF fn.locals[i][2] = "char" THEN "spillb" ELSE "spill", i - 1,
                                 fr.off[fn.locals[i][1]]>>)
        g2 == FoldLeft(spill, g1, [i \in 1 .. fn.nparams |-> i])
        g3 == place(emit(gen_stmt(g2, fn.body), <<"imm", 0, 0>>), 0)
    IN resolve_branches(emit(g3, <<"leave", 0, 0>>))

Globals(ds) == [i \in {ds[j][1] : j \in DOMAIN ds} |->
                   GADDR + 8 * (CHOOSE j \in DOMAIN ds : ds[j][1] = i)]

(* Every function in turn, then the calls are patched with the entries.    *)
cc_codegen(parsed) ==
    LET ds == parsed.p.globals
        g == FoldLeft(gen_func,
                      [code |-> <<>>, lab |-> <<>>, bfx |-> <<>>, nlab |-> 0, brk |-> <<>>,
                       cont |-> <<>>, clabel |-> <<>>, cfx |-> <<>>, entry |-> <<>>, off |-> <<>>,
                       gaddr |-> Globals(ds),
                       data |-> [a \in {GADDR + 8 * j : j \in DOMAIN ds} |-> ds[(a - GADDR) \div 8][3]],
                       funcs |-> {parsed.funcs[i].name : i \in DOMAIN parsed.funcs},
                       failed |-> parsed.p.failed], parsed.funcs)
    IN [g EXCEPT !.code = FoldLeft(LAMBDA c, x : [c EXCEPT ![x[1]][3] = g.entry[x[2]]], @, g.cfx),
                 !.failed = @ \/ "main" \notin g.funcs]

Compile(toks) == cc_codegen(Parsed(toks))

-----------------------------------------------------------------------------
(***************************************************************************)
(* The reference: what C says of the programs the compiler is checked on.  *)
(* A source tree, its tokens with no more parentheses than the grammar     *)
(* needs, and the value main returns, by evaluating the tree.  Operands    *)
(* are taken right to left, which C leaves open; integers stay far from 64 *)
(* bits.                                                                   *)
(***************************************************************************)
P(s) == <<[k |-> "punct", t |-> s, v |-> 0]>>
N(n) == <<[k |-> "num", t |-> "", v |-> n]>>
I(s) == <<[k |-> "ident", t |-> s, v |-> 0]>>

LevelOf(op) == CASE op \in {"*", "/", "%"} -> 2 [] op \in {"+", "-"} -> 3
                 [] op \in {"<", "<=", ">", ">="} -> 4 [] op \in {"==", "!="} -> 5
                 [] op = "&&" -> 6 [] OTHER -> 7
Prec(e) == CASE e[1] = "bin" -> LevelOf(e[2]) [] e[1] = "assign" -> 8
             [] e[1] \in {"neg", "not", "ref"} -> 1 [] OTHER -> 0

RECURSIVE U(_, _), S(_)

Bare(e) ==
    CASE e[1] = "num" -> N(e[2]) [] e[1] = "var" -> I(e[2])
      [] e[1] = "bin" -> U(e[3], LevelOf(e[2])) \o P(e[2]) \o U(e[4], LevelOf(e[2]) - 1)
      [] e[1] = "neg" -> P("-") \o U(e[2], 1) [] e[1] = "not" -> P("!") \o U(e[2], 1)
      [] e[1] = "ref" -> P("*") \o P("&") \o I(e[2])
      [] e[1] = "assign" -> U(e[2], 0) \o P("=") \o U(e[3], 8)
      [] e[1] = "index" -> I("v") \o P("[") \o U(e[2], 8) \o P("]")
      [] e[1] = "member" -> I("s") \o P(".") \o I(e[2])
      [] e[1] = "sizeof" -> P("sizeof") \o P("(") \o P(e[2]) \o P(")")
      [] e[1] = "call" -> I("f") \o P("(") \o U(e[2], 8) \o P(",") \o U(e[3], 8) \o P(")")
U(e, most) == IF Prec(e) > most THEN P("(") \o Bare(e) \o P(")") ELSE Bare(e)

S(st) ==
    CASE st[1] = "expr" -> U(st[2], 8) \o P(";")
      [] st[1] = "return" -> P("return") \o U(st[2], 8) \o P(";")
      [] st[1] = "if" -> P("if") \o P("(") \o U(st[2], 8) \o P(")") \o S(st[3])
                         \o (IF st[4][1] = "none" THEN <<>> ELSE P("else") \o S(st[4]))
      [] st[1] = "while" -> P("while") \o P("(") \o U(st[2], 8) \o P(")") \o S(st[3])
      [] st[1] = "for" -> P("for") \o P("(") \o U(st[2], 8) \o P(";") \o U(st[3], 8) \o P(";")
                          \o U(st[4], 8) \o P(")") \o S(st[5])
      [] st[1] = "switch" -> P("switch") \o P("(") \o U(st[2], 8) \o P(")") \o S(st[3])
      [] st[1] = "case" -> P("case") \o N(st[2]) \o P(":") \o S(st[3])
      [] st[1] = "default" -> P("default") \o P(":") \o S(st[3])
      [] st[1] = "block" -> P("{") \o FlattenSeq([i \in DOMAIN st[2] |-> S(st[2][i])]) \o P("}")
      [] OTHER -> P(st[1]) \o P(";")

-----------------------------------------------------------------------------
(* Evaluation, over [name -> [index -> value]].  In C the value of an       *)
(* assignment is what its left side then holds; with env["wide"] it is the *)
(* value before it was narrowed to a char, which is what gen_store leaves  *)
(* in x0.                                                                  *)

RECURSIVE Do(_, _)
E(e, env) == Do("eval", <<e, env>>)
Run(st, env, fuel) == Do("run", <<st, env, fuel>>)

Truth(b) == IF b THEN 1 ELSE 0
Quot(a, b) == LET Abs(x) == IF x < 0 THEN -x ELSE x
              IN IF b = 0 THEN 0 ELSE IF (a < 0) = (b < 0) THEN Abs(a) \div Abs(b)
                 ELSE -(Abs(a) \div Abs(b))
Apply(op, a, b) ==
    CASE op = "+" -> a + b [] op = "-" -> a - b [] op = "*" -> a * b [] op = "/" -> Quot(a, b)
      [] op = "%" -> a - Quot(a, b) * b [] op = "<" -> Truth(a < b) [] op = "<=" -> Truth(a <= b)
      [] op = ">" -> Truth(a > b) [] op = ">=" -> Truth(a >= b) [] op = "==" -> Truth(a = b)
      [] op = "!=" -> Truth(a # b)
V(v, env) == [v |-> v, env |-> env]
Byte(x, i, v) == IF x = "c" \/ (x = "s" /\ i = 0) THEN v % 256 ELSE v
Cell(lv, env) == CASE lv[1] = "var" -> <<lv[2], 0>>
                   [] lv[1] = "index" -> <<"v", E(lv[2], env).v>>
                   [] lv[1] = "member" -> <<"s", IF lv[2] = "c" THEN 0 ELSE 1>>
                   [] lv[1] = "ref" -> <<lv[2], 0>>

(* f(n, k) is  if (n < 1) return k; return f(n - 1, k + n) + g;            *)
RECURSIVE Fn(_, _, _)
Fn(n, k, g) == IF n < 1 THEN k ELSE Fn(n - 1, k + n, g) + g

Eval(e, env) ==
    CASE e[1] = "num" -> V(e[2], env)
      [] e[1] = "sizeof" -> V(IF e[2] = "char" THEN 1 ELSE 8, env)
      [] e[1] \in {"var", "index", "member", "ref"} -> LET c == Cell(e, env) IN V(env[c[1]][c[2]], env)
      [] e[1] = "neg" -> LET r == E(e[2], env) IN V(-r.v, r.env)
      [] e[1] = "not" -> LET r == E(e[2], env) IN V(Truth(r.v = 0), r.env)
      [] e[1] = "assign" -> LET c == Cell(e[2], env)
                                r == E(e[3], env)
                                b == Byte(c[1], c[2], r.v)
                            IN V(IF env["wide"][0] = 1 THEN r.v ELSE b, [r.env EXCEPT ![c[1]][c[2]] = b])
      [] e[1] = "call" -> LET a == E(e[2], env)
                              b == E(e[3], a.env)
                          IN V(Fn(a.v, b.v, b.env["g"][0]), b.env)
      [] e[2] = "&&" -> LET l == E(e[3], env)
                            r == E(e[4], l.env)
                        IN IF l.v = 0 THEN V(0, l.env) ELSE V(Truth(r.v # 0), r.env)
      [] e[2] = "||" -> LET l == E(e[3], env)
                            r == E(e[4], l.env)
                        IN IF l.v # 0 THEN V(1, l.env) ELSE V(Truth(r.v # 0), r.env)
      [] OTHER -> LET r == E(e[4], env)
                      l == E(e[3], r.env)
                  IN V(Apply(e[2], l.v, r.v), l.env)

O(k, env, v, fuel) == [k |-> k, env |-> env, v |-> v, fuel |-> fuel]
RECURSIVE RunAll(_, _, _), Loop(_, _, _, _, _)
RunAll(sts, env, fuel) ==
    IF sts = <<>> THEN O("next", env, 0, fuel)
    ELSE LET r == Run(Head(sts), env, fuel)
         IN IF r.k = "next" THEN RunAll(Tail(sts), r.env, r.fuel) ELSE r
Loop(c, inc, body, env, fuel) ==
    LET t == E(c, env)
        b == Run(body, t.env, fuel)
    IN IF fuel = 0 THEN O("out", env, 0, 0)
       ELSE IF t.v = 0 THEN O("next", t.env, 0, fuel)
       ELSE IF b.k \in {"next", "continue"} THEN Loop(c, inc, body, E(inc, b.env).env, b.fuel - 1)
       ELSE IF b.k = "break" THEN O("next", b.env, 0, b.fuel) ELSE b
Exec(st, env, fuel) ==
    CASE fuel < 0 -> O("out", env, 0, 0)
      [] st[1] = "expr" -> O("next", E(st[2], env).env, 0, fuel)
      [] st[1] = "return" -> LET r == E(st[2], env) IN O("return", r.env, r.v, fuel)
      [] st[1] = "if" -> LET c == E(st[2], env) IN
            IF c.v # 0 THEN Run(st[3], c.env, fuel)
            ELSE IF st[4][1] = "none" THEN O("next", c.env, 0, fuel) ELSE Run(st[4], c.env, fuel)
      [] st[1] = "while" -> Loop(st[2], <<"num", 0>>, st[3], env, fuel)
      [] st[1] = "for" -> Loop(st[3], st[4], st[5], E(st[2], env).env, fuel)
      [] st[1] = "switch" ->
            LET c == E(st[2], env)
                sts == st[3][2]
                hit == {i \in DOMAIN sts : sts[i][1] = "case" /\ sts[i][2] = c.v}
                def == {i \in DOMAIN sts : sts[i][1] = "default"}
                at == IF hit # {} THEN CHOOSE i \in hit : TRUE
                      ELSE IF def # {} THEN CHOOSE i \in def : TRUE ELSE Len(sts) + 1
                r == RunAll(SubSeq(sts, at, Len(sts)), c.env, fuel)
            IN IF r.k = "break" THEN O("next", r.env, 0, r.fuel) ELSE r
      [] st[1] \in {"case", "default"} -> Run(st[3], env, fuel)
      [] st[1] = "block" -> RunAll(st[2], env, fuel)
      [] OTHER -> O(st[1], env, 0, fuel)
Do(what, a) == IF what = "eval" THEN Eval(a[1], a[2]) ELSE Exec(a[1], a[2], a[3])

-----------------------------------------------------------------------------
(* The programs: a fixed frame around one of the bodies below.             *)

n(v) == <<"num", v>>
x(name) == <<"var", name>>
bin(op, l, r) == <<"bin", op, l, r>>
set(lv, e) == <<"expr", <<"assign", lv, e>>>>
inc(name) == <<"assign", x(name), bin("+", x(name), n(1))>>
v(i) == <<"index", i>>
none == <<"none">>
blk(sts) == <<"block", sts>>

(* Every pair of operators, grouped either way, and what else stands in an  *)
(* expression.                                                             *)
Ops == <<"*", "/", "%", "+", "-", "<", "<=", ">", ">=", "==", "!=", "&&", "||">>
Pairs(F(_, _), A, B) == [k \in 1 .. Len(A) * Len(B) |-> F(A[((k - 1) \div Len(B)) + 1], B[((k - 1) % Len(B)) + 1])]
LeftOf(p, q) == bin(p, bin(q, x("a"), n(2)), x("b"))
RightOf(p, q) == bin(p, x("a"), bin(q, n(2), x("b")))
Exprs == Pairs(LeftOf, Ops, Ops) \o Pairs(RightOf, Ops, Ops)
         \o <<<<"neg", bin("%", <<"neg", x("a")>>, n(2))>>, <<"not", bin("<", x("a"), x("c"))>>,
              bin("-", v(n(1)), v(bin("-", x("b"), n(1)))), bin("*", <<"member", "c">>, <<"member", "v">>),
              bin("+", <<"sizeof", "char">>, <<"sizeof", "int">>), <<"ref", "a">>,
              <<"call", n(2), <<"call", n(1), x("a")>>>>, bin("+", <<"call", n(2), n(1)>>, x("b")),
              bin("&&", n(0), <<"assign", x("b"), n(9)>>), bin("||", n(1), <<"assign", x("b"), n(9)>>),
              bin("+", x("a"), <<"assign", x("a"), n(3)>>)>>

(* Expressions that take the value of an assignment to a char, which fits   *)
(* in a char or does not.                                                  *)
Chains == <<<<"assign", x("a"), <<"assign", x("c"), n(200)>>>>,
            <<"assign", x("a"), <<"assign", x("c"), n(300)>>>>,
            bin("+", <<"assign", <<"member", "c">>, n(511)>>, x("a")),
            <<"assign", x("c"), <<"assign", x("a"), n(300)>>>>>>

Stores == <<set(x("c"), bin("*", x("a"), n(100))), set(v(n(1)), x("a")), set(v(n(0)), v(n(1))),
            set(<<"member", "c">>, <<"neg", n(1)>>), set(<<"member", "v">>, n(8)), set(x("g"), n(5))>>

Exits == <<<<"break">>, <<"continue">>, <<"return", x("a")>>, set(x("b"), bin("+", x("b"), n(2)))>>
Guarded(ex) == <<"if", bin("==", bin("%", x("a"), n(2)), n(0)), ex, none>>
For(body) == <<"for", <<"assign", x("a"), n(0)>>, bin("<", x("a"), n(3)), inc("a"), body>>
While(body) == <<"while", bin("<", x("a"), n(9)), blk(<<<<"expr", inc("a")>>, body>>)>>
Switch(e, one, two) == <<"switch", e, blk(<<<<"case", 0, one>>, <<"case", 1, two>>,
                                           <<"default", 0, set(x("c"), n(1))>>, set(v(n(0)), n(9))>>)>>

ForExit(ex) == For(blk(<<Guarded(ex), set(x("c"), bin("+", x("c"), n(1)))>>))
WhileExit(ex) == While(blk(<<Guarded(ex), set(x("c"), bin("+", x("c"), n(1)))>>))
ForSwitch(ex, ey) == For(Switch(x("a"), ex, ey))
Loops == [i \in DOMAIN Exits |-> ForExit(Exits[i])] \o [i \in DOMAIN Exits |-> WhileExit(Exits[i])]
         \o Pairs(ForSwitch, Exits, Exits)
         \o <<For(For(Guarded(<<"break">>))), While(For(Guarded(<<"continue">>))),
              <<"for", n(0), n(1), n(0), <<"continue">>>>, <<"while", n(1), blk(<<>>)>>,
              <<"if", x("a"), blk(<<<<"if", n(0), set(x("b"), n(2)), none>>>>), set(x("b"), n(3))>>,
              <<"if", x("a"), <<"if", n(0), set(x("b"), n(2)), set(x("b"), n(4))>>, none>>>>

Chained(kind) == IF kind = "spins" THEN {} ELSE Len(Exprs) + 1 .. Len(Exprs) + Len(Chains)

(* A while loop whose body jumps back past its budget check.               *)
Spins == <<<<"while", n(1), <<"continue">>>>>>

SetB(e) == set(x("b"), e)
Bodies(kind) == IF kind = "spins" THEN Spins
                ELSE [i \in DOMAIN (Exprs \o Chains) |-> SetB((Exprs \o Chains)[i])] \o Stores \o Loops
Hash == bin("+", bin("+", bin("+", x("a"), bin("*", x("b"), n(31))), bin("+", bin("*", x("c"), n(7)),
        bin("*", v(n(0)), n(101)))), bin("+", bin("+", bin("*", v(n(1)), n(211)),
        bin("*", <<"member", "c">>, n(13))), bin("+", bin("*", <<"member", "v">>, n(17)), x("g"))))
Main(body) == <<set(v(n(0)), n(3)), set(v(n(1)), n(4)), set(<<"member", "c">>, n(1)),
                set(<<"member", "v">>, n(2)), body, <<"return", Hash>>>>

Tokens(body) ==
    P("int") \o I("g") \o P("=") \o N(2) \o P(";")
    \o P("int") \o I("f") \o P("(") \o P("int") \o I("n") \o P(",") \o P("int") \o I("k") \o P(")")
    \o S(blk(<<<<"if", bin("<", x("n"), n(1)), <<"return", x("k")>>, none>>,
               <<"return", bin("+", <<"call", bin("-", x("n"), n(1)), bin("+", x("k"), x("n"))>>, x("g"))>>>>))
    \o P("int") \o I("main") \o P("(") \o P(")") \o P("{")
    \o P("int") \o I("a") \o P("=") \o N(7) \o P(",") \o I("b") \o P("=") \o N(1) \o P(";")
    \o P("char") \o I("c") \o P("=") \o N(5) \o P(";")
    \o P("int") \o I("v") \o P("[") \o N(2) \o P("]") \o P(";")
    \o P("struct") \o I("pair") \o I("s") \o P(";")
    \o FlattenSeq([i \in DOMAIN Main(body) |-> S(Main(body)[i])]) \o P("}")

Env0(wide) == [name \in {"a", "b", "c", "v", "s", "g", "wide"} |->
                  [i \in 0 .. 1 |-> CASE name = "a" -> 7 [] name = "b" -> 1 [] name = "c" -> 5
                                      [] name = "g" -> 2 [] name = "wide" -> wide [] OTHER -> 0]]
Value(body, wide) ==
    LET r == RunAll(Main(body), Env0(wide), FUEL) IN IF r.k = "out" THEN Diverges ELSE r.v

Programs(kind) == LET bs == Bodies(kind) IN [i \in DOMAIN bs |-> Tokens(bs[i])]
Values(kind)   == LET bs == Bodies(kind) IN [i \in DOMAIN bs |-> Value(bs[i], 0)]
Unnarrowed(kind) == LET bs == Bodies(kind) IN [i \in DOMAIN bs |-> Value(bs[i], 1)]
=============================================================================
