------------------------------ MODULE SqlJobs ------------------------------
(***************************************************************************)
(* Checks of the lexer and the parser: texts written token by token, every  *)
(* small expression written with as few parentheses as the documented       *)
(* precedence allows, statements with every combination of their clauses,   *)
(* and nests of every opening form.                                         *)
(***************************************************************************)
EXTENDS Sql, Jobs

CONSTANTS MaxChain   \* length of the nests that are enumerated

(* Texts.                                                                    *)
Tok(k, s) == Token(k, s)
SomeTokens == {Tok("ident", s) : s \in {<<"a">>, <<"e">>, <<"_", "1">>}}
              \cup {Tok("quoted", s) : s \in {<<>>, <<"A">>, <<"\"">>, <<"a", "\"", "'">>}}
              \cup {Tok("string", s) : s \in {<<>>, <<"'">>, <<"-", "-">>, <<"'", "'", "a">>, <<"/", "*">>}}
              \cup {Tok("number", s) : s \in {<<"1">>, <<"1", ".">>, <<".", "1">>, <<"1", "e", "1">>, <<"1", ".", "1", "E", "-", "9">>}}
              \cup {Tok("op", s) : s \in {<<o>> : o \in OneCharOps} \cup (TwoCharOps \ {<<"!", "=">>})}
Quote(k) == IF k = "quoted" THEN "\"" ELSE "'"
Spelled(tok) ==
    IF tok.k \notin {"quoted", "string"} THEN tok.s
    ELSE LET q == Quote(tok.k)
         IN <<q>> \o FlattenSeq([i \in DOMAIN tok.s |-> IF tok.s[i] = q THEN <<q, q>> ELSE <<tok.s[i]>>]) \o <<q>>
Between == {<<" ">>, <<"\n">>, <<" ", "-", "-", "'", "\n">>, <<"/", "*", "\"", "*", "*", "/">>}
\* Two tokens may be written without anything between them when neither takes a
\* character of the other: next to a bracket, or a number and the name "e".
Touching(a, b) ==
    \/ \E t \in {a, b} : t.k = "op" /\ t.s[1] \in {"(", ")", ",", ";", "[", "]"}
    \/ a.k = "number" /\ b = Tok("ident", <<"e">>) /\ {"e", "E"} \cap Range(a.s) = {}
TextJobs == {[kind |-> "tokens", toks |-> <<a, b>>, src |-> Spelled(a) \o sep \o Spelled(b)] :
                a \in SomeTokens, b \in SomeTokens, sep \in Between}
            \cup {[kind |-> "tokens", toks |-> <<p[1], p[2]>>, src |-> Spelled(p[1]) \o Spelled(p[2])] :
                p \in {q \in SomeTokens \X SomeTokens : Touching(q[1], q[2])}}

(* Expressions with the level of their outermost operator, loosest first.    *)
Col(w) == Sx("column", <<w>>, <<>>)
Bin(o, l, r) == Sx("binary", <<o>>, <<l, r>>)
LevelOf(t) ==
    CASE t.e = "binary" -> (CASE t.s[1] = "or" -> 1 [] t.s[1] = "and" -> 2 [] t.s[1] \in Comparisons -> 5 [] t.s[1] = "||" -> 7
                              [] t.s[1] \in {"+", "-"} -> 8 [] OTHER -> 9)
      [] t.e = "not" -> 3 [] t.e = "is" -> 4 [] t.e \in {"between", "in", "like"} -> 6 [] t.e = "unary" -> 10
      [] t.e = "cast_postfix" -> 11 [] OTHER -> 12
NotWord(s) == IF s = "" THEN <<>> ELSE <<W("not")>>
RECURSIVE Shown(_, _)
Bare(t) ==
    CASE t.e = "column" -> <<W(t.s[1])>>
      [] t.e = "number" -> <<Token("number", t.s[1])>>
      [] t.e = "binary" -> LET n == LevelOf(t)
                           IN Shown(t.args[1], IF n = 5 THEN 6 ELSE n) \o <<IF n <= 2 THEN W(t.s[1]) ELSE O(t.s[1])>> \o Shown(t.args[2], n + 1)
      [] t.e = "not" -> <<W("not")>> \o Shown(t.args[1], 3)
      [] t.e = "is" -> Shown(t.args[1], 5) \o <<W("is")>> \o NotWord(t.s[1]) \o <<W(t.s[2])>>
      [] t.e = "between" -> Shown(t.args[1], 7) \o NotWord(t.s[1]) \o <<W("between")>> \o Shown(t.args[2], 7) \o <<W("and")>> \o Shown(t.args[3], 7)
      [] t.e = "in" -> Shown(t.args[1], 7) \o NotWord(t.s[1]) \o <<W("in"), O("(")>> \o Shown(t.args[2].args[1], 0) \o <<O(",")>>
                       \o Shown(t.args[2].args[2], 0) \o <<O(")")>>
      [] t.e = "like" -> Shown(t.args[1], 7) \o NotWord(t.s[1]) \o <<W(t.s[2])>> \o Shown(t.args[2], 7)
      [] t.e = "unary" -> <<O(t.s[1])>> \o Shown(t.args[1], 10)
      [] t.e = "cast_postfix" -> Shown(t.args[1], 11) \o <<O("::"), W(t.args[2].s[1])>>
      [] t.e = "parse_case" -> <<W("case"), W("when")>> \o Shown(t.args[2].args[1], 0) \o <<W("then")>> \o Shown(t.args[2].args[2], 0) \o <<W("end")>>
      [] t.e = "parse_func_call" -> <<W(t.s[1]), O("(")>> \o Shown(t.args[1].args[1], 0) \o <<O(")")>>
Shown(t, least) == IF LevelOf(t) >= least THEN Bare(t) ELSE <<O("(")>> \o Bare(t) \o <<O(")")>>
DateType == Sx("type", <<"date">>, <<L(<<>>), L(<<>>)>>)
\* Every form over the operands xs, and z where a form has more of them.
Forms(xs, z) ==
    {Bin(o, x, z) : o \in {"or", "and", "=", "<", "||", "+", "-", "*", "%"}, x \in xs}
    \cup {Bin(o, z, x) : o \in {"or", "and", "<>", "||", "-", "/"}, x \in xs}
    \cup UNION {{Sx("not", <<>>, <<x>>), Sx("is", <<"not", "null">>, <<x>>), Sx("is", <<"", "true">>, <<x>>),
                 Sx("between", <<"">>, <<x, z, z>>), Sx("between", <<"not">>, <<z, x, z>>), Sx("between", <<"">>, <<z, z, x>>),
                 Sx("in", <<"not">>, <<x, L(<<z, x>>)>>), Sx("like", <<"", "like">>, <<x, z>>), Sx("like", <<"not", "ilike">>, <<z, x>>),
                 Sx("unary", <<"-">>, <<x>>), Sx("cast_postfix", <<>>, <<x, DateType>>),
                 Sx("parse_case", <<>>, <<L(<<>>), Sx("branch", <<>>, <<x, z>>), L(<<>>), L(<<>>)>>),
                 Sx("parse_func_call", <<"f", "">>, <<L(<<x>>), L(<<>>)>>)} : x \in xs}
Exprs1 == {Col("a"), Sx("number", <<"1">>, <<>>)}
Exprs2 == Forms(Exprs1, Col("b"))
Exprs3 == Forms(Exprs2, Col("b"))
Exprs4 == Forms({x \in Exprs3 : LevelOf(x) \in 3 .. 6 /\ \A i \in DOMAIN x.args : LevelOf(x.args[i]) \in {1, 3, 4, 5, 6, 12}}, Col("c"))

(* Statements: the clauses that are present, in their order.                 *)
Phrase(words) == [i \in DOMAIN words |-> IF words[i] \in {"(", ")", ",", ";", "=", "*", ".", "+", "<", ">", "[", "]"} THEN O(words[i])
                    ELSE IF words[i] \in {"0", "1"} THEN Token("number", words[i])
                    ELSE IF words[i] \in {"'day'", "'x'"} THEN Token("string", words[i]) ELSE W(words[i])]
\* A statement is a sequence of clauses, each one of several texts; the text of a
\* clause goes with the number of subtrees (or 0) its node must then have.
Cl(words, n) == [words |-> words, n |-> n]
SelectClauses == <<{Cl(<<"select", "a">>, 1), Cl(<<"select", "a", "x", ",", "t", ".", "*">>, 2)},
                   {Cl(<<>>, 0), Cl(<<"from", "t">>, 1), Cl(<<"from", "t", "x", ",", "d", ".", "u", "as", "y">>, 1),
                    Cl(<<"from", "t", "left", "outer", "join", "u", "on", "a">>, 1), Cl(<<"from", "t", "inner", "join", "(", "select", "1", ")", "y", "on", "a">>, 1)},
                   {Cl(<<>>, 0), Cl(<<"where", "a">>, 1)}, {Cl(<<>>, 0), Cl(<<"group", "by", "a", ",", "b">>, 1)},
                   {Cl(<<>>, 0), Cl(<<"having", "a">>, 1)}>>
QueryClauses == <<{Cl(<<>>, 0), Cl(<<"with", "c", "as", "(", "select", "1", ")">>, 1)}, {Cl(<<>>, 0), Cl(<<"union", "all", "select", "b">>, 1)},
                  {Cl(<<>>, 0), Cl(<<"order", "by", "a", "desc", "nulls", "last">>, 1)}, {Cl(<<>>, 0), Cl(<<"limit", "all">>, 1), Cl(<<"limit", "1">>, 1)},
                  {Cl(<<>>, 0), Cl(<<"offset", "1">>, 1)}>>
Tied(clauses) == FlattenSeq([i \in DOMAIN clauses |-> clauses[i].words])
Picks(sets) == sets[1] \X sets[2] \X sets[3] \X sets[4] \X sets[5]
QueryTexts == {[kind |-> "query", select |-> s, outer |-> q] : s \in Picks(SelectClauses), q \in Picks(QueryClauses)}
QueryWords(j) == j.outer[1].words \o Tied(j.select) \o Tied(SubSeq(j.outer, 2, 5))
TableClauses == {<<"engine", "=", "append">>, <<"key", "(", "a", ",", "b", ")">>, <<"version", "(", "b", ")">>, <<"order", "by", "a", ",", "b">>,
                 <<"order", "by", "(", "a", ")">>, <<"partition", "by", "a", "(", "'day'", ")">>, <<"ttl", "a", "+", "interval", "'x'">>,
                 <<"with", "(", "a", "=", "1", ",", "b", "=", "date", "'x'", ")">>}
Lists3 == SeqOf(TableClauses, 2)
OtherStatements == {<<"create", "schema", "if", "not", "exists", "d">>, <<"drop", "table", "if", "exists", "d", ".", "t">>, <<"undrop", "table", "t">>,
           <<"truncate", "table", "t">>, <<"truncate", "d", ".", "t">>, <<"delete", "from", "t">>, <<"delete", "from", "t", "where", "a">>,
           <<"insert", "into", "t", "values", "(", "a", ",", "1", ")", ",", "(", "1", ",", "a", ")">>,
           <<"insert", "into", "t", "(", "a", ",", "b", ")", "select", "1">>, <<"copy", "t", "from", "'x'">>,
           <<"copy", "t", "(", "a", ")", "from", "'x'", "(", "format", "csv", ",", "header", ")">>,
           <<"copy", "t", "from", "'x'", "with", "header", "true", "delimiter", "'x'">>}
Ahead == <<"create", "table", "t", "(", "a", "list", "<", "decimal", "(", "1", ",", "0", ")", ">", "not", "null", ",", "b", "int", "[", "]", ")">>
StatementTexts == {<<Ahead \o FlattenSeq(cs)>> : cs \in Lists3} \cup SeqOf(OtherStatements, 2)
StatementWords(ss) == FlattenSeq([i \in DOMAIN ss |-> IF i = 1 THEN ss[i] ELSE <<";">> \o ss[i]])

(* Nests: the words that open and close one level and how often the depth    *)
(* guard is passed on the way in.                                            *)
\* A type of more levels than the guard allows: LIST< costs nothing.
DeepList == FlattenSeq([i \in 1 .. MaxNesting + 1 |-> <<W("list"), O("<")>>]) \o <<W("date")>> \o [i \in 1 .. MaxNesting + 1 |-> O(">")]
Nest(before, after, cost) == [before |-> before, after |-> after, cost |-> cost]
Nests == {Nest(<<O("(")>>, <<O(")")>>, 1), Nest(<<O("-")>>, <<>>, 1), Nest(<<W("f"), O("(")>>, <<O(")")>>, 1),
          Nest(<<W("a"), W("in"), O("(")>>, <<O(")")>>, 1), Nest(<<W("cast"), O("(")>>, <<W("as"), W("date"), O(")")>>, 1),
          Nest(<<W("cast"), O("(")>>, <<W("as")>> \o DeepList \o <<O(")")>>, 1),
          Nest(<<W("case"), W("when")>>, <<W("then"), W("a"), W("end")>>, 1),
          Nest(<<O("("), W("select")>>, <<O(")")>>, 3), Nest(<<O("("), W("not")>>, <<O(")")>>, 2),
          Nest(<<O("("), W("select"), W("a"), W("from"), O("("), W("select")>>, <<O(")"), W("x"), O(")")>>, 5)}
Chains == UNION {[1 .. n -> Nests] : n \in 1 .. MaxChain}
\* x IN (...) is no operand of a unary minus.
Fits(c) == \A i \in 1 .. Len(c) - 1 : c[i].cost = 1 /\ c[i].after = <<>> => c[i + 1].before[1] # W("a")
NestText(c) == FlattenSeq([i \in DOMAIN c |-> c[i].before]) \o <<W("a")>> \o FlattenSeq([i \in DOMAIN c |-> c[Len(c) + 1 - i].after])
Cost(c) == FoldLeft(LAMBDA n, x : n + x.cost, 1, c)

SqlInit ==
    /\ pc = "start" /\ out = <<>>
    /\ \/ job \in TextJobs \/ job \in QueryTexts
       \/ \E t \in Exprs2 \cup Exprs3 \cup Exprs4 : job = [kind |-> "expr", tree |-> t]
       \/ \E ss \in StatementTexts : job = [kind |-> "statements", texts |-> ss]
       \/ \E c \in Chains : Fits(c) /\ job = [kind |-> "nest", chain |-> c]
Lex == Run("tokens", tokenize(job.src))
ParseExpr == Run("expr", Sub("expr", Shown(job.tree, 0), 0))
ParseQuery == Run("query", parse_statements(Phrase(QueryWords(job))))
ParseStatements == Run("statements", parse_statements(Phrase(StatementWords(job.texts))))
ParseNest == Run("nest", Sub("expr", NestText(job.chain), 0))
SqlNext == Lex \/ ParseExpr \/ ParseQuery \/ ParseStatements \/ ParseNest
------------------------------------------------------------------------------
(* tokenize: a text written token by token, with blanks, comments or, where nothing can  *)
(* run together, nothing in between, comes back as those tokens: quotes inside quotes,   *)
(* comment signs inside strings, names after a number without an exponent.               *)
LexReads == Done("tokens") => out = Ok(job.toks, <<>>)
(* expr: an expression written with only the parentheses that the precedence table at     *)
(* the head of parser.rs asks for is parsed to the tree it was written from: every        *)
(* operator inside every other, negated forms, and the AND of BETWEEN.                    *)
PrecedenceKept == Done("expr") => out = Ok(job.tree, <<>>)
(* query: whichever clauses a query has, each one lands in its own field and none is      *)
(* taken for the alias of the item or table before it.                                    *)
ClausesApart ==
    Done("query") =>
        /\ out.ok /\ out.rest = <<>> /\ Len(out.v.args) = 1
        /\ LET q == out.v.args[1]
               sel == q.args[2].args[1]
           IN  /\ Len(q.args[1].args) = job.outer[1].n /\ Len(q.args[2].args[2].args) = job.outer[2].n
               /\ \A i \in 3 .. 5 : (Len(q.args[i].args) + Len(q.args[i].s) > 0) <=> job.outer[i].n > 0
               /\ sel.e = "select" /\ Len(sel.args[1].args) = job.select[1].n
               /\ \A i \in 2 .. 5 : Len(sel.args[i].args) = job.select[i].n
(* statements: a text of several statements parses to one tree per statement, of the      *)
(* kind of its first words, and nothing of a statement is taken by its neighbour.         *)
KindOf(words) == CASE words[1] = "create" -> (IF words[2] = "table" THEN "create_table" ELSE "create_schema")
                   [] words[1] = "drop" -> "drop_table" [] words[1] = "undrop" -> "undrop_table" [] words[1] = "copy" -> "copy_stmt" [] OTHER -> words[1]
StatementsApart ==
    Done("statements") =>
        /\ out.ok /\ Len(out.v.args) = Len(job.texts)
        /\ \A i \in DOMAIN job.texts :
             /\ out.v.args[i].e = KindOf(job.texts[i])
             /\ out.v.args[i] = parse_statements(Phrase(job.texts[i])).v.args[1]
(* enter_depth: a nest is accepted exactly when the guarded functions on its path are     *)
(* entered at most MAX_DEPTH times, whatever forms it mixes; a deeper one is an error.    *)
(* The levels of a LIST type are not among them: type_name (parser.rs:323-335) calls      *)
(* itself under LIST< without a guard, against the head of parser.rs, and a type of more  *)
(* levels than MAX_DEPTH is accepted wherever a type may stand.                           *)
NestingBounded == Done("nest") => (out.ok <=> Cost(job.chain) <= MaxNesting)
(* The lexer and the parser as a whole (sql/lexer.rs, sql/parser.rs): a text is read as   *)
(* the tree it was written from, and nesting is bounded, but for that of a LIST type.    *)
SqlReads == LexReads /\ PrecedenceKept /\ ClausesApart /\ StatementsApart /\ NestingBounded
=============================================================================
