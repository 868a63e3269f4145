-------------------------------- MODULE Sql --------------------------------
(***************************************************************************)
(* sql/lexer.rs, sql/parser.rs and sql/ast.rs: from the characters of a      *)
(* text to its statements.                                                  *)
(*                                                                          *)
(* The lexer works on a sequence of characters.  The parser works on tokens *)
(* whose text is one word; the tokens that are left stand for the cursor,   *)
(* none left is the token Eof.  A function of the parser that only takes    *)
(* tokens in a fixed order is a production, a sequence of items that Items  *)
(* carries out from left to right; the functions that decide on the tokens  *)
(* ahead are operators.  Sub calls either by its name, so that they can be  *)
(* mutually recursive, and d is the value of the depth counter.             *)
(*                                                                          *)
(* A syntax tree is a node with a name, its words (names, literals, flags)  *)
(* and its subtrees; a vector or an option is a node "list".                *)
(***************************************************************************)
EXTENDS Encodings

CONSTANTS MaxNesting   \* MAX_DEPTH
ASSUME SqlAssumption == MaxNesting \in Nat \ {0}

Token(k, s) == [k |-> k, s |-> s]
------------------------------------------------------------------------------
(* The lexer.                                                                *)
Lower == ("a" :> "a") @@ ("e" :> "e") @@ ("x" :> "x") @@ ("A" :> "a") @@ ("E" :> "e") @@ ("_" :> "_")
NumChars == {"0", "1", "9"}
is_ident_start(c) == c \in DOMAIN Lower
CharAt(src, i) == IF i <= Len(src) THEN src[i] ELSE ""
\* The first position from i on whose character is not in the set.
Span(src, i, chars) ==
    CHOOSE j \in i .. Len(src) + 1 : (\A k \in i .. j - 1 : src[k] \in chars) /\ CharAt(src, j) \notin chars

\* The position after the number that starts at i; an e without digits behind it is not
\* part of the number.
scan_number(src, i) ==
    LET whole == Span(src, i, NumChars)
        frac == IF CharAt(src, whole) = "." THEN Span(src, whole + 1, NumChars) ELSE whole
        from == IF CharAt(src, frac + 1) \in {"+", "-"} THEN frac + 2 ELSE frac + 1
    IN IF CharAt(src, frac) \in {"e", "E"} /\ Span(src, from, NumChars) > from THEN Span(src, from, NumChars) ELSE frac

\* Reads on from position i; the rest of the result is the position after the closing quote.
RECURSIVE scan_quoted(_, _, _, _)
scan_quoted(src, i, quote, text) ==
    CASE i > Len(src) -> Fail
      [] CharAt(src, i) = quote /\ CharAt(src, i + 1) = quote -> scan_quoted(src, i + 2, quote, Append(text, quote))
      [] CharAt(src, i) = quote /\ CharAt(src, i + 1) # quote -> Ok(text, i + 1)
      [] OTHER -> scan_quoted(src, i + 1, quote, Append(text, src[i]))

TwoCharOps == {<<"<", ">">>, <<"<", "=">>, <<">", "=">>, <<"!", "=">>, <<"|", "|">>, <<":", ":">>}
OneCharOps == {"=", "<", ">", "+", "-", "*", "/", "%", "(", ")", "[", "]", ",", ".", ";"}
\* Both spellings of NotEq are one token.
OpToken(o) == IF o = <<"!", "=">> THEN <<"<", ">">> ELSE o
scan_operator(src, i) ==
    LET two == <<src[i], CharAt(src, i + 1)>> IN
    CASE two \in TwoCharOps -> Ok(OpToken(two), i + 2)
      [] two \notin TwoCharOps /\ src[i] \in OneCharOps -> Ok(<<src[i]>>, i + 1)
      [] OTHER -> Fail

\* Where the block comment that opens at i ends, 0 when it does not.
CommentEnd(src, i) ==
    LET ends == {j \in i + 2 .. Len(src) - 1 : src[j] = "*" /\ src[j + 1] = "/"} IN
    IF ends = {} THEN 0 ELSE 2 + CHOOSE j \in ends : \A k \in ends : j <= k
LineEnd(src, i) == LET ends == {j \in i .. Len(src) : src[j] = "\n"} IN
    IF ends = {} THEN Len(src) + 1 ELSE CHOOSE j \in ends : \A k \in ends : j <= k

RECURSIVE TokenizeFrom(_, _, _)
tokenize(src) == TokenizeFrom(src, 1, <<>>)
TokenizeFrom(src, i, toks) ==
    LET c == CharAt(src, i)
        next == CharAt(src, i + 1)
        Emit(k, r) == IF r.ok THEN TokenizeFrom(src, r.rest, Append(toks, Token(k, r.v))) ELSE Fail
    IN  CASE i > Len(src) -> Ok(toks, <<>>)
          [] c \in {" ", "\t", "\n", "\r"} -> TokenizeFrom(src, i + 1, toks)
          [] c = "-" /\ next = "-" -> TokenizeFrom(src, LineEnd(src, i), toks)
          [] c = "/" /\ next = "*" -> IF CommentEnd(src, i) = 0 THEN Fail ELSE TokenizeFrom(src, CommentEnd(src, i), toks)
          [] c = "\"" -> Emit("quoted", scan_quoted(src, i + 1, c, <<>>))
          [] c = "'" -> Emit("string", scan_quoted(src, i + 1, c, <<>>))
          [] c \in NumChars \/ (c = "." /\ next \in NumChars) ->
               Emit("number", Ok(SubSeq(src, i, scan_number(src, i) - 1), scan_number(src, i)))
          [] is_ident_start(c) ->
               LET end == Span(src, i, DOMAIN Lower \cup NumChars)
               IN Emit("ident", Ok([k \in 1 .. end - i |-> IF is_ident_start(src[i + k - 1]) THEN Lower[src[i + k - 1]] ELSE src[i + k - 1]], end))
          [] OTHER -> Emit("op", scan_operator(src, i))
------------------------------------------------------------------------------
(* The cursor.                                                               *)
W(word) == Token("ident", word)
O(sign) == Token("op", sign)
Eof == Token("eof", "")
nth(rest, n) == IF n < Len(rest) THEN rest[n + 1] ELSE Eof
At(rest, tok) == nth(rest, 0) = tok
enter_depth(d) == d < MaxNesting

Sx(e, s, args) == [e |-> e, s |-> s, args |-> args]
L(items) == Sx("list", <<>>, items)
\* A result that is still being put together: a word or a subtree more.
Parse0(e, rest) == Ok(Sx(e, <<>>, <<>>), rest)
Word(r, s, rest) == Ok([r.v EXCEPT !.s = Append(@, s)], rest)
Arg(r, x) == IF x.ok THEN Ok([r.v EXCEPT !.args = Append(@, x.v)], x.rest) ELSE Fail

(* Items of a production.                                                    *)
Item(i, toks, nt, seq) == [i |-> i, toks |-> toks, nt |-> nt, seq |-> seq]
Kw(word) == Item("expect", {W(word)}, "", <<>>)
Op(sign) == Item("expect", {O(sign)}, "", <<>>)
Eat(word) == Item("eat", {W(word)}, "", <<>>)
Flag(word) == Item("flag", {W(word)}, "", <<>>)
OneOf(words) == Item("one_of", {W(w) : w \in words}, "", <<>>)
Kind(kinds) == Item("kind", kinds, "", <<>>)
Ident == Kind({"ident", "quoted"})
StrLit == Kind({"string"})
\* expect_int: a number without a point or an exponent that fits i64.
IntWords == {"0", "1", "2"}
IntLit == Item("int", {}, "", <<>>)
Nt(name) == Item("nt", {}, name, <<>>)
List(name) == Item("list", {}, name, <<>>)
Maybe(tok, seq) == Item("opt", {tok}, "", seq)
Rep(words, name) == Item("rep", {W(w) : w \in words}, name, <<>>)
Alias(stop) == Item("alias", {W(w) : w \in stop}, "", <<>>)

RECURSIVE Sub(_, _, _)
RECURSIVE Items(_, _, _)
RECURSIVE CommaList(_, _, _)
RECURSIVE While(_, _, _, _)
RECURSIVE ReadItem(_, _, _, _, _)
RECURSIVE AfterItem(_, _, _)
Items(items, r, d) ==
    IF items = <<>> \/ ~r.ok THEN r
    ELSE Items(Tail(items), ReadItem(Head(items), nth(r.rest, 0), nth(r.rest, 0) \in Head(items).toks, r, d), d)
\* The next item of a production; tok is the next token and hit says that the item wants it.
ReadItem(it, tok, hit, r, d) ==
    CASE it.i = "expect" -> IF hit THEN Ok(r.v, Tail(r.rest)) ELSE Fail
      [] it.i = "eat" -> IF hit THEN Ok(r.v, Tail(r.rest)) ELSE r
      [] it.i = "flag" -> Word(r, IF hit THEN tok.s ELSE "", IF hit THEN Tail(r.rest) ELSE r.rest)
      [] it.i = "one_of" -> IF hit THEN Word(r, tok.s, Tail(r.rest)) ELSE Fail
      [] it.i = "kind" -> IF tok.k \in it.toks THEN Word(r, tok.s, Tail(r.rest)) ELSE Fail
      [] it.i = "int" -> IF tok.k = "number" /\ tok.s \in IntWords THEN Word(r, tok.s, Tail(r.rest)) ELSE Fail
      [] it.i = "nt" -> Arg(r, Sub(it.nt, r.rest, d))
      [] it.i = "list" -> Arg(r, CommaList(it.nt, Parse0("list", r.rest), d))
      [] it.i = "opt" -> IF hit THEN Arg(r, Items(it.seq, Parse0("list", Tail(r.rest)), d)) ELSE Arg(r, Parse0("list", r.rest))
      [] it.i = "rep" -> Arg(r, While(it.toks, it.nt, Parse0("list", r.rest), d))
      [] it.i = "alias" ->   \* optional_alias
           CASE tok = W("as") -> Arg(r, Items(<<Ident>>, Parse0("list", Tail(r.rest)), d))
             [] tok # W("as") /\ tok.k \in {"ident", "quoted"} /\ tok \notin it.toks ->
                  Arg(r, Word(Parse0("list", <<>>), tok.s, Tail(r.rest)))
             [] OTHER -> Arg(r, Parse0("list", r.rest))
AfterItem(nt, x, d) == IF x.ok /\ At(x.rest, O(",")) THEN CommaList(nt, Ok(x.v, Tail(x.rest)), d) ELSE x
CommaList(nt, r, d) == AfterItem(nt, Arg(r, Sub(nt, r.rest, d)), d)
While(toks, nt, r, d) ==
    IF r.ok /\ nth(r.rest, 0) \in toks THEN While(toks, nt, Arg(r, Sub(nt, r.rest, d)), d) ELSE r
------------------------------------------------------------------------------
(* Statements, table by table of the grammar.                                *)
TABLE_ALIAS_STOP == {"where", "group", "having", "order", "limit", "offset", "union", "join", "inner", "left", "right", "full", "cross",
    "natural", "using", "on"}
SELECT_ALIAS_STOP == {"from", "where", "group", "having", "order", "limit", "offset", "union", "into"}

eat_if_not_exists == Maybe(W("if"), <<Kw("not"), Kw("exists")>>)
optional_ident_list_in_parens == Maybe(O("("), <<List("ident"), Op(")")>>)
InParens(item) == <<Op("("), item, Op(")")>>
create_table == <<Kw("create"), Kw("table"), eat_if_not_exists, Nt("object_name")>> \o InParens(List("column_def"))
                \o <<Rep({"engine", "key", "version", "order", "partition", "ttl", "with"}, "table_clause")>>
column_def == <<Ident, Nt("type_name"), Nt("nullable")>>
create_schema == <<Kw("create"), Kw("schema"), eat_if_not_exists, Ident>>
drop_table == <<Kw("drop"), Kw("table"), Maybe(W("if"), <<Kw("exists")>>), Nt("object_name")>>
undrop_table == <<Kw("undrop"), Kw("table"), Nt("object_name")>>
truncate == <<Kw("truncate"), Eat("table"), Nt("object_name")>>
insert == <<Kw("insert"), Kw("into"), Nt("object_name"), optional_ident_list_in_parens, Nt("insert_source")>>
copy_stmt == <<Kw("copy"), Nt("object_name"), optional_ident_list_in_parens, Kw("from"), StrLit, Nt("copy_options")>>
delete == <<Kw("delete"), Kw("from"), Nt("object_name"), Maybe(W("where"), <<Nt("expr")>>)>>
cte == <<Ident, Kw("as")>> \o InParens(Nt("query"))
query == <<Maybe(W("with"), <<List("cte")>>), Nt("set_expr"), Maybe(W("order"), <<Kw("by"), List("order_item")>>),
           Maybe(W("limit"), <<Nt("limit")>>), Maybe(W("offset"), <<IntLit>>)>>
set_expr == <<Nt("select_body"), Rep({"union"}, "union_all")>>
select == <<Kw("select"), Flag("distinct"), List("select_item"), Maybe(W("from"), <<List("table_expr")>>),
            Maybe(W("where"), <<Nt("expr")>>), Maybe(W("group"), <<Kw("by"), List("expr")>>), Maybe(W("having"), <<Nt("expr")>>)>>
table_expr == <<Nt("table_ref"), Rep({"inner", "join", "left", "cross", "right", "full", "natural"}, "join")>>
order_item == <<Nt("expr"), Nt("direction"), Maybe(W("nulls"), <<OneOf({"first", "last"})>>)>>
object_name == <<Ident, Maybe(O("."), <<Ident>>)>>
parse_cast == <<Kw("cast"), Op("("), Nt("expr"), Kw("as"), Nt("type_name"), Op(")")>>
parse_extract == <<Kw("extract"), Op("("), Ident, Kw("from"), Nt("expr"), Op(")")>>
parse_case == <<Kw("case"), Nt("operand"), Nt("branch"), Rep({"when"}, "branch"), Maybe(W("else"), <<Nt("expr")>>), Kw("end")>>
parse_func_call == <<Ident, Op("("), Flag("distinct"), Nt("arguments"), Op(")"),
                     Maybe(W("filter"), <<Op("("), Kw("where"), Nt("expr"), Op(")")>>)>>
Productions == [create_table |-> create_table, column_def |-> column_def, create_schema |-> create_schema, drop_table |-> drop_table,
    undrop_table |-> undrop_table, truncate |-> truncate, insert |-> insert, copy_stmt |-> copy_stmt, delete |-> delete, cte |-> cte,
    set_expr |-> set_expr, table_expr |-> table_expr, order_item |-> order_item, object_name |-> object_name,
    parse_cast |-> parse_cast, parse_extract |-> parse_extract, parse_case |-> parse_case, parse_func_call |-> parse_func_call,
    ident |-> <<Ident>>, row |-> InParens(List("expr")), union_all |-> <<Kw("union"), Kw("all"), Nt("select_body")>>,
    branch |-> <<Kw("when"), Nt("expr"), Kw("then"), Nt("expr")>>, pair |-> <<Ident, Op("="), Nt("literal")>>, int |-> <<IntLit>>]
Make(nt, items, rest, d) == Items(items, Parse0(nt, rest), d)

type_name(rest, d) ==
    IF nth(rest, 0).k \in {"ident", "quoted"} /\ nth(rest, 0).s = "list" /\ nth(rest, 1) = O("<")
    THEN Make("list_of", <<Ident, Op("<"), Nt("type_name"), Op(">")>>, rest, d)
    ELSE Make("type", <<Ident, Maybe(O("("), <<List("int"), Op(")")>>), Nt("array_dims")>>, rest, d)
RECURSIVE array_dims(_)
array_dims(r) == IF At(r.rest, O("[")) THEN array_dims(Items(<<Op("["), Op("]")>>, Word(r, "[]", r.rest), 0)) ELSE r
Temporal == {"date", "timestamp", "interval"}
Literals == {"true", "false", "null"}
Tag(e, tok, rest) == Ok(Sx(e, <<tok.s>>, <<>>), rest)
literal(rest, d) ==
    LET tok == nth(rest, 0) IN
    CASE tok.k = "ident" /\ tok.s \in Literals -> Tag("literal", tok, Tail(rest))
      [] tok.k = "ident" /\ tok.s \in Temporal -> Make(tok.s, <<Kw(tok.s), StrLit>>, rest, d)
      [] tok.k \in {"number", "string"} -> Tag(tok.k, tok, Tail(rest))
      [] OTHER -> Fail
order_by(rest) == <<Kw("order"), Kw("by")>> \o (IF nth(rest, 2) = O("(") THEN InParens(List("ident")) ELSE <<List("ident")>>)
table_clause(rest, d) ==
    LET w == Head(rest).s IN
    Make(w, CASE w = "engine" -> <<Kw(w), Op("="), Ident>>
              [] w = "key" -> <<Kw(w)>> \o InParens(List("ident"))
              [] w = "version" -> <<Kw(w)>> \o InParens(Ident)
              [] w = "order" -> order_by(rest)
              [] w = "partition" -> <<Kw(w), Kw("by"), Ident>> \o InParens(StrLit)
              [] w = "ttl" -> <<Kw(w), Ident, Op("+"), Kw("interval"), StrLit>>
              [] w = "with" -> <<Kw(w)>> \o InParens(List("pair")), rest, d)
nullable(rest, d) ==
    CASE At(rest, W("not")) -> Make("not_null", <<Kw("not"), Kw("null")>>, rest, d)
      [] At(rest, W("null")) -> Make("null", <<Kw("null")>>, rest, d)
      [] OTHER -> Parse0("unstated", rest)
insert_source(rest, d) ==
    IF At(rest, W("values")) THEN Make("values", <<Kw("values"), List("row")>>, rest, d) ELSE Sub("query", rest, d)
try_copy_option(rest, d) ==
    CASE At(rest, W("format")) -> Make("format", <<Kw("format"), Ident>>, rest, d)
      [] At(rest, W("header")) -> Make("header", IF nth(rest, 1) \in {W("true"), W("false")} THEN <<Kw("header"), OneOf({"true", "false"})>>
                                                 ELSE <<Kw("header")>>, rest, d)
      [] At(rest, W("delimiter")) -> Make("delimiter", <<Kw("delimiter"), StrLit>>, rest, d)
      [] OTHER -> Fail
copy_options(rest, d) ==
    Make("options", IF At(rest, O("(")) THEN InParens(List("copy_option"))
                    ELSE <<Eat("with"), Rep({"format", "header", "delimiter"}, "copy_option")>>, rest, d)
limit(rest, d) == IF At(rest, W("all")) THEN Make("all", <<Kw("all")>>, rest, d) ELSE Make("count", <<IntLit>>, rest, d)
direction(rest) ==
    CASE At(rest, W("desc")) -> Parse0("desc", Tail(rest))
      [] At(rest, W("asc")) -> Parse0("asc", Tail(rest))
      [] OTHER -> Parse0("asc", rest)
select_body(rest, d) ==
    IF At(rest, O("(")) THEN Make("nested", InParens(Nt("query")), rest, d) ELSE Make("select", select, rest, d)
select_item(rest, d) ==
    CASE At(rest, O("*")) -> Parse0("wildcard", Tail(rest))
      [] nth(rest, 0).k \in {"ident", "quoted"} /\ nth(rest, 1) = O(".") /\ nth(rest, 2) = O("*") ->
           Make("qualified_wildcard", <<Ident, Op("."), Op("*")>>, rest, d)
      [] OTHER -> Make("item", <<Nt("expr"), Alias(SELECT_ALIAS_STOP)>>, rest, d)
join(rest, d) ==
    LET Joined(kind, lead) == Make(kind, lead \o <<Nt("table_ref"), Kw("on"), Nt("expr")>>, rest, d) IN
    CASE At(rest, W("inner")) -> Joined("inner", <<Kw("inner"), Kw("join")>>)
      [] At(rest, W("join")) -> Joined("inner", <<Kw("join")>>)
      [] At(rest, W("left")) -> Joined("left", <<Kw("left"), Eat("outer"), Kw("join")>>)
      [] OTHER -> Fail
table_ref(rest, d) ==
    IF At(rest, O("(")) THEN Make("derived", InParens(Nt("query")) \o <<Eat("as"), Ident>>, rest, d)
    ELSE Make("table", <<Nt("object_name"), Alias(TABLE_ALIAS_STOP)>>, rest, d)
statement(rest, d) ==
    CASE At(rest, W("create")) -> IF nth(rest, 1) = W("table") THEN Sub("create_table", rest, d)
                                  ELSE IF nth(rest, 1) = W("schema") THEN Sub("create_schema", rest, d) ELSE Fail
      [] At(rest, W("drop")) -> Sub("drop_table", rest, d)
      [] At(rest, W("undrop")) -> Sub("undrop_table", rest, d)
      [] At(rest, W("truncate")) -> Sub("truncate", rest, d)
      [] At(rest, W("insert")) -> Sub("insert", rest, d)
      [] At(rest, W("copy")) -> Sub("copy_stmt", rest, d)
      [] At(rest, W("delete")) -> Sub("delete", rest, d)
      [] nth(rest, 0) \in {W("with"), W("select"), O("(")} -> Sub("query", rest, d)
      [] OTHER -> Fail
RECURSIVE StatementsFrom(_)
RECURSIVE AfterStatement(_)
StatementsFrom(r) == AfterStatement(Arg(r, Sub("statement", r.rest, 0)))
AfterStatement(x) ==
    CASE ~x.ok \/ x.rest = <<>> -> x
      [] x.ok /\ At(x.rest, O(";")) -> IF Tail(x.rest) = <<>> THEN Ok(x.v, <<>>) ELSE StatementsFrom(Ok(x.v, Tail(x.rest)))
      [] OTHER -> Fail
parse_statements(toks) == IF toks = <<>> THEN Parse0("list", toks) ELSE StatementsFrom(Parse0("list", toks))
------------------------------------------------------------------------------
(* Expressions, from the loosest operators to the tightest.                  *)
\* left, the operator behind it, and right.
Binary(left, right) == As(right, Sx("binary", <<Head(left.rest).s>>, <<left.v, right.v>>))
RECURSIVE Chain(_, _, _, _)
\* The operators of one level group to the left.
Chain(left, nt, ops, d) ==
    IF left.ok /\ nth(left.rest, 0) \in ops THEN Chain(Binary(left, Sub(nt, Tail(left.rest), d)), nt, ops, d) ELSE left
Level(nt, ops, rest, d) == Chain(Sub(nt, rest, d), nt, ops, d)
parse_or(rest, d) == Level("parse_and", {W("or")}, rest, d)
parse_and(rest, d) == Level("parse_not", {W("and")}, rest, d)
\* || no looser than + and -.
parse_concat_flat(rest, d) == Level("parse_multiplicative", {O("||"), O("+"), O("-")}, rest, d)
parse_concat(rest, d) == Level("parse_additive", {O("||")}, rest, d)
parse_additive(rest, d) == Level("parse_multiplicative", {O("+"), O("-")}, rest, d)
parse_multiplicative(rest, d) == Level("parse_unary", {O("*"), O("/"), O("%")}, rest, d)
\* The rest of a form whose first operand x has been read.
Upon(e, x, items, d) == Items(items, Ok(Sx(e, <<>>, <<x.v>>), x.rest), d)
parse_not(rest, d) ==
    IF ~At(rest, W("not")) THEN Sub("parse_is", rest, d)
    ELSE IF enter_depth(d) THEN Make("not", <<Kw("not"), Nt("parse_not")>>, rest, d + 1) ELSE Fail
IsForm(x, d) == IF x.ok /\ At(x.rest, W("is")) THEN Upon("is", x, <<Kw("is"), Flag("not"), OneOf(Literals)>>, d) ELSE x
parse_is(rest, d) == IsForm(Sub("parse_comparison", rest, d), d)
Comparisons == {"=", "<>", "<", "<=", ">", ">="}
Compared(left, d) ==
    IF left.ok /\ nth(left.rest, 0) \in {O(o) : o \in Comparisons}
    THEN Binary(left, Sub("parse_between_in_like", Tail(left.rest), d)) ELSE left
parse_comparison(rest, d) == Compared(Sub("parse_between_in_like", rest, d), d)
RangeForm(x, d) ==
    LET negated == At(x.rest, W("not")) /\ nth(x.rest, 1) \in {W("between"), W("in"), W("like"), W("ilike")}
        form == nth(x.rest, IF negated THEN 1 ELSE 0)
    IN  CASE x.ok /\ form = W("between") ->
               Upon("between", x, <<Flag("not"), Kw("between"), Nt("parse_concat"), Kw("and"), Nt("parse_concat")>>, d)
          [] x.ok /\ form = W("in") -> Upon("in", x, <<Flag("not"), Kw("in")>> \o InParens(List("expr")), d)
          [] x.ok /\ form \in {W("like"), W("ilike")} -> Upon("like", x, <<Flag("not"), OneOf({"like", "ilike"}), Nt("parse_concat")>>, d)
          [] OTHER -> x
parse_between_in_like(rest, d) == RangeForm(Sub("parse_concat", rest, d), d)
SignedExpr(sign, x) == As(x, Sx("unary", <<sign>>, <<x.v>>))
parse_unary(rest, d) ==
    IF nth(rest, 0) \notin {O("-"), O("+")} THEN Sub("parse_cast_postfix", rest, d)
    ELSE IF enter_depth(d) THEN SignedExpr(Head(rest).s, Sub("parse_unary", Tail(rest), d + 1)) ELSE Fail
RECURSIVE CastChain(_, _)
CastChain(x, d) == IF x.ok /\ At(x.rest, O("::")) THEN CastChain(Upon("cast_postfix", x, <<Op("::"), Nt("type_name")>>, d), d) ELSE x
parse_cast_postfix(rest, d) == CastChain(Sub("primary", rest, d), d)
RECURSIVE parse_column_ref(_)
RECURSIVE AfterPart(_)
\* r has the parts read so far.
parse_column_ref(r) == AfterPart(Items(<<Ident>>, r, 0))
AfterPart(x) ==
    IF x.ok /\ At(x.rest, O(".")) /\ nth(x.rest, 1) # O("*") THEN parse_column_ref(Ok(x.v, Tail(x.rest))) ELSE x
Parenthesised(x) == IF x.ok /\ At(x.rest, O(")")) THEN Ok(x.v, Tail(x.rest)) ELSE Fail
primary(rest, d) ==
    LET tok == nth(rest, 0) IN
    CASE tok.k \in {"number", "string"} -> Tag(tok.k, tok, Tail(rest))
      [] tok = O("*") -> Parse0("wildcard", Tail(rest))
      [] tok = O("(") -> IF nth(rest, 1) \in {W("select"), W("with")} THEN Make("subquery", InParens(Nt("query")), rest, d)
                         ELSE Parenthesised(Sub("expr", Tail(rest), d))
      [] tok.k = "quoted" -> parse_column_ref(Parse0("column", rest))
      [] tok.k = "ident" ->
           CASE tok.s \in Literals -> Tag("literal", tok, Tail(rest))
             [] tok.s \in Temporal /\ nth(rest, 1).k = "string" -> literal(rest, d)
             [] tok.s \in {"cast", "extract", "case"} ->
                  Sub(CASE tok.s = "cast" -> "parse_cast" [] tok.s = "extract" -> "parse_extract" [] OTHER -> "parse_case", rest, d)
             [] OTHER -> IF nth(rest, 1) = O("(") THEN Sub("parse_func_call", rest, d) ELSE parse_column_ref(Parse0("column", rest))
      [] OTHER -> Fail
\* The arguments of a call: '*' alone, nothing, or a list.
arguments(rest, d) ==
    CASE At(rest, O("*")) -> Ok(L(<<Sx("wildcard", <<>>, <<>>)>>), Tail(rest))
      [] At(rest, O(")")) -> Parse0("list", rest)
      [] OTHER -> CommaList("expr", Parse0("list", rest), d)
operand(rest, d) == IF At(rest, W("when")) THEN Parse0("list", rest) ELSE Make("list", <<Nt("expr")>>, rest, d)

Sub(nt, rest, d) ==
    CASE nt \in DOMAIN Productions -> Make(nt, Productions[nt], rest, d)
      [] nt = "expr" -> IF enter_depth(d) THEN parse_or(rest, d + 1) ELSE Fail
      [] nt = "query" -> IF enter_depth(d) THEN Make("query", query, rest, d + 1) ELSE Fail
      [] nt = "select_body" -> IF enter_depth(d) THEN select_body(rest, d + 1) ELSE Fail
      [] nt = "parse_and" -> parse_and(rest, d)
      [] nt = "parse_not" -> parse_not(rest, d)
      [] nt = "parse_is" -> parse_is(rest, d)
      [] nt = "parse_comparison" -> parse_comparison(rest, d)
      [] nt = "parse_between_in_like" -> parse_between_in_like(rest, d)
      [] nt = "parse_concat" -> parse_concat(rest, d)
      [] nt = "parse_additive" -> parse_additive(rest, d)
      [] nt = "parse_multiplicative" -> parse_multiplicative(rest, d)
      [] nt = "parse_unary" -> parse_unary(rest, d)
      [] nt = "parse_cast_postfix" -> parse_cast_postfix(rest, d)
      [] nt = "primary" -> primary(rest, d)
      [] nt = "arguments" -> arguments(rest, d)
      [] nt = "operand" -> operand(rest, d)
      [] nt = "type_name" -> type_name(rest, d)
      [] nt = "array_dims" -> array_dims(Parse0("list", rest))
      [] nt = "literal" -> literal(rest, d)
      [] nt = "statement" -> statement(rest, d)
      [] nt = "table_clause" -> table_clause(rest, d)
      [] nt = "nullable" -> nullable(rest, d)
      [] nt = "insert_source" -> insert_source(rest, d)
      [] nt = "copy_option" -> try_copy_option(rest, d)
      [] nt = "copy_options" -> copy_options(rest, d)
      [] nt = "limit" -> limit(rest, d)
      [] nt = "direction" -> direction(rest)
      [] nt = "select_item" -> select_item(rest, d)
      [] nt = "join" -> join(rest, d)
      [] nt = "table_ref" -> table_ref(rest, d)
=============================================================================
