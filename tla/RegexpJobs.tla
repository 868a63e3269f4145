----------------------------- MODULE RegexpJobs -----------------------------
(***************************************************************************)
(* Checks of the regular expressions: every short pattern over the          *)
(* operators, repetitions of every kind of atom, and character classes.     *)
(***************************************************************************)
EXTENDS Regexp, Jobs

CONSTANTS MaxPattern   \* length of the patterns that are enumerated

Operators == SeqOf({"a", "b", ".", "|", "*", "(", ")", "$"}, MaxPattern)
Atoms == {<<"a">>, <<"(", "a", "|", "b", ")">>, <<"(", "?", ":", "a", "*", ")">>, <<"(", ")">>, <<"(", "(", "a", ")", ")">>, <<"(", "?">>}
Repeats == {<<"+">>, <<"?">>, <<"*", "?">>, <<"{", "0", "}">>, <<"{", "2", "}">>, <<"{", "1", ",", "2", "}">>, <<"{", "1", ",", "}">>,
            <<"{", "0", ",", "1", "}">>, <<"{", "2", ",", "1", "}">>, <<"{", "9", "}">>, <<"{", "}">>, <<"{", "1">>, <<"{", "2", "}", "+">>}
Repetitions == {l \o a \o r \o t : l \in {<<>>, <<"^">>, <<"b">>}, a \in Atoms, r \in Repeats, t \in {<<>>, <<"$">>, <<"b", "+">>}}
Classes == {<<"[">> \o body \o <<"]">> : body \in SeqOf({"a", "c", "-", "^", "]", "\\", "d"}, 4)} \cup {<<"\\", "d">>, <<"\\", "a">>, <<"[">>}
RegexpInit ==
    /\ pc = "start" /\ out = <<>>
    /\ \E p \in Operators \cup Repetitions \cup Classes : job = [kind |-> "regexp", pattern |-> p]
RegexpCompile == Is("regexp", "start") /\ \E ast \in {parse(job.pattern)} : Run("regexp", [ast |-> ast, re |-> compile(ast)])
RegexpNext == RegexpCompile
------------------------------------------------------------------------------
\* Where a match of the tree that starts after position i can end.
RECURSIVE Ends(_, _, _)
RECURSIVE EndsAfter(_, _, _, _)
\* At least m and at most n more copies, from any of the positions; n < 0 is no limit.
EndsAfter(ast, s, from, bound) ==
    LET next == UNION {Ends(ast, s, i) : i \in from} IN
    IF bound[1] > 0 THEN EndsAfter(ast, s, next, <<bound[1] - 1, bound[2] - 1>>)
    ELSE IF bound[2] = 0 \/ next \subseteq from THEN from
    ELSE EndsAfter(ast, s, from \cup next, <<0, bound[2] - 1>>)
Ends(ast, s, i) ==
    CASE ast.op = "empty" -> {i}
      [] ast.op = "start" -> IF i = 0 THEN {i} ELSE {}
      [] ast.op = "end" -> IF i = Len(s) THEN {i} ELSE {}
      [] ast.op \in {"char", "any", "class"} ->
           IF i < Len(s) /\ (ast.op = "any" \/ (ast.op = "char" /\ s[i + 1] = ast.c)
                               \/ (ast.op = "class" /\ class_match(ast.items, ast.negate, s[i + 1])))
           THEN {i + 1} ELSE {}
      [] ast.op = "concat" -> FoldLeft(LAMBDA from, part : UNION {Ends(part, s, j) : j \in from}, {i}, ast.args)
      [] ast.op = "alt" -> UNION {Ends(ast.args[k], s, i) : k \in DOMAIN ast.args}
      [] ast.op = "star" -> EndsAfter(ast.args[1], s, {i}, <<0, -1>>)
      [] ast.op = "plus" -> EndsAfter(ast.args[1], s, {i}, <<1, -1>>)
      [] ast.op = "question" -> EndsAfter(ast.args[1], s, {i}, <<0, 1>>)
      [] ast.op = "repeat" -> EndsAfter(ast.args[1], s, {i}, <<ast.m, IF ast.n = None THEN -1 ELSE ast.n[1]>>)
Subjects == {<<>>, <<"a">>, <<"b">>, <<"a", "b">>, <<"b", "a">>, <<"a", "a", "b">>, <<"c", "-">>, <<"]", "1">>, <<"b", "a", "a", "a">>}
(* Regex::compile and is_match: the NFA with its search loop finds a match exactly when  *)
(* some part of the string matches the pattern, empty loops, anchors inside loops and    *)
(* repetition bounds included.                                                           *)
RegexpSearch ==
    Done("regexp") /\ out.re # None =>
        \A s \in Subjects : regex_is_match(out.re[1], s) <=> \E i \in 0 .. Len(s) : Ends(out.ast.v, s, i) # {}
(* program_size is computed before anything is compiled: no pattern that passes its      *)
(* limit compiles to a longer program.                                                   *)
RegexpBounded == Done("regexp") /\ out.re # None => Len(out.re[1].prog) <= MaxProgram + 3
\* The pattern a tree was written as, with a group around every part.
RECURSIVE Written(_)
Digit1(n) == CASE n = 0 -> "0" [] n = 1 -> "1" [] n = 2 -> "2"
Group(p) == <<"(", "?", ":">> \o p \o <<")">>
Esc(c) == IF c \in WordChars \cup {" ", ",", ":"} THEN <<c>> ELSE <<"\\", c>>
Written(ast) ==
    LET inner == Group(Written(ast.args[1]))
        item(it) == IF it.kind # "range" THEN <<"\\", it.kind>> ELSE Esc(it.lo) \o <<"-">> \o Esc(it.hi)
        sep(op) == FlattenSeq([k \in DOMAIN ast.args |-> (IF k > 1 THEN op ELSE <<>>) \o Group(Written(ast.args[k]))])
    IN CASE ast.op = "empty" -> <<>> [] ast.op = "start" -> <<"^">> [] ast.op = "end" -> <<"$">> [] ast.op = "any" -> <<".">>
         [] ast.op = "char" -> Esc(ast.c)
         [] ast.op = "class" -> <<"[">> \o (IF ast.negate THEN <<"^">> ELSE <<>>)
              \o FlattenSeq([k \in DOMAIN ast.items |-> item(ast.items[k])]) \o <<"]">>
         [] ast.op = "concat" -> sep(<<>>)
         [] ast.op = "alt" -> sep(<<"|">>)
         [] ast.op = "star" -> inner \o <<"*">> [] ast.op = "plus" -> inner \o <<"+">> [] ast.op = "question" -> inner \o <<"?">>
         [] ast.op = "repeat" -> inner \o <<"{", Digit1(ast.m), ",">> \o (IF ast.n = None THEN <<>> ELSE <<Digit1(ast.n[1])>>) \o <<"}">>
(* Parser: a tree written with a group around every part parses to itself; groups only   *)
(* group, and no operator binds across them.  Nesting alone makes a pattern too deep.    *)
RegexpParse ==
    Done("regexp") /\ out.ast.err = "" =>
        LET again == parse(Written(out.ast.v)) IN again.err = "depth" \/ (again.err = "" /\ again.v = out.ast.v)
(* The regular expressions as a whole (exec/expr/regexp.rs): what a pattern matches, what *)
(* it costs and which patterns are refused.                                              *)
RegexpRight == RegexpSearch /\ RegexpBounded /\ RegexpParse
=============================================================================
