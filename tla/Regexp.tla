------------------------------- MODULE Regexp -------------------------------
(***************************************************************************)
(* exec/expr/regexp.rs: the parser of a pattern, its compilation to a       *)
(* Thompson NFA and the thread-list search.  A character is a one-letter    *)
(* string.  A parser state p is [rest, depth]; a parse gives [err, v, p].   *)
(* The order of the thread list does not matter to a search that only asks  *)
(* whether there is a match, so that list is a set.                         *)
(***************************************************************************)
EXTENDS Columns

CONSTANTS
    MaxDepth,    \* MAX_DEPTH (128)
    MaxRepeat,   \* MAX_REPEAT (1000)
    MaxProgram   \* MAX_PROGRAM (100_000)

ASSUME RegexpAssumption == {MaxDepth, MaxRepeat, MaxProgram} \subseteq Nat \ {0}

\* The characters of the model in their order, and the ones a class shorthand takes.
CharOrder == <<" ", "$", "(", ")", "*", "+", ",", "-", ".", "0", "1", "2", "9", ":", "?", "D", "[", "\\", "]", "^", "_",
               "a", "b", "c", "d", "w", "{", "|", "}">>
Ord(c) == CHOOSE i \in DOMAIN CharOrder : CharOrder[i] = c
DigitChars == {"0", "1", "2", "9"}
WordChars == DigitChars \cup {"D", "_", "a", "b", "c", "d", "w"}
------------------------------------------------------------------------------
(* Syntax trees and character classes.                                       *)
Ast(op, args) == [op |-> op, c |-> "", items |-> <<>>, negate |-> FALSE, args |-> args, m |-> 0, n |-> None]
AChar(c) == [Ast("char", <<>>) EXCEPT !.c = c]
AClass(items, negate) == [Ast("class", <<>>) EXCEPT !.items = items, !.negate = negate]
ARepeat(inner, m, n) == [Ast("repeat", <<inner>>) EXCEPT !.m = m, !.n = n]
\* The only part stands for itself; no part at all is the empty pattern.
Join(op, parts) == IF Len(parts) = 1 THEN parts[1] ELSE IF parts = <<>> THEN Ast("empty", <<>>) ELSE Ast(op, parts)
ItemRange(lo, hi) == [kind |-> "range", lo |-> lo, hi |-> hi]
Shorthand(kind) == [kind |-> kind, lo |-> "", hi |-> ""]
item_match(it, c) ==
    CASE it.kind = "range" -> Ord(it.lo) <= Ord(c) /\ Ord(c) <= Ord(it.hi)
      [] it.kind = "d" -> c \in DigitChars
      [] it.kind = "D" -> c \notin DigitChars
      [] it.kind = "w" -> c \in WordChars
class_match(items, negate, c) == (\E i \in DOMAIN items : item_match(items[i], c)) # negate
------------------------------------------------------------------------------
(* The parser.                                                               *)
Parsed(v, p) == [err |-> "", v |-> v, p |-> p]
Refuse(why) == [err |-> why, v |-> Ast("empty", <<>>), p |-> [rest |-> <<>>, depth |-> 0]]
Peek(p) == IF p.rest = <<>> THEN "" ELSE Head(p.rest)
Peek2(p) == IF Len(p.rest) < 2 THEN "" ELSE p.rest[2]
Skip(p) == [p EXCEPT !.rest = Tail(@)]
reject_lazy(r) == IF r.err = "" /\ Peek(r.p) = "?" THEN Refuse("lazy") ELSE r
parse_number(p) ==
    LET ends == {i \in 0 .. Len(p.rest) : \A j \in 1 .. i : p.rest[j] \in DigitChars}
        n == Max(ends)
        digit(c) == CASE c = "0" -> 0 [] c = "1" -> 1 [] c = "2" -> 2 [] c = "9" -> 9
    IN IF n = 0 THEN Refuse("number")
       ELSE Parsed(DigitsValue([i \in 1 .. n |-> digit(p.rest[i])]), [p EXCEPT !.rest = SubSeq(@, n + 1, Len(@))])
\* The bound of a repetition after its lower end m: m} or m,} or m,n}.
SomeNumber(r) == IF r.err = "" THEN Parsed(Some(r.v), r.p) ELSE r
UpperBound(m) ==
    IF Peek(m.p) # "," THEN Parsed(Some(m.v), m.p)
    ELSE IF Peek2(m.p) = "}" THEN Parsed(None, Skip(m.p)) ELSE SomeNumber(parse_number(Skip(m.p)))
Bounded(atom, m, n) ==
    IF n.err # "" THEN n
    ELSE IF Peek(n.p) # "}" THEN Refuse("unterminated bound")
    ELSE IF m > MaxRepeat \/ (n.v # None /\ n.v[1] > MaxRepeat) THEN Refuse("bound exceeds")
    ELSE IF n.v # None /\ n.v[1] < m THEN Refuse("n < m")
    ELSE reject_lazy(Parsed(ARepeat(atom, m, n.v), Skip(n.p)))
BoundFrom(atom, m) == IF m.err # "" THEN m ELSE Bounded(atom, m.v, UpperBound(m))
parse_bound(atom, p) == BoundFrom(atom, parse_number(p))
\* An escape is a character or a shorthand class.
escape_char(p) ==
    CASE p.rest = <<>> -> Refuse("trailing escape")
      [] Peek(p) \in {"d", "D", "w"} -> Parsed(AClass(<<Shorthand(Peek(p))>>, FALSE), Skip(p))
      [] Peek(p) \in {".", "\\", "(", ")", "[", "]", "{", "}", "|", "*", "+", "?", "^", "$", "-"} ->
            Parsed(AChar(Peek(p)), Skip(p))
      [] OTHER -> Refuse("unsupported escape")
parse_class_char(p) ==
    CASE Peek(p) = "" -> Refuse("unterminated class")
      [] Peek(p) = "\\" -> escape_char(Skip(p))
      [] Peek(p) = "[" -> Refuse("nested class")
      [] OTHER -> Parsed(AChar(Peek(p)), Skip(p))
\* A - is a range unless it ends the class.
RangeTo(lo, hi) ==
    IF hi.err # "" THEN hi
    ELSE IF hi.v.op = "class" THEN Refuse("range ends with a shorthand")
    ELSE IF Ord(hi.v.c) < Ord(lo.c) THEN Refuse("range out of order")
    ELSE Parsed(ItemRange(lo.c, hi.v.c), hi.p)
MemberFrom(lo) ==
    IF lo.err # "" THEN lo
    ELSE IF lo.v.op = "class" THEN Parsed(lo.v.items[1], lo.p)
    ELSE IF Peek(lo.p) = "-" /\ Peek2(lo.p) \notin {"", "]"} THEN RangeTo(lo.v, parse_class_char(Skip(lo.p)))
    ELSE Parsed(ItemRange(lo.v.c, lo.v.c), lo.p)
parse_class_member(p) == MemberFrom(parse_class_char(p))
RECURSIVE ClassItems(_, _)
ClassNext(r, items) == IF r.err # "" THEN r ELSE ClassItems(r.p, Append(items, r.v))
ClassItems(p, items) ==
    IF Peek(p) = "" THEN Refuse("unterminated class")
    ELSE IF Peek(p) = "]" /\ items # <<>> THEN Parsed(items, Skip(p))
    ELSE ClassNext(parse_class_member(p), items)
ClassOf(r, negate) == IF r.err # "" THEN r ELSE Parsed(AClass(r.v, negate), r.p)
parse_class(p) == ClassOf(ClassItems(IF Peek(p) = "^" THEN Skip(p) ELSE p, <<>>), Peek(p) = "^")

RECURSIVE parse_alt(_)
CloseGroup(inner) ==
    IF inner.err # "" THEN inner
    ELSE IF Peek(inner.p) # ")" THEN Refuse("unterminated group")
    ELSE Parsed(inner.v, [Skip(inner.p) EXCEPT !.depth = @ - 1])
parse_group(p) ==
    IF p.depth + 1 > MaxDepth THEN Refuse("depth")
    ELSE IF Peek(p) = "?" /\ Peek2(p) # ":" THEN Refuse("group construct")
    ELSE CloseGroup(parse_alt([rest |-> IF Peek(p) = "?" THEN Tail(Tail(p.rest)) ELSE p.rest, depth |-> p.depth + 1]))
parse_atom(p) ==
    LET c == Peek(p) IN
    CASE c = "" -> Refuse("end of regex")
      [] c = "." -> Parsed(Ast("any", <<>>), Skip(p))
      [] c = "^" -> Parsed(Ast("start", <<>>), Skip(p))
      [] c = "$" -> Parsed(Ast("end", <<>>), Skip(p))
      [] c = "(" -> parse_group(Skip(p))
      [] c = "[" -> parse_class(Skip(p))
      [] c = "\\" -> escape_char(Skip(p))
      [] c = ")" -> Refuse("unmatched )")
      [] c \in {"*", "+", "?"} -> Refuse("nothing to repeat")
      [] OTHER -> Parsed(AChar(c), Skip(p))
RepeatName(c) == CASE c = "*" -> "star" [] c = "+" -> "plus" [] c = "?" -> "question"
Repeated(atom) ==
    CASE atom.err # "" -> atom
      [] atom.err = "" /\ Peek(atom.p) \in {"*", "+", "?"} ->
            reject_lazy(Parsed(Ast(RepeatName(Peek(atom.p)), <<atom.v>>), Skip(atom.p)))
      [] atom.err = "" /\ Peek(atom.p) = "{" -> parse_bound(atom.v, Skip(atom.p))
      [] OTHER -> atom
parse_repeat(p) == Repeated(parse_atom(p))
RECURSIVE ConcatParts(_, _)
ConcatNext(r, parts) == IF r.err # "" THEN r ELSE ConcatParts(r.p, Append(parts, r.v))
ConcatParts(p, parts) ==
    IF Peek(p) \in {"", "|", ")"} THEN Parsed(Join("concat", parts), p) ELSE ConcatNext(parse_repeat(p), parts)
RECURSIVE AltBranches(_, _)
AltNext(r, branches) ==
    IF r.err # "" THEN r
    ELSE IF Peek(r.p) = "|" THEN AltBranches(Skip(r.p), Append(branches, r.v))
    ELSE Parsed(Join("alt", Append(branches, r.v)), r.p)
AltBranches(p, branches) == AltNext(ConcatParts(p, <<>>), branches)
parse_alt(p) == AltBranches(p, <<>>)
AllRead(r) == IF r.err = "" /\ r.p.rest # <<>> THEN Refuse("unexpected character") ELSE r
parse(pattern) == AllRead(parse_alt([rest |-> pattern, depth |-> 0]))
------------------------------------------------------------------------------
(* Compilation.  An instruction is [op, c, items, negate, a, b]; a fragment  *)
(* is the program so far, its entry and its open ends <<index, field>>.      *)
Inst(op, a, b) == [op |-> op, c |-> "", items |-> <<>>, negate |-> FALSE, a |-> a, b |-> b]
patch(prog, outs, target) ==
    [i \in DOMAIN prog |-> [prog[i] EXCEPT !.a = IF <<i, "a">> \in outs THEN target ELSE @,
                                           !.b = IF <<i, "b">> \in outs THEN target ELSE @]]
Frag(prog, start, outs) == [prog |-> prog, start |-> start, outs |-> outs]
leaf(prog, inst) == Frag(Append(prog, inst), Len(prog) + 1, {<<Len(prog) + 1, "a">>})
expand_repeat(inner, m, n) ==
    Join("concat", [i \in 1 .. m |-> inner] \o
        IF n = None THEN <<Ast("star", <<inner>>)>> ELSE [i \in 1 .. n[1] - m |-> Ast("question", <<inner>>)])
RECURSIVE compile_ast(_, _)
\* star: the loop is entered through its split; plus: through its body.
LoopEntry_body(op, sp, body) == body
LoopEntry(op, sp, body) == IF op = "star" THEN sp ELSE body
compile_ast(prog, ast) ==
    LET concat_step(f, part) ==
            LET next == compile_ast(f.prog, part) IN Frag(patch(next.prog, f.outs, next.start), f.start, next.outs)
        alt_step(acc, b) ==
            LET f == compile_ast(acc.prog, b) IN
            Frag(Append(f.prog, Inst("split", f.start, acc.start)), Len(f.prog) + 1, f.outs \cup acc.outs)
        inner == compile_ast(prog, ast.args[1])
        sp == Len(inner.prog) + 1
        looped == Append(inner.prog, Inst("split", inner.start, 0))
    IN CASE ast.op = "empty" -> leaf(prog, Inst("jmp", 0, 0))
         [] ast.op = "char" -> leaf(prog, [Inst("char", 0, 0) EXCEPT !.c = ast.c])
         [] ast.op = "class" -> leaf(prog, [Inst("class", 0, 0) EXCEPT !.items = ast.items, !.negate = ast.negate])
         [] ast.op \in {"any", "start", "end"} -> leaf(prog, Inst(ast.op, 0, 0))
         [] ast.op = "concat" -> FoldLeft(concat_step, compile_ast(prog, Head(ast.args)), Tail(ast.args))
         [] ast.op = "alt" -> LET rev == Reverse(ast.args) IN FoldLeft(alt_step, compile_ast(prog, Head(rev)), Tail(rev))
         [] ast.op \in {"star", "plus"} ->
              Frag(patch(looped, inner.outs, sp), LoopEntry(ast.op, sp, inner.start), {<<sp, "b">>})
         [] ast.op = "question" -> Frag(looped, sp, inner.outs \cup {<<sp, "b">>})
         [] ast.op = "repeat" -> compile_ast(prog, expand_repeat(ast.args[1], ast.m, ast.n))
RECURSIVE program_size(_)
RepeatSize(size, m, n) == (size + 1) * (Max({m, IF n = None THEN m ELSE n[1]}) + 1)
program_size(ast) ==
    LET sum(extra) == FoldLeft(LAMBDA a, p : a + program_size(p) + extra, 0, ast.args) IN
    CASE ast.op = "concat" -> sum(0)
      [] ast.op \in {"alt", "star", "plus", "question"} -> sum(1)
      [] ast.op = "repeat" -> RepeatSize(program_size(ast.args[1]), ast.m, ast.n)
      [] OTHER -> 1
\* The pattern, and in front of it a loop that skips characters: a search, not a match.
SearchProgram(frag) ==
    LET match_idx == Len(frag.prog) + 1
        prog == patch(Append(frag.prog, Inst("match", 0, 0)), frag.outs, match_idx)
    IN [prog |-> prog \o <<Inst("any", match_idx + 2, 0), Inst("split", frag.start, match_idx + 1)>>,
        entry |-> match_idx + 2]
compile(ast) ==
    IF ast.err # "" \/ program_size(ast.v) > MaxProgram THEN None ELSE Some(SearchProgram(compile_ast(<<>>, ast.v)))
------------------------------------------------------------------------------
(* The search.                                                               *)
\* Everything reachable from the stack without consuming a character.
RECURSIVE add_thread(_, _, _, _, _)
add_thread(prog, stack, seen, pos, len) ==
    LET here == CHOOSE i \in stack : TRUE
        inst == prog[here]
        next == CASE inst.op = "jmp" -> {inst.a}
                  [] inst.op = "split" -> {inst.a, inst.b}
                  [] inst.op = "start" -> IF pos = 0 THEN {inst.a} ELSE {}
                  [] inst.op = "end" -> IF pos = len THEN {inst.a} ELSE {}
                  [] OTHER -> {}
    IN IF stack = {} THEN seen
       ELSE add_thread(prog, (stack \cup next) \ (seen \cup {here}), seen \cup {here}, pos, len)
Consumes(inst, c) ==
    CASE inst.op = "char" -> inst.c = c
      [] inst.op = "any" -> TRUE
      [] inst.op = "class" -> class_match(inst.items, inst.negate, c)
      [] OTHER -> FALSE
regex_is_match(re, s) ==
    LET step(threads, i) ==
            IF \E t \in threads : re.prog[t].op = "match" THEN threads
            ELSE add_thread(re.prog, {re.prog[t].a : t \in {u \in threads : Consumes(re.prog[u], s[i])}}, {}, i, Len(s))
        last == FoldLeft(step, add_thread(re.prog, {re.entry}, {}, 0, Len(s)), [i \in DOMAIN s |-> i])
    IN \E t \in last : re.prog[t].op = "match"
=============================================================================
