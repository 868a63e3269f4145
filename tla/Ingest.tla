------------------------------- MODULE Ingest -------------------------------
(***************************************************************************)
(* sql/ingest: the readers of COPY and the row builder below them.  The      *)
(* builder (mod.rs) is also what INSERT ... VALUES fills: a value that does  *)
(* not fit its column goes, as text, to the column's companion               *)
(* "<name>::string".  The readers turn the characters of a CSV file          *)
(* (csv.rs) or of NDJSON lines (json.rs) into rows.                          *)
(*                                                                          *)
(* A column name is a sequence of characters, the suffix of a companion one  *)
(* more of them.  A result is [err, b], err "" for *)
(* Ok and "panic" for an expect that fails.                                  *)
(***************************************************************************)
EXTENDS Encodings

CONSTANTS MaxJsonDepth   \* MAX_JSON_DEPTH
ASSUME IngestAssumption == MaxJsonDepth \in Nat \ {0}

COMPANION_SUFFIX == "::string"
companion_name(name) == Append(name, COMPANION_SUFFIX)
InField(name, ty) == [name |-> name, ty |-> ty]
index_of(fields, name) == LET at == {i \in DOMAIN fields : fields[i].name = name} IN IF at = {} THEN 0 ELSE Min(at)
IsCompanion(fields, i) == \E g \in DOMAIN fields : fields[i].name = companion_name(fields[g].name)
companion_of(fields, i) == IF IsCompanion(fields, i) THEN 0 ELSE index_of(fields, companion_name(fields[i].name))
data_columns(fields) == SelectSeq([i \in DOMAIN fields |-> i], LAMBDA i : ~IsCompanion(fields, i))
RowBuilderNew(fields) ==
    [fields |-> fields, builders |-> [i \in DOMAIN fields |-> EmptyColumn(fields[i].ty)], set |-> {}, pending |-> 0, total |-> 0]
Res(err, b) == [err |-> err, b |-> b]
\* One column of the row is filled.
Fill(rb, col, column) == [rb EXCEPT !.builders[col] = column, !.set = @ \cup {col}]
Route_unguarded(rb, col, comp, text) ==
    LET pushed == push(rb.builders[comp], Seqv("STRING", <<text>>))
    IN Res("", Fill(Fill(rb, col, push_null(rb.builders[col])), comp, pushed.b))
Routed(rb, col, comp, pushed) ==
    IF pushed.err # "" THEN Res("panic", rb) ELSE Res("", Fill(Fill(rb, col, push_null(rb.builders[col])), comp, pushed.b))
\* The value's column is NULL and its companion has the text; a companion that does not
\* take a STRING fails the expect.
Route(rb, col, comp, text) ==
    IF comp \in rb.set THEN Res("Malformed", rb) ELSE Routed(rb, col, comp, push(rb.builders[comp], Seqv("STRING", <<text>>)))
\* A value that did not fit, as text (None for one that has none).
Spill(rb, col, comp, text) == IF comp = 0 \/ text = None THEN Res("DoesNotFit", rb) ELSE Route(rb, col, comp, text[1])
PutValue(rb, col, v, pushed) ==
    IF pushed.err = "" THEN Res("", Fill(rb, col, pushed.b)) ELSE Spill(rb, col, companion_of(rb.fields, col), to_text(v))
set_value(rb, col, v) ==
    IF col \in rb.set THEN Res("Malformed", rb) ELSE PutValue(rb, col, v, push(rb.builders[col], v))
EmptyText == Text("empty", FALSE, 0, <<>>)
PutCell(rb, col, pushed) == IF pushed.err = "" THEN Res("", Fill(rb, col, pushed.b)) ELSE Res("panic", rb)
PutParsed(rb, col, text, v) ==
    IF v = None THEN Spill(rb, col, companion_of(rb.fields, col), Some(text))
    ELSE PutCell(rb, col, push(rb.builders[col], v[1]))
set_text(rb, col, text) ==
    IF col \in rb.set THEN Res("Malformed", rb)
    ELSE IF rb.fields[col].ty.k # "STRING" /\ text = EmptyText THEN Res("", Fill(rb, col, push_null(rb.builders[col])))
    ELSE PutParsed(rb, col, text, from_text(text, rb.fields[col].ty))
\* The columns nothing was set in are NULL; the next row starts with none set.
end_row(rb) ==
    [rb EXCEPT !.builders = [i \in DOMAIN @ |-> IF i \in rb.set THEN @[i] ELSE push_null(@[i])], !.set = {},
               !.pending = @ + 1, !.total = @ + 1]
\* finish: the batch of the pending rows, and the builder without them.
FinishBatch(rb) == [batch |-> rb.builders, b |-> [RowBuilderNew(rb.fields) EXCEPT !.total = rb.total]]
\* What a reader has handed over and holds: rb, the batches so far, and an error.
Reader(fields) == [b |-> RowBuilderNew(fields), batches |-> <<>>, err |-> ""]
HandOver(r) == [r EXCEPT !.b = FinishBatch(@).b, !.batches = Append(@, FinishBatch(r.b).batch)]
\* The end of a row, and of the input.
FullBatch(r, batch_rows) == IF r.b.pending >= batch_rows THEN HandOver(r) ELSE r
RowDone(r, rb, batch_rows) == FullBatch([r EXCEPT !.b = end_row(rb)], batch_rows)
InputDone(r) == IF r.err = "" /\ r.b.pending > 0 THEN HandOver(r) ELSE r
------------------------------------------------------------------------------
(* CSV.  A record is a sequence of fields, each None (nothing between two    *)
(* delimiters, not even quotes) or its characters.                           *)
NumeralOf == ("1" :> 1) @@ ("2" :> 2)
\* What the characters of a cell spell: nothing, an integer, or text that is no value of
\* another type.
AsText(chars) ==
    LET neg == chars # <<>> /\ Head(chars) = "-"
        digits == IF neg THEN Tail(chars) ELSE chars
    IN  CASE chars = <<>> -> EmptyText
          [] digits # <<>> /\ ToSet(digits) \subseteq DOMAIN NumeralOf ->
               Text("num", neg, DigitsValue([i \in DOMAIN digits |-> NumeralOf[digits[i]]]), <<>>)
          [] OTHER -> Text("str", FALSE, 0, chars)
finish_field(buf, quoted) == IF buf = <<>> /\ ~quoted THEN None ELSE Some(buf)
CsvStart == [fields |-> <<>>, buf |-> <<>>, quoted |-> FALSE, in_quotes |-> FALSE, content |-> FALSE]
EndField(st) == Append(st.fields, finish_field(st.buf, st.quoted))
BlankLine(st) == ~st.content /\ st.fields = <<>> /\ st.buf = <<>>
\* A quote opens a quoted field only at the start of the field.
Quoted(st, c) == c = "\"" /\ st.buf = <<>> /\ ~st.quoted
RECURSIVE read_record(_, _, _)
\* v is None at the end of the input, else the record.
read_record(input, delimiter, st) ==
    LET c == Head(input)
        rest == Tail(input)
        next == IF rest = <<>> THEN "" ELSE Head(rest)
        Line(after) == IF BlankLine(st) THEN read_record(after, delimiter, CsvStart) ELSE Ok(Some(EndField(st)), after)
        Keep(x, after) == read_record(after, delimiter, [st EXCEPT !.buf = Append(@, x), !.content = TRUE])
    IN  CASE input = <<>> -> IF BlankLine(st) THEN Ok(None, <<>>) ELSE Ok(Some(EndField(st)), <<>>)
          [] input # <<>> /\ st.in_quotes ->
               CASE c = "\"" /\ next = "\"" -> Keep(c, Tail(rest))
                 [] c = "\"" /\ next # "\"" -> read_record(rest, delimiter, [st EXCEPT !.in_quotes = FALSE, !.content = TRUE])
                 [] OTHER -> Keep(c, rest)
          [] OTHER ->
               CASE c = "\n" -> Line(rest)
                 [] c = "\r" /\ next = "\n" -> Line(Tail(rest))
                 [] Quoted(st, c) -> read_record(rest, delimiter, [st EXCEPT !.in_quotes = TRUE, !.quoted = TRUE, !.content = TRUE])
                 [] c = delimiter /\ ~Quoted(st, c) ->
                      read_record(rest, delimiter, [CsvStart EXCEPT !.fields = EndField(st), !.content = TRUE])
                 [] OTHER -> Keep(c, rest)
\* header_mapping: the position of each column named, 0 for one there is not.
header_mapping(fields, names) == [i \in DOMAIN names |-> index_of(fields, IF names[i] = None THEN <<>> ELSE names[i][1])]
SetCells(rb, record, mapping) ==
    FoldLeft(LAMBDA r, i : IF r.err # "" \/ record[i] = None THEN r ELSE set_text(r.b, mapping[i], AsText(record[i][1])),
             Res("", rb), [i \in DOMAIN record |-> i])
RECURSIVE CsvRows(_, _, _, _, _)
RECURSIVE CsvRecord(_, _, _, _, _)
RECURSIVE CsvNext(_, _, _, _, _, _)
CsvRows(input, delimiter, mapping, batch_rows, r) ==
    CsvRecord(read_record(input, delimiter, CsvStart), delimiter, mapping, batch_rows, r)
\* cells is the builder after the cells of one record, rest what follows the record.
CsvNext(cells, rest, delimiter, mapping, batch_rows, r) ==
    IF cells.err # "" THEN [r EXCEPT !.err = cells.err]
    ELSE CsvRows(rest, delimiter, mapping, batch_rows, RowDone(r, cells.b, batch_rows))
CsvRecord(rec, delimiter, mapping, batch_rows, r) ==
    IF rec.v = None THEN InputDone(r)
    ELSE IF Len(rec.v[1]) # Len(mapping) THEN [r EXCEPT !.err = "Malformed"]
    ELSE CsvNext(SetCells(r.b, rec.v[1], mapping), rec.rest, delimiter, mapping, batch_rows, r)
CsvBody(input, delimiter, fields, batch_rows, mapping) ==
    IF 0 \in ToSet(mapping) THEN [Reader(fields) EXCEPT !.err = "UnknownColumn"]
    ELSE CsvRows(input, delimiter, mapping, batch_rows, Reader(fields))
\* What follows the header, under the columns it names, or everything.
CsvHeader(head, fields) == IF head.v = None THEN Fail ELSE Ok(header_mapping(fields, head.v[1]), head.rest)
CsvFrom(start, delimiter, fields, batch_rows) ==
    IF start.ok THEN CsvBody(start.rest, delimiter, fields, batch_rows, start.v) ELSE Reader(fields)
read_csv(input, header, delimiter, fields, batch_rows) ==
    CsvFrom(IF header THEN CsvHeader(read_record(input, delimiter, CsvStart), fields) ELSE Ok(data_columns(fields), input),
            delimiter, fields, batch_rows)
------------------------------------------------------------------------------
(* JSON.  A literal word (true, false, null) is one unit of the text, as are *)
(* the four digits of a \u escape: "hi" and "lo" for the two halves of a     *)
(* surrogate pair, any other name for a plain code point.  A value is        *)
(* [j, s, keys, items].                                                      *)
Json(j, s, keys, items) == [j |-> j, s |-> s, keys |-> keys, items |-> items]
JBlank == {" ", "\t", "\n", "\r"}
JDigits == DOMAIN NumeralOf
Controls == {"\n", "\r", "\t", "ctl"}
Escapes == ("\"" :> "\"") @@ ("\\" :> "\\") @@ ("/" :> "/") @@ ("n" :> "\n") @@ ("r" :> "\r") @@ ("t" :> "\t") @@ ("b" :> "ctl") @@ ("f" :> "ctl")
JAt(text) == IF text = <<>> THEN "" ELSE Head(text)
RECURSIVE skip_ws(_)
skip_ws(text) == IF JAt(text) \in JBlank THEN skip_ws(Tail(text)) ELSE text
RECURSIVE JsonString(_, _)
RECURSIVE JsonChar(_, _)
parse_unicode_escape(text) ==
    CASE text = <<>> \/ JAt(text) = "lo" -> Fail
      [] JAt(text) = "hi" -> IF SubSeq(text, 2, IF Len(text) < 4 THEN Len(text) ELSE 4) = <<"\\", "u", "lo">>
                             THEN Ok("pair", SubSeq(text, 5, Len(text))) ELSE Fail
      [] OTHER -> Ok(JAt(text), Tail(text))
parse_escape(text) ==
    CASE JAt(text) = "u" -> parse_unicode_escape(Tail(text))
      [] JAt(text) \in DOMAIN Escapes -> Ok(Escapes[JAt(text)], Tail(text))
      [] OTHER -> Fail
\* parse_string, after the opening quote.
JsonChar(c, acc) == IF c.ok THEN JsonString(c.rest, Append(acc, c.v)) ELSE Fail
JsonString(text, acc) ==
    CASE text = <<>> \/ JAt(text) \in Controls -> Fail
      [] JAt(text) = "\"" -> Ok(acc, Tail(text))
      [] OTHER -> JsonChar(IF JAt(text) = "\\" THEN parse_escape(Tail(text)) ELSE Ok(JAt(text), Tail(text)), acc)
RECURSIVE DigitRun(_)
DigitRun(text) == IF JAt(text) \in JDigits THEN 1 + DigitRun(Tail(text)) ELSE 0
\* consume_digits after a number of units already taken: the units taken then, or 0.
consume_digits(text, n) == LET d == DigitRun(SubSeq(text, n + 1, Len(text))) IN IF d = 0 THEN 0 ELSE n + d
UnitAt(text, n) == IF n < Len(text) THEN text[n + 1] ELSE ""
json_number(text) ==
    LET whole == consume_digits(text, IF JAt(text) = "-" THEN 1 ELSE 0)
        frac == IF UnitAt(text, whole) = "." THEN consume_digits(text, whole + 1) ELSE whole
        sign == IF UnitAt(text, frac + 1) \in {"+", "-"} THEN frac + 2 ELSE frac + 1
        exp == IF UnitAt(text, frac) \in {"e", "E"} THEN consume_digits(text, sign) ELSE frac
    IN  IF whole = 0 \/ frac = 0 \/ exp = 0 THEN Fail
        ELSE Ok(Json("number", SubSeq(text, 1, exp), <<>>, <<>>), SubSeq(text, exp + 1, Len(text)))
RECURSIVE JsonValue(_, _)
RECURSIVE JsonItem(_, _, _, _)
RECURSIVE JsonMember(_, _, _)
Closing == ("array" :> "]") @@ ("object" :> "}")
\* The array or object so far with v, under key, as its last; rest follows v.
WithItem(acc, key, v) == Json(acc.j, <<>>, acc.keys \o key, Append(acc.items, v))
JsonAfter(acc, rest, depth) ==
    CASE JAt(rest) = "," -> IF acc.j = "array" THEN JsonItem(acc, None, Ok(<<>>, Tail(rest)), depth)
                            ELSE JsonMember(acc, skip_ws(Tail(rest)), depth)
      [] JAt(rest) = Closing[acc.j] -> Ok(acc, Tail(rest))
      [] OTHER -> Fail
JsonTaken(acc, key, v, depth) == IF v.ok THEN JsonAfter(WithItem(acc, key, v.v), skip_ws(v.rest), depth) ELSE Fail
\* from.rest is where the item starts, after its key.
JsonItem(acc, key, from, depth) == IF from.ok THEN JsonTaken(acc, key, JsonValue(skip_ws(from.rest), depth), depth) ELSE Fail
Colon(rest) == IF JAt(rest) = ":" THEN Ok(<<>>, Tail(rest)) ELSE Fail
JsonKeyed(acc, key, depth) == IF key.ok THEN JsonItem(acc, Some(key.v), Colon(skip_ws(key.rest)), depth) ELSE Fail
JsonMember(acc, text, depth) == IF JAt(text) = "\"" THEN JsonKeyed(acc, JsonString(Tail(text), <<>>), depth) ELSE Fail
JsonInside(acc, text, depth) ==
    CASE JAt(text) = Closing[acc.j] -> Ok(acc, Tail(text))
      [] JAt(text) # Closing[acc.j] /\ acc.j = "array" -> JsonItem(acc, None, Ok(<<>>, text), depth)
      [] OTHER -> JsonMember(acc, text, depth)
JsonText(s) == As(s, Json("string", s.v, <<>>, <<>>))
JsonValue(text, depth) ==
    CASE JAt(text) \in {"{", "["} ->
           IF depth >= MaxJsonDepth THEN Fail
           ELSE JsonInside(Json(IF JAt(text) = "[" THEN "array" ELSE "object", <<>>, <<>>, <<>>), skip_ws(Tail(text)), depth + 1)
      [] JAt(text) = "\"" -> JsonText(JsonString(Tail(text), <<>>))
      [] JAt(text) \in {"true", "false", "null"} -> Ok(Json(JAt(text), <<>>, <<>>, <<>>), Tail(text))
      [] JAt(text) \in JDigits \cup {"-"} -> json_number(text)
      [] OTHER -> Fail
\* parse_line: None for a blank line.
WholeLine(v) == IF v.ok /\ skip_ws(v.rest) = <<>> THEN Ok(Some(v.v), <<>>) ELSE Fail
parse_line(line) == IF skip_ws(line) = <<>> THEN Ok(None, <<>>) ELSE WholeLine(JsonValue(skip_ws(line), 0))
Unescape == ("\"" :> "\"") @@ ("\\" :> "\\") @@ ("\n" :> "n") @@ ("\r" :> "r") @@ ("\t" :> "t")
quote_json_string(s) ==
    LET esc(c) == CASE c \in DOMAIN Unescape -> <<"\\", Unescape[c]>> [] c = "ctl" -> <<"\\", "u", "ctl">> [] OTHER -> <<c>>
    IN <<"\"">> \o FlattenSeq([i \in DOMAIN s |-> esc(s[i])]) \o <<"\"">>
WithCommas(parts) == FlattenSeq([i \in DOMAIN parts |-> IF i = 1 THEN parts[i] ELSE <<",">> \o parts[i]])
RECURSIVE to_json_text(_)
to_json_text(v) ==
    CASE v.j \in {"true", "false", "null"} -> <<v.j>>
      [] v.j = "number" -> v.s
      [] v.j = "string" -> quote_json_string(v.s)
      [] v.j = "array" -> <<"[">> \o WithCommas([i \in DOMAIN v.items |-> to_json_text(v.items[i])]) \o <<"]">>
      [] v.j = "object" -> <<"{">> \o WithCommas([i \in DOMAIN v.items |-> quote_json_string(v.keys[i]) \o <<":">> \o to_json_text(v.items[i])]) \o <<"}">>

JBool(v) == Val("BOOL", IF v.j = "true" THEN 1 ELSE 0)
\* None is an error.
json_to_element(item, ty) ==
    CASE item.j = "null" -> Some(Null)
      [] item.j \in {"true", "false"} -> Some(JBool(item))
      [] item.j \in {"number", "string"} -> from_text(AsText(item.s), ty)
      [] OTHER -> None
set_list(rb, idx, elems) ==
    IF \E i \in DOMAIN elems : elems[i] = None THEN Res("Malformed", rb)
    ELSE set_value(rb, idx, Seqv("LIST", [i \in DOMAIN elems |-> elems[i][1]]))
\* The column is NULL, its companion has the array's text.
JsonCompanion(nulled, comp, v) ==
    IF nulled.err # "" THEN nulled ELSE set_text(nulled.b, comp, Text("str", FALSE, 0, to_json_text(v)))
set_companion(rb, idx, comp, v) ==
    IF comp = 0 THEN Res("DoesNotFit", rb) ELSE JsonCompanion(set_value(rb, idx, Null), comp, v)
set_array_leaf(rb, idx, v) ==
    IF rb.fields[idx].ty.k = "LIST"
    THEN set_list(rb, idx, [i \in DOMAIN v.items |-> json_to_element(v.items[i], rb.fields[idx].ty.e[1])])
    ELSE set_companion(rb, idx, index_of(rb.fields, companion_name(rb.fields[idx].name)), v)
set_leaf(rb, idx, v) ==
    CASE v.j = "null" -> Res("", rb)
      [] v.j \in {"true", "false"} -> set_value(rb, idx, JBool(v))
      [] v.j \in {"number", "string"} -> set_text(rb, idx, AsText(v.s))
      [] v.j = "array" -> set_array_leaf(rb, idx, v)
      [] v.j = "object" -> Res("DoesNotFit", rb)
path_name(prefix, key) == IF prefix = <<>> THEN key ELSE prefix \o <<".">> \o key
RECURSIVE SetMembers(_, _, _, _)
\* set_leaf_or_descend for every member of an object, below a prefix.
SetMember(rb, name, v, idx) ==
    CASE idx # 0 -> set_leaf(rb, idx, v)
      [] idx = 0 /\ v.j = "object" -> SetMembers(Res("", rb), name, v, 1)
      [] OTHER -> Res("UnknownColumn", rb)
SetPath(rb, name, v) == SetMember(rb, name, v, index_of(rb.fields, name))
SetMembers(r, prefix, v, i) ==
    IF r.err # "" \/ i > Len(v.items) THEN r
    ELSE SetMembers(SetPath(r.b, path_name(prefix, v.keys[i]), v.items[i]), prefix, v, i + 1)
\* One line: a blank one adds nothing, any other a row.
LineCellsDone(r, cells, batch_rows) ==
    IF cells.err # "" THEN [r EXCEPT !.err = cells.err] ELSE RowDone(r, cells.b, batch_rows)
ReadLine(r, line, batch_rows) ==
    CASE r.err = "" /\ line.ok /\ line.v = None -> r
      [] r.err = "" /\ line.ok /\ line.v # None /\ line.v[1].j = "object" ->
           LineCellsDone(r, SetMembers(Res("", r.b), <<>>, line.v[1], 1), batch_rows)
      [] OTHER -> [r EXCEPT !.err = IF @ = "" THEN "Malformed" ELSE @]
read_ndjson(lines, batch_rows, r0) ==
    InputDone(FoldLeft(LAMBDA r, line : ReadLine(r, parse_line(line), batch_rows), r0, lines))
=============================================================================
