----------------------------- MODULE IngestJobs -----------------------------
(***************************************************************************)
(* Checks of ingest: rows filled cell by cell in every order, CSV files     *)
(* written from rows in several styles, JSON values written and read back,  *)
(* and NDJSON lines whose names nest.                                        *)
(***************************************************************************)
EXTENDS Ingest, Jobs

CONSTANTS MaxSets,   \* cells set per row
          MaxLines   \* rows
StrOf(cs) == Seqv("STRING", <<AsText(cs)>>)
AnI64(n) == Val("INT64", n)

(* Rows filled cell by cell.  n has a companion, s and m have none.          *)
RouteFields == <<InField(<<"n">>, Ty("INT64")), InField(<<"s">>, Ty("STRING")),
                 InField(<<"n", "::string">>, Ty("STRING")), InField(<<"m">>, Ty("INT64"))>>
SetCell(col, how, v, t) == [col |-> col, how |-> how, v |-> v, t |-> t]
Sets == {SetCell(c, "value", v, EmptyText) : c \in {1, 3}, v \in {AnI64(1), StrOf(<<"a">>), Null}}
        \cup {SetCell(1, "value", Seqv("LIST", <<AnI64(1), Null>>), EmptyText)}
        \cup {SetCell(c, "text", Null, AsText(t)) : c \in {1, 3}, t \in {<<"1">>, <<"a">>, <<>>}}
        \cup {SetCell(2, "text", Null, EmptyText), SetCell(4, "text", Null, AsText(<<"a">>)), SetCell(4, "value", AnI64(2), EmptyText)}
SetStep ==
    /\ Is("route", "start") /\ out.err = "" /\ Len(out.log) <= MaxLines /\ Len(Last(out.log)) < MaxSets
    /\ \E op \in Sets :
         \E r \in {IF op.how = "value" THEN set_value(out.b, op.col, op.v) ELSE set_text(out.b, op.col, op.t)} :
            out' = [b |-> r.b, err |-> r.err, log |-> [out.log EXCEPT ![Len(out.log)] = Append(@, op)]]
    /\ UNCHANGED <<job, pc>>
RowStep ==
    /\ Is("route", "start") /\ out.err = "" /\ Len(out.log) <= MaxLines
    /\ out' = [out EXCEPT !.b = end_row(@), !.log = Append(@, <<>>)]
    /\ UNCHANGED <<job, pc>>
\* What a cell was asked to hold: None when its column cannot.
Held(op) ==
    LET ty == RouteFields[op.col].ty IN
    IF op.how = "value" THEN (IF is_null(op.v) THEN Some(Null) ELSE coerce(op.v, ty))
    ELSE IF op.t = EmptyText /\ ty.k # "STRING" THEN Some(Null) ELSE from_text(op.t, ty)
Spills(op) == Held(op) = None /\ op.col = 1
Legal(row) ==
    /\ \A i \in DOMAIN row : Held(row[i]) # None \/ Spills(row[i])
    /\ \A i, j \in DOMAIN row : i # j => row[i].col # row[j].col /\ ~(Spills(row[i]) /\ row[j].col = 3)
WantedCell(row, c) ==
    LET own == {op \in ToSet(row) : op.col = c}
        spilt == {op \in ToSet(row) : Spills(op)}
    IN  CASE own # {} -> (LET op == CHOOSE o \in own : TRUE IN IF Spills(op) THEN Null ELSE Held(op)[1])
          [] own = {} /\ c = 3 /\ spilt # {} ->
               (LET op == CHOOSE o \in spilt : TRUE IN Seqv("STRING", IF op.how = "value" THEN to_text(op.v) ELSE <<op.t>>))
          [] OTHER -> Null
\* A row is taken exactly when each of its cells fits its column, or the column's free
\* companion, whatever the order the cells are set in; each row then holds each value in one
\* of the two, the other is NULL, and no column gets ahead of another: sql/ingest/mod.rs,
\* RowBuilder.
CompanionRouting ==
    job.kind = "route" =>
        LET rows == SubSeq(out.log, 1, Len(out.log) - 1) IN
        /\ (out.err = "") <=> Legal(Last(out.log))
        /\ out.b.total = Len(rows)
        /\ out.err = "" /\ out.b.set = {} =>
             \A c \in DOMAIN RouteFields : Rows(out.b.builders[c]) = [r \in DOMAIN rows |-> WantedCell(rows[r], c)]
------------------------------------------------------------------------------
(* CSV files of the columns s and n, written from their rows.                *)
CsvFields == <<InField(<<"s">>, Ty("STRING")), InField(<<"n">>, Ty("INT64")), InField(<<"n", "::string">>, Ty("STRING"))>>
CsvTexts == {None} \cup {Some(t) : t \in {<<>>, <<"1">>, <<",">>, <<"\"">>, <<"\n">>, <<"\r", "a">>, <<"a", "\"">>}}
CsvNumbers == {None} \cup {Some(t) : t \in {<<>>, <<"-", "2">>, <<"a">>, <<"\"", ",">>}}
Styles == [quote_all : BOOLEAN, eol : {<<"\n">>, <<"\r", "\n">>}, header : BOOLEAN, last_eol : BOOLEAN]
NeedsQuotes(t) == t = <<>> \/ Head(t) = "\"" \/ ToSet(t) \cap {",", "\n", "\r"} # {}
WrittenCell(cell, all) ==
    IF cell = None THEN <<>>
    ELSE IF all \/ NeedsQuotes(cell[1])
    THEN <<"\"">> \o FlattenSeq([i \in DOMAIN cell[1] |-> IF cell[1][i] = "\"" THEN <<"\"", "\"">> ELSE <<cell[1][i]>>]) \o <<"\"">>
    ELSE cell[1]
CsvFile(rows, st) ==
    LET line(row) == WrittenCell(row[1], st.quote_all) \o <<",">> \o WrittenCell(row[2], st.quote_all)
        lines == (IF st.header THEN <<<<"s", ",", "n">>>> ELSE <<>>) \o [r \in DOMAIN rows |-> line(rows[r])]
    IN FlattenSeq([r \in DOMAIN lines |-> IF r < Len(lines) \/ st.last_eol THEN lines[r] \o st.eol ELSE lines[r]])
CsvJobs == {[kind |-> "csv", rows |-> <<r>>, st |-> st] : r \in CsvTexts \X CsvNumbers, st \in Styles}
           \cup {[kind |-> "csv", rows |-> <<r, q>>, st |-> st] :
                    r \in CsvTexts \X CsvNumbers, q \in CsvTexts \X {None, Some(<<"a">>)}, st \in {s \in Styles : ~s.quote_all}}
CsvStep == Run("csv", read_csv(CsvFile(job.rows, job.st), job.st.header, ",", CsvFields, 1))
CellText(cell) == IF cell = None THEN Null ELSE StrOf(cell[1])
CsvWanted(row) ==
    LET n == IF row[2] \in {None, Some(<<>>)} THEN Some(Null) ELSE from_text(AsText(row[2][1]), Ty("INT64"))
    IN <<CellText(row[1]), IF n = None THEN Null ELSE n[1], IF n = None THEN CellText(row[2]) ELSE Null>>
\* A CSV file gives back the rows it was written from, whatever they contain: delimiters,
\* quotes and line ends inside quotes, "" apart from nothing at all, either line end, and a
\* last line without one: sql/ingest/csv.rs, read_record and read_csv.
CsvRoundTrip ==
    Done("csv") =>
        /\ out.err = ""
        /\ [r \in DOMAIN out.batches |-> [c \in DOMAIN CsvFields |-> get(out.batches[r][c], 1)]]
             = [r \in DOMAIN job.rows |-> CsvWanted(job.rows[r])]
------------------------------------------------------------------------------
(* JSON values: scalars, and what can be built around them.                  *)
JWord(w) == Json(w, <<>>, <<>>, <<>>)
JNum(s) == Json("number", s, <<>>, <<>>)
JStr(s) == Json("string", s, <<>>, <<>>)
JArr(items) == Json("array", <<>>, <<>>, items)
JObj(keys, items) == Json("object", <<>>, keys, items)
JChars == {"a", "\"", "\\", "\n", "\t", "ctl", "/", "n"}
JStrings == UNION {[1 .. n -> JChars] : n \in 0 .. 2}
JScalars == {JWord("null"), JWord("true"), JNum(<<"1">>), JNum(<<"-", "1", ".", "2">>), JNum(<<"1", "e", "-", "2">>)} \cup {JStr(s) : s \in JStrings}
Few == {JWord("false"), JNum(<<"2">>), JStr(<<"\\">>)}
JPairs == {JArr(<<>>), JObj(<<>>, <<>>)} \cup {JArr(<<a>>) : a \in JScalars} \cup {JArr(<<a, b>>) : a, b \in Few}
          \cup {JObj(<<k>>, <<a>>) : k \in JStrings, a \in Few} \cup {JObj(<<<<"a">>, <<"a">>>>, <<a, b>>) : a, b \in Few}
RECURSIVE Nested(_, _)
Nested(v, n) == IF n = 0 THEN v ELSE Nested(IF n % 2 = 0 THEN JArr(<<v>>) ELSE JObj(<<<<"a">>>>, <<v>>), n - 1)
DepthOf == 0 .. MaxJsonDepth + 1
JsonJobs == {[kind |-> "json", v |-> v, n |-> 0, pad |-> pad] : v \in JScalars \cup JPairs, pad \in {<<>>, <<" ">>}}
            \cup {[kind |-> "json", v |-> v, n |-> n, pad |-> <<>>] : v \in Few \cup {JArr(<<>>)}, n \in DepthOf}
Padded(text, pad) == FlattenSeq([i \in DOMAIN text |-> IF text[i] \in {"[", "]", "{", "}", ","} THEN pad \o <<text[i]>> \o pad ELSE <<text[i]>>])
JsonLine(text) == job.pad \o (IF job.v.j = "string" THEN text ELSE Padded(text, job.pad)) \o <<"\n">>
JsonStep == Run("json", parse_line(JsonLine(to_json_text(Nested(job.v, job.n)))))
JHeight(v) == IF v.j \in {"array", "object"} THEN 1 ELSE 0
\* A JSON value written for a companion column reads back as itself, escapes and nesting
\* included, and is refused exactly when it nests deeper than the limit: sql/ingest/json.rs,
\* to_json_text and Parser.
JsonRoundTrip ==
    Done("json") =>
        LET shallow == job.n + JHeight(job.v) <= MaxJsonDepth
        IN out.ok = shallow /\ (shallow => out.v = Some(Nested(job.v, job.n)))
------------------------------------------------------------------------------
(* NDJSON lines: a.b is a column, a is none; n has a companion, l is a list. *)
LineFields == <<InField(<<"n">>, Ty("INT64")), InField(<<"n", "::string">>, Ty("STRING")),
                InField(<<"a", ".", "b">>, Ty("INT64")), InField(<<"l">>, ListType(Ty("INT64"))[1])>>
LineKeys == {<<"n">>, <<"a", ".", "b">>, <<"l">>, <<"x">>}
LineValues == {JWord("null"), JNum(<<"1">>), JStr(<<"2">>), JArr(<<JNum(<<"1">>), JWord("null")>>), JArr(<<JStr(<<"a">>)>>)}
\* A member, written flat or, for a.b, as an object inside a.
Member(k, v, flat) == IF flat \/ k # <<"a", ".", "b">> THEN [k |-> k, v |-> v] ELSE [k |-> <<"a">>, v |-> JObj(<<<<"b">>>>, <<v>>)]
LineJobs == {[kind |-> "line", keys |-> <<k1, k2>>, vals |-> <<v1, v2>>, flat |-> flat] :
                k1, k2 \in LineKeys, v1, v2 \in LineValues, flat \in BOOLEAN}
ObjectOf(ms) == JObj([i \in DOMAIN ms |-> ms[i].k], [i \in DOMAIN ms |-> ms[i].v])
NdJson(text) == read_ndjson(<<<<"\n">>, text, text>>, 1, Reader(LineFields))
LineStep ==
    Run("line", NdJson(to_json_text(ObjectOf([i \in 1 .. 2 |-> Member(job.keys[i], job.vals[i], job.flat)]))))
IsInts(v) == \A i \in DOMAIN v.items : v.items[i].j \in {"number", "null"}
\* The cells a member fills, column by column, as a set of pairs; {} for a null.
LineCells(k, v) ==
    LET c == index_of(LineFields, k)
        number == IF v.j \in {"number", "string"} THEN AsText(v.s).n ELSE 0
    IN  CASE v.j = "null" -> {}
          [] v.j = "array" /\ c = 1 -> {<<1, Null>>, <<2, Seqv("STRING", <<Text("str", FALSE, 0, to_json_text(v))>>)>>}
          [] v.j = "array" /\ c = 4 -> {<<4, Seqv("LIST", [i \in DOMAIN v.items |-> IF v.items[i].j = "null" THEN Null ELSE AnI64(1)])>>}
          [] OTHER -> {<<c, AnI64(number)>>}
Takes(k, v) ==
    /\ k # <<"x">>
    /\ v.j = "array" => k = <<"n">> \/ (k = <<"l">> /\ IsInts(v))
    /\ k = <<"l">> => v.j \in {"array", "null"}
Named2 == job.keys[1] # job.keys[2] \/ \E i \in {1, 2} : job.vals[i].j = "null"
\* A member of a line reaches the column its path names, written flat or nested; an array
\* for a column that is no list goes to its companion; and a line with an unknown name, a
\* value no column takes or a column named twice adds no row: sql/ingest/json.rs,
\* set_leaf_or_descend and set_array_leaf.
JsonFlattens ==
    Done("line") =>
        LET ok == Named2 /\ \A i \in {1, 2} : Takes(job.keys[i], job.vals[i])
            cells == LineCells(job.keys[1], job.vals[1]) \cup LineCells(job.keys[2], job.vals[2])
            Cell(c) == IF \E p \in cells : p[1] = c THEN (CHOOSE p \in cells : p[1] = c)[2] ELSE Null
        IN  /\ (out.err = "") <=> ok
            /\ Len(out.batches) = IF ok THEN 2 ELSE 0
            /\ \A r \in DOMAIN out.batches, c \in DOMAIN LineFields : Rows(out.batches[r][c]) = <<Cell(c)>>
------------------------------------------------------------------------------
IngestInit ==
    \/ job = [kind |-> "route"] /\ pc = "start" /\ out = [b |-> RowBuilderNew(RouteFields), err |-> "", log |-> <<<<>>>>]
    \/ job \in CsvJobs \cup JsonJobs \cup LineJobs /\ pc = "start" /\ out = <<>>
IngestNext == SetStep \/ RowStep \/ CsvStep \/ JsonStep \/ LineStep
\* Ingest as a whole (sql/ingest): no cell is lost, misplaced or invented between the text
\* of a file and the batches.
IngestRight == CompanionRouting /\ CsvRoundTrip /\ JsonRoundTrip /\ JsonFlattens
=============================================================================
