----------------------------- MODULE LeadImport ------------------------------
(***************************************************************************)
(* The import of leads (lib/csv.ts, POST of app/api/leads/route.ts).  A    *)
(* file is read character by character, then each of its rows is written   *)
(* in a statement of its own; an import that breaks off is repeated with   *)
(* the same file.  A character is one of those the reader tells apart; the *)
(* columns are a company and an e-mail address.                            *)
(***************************************************************************)
EXTENDS Naturals, Sequences, FiniteSets, SequencesExt

CONSTANTS Company, Email,   \* cells a file may hold, as sequences of characters
          MaxRows           \* rows an import may have, 200

Char == {"comma", "quote", "newline", "return", "letter"}
Ending == {<<"newline">>, <<"return", "newline">>, <<"return">>}

VARIABLES
    file,      \* what the rows of the file say (external)
    text,      \* the file, as characters
    i, cell, row, table, quoted,   \* parseCsv's variables
    phase,     \* "none" | "reading" | "writing" | "done"
    todo,      \* csvToLeadRows: rows still to write
    taken,     \* domains that have a lead
    manual,    \* leads with a made-up domain
    report     \* created, skipped, errors

vars == <<file, text, i, cell, row, table, quoted, phase, todo, taken, manual, report>>

reader == <<i, cell, row, table, quoted>>
Blank == {"newline", "return"}

Nothing == [created |-> 0, skipped |-> 0, errors |-> 0]

Init ==
    /\ file = <<>> /\ text = <<>>
    /\ i = 1 /\ cell = <<>> /\ row = <<>> /\ table = <<>> /\ quoted = FALSE
    /\ phase = "none" /\ todo = <<>>
    /\ taken = {} /\ manual = 0 /\ report = Nothing

TypeOK ==
    /\ text \in Seq(Char) /\ i \in 1..Len(text) + 1 /\ cell \in Seq(Char)
    /\ row \in Seq(Seq(Char)) /\ quoted \in BOOLEAN
    /\ phase \in {"none", "reading", "writing", "done"}
    /\ manual \in Nat
    /\ report \in [created : Nat, skipped : Nat, errors : Nat]
-----------------------------------------------------------------------------
(* External: how a spreadsheet writes a table. *)
Special(c) == \E k \in DOMAIN c : c[k] \in {"comma", "quote", "newline", "return"}

Written(c, always) ==
    IF ~ always /\ ~ Special(c) THEN c
    ELSE <<"quote">>
         \o FlattenSeq([k \in DOMAIN c |-> IF c[k] = "quote" THEN <<"quote", "quote">>
                                                            ELSE <<c[k]>>])
         \o <<"quote">>

Line(r, always) == Written(r[1], always) \o <<"comma">> \o Written(r[2], always)

Header == <<<<"letter">>, <<"letter">>>>

(* Somebody uploads a file with a header and one row, or that row twice. *)
Upload(company, email, copies, always, ending) ==
    LET rows == <<Header>> \o [k \in 1..copies |-> <<company, email>>] IN
    /\ phase = "none"
    /\ file' = rows
    /\ text' = FlattenSeq([k \in DOMAIN rows |-> Line(rows[k], always) \o ending])
    /\ phase' = "reading"
    /\ UNCHANGED <<reader, todo, taken, manual, report>>
-----------------------------------------------------------------------------
Trim(c) ==
    LET black == {k \in DOMAIN c : c[k] \notin Blank} IN
    IF black = {} THEN <<>>
    ELSE SubSeq(c, CHOOSE k \in black : \A j \in black : k <= j,
                   CHOOSE k \in black : \A j \in black : j <= k)

Full(r) == \E k \in DOMAIN r : r[k] # <<>>

Has(k, ch) == k <= Len(text) /\ text[k] = ch

(* A quote inside a quoted cell that stands for itself. *)
Doubled(k) == Has(k + 1, "quote")

Keep(ch, n) == cell' = Append(cell, ch) /\ i' = i + n /\ UNCHANGED <<row, table, quoted>>

(* A turn of the loop of parseCsv. *)
InQuotes ==
    /\ quoted
    /\ \/ Has(i, "quote") /\ Doubled(i) /\ Keep("quote", 2)
       \/ /\ Has(i, "quote") /\ ~ Doubled(i)
          /\ quoted' = FALSE /\ i' = i + 1 /\ UNCHANGED <<cell, row, table>>
       \/ text[i] # "quote" /\ Keep(text[i], 1)

EndsRow(n) ==
    LET r == Append(row, Trim(cell)) IN
    /\ table' = IF Full(r) THEN Append(table, r) ELSE table
    /\ row' = <<>> /\ cell' = <<>> /\ i' = i + n /\ UNCHANGED quoted

OutsideQuotes ==
    /\ ~ quoted
    /\ \/ /\ text[i] = "quote"
          /\ quoted' = TRUE /\ i' = i + 1 /\ UNCHANGED <<cell, row, table>>
       \/ /\ text[i] = "comma"
          /\ row' = Append(row, Trim(cell)) /\ cell' = <<>> /\ i' = i + 1
          /\ UNCHANGED <<table, quoted>>
       \/ text[i] = "newline" /\ EndsRow(1)
       \/ text[i] = "return" /\ EndsRow(IF Has(i + 1, "newline") THEN 2 ELSE 1)
       \/ text[i] = "letter" /\ Keep("letter", 1)

Read ==
    /\ phase = "reading" /\ i <= Len(text)
    /\ InQuotes \/ OutsideQuotes
    /\ UNCHANGED <<file, text, phase, todo, taken, manual, report>>

(* csvToLeadRows: the rows under the header that have a company. *)
LeadRows(t) ==
    FlattenSeq([k \in DOMAIN t |-> IF k > 1 /\ t[k][1] # <<>> THEN <<t[k]>> ELSE <<>>])

(* The end of the file closes its last row; a file that is too large is refused. *)
EndOfFile ==
    /\ phase = "reading" /\ i > Len(text)
    /\ EndsRow(0)
    /\ todo' = IF Len(table') < 2 THEN <<>> ELSE LeadRows(table')
    /\ phase' = IF Len(todo') > MaxRows THEN "done" ELSE "writing"
    /\ UNCHANGED <<file, text, taken, manual, report>>
-----------------------------------------------------------------------------
Counted(what) == report' = [report EXCEPT ![what] = @ + 1]

(* One row: refused by leadInput, a lead without a domain of its own, a new domain, or
   one that has a lead already. *)
WriteRow ==
    /\ phase = "writing" /\ todo # <<>>
    /\ todo' = Tail(todo)
    /\ LET email == Head(todo)[2] IN
       \/ email = <<>> /\ Counted("created") /\ manual' = manual + 1 /\ UNCHANGED taken
       \/ /\ email = <<"letter">> /\ email \notin taken
          /\ Counted("created") /\ taken' = taken \union {email} /\ UNCHANGED manual
       \/ email \in taken /\ Counted("skipped") /\ UNCHANGED <<taken, manual>>
       \/ email \notin {<<>>, <<"letter">>} /\ Counted("errors") /\ UNCHANGED <<taken, manual>>
    /\ UNCHANGED <<file, text, reader, phase>>

Answer ==
    /\ phase = "writing" /\ todo = <<>>
    /\ phase' = "done"
    /\ UNCHANGED <<file, text, reader, todo, taken, manual, report>>

(* The request dies; the same file is uploaded again. *)
Repeat ==
    /\ phase \in {"reading", "writing"} /\ manual < 2
    /\ i' = 1 /\ cell' = <<>> /\ row' = <<>> /\ table' = <<>> /\ quoted' = FALSE
    /\ phase' = "reading" /\ todo' = <<>> /\ report' = Nothing
    /\ UNCHANGED <<file, text, taken, manual>>

Next ==
    \/ \E company \in Company, email \in Email, copies \in 1..2, always \in BOOLEAN,
          ending \in Ending : Upload(company, email, copies, always, ending)
    \/ Read \/ EndOfFile \/ WriteRow \/ Answer \/ Repeat

Spec == Init /\ [][Next]_vars
-----------------------------------------------------------------------------
Trimmed(r) == [k \in DOMAIN r |-> Trim(r[k])]

(* What there is in a table: its cells trimmed, and no row that is empty. *)
Contents(t) ==
    FlattenSeq([k \in DOMAIN t |-> IF Full(Trimmed(t[k])) THEN <<Trimmed(t[k])>> ELSE <<>>])

(* A file is read as it was written: commas, quotes and line ends inside a cell belong to
   it, whatever ends the lines, and empty rows are dropped (csv.ts:5). *)
ReadAsWritten == phase \in {"writing", "done"} => table = Contents(file)

(* Every row with a company is reported once: created, skipped or in error
   (leads/route.ts:84). *)
EveryRowReported ==
    phase = "done" /\ todo = <<>> =>
        report.created + report.skipped + report.errors
            = IF Len(table) < 2 THEN 0 ELSE Len(LeadRows(table))

(* Refuted by a repeated import: a row without a domain gets a random one each time. *)
ImportedOnce == manual <= Len(file)
=============================================================================
