----------------------------- MODULE WaypointFile -----------------------------
(***************************************************************************)
(* The two file formats of the waypoint editor, as far as they can lose a  *)
(* waypoint's command.  A command, and a line of a file, is a sequence of  *)
(* characters, of which these are told apart.                              *)
(***************************************************************************)
EXTENDS Naturals, Sequences, SequencesExt, FiniteSetsExt

Comma == "comma"
Blank == "blank"
Quote == "quote"
Escape == "backslash"
Letter == "letter"

\* Trim
Trim(t) ==
  LET solid == {i \in DOMAIN t : t[i] # Blank}
  IN IF solid = {} THEN <<>> ELSE SubSeq(t, Min(solid), Max(solid))

\* SplitCsvRow and SplitFunctionCommand: std::getline up to each comma.  What follows the
\* last comma is a column only if it is not empty.
Split(t) ==
  LET commas == {i \in DOMAIN t : t[i] = Comma}
      ends == SetToSortSeq(commas \cup (IF t = <<>> \/ Last(t) = Comma THEN {} ELSE {Len(t) + 1}), <)
      Column(k) == SubSeq(t, (IF k = 1 THEN 0 ELSE ends[k - 1]) + 1, ends[k] - 1)
  IN [k \in DOMAIN ends |-> Column(k)]

Join(columns) ==
  FoldLeftDomain(LAMBDA t, k : IF k = 1 THEN columns[k] ELSE t \o <<Comma>> \o columns[k], <<>>, columns)

-------------------------------------------------------------------------------
\* WaypointCsv::Save: each row is padded to the longest command, and ends in a comma.
CsvRow(command, columns) ==
  LET tokens == Split(command)
      Token(k) == IF k <= Len(tokens) THEN tokens[k] ELSE <<>>
  IN FoldLeftDomain(LAMBDA t, k : t \o <<Comma>> \o Token(k), <<Letter>>, [k \in 1..columns |-> k])
     \o <<Comma>>
CsvSave(doc) ==
  LET columns == Max({Len(Split(doc[i])) : i \in DOMAIN doc})
  IN [i \in DOMAIN doc |-> CsvRow(doc[i], columns)]

\* Mutant of Unpadded: the padding stays.
UnpaddedNot(parts) == parts

\* Empty columns at the end are dropped.
Unpadded(parts) ==
  LET filled == {k \in DOMAIN parts : Trim(parts[k]) # <<>>}
  IN IF filled = {} THEN <<>> ELSE SubSeq(parts, 1, Max(filled))

Unquoted(t) ==
  IF Len(t) >= 2 /\ Head(t) = Quote /\ Last(t) = Quote THEN SubSeq(t, 2, Len(t) - 1) ELSE t

\* WaypointCsv::Load.  The eight columns of the identifier and the pose stand for one; a
\* row without a column for the command is skipped.
CsvLoad(rows) ==
  LET columns(row) == Split(row)
      Command(row) == Unquoted(Trim(Join(Unpadded(Tail(columns(row))))))
  IN [i \in DOMAIN SelectSeq(rows, LAMBDA row : Len(columns(row)) >= 2) |->
        Command(SelectSeq(rows, LAMBDA row : Len(columns(row)) >= 2)[i])]

-------------------------------------------------------------------------------
\* EscapeYamlString, between double quotes.
YamlSave(command) ==
  <<Quote>> \o FoldLeft(LAMBDA t, c : t \o (IF c = Quote THEN <<Escape, Quote>> ELSE <<c>>), <<>>, command)
            \o <<Quote>>

\* yaml-cpp, for text without other escapes: a scalar in double quotes.
YamlLoad(scalar) ==
  LET inner == SubSeq(scalar, 2, Len(scalar) - 1)
      kept == {i \in DOMAIN inner : ~(inner[i] = Escape /\ i < Len(inner) /\ inner[i + 1] = Quote)}
  IN [k \in 1..Len(SetToSortSeq(kept, <)) |-> inner[SetToSortSeq(kept, <)[k]]]
-------------------------------------------------------------------------------
CONSTANT Texts    \* the commands a user may type
VARIABLE doc         \* the commands of the waypoints to be saved

FileInit == doc \in UNION {[1..n -> Texts] : n \in 1..2}
Again == UNCHANGED doc

\* An instance of the formats alone.
FileSpec == FileInit /\ [][Again]_doc
Words == BoundedSeq({Letter, Comma}, 2)

\* Typed without blanks or commas at its ends, and not as a quotation.
Plain(c) ==
  c = <<>> \/ /\ {Head(c), Last(c)} \cap {Comma, Blank} = {}
              /\ Unquoted(c) = c

\* A command survives being saved and loaded, in either format, whatever the commands of
\* the other waypoints (for CSV, if there are any commands) and with commas and quotes in
\* the middle.
FilesKeepCommands ==
  /\ \A i \in DOMAIN doc : YamlLoad(YamlSave(doc[i])) = doc[i]
  /\ (\E i \in DOMAIN doc : doc[i] # <<>>) =>
       \A i \in DOMAIN doc : Plain(doc[i]) => CsvLoad(CsvSave(doc))[i] = doc[i]

\* "select the previously saved .csv or .yaml file": loading brings the waypoints back.
CsvKeepsWaypoints == Len(CsvLoad(CsvSave(doc))) = Len(doc)
===============================================================================
