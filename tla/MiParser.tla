------------------------------ MODULE MiParser ------------------------------
(***************************************************************************)
(* The parser of a record: the code's recursive descent, over the tokens   *)
(* of MiGrammar.  What each function of it returns is the cursor after     *)
(* what it parsed, 0 for an error, and the tree.                           *)
(***************************************************************************)
EXTENDS Naturals, SequencesExt

Node(kind, of) == [kind |-> kind, of |-> of]
Parsed(at, tree) == [at |-> at, tree |-> tree]
Invalid == Parsed(0, <<>>)
Peek(text, i) == IF i \in DOMAIN text THEN text[i] ELSE "none"

\* The loop of parse_list looks ahead for a name and what follows it.
NameAhead(text, i) == Peek(text, i) = "name" /\ Peek(text, i + 1) = "equals"
\* What may follow the last element of a tuple, of a record and of a list.
Terminators == [fields |-> {"rbrace", "none"}, body |-> {"none"}, items |-> {"rbracket"}]

\* The code's functions, at a position of the text.  What they return when they
\* call one another further on is in P: P[i][form] is what is parsed at i.

\* parse_value, with parse_list and the tuple's call of parse_result_sequence; an
\* empty tuple or list does not enter the loops.
Within(P, text, i, elements, close, kind) ==
  LET r == IF Peek(text, i + 1) = close THEN Parsed(i + 1, <<>>) ELSE P[i + 1][elements]
  IN IF r.at # 0 /\ Peek(text, r.at) = close
     THEN Parsed(r.at + 1, Node(kind, r.tree)) ELSE Invalid
ValueAt(P, text, i) ==
  CASE Peek(text, i) = "str" -> Parsed(i + 1, Node("const", <<>>))
    [] Peek(text, i) = "lbrace" -> Within(P, text, i, "fields", "rbrace", "tuple")
    [] Peek(text, i) = "lbracket" -> Within(P, text, i, "items", "rbracket", "list")
    [] OTHER -> Invalid

\* parse_result
ResultAt(P, text, i) ==
  LET value == P[i + 2]["value"]
  IN IF NameAhead(text, i) /\ value.at # 0
     THEN Parsed(value.at, Node("result", <<value.tree>>)) ELSE Invalid

\* The loops of parse_result_sequence, in a tuple and in a record, and of
\* parse_list: an element, and the rest after a comma.
ElementAt(P, text, form, i) ==
  IF form = "items" /\ ~NameAhead(text, i) THEN ValueAt(P, text, i) ELSE ResultAt(P, text, i)
SequenceAt(P, text, form, i) ==
  LET first == ElementAt(P, text, form, i)
      rest == P[first.at + 1][form]
  IN CASE first.at # 0 /\ Peek(text, first.at) = "comma" /\ rest.at # 0 ->
            Parsed(rest.at, <<first.tree>> \o rest.tree)
       [] first.at # 0 /\ Peek(text, first.at) \in Terminators[form] ->
            Parsed(first.at, <<first.tree>>)
       [] OTHER -> Invalid

Forms == {"value"} \cup DOMAIN Terminators
ParsedAt(P, text, i) ==
  [form \in Forms |->
    IF form = "value" THEN ValueAt(P, text, i) ELSE SequenceAt(P, text, form, i)]
Parse(text) ==
  LET P[i \in 1..(Len(text) + 1)] == ParsedAt(P, text, i) IN P

\* What follows a record's class.  GDB's download progress has no variable.
ParseBody(text, i) ==
  LET v == Parse(text)[i]["value"]
      bare == text[i - 2] = "+download" /\ Peek(text, i) = "lbrace"
      r == IF bare THEN Parsed(v.at, <<Node("result", <<v.tree>>)>>)
           ELSE Parse(text)[i]["body"]
  IN IF r.at = Len(text) + 1 THEN Parsed(r.at, Node("record", r.tree)) ELSE Invalid

\* parse_record.  Only records with a class may have a token, a number that fits
\* in 64 bits; the class ends at the first comma.
Classes == {"^done", "+download"}
ClassAt(text) == IF text[1] \in {"digits", "overflow"} THEN 2 ELSE 1
HasClass(text) ==
  /\ text[1] # "overflow" /\ ~Contains(text, "invalid-utf8")
  /\ Peek(text, ClassAt(text)) \in Classes
ParseRecord(text) ==
  LET i == ClassAt(text)
  IN CASE text = <<"(gdb)">> -> Parsed(2, Node("prompt", <<>>))
       [] text = <<"~", "str">> -> Parsed(3, Node("stream", <<>>))
       [] HasClass(text) /\ Len(text) = i -> Parsed(i + 1, Node("record", <<>>))
       [] HasClass(text) /\ Peek(text, i + 1) = "comma" -> ParseBody(text, i + 2)
       [] OTHER -> Invalid
=============================================================================
