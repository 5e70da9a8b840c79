----------------------------- MODULE MiGrammar ------------------------------
(***************************************************************************)
(* What GDB writes: pairs of a text and the tree it stands for.  A token   *)
(* stands for the bytes it names; a run of identifier bytes is one token,  *)
(* and so is a C string.  What MiStream reads of it is this tree.          *)
(***************************************************************************)
EXTENDS MiStream

CONSTANT MaxValue  \* bound: tokens of what follows a record's class

\* The grammar has every record that push does not refuse for its length.
ASSUME GrammarAssumption ==
  MaxValue \in Nat /\ MaxRecord <= MaxValue + 2 /\ "none" \notin Tokens
-----------------------------------------------------------------------------
Punctuation == {"comma", "equals", "lbrace", "rbrace", "lbracket", "rbracket"}
Said(text, tree) == [text |-> text, tree |-> tree]
Named(v) == Said(<<"name", "equals">> \o v.text, Node("result", <<v.tree>>))
Enclosed(open, s, close, kind) == Said(<<open>> \o s.text \o <<close>>, Node(kind, s.tree))
Listed(x, xs) == Said(x.text \o <<"comma">> \o xs.text, <<x.tree>> \o xs.tree)

\* All values, all elements and all non-empty sequences of them, of n tokens: G
\* has the shorter ones.  (GDB does not mix values and results in a list, the
\* parser may.)
Values(G, n) ==
  CASE n = 1 -> {Said(<<"str">>, Node("const", <<>>))}
    [] n = 2 -> {Said(<<"lbrace", "rbrace">>, Node("tuple", <<>>)),
                 Said(<<"lbracket", "rbracket">>, Node("list", <<>>))}
    [] n > 2 -> {Enclosed("lbrace", s, "rbrace", "tuple") : s \in G[n - 2]["results"]}
                \cup {Enclosed("lbracket", s, "rbracket", "list") : s \in G[n - 2]["items"]}
    [] OTHER -> {}
Elements(G, form, n) ==
  (IF n > 2 THEN {Named(v) : v \in G[n - 2]["value"]} ELSE {})
  \cup (IF form = "items" THEN Values(G, n) ELSE {})
Sequences(G, form, n) ==
  {Said(x.text, <<x.tree>>) : x \in Elements(G, form, n)}
  \cup UNION {{Listed(x, xs) : x \in Elements(G, form, k), xs \in G[n - 1 - k][form]} :
              k \in 1..(n - 1)}
OfLength(G, n) ==
  [form \in {"value", "results", "items"} |->
    IF form = "value" THEN Values(G, n) ELSE Sequences(G, form, n)]
Grammar[n \in 0..MaxValue] == OfLength(Grammar, n)

\* A record of a class, with or without results, or with GDB's download progress;
\* any of them may have a token.
Results == UNION {Grammar[n]["results"] : n \in 0..MaxValue}
Tuples == {v \in UNION {Grammar[n]["value"] : n \in 0..MaxValue} : v.tree.kind = "tuple"}
Classed ==
  {Said(<<c>>, Node("record", <<>>)) : c \in Classes}
  \cup {Said(<<c, "comma">> \o s.text, Node("record", s.tree)) : c \in Classes, s \in Results}
  \cup {Said(<<"+download", "comma">> \o v.text, Node("record", <<Node("result", <<v.tree>>)>>)) :
        v \in Tuples}
Documents ==
  {Said(<<"(gdb)">>, Node("prompt", <<>>)), Said(<<"~", "str">>, Node("stream", <<>>))}
  \cup Classed \cup {Said(<<"digits">> \o d.text, d.tree) : d \in Classed}
Texts == {d.text : d \in Documents}
TreeOf == [t \in Texts |-> (CHOOSE d \in Documents : d.text = t).tree]

\* A text with one token gone, or another in its place.  Two identifiers side by
\* side would be one, and a number that does not fit in 64 bits is one within a
\* record.
Identifiers == {"name", "digits", "^done", "+download", "overflow"}
Damaged(text) ==
  {t \in {RemoveAt(text, i) : i \in DOMAIN text}
         \cup {[text EXCEPT ![i] = c] : i \in DOMAIN text,
               c \in Punctuation \cup {"name", "str", "~", "overflow", "invalid-utf8"}} :
     \A i \in 2..Len(t) :
       t[i] # "overflow" /\ ~(t[i - 1] \in Identifiers /\ t[i] = "name")}
Firsts == Texts \cup UNION {Damaged(t) : t \in Texts}
Endings == {<<"\n">>, <<"\r", "\n">>}
Marks == Identifiers \cup Punctuation \cup {"str", "~", "(gdb)", "invalid-utf8", "\r", "\n"}
-----------------------------------------------------------------------------
\* What was written on the line that ends at e; a return may stand before the newline.
Written(e) ==
  SubSeq(stream, Start(e), IF e > Start(e) /\ stream[e - 1] = "\r" THEN e - 2 ELSE e - 1)

\* What GDB wrote is what the session gets: every record of the grammar as the
\* tree it stands for; a line that is none stops the session.
ReadsWhatGdbWrote ==
  /\ \A i \in DOMAIN sent :
       Written(sent[i].end) \in Texts /\ sent[i].tree = TreeOf[Written(sent[i].end)]
  /\ Settled => \A e \in Ends(pos) : Written(e) \in Texts \cup {<<>>}
  /\ error = "invalid" => \E e \in Ends(pos) : Written(e) \notin Texts \cup {<<>>}
=============================================================================
