--------------------------- MODULE ConfigGrammar ---------------------------
(***************************************************************************)
(* What a configuration is: the reference NginxConfigParser is checked     *)
(* against.  A configuration is a sequence of statements; a statement is   *)
(* one word or more, and ";" or a configuration in braces.                 *)
(***************************************************************************)
EXTENDS ConfigParser

Punctuation == {<<"{">>, <<"}">>, <<";">>}
Word(token) == token \notin Punctuation

Words(s, a, b) == a <= b /\ \A i \in a..b : Word(s[i])

(* Where the configurations that begin at a end: before their first        *)
(* statement, and behind each one.                                         *)
Ends(s) ==
  LET ends[a \in 1..(Len(s) + 1)] ==
        LET last(b) ==  \* the last token of a statement whose words end at b
              IF s[b + 1] = <<";">> THEN {b + 1}
              ELSE IF s[b + 1] = <<"{">>
              THEN {c \in ends[b + 2] : c \in (b + 2)..Len(s) /\ s[c] = <<"}">>}
              ELSE {}
        IN  {a} \cup UNION {ends[c + 1] : c \in
              UNION {last(b) : b \in {i \in a..(Len(s) - 1) : Words(s, a, i)}}}
  IN  ends

IsConfig(s) == Len(s) + 1 \in Ends(s)[1]

(* s begins a configuration: closing what is open completes it.            *)
BeginsConfig(s) ==
  \E k \in 0..Len(s), end \in {<<>>, << <<";">> >>, << <<"{">>, <<"}">> >>} :
    IsConfig(s \o end \o [n \in 1..k |-> <<"}">>])

(* The tokens of a tree, in the order of the text.                         *)
TokensOf(tree) ==
  LET block[n \in DOMAIN tree] ==
        LET statement(s) ==
              s.tokens \o (IF s.child = None THEN << <<";">> >>
                           ELSE << <<"{">> >> \o block[s.child] \o << <<"}">> >>)
        IN  FlattenSeq([i \in 1..Len(tree[n]) |-> statement(tree[n][i])])
  IN  block[1]

(* The tokens of a text without quotes, comments and carriage returns: the *)
(* punctuation, and the longest runs of anything else; a word is complete  *)
(* when something follows it.                                              *)
Simple(s) == \A i \in DOMAIN s : s[i] \notin {"dq", "sq", "#", "CR"}
IsWord(s, i, j) ==
  /\ j < Len(s) /\ s[j + 1] \in Separators
  /\ i > 1 => s[i - 1] \in Separators
  /\ \A k \in i..j : s[k] \notin Separators
TokenAt(s, i) ==
  IF s[i] \in {"{", "}", ";"} THEN << <<s[i]>> >>
  ELSE IF \E j \in i..Len(s) : IsWord(s, i, j)
  THEN << SubSeq(s, i, CHOOSE j \in i..Len(s) : IsWord(s, i, j)) >>
  ELSE <<>>
Spelled(s) ==
  LET upto[n \in 0..Len(s)] == IF n = 0 THEN <<>> ELSE upto[n - 1] \o TokenAt(s, n)
  IN  upto[Len(s)]

(* A token that reads the same when it is printed: no escape was taken out *)
(* of its quotes.                                                          *)
Printable(token) ==
  token[1] \in {"dq", "sq"} =>
    \A i \in 2..(Len(token) - 1) : token[i] \notin {token[1], "bs"}
AllPrintable(tree) ==
  \A b \in DOMAIN tree : \A i \in DOMAIN tree[b] :
    \A t \in Range(tree[b][i].tokens) : Printable(t)

-----------------------------------------------------------------------------
(* Parse's automaton over the tokens that ParseToken hands it, whatever    *)
(* that one drops: it returns true only for a configuration, and gives up  *)
(* or pops an empty stack only at a quote that does not end properly or at *)
(* a token no configuration can have there.                                *)
VerdictExact ==
  /\ outcome = "true" => IsConfig(seen)
  /\ outcome \in {"false", "undefined"} /\ state \notin {"dq", "sq"} =>
       /\ ~IsConfig(seen)
       /\ pos < Len(text) => ~BeginsConfig(seen)

(* Nothing of the text is lost or joined, whatever separates the words,    *)
(* but for a last word that no separator follows: that one is dropped.     *)
LexExact ==
  outcome = "true" /\ Simple(text) => seen = Spelled(text)

(* "Returns true iff the input config file is valid" (config_parser.h), of *)
(* the text, whose last word counts as much as the others: Parse returns,  *)
(* and returns true for a configuration only.                              *)
ReturnsTrueIffValid ==
  Simple(text) /\ outcome \in {"true", "false", "undefined"} =>
    outcome = IF IsConfig(Spelled(Append(text, "LF"))) THEN "true" ELSE "false"

(* The tree of an accepted text holds its tokens, in order and nested as   *)
(* the braces are.                                                         *)
TreeExact == outcome = "true" => TokensOf(blocks) = seen

(* A configuration printed by ToString is accepted and gives the same      *)
(* tree, if no token had an escaped quote or backslash.                    *)
RoundTrip ==
  reparses > 0 /\ AllPrintable(printed) =>
    /\ outcome \in {"running", "true"}
    /\ outcome = "true" => blocks = printed
=============================================================================
