------------------------------ MODULE MCRequest ------------------------------
(* Inputs of the request parser for TLC: a few requests, and every text    *)
(* that differs from one of them in one place.                             *)
EXTENDS RequestGrammar, SequencesExt

CRLF == <<"CR", "LF">>
Line(m, u, v) == m \o <<"SP">> \o u \o <<"SP", "H", "T", "T", "P", "/">> \o v \o CRLF
V11 == <<"1", ".", "1">>
AHeader == <<"a", ":", "SP", "1">> \o CRLF
Folded == <<"HT", "SP", ":">> \o CRLF

Requests ==
  {Line(<<"a", "H">>, <<"/">>, V11) \o AHeader \o Folded \o CRLF,
   Line(<<"a">>, <<>>, <<"1", "0", ".", "0", "1">>) \o AHeader \o AHeader \o CRLF,
   Line(<<"a">>, <<"8bit">>, V11) \o CRLF}

(* One character missing, one too many, or one for another.                *)
Edited(s) ==
  {RemoveAt(s, i) : i \in 1..Len(s)}
  \cup {InsertAt(s, i, c) : i \in 1..(Len(s) + 1), c \in Chars}
  \cup {[s EXCEPT ![i] = c] : i \in 1..Len(s), c \in Chars}

AllTexts == UNION {Edited(s) : s \in Requests}

(* After a reset: a request, and one whose first header line is blank.     *)
Seconds ==
  {Line(<<"P">>, <<"/">>, V11) \o AHeader \o CRLF,
   Line(<<"P">>, <<"/">>, V11) \o Folded \o CRLF}
=============================================================================
