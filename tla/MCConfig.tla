------------------------------ MODULE MCConfig ------------------------------
(* Configuration files for TLC: all short ones over a few characters, and  *)
(* every text that differs from a longer configuration in one place.       *)
EXTENDS ConfigGrammar

ShortChars == {"{", "}", ";", "#", "dq", "bs", "LF", "a"}
Short == SeqOf(ShortChars, 4)

Listen == <<"listen", "SP", "7", ";">>
Quote == <<"a", "SP", "dq", ";", "bs", "dq", "dq", ";">>

Configs ==
  {<<"a", "{">> \o Listen \o <<"}", "LF", "a", ";">> \o Listen,
   Listen \o <<"a", "{", "a", "{", "}", "}">>,
   <<"a", "{">> \o Listen \o <<"}", "a", "SP", "{", "listen", "SP", "7", "7", ";", "}">>,
   <<"#", "}", "LF", "sq", "dq", "sq", "{">> \o Quote \o <<"}">>,
   <<"listen", "SP", "0", ";">> \o Listen,
   <<"listen", "SP", "7", "7", "7", "7", "7", ";">>}

Edited(s) ==
  {RemoveAt(s, i) : i \in 1..Len(s)}
  \cup {InsertAt(s, i, c) : i \in 1..(Len(s) + 1), c \in Chars}
  \cup {[s EXCEPT ![i] = c] : i \in 1..Len(s), c \in Chars}

AllTexts == Short \cup UNION {Edited(s) : s \in Configs}
=============================================================================
