--------------------------- MODULE RequestParser ---------------------------
(***************************************************************************)
(* The HTTP request parser: request_parser.cc and request_parser.h.        *)
(*                                                                         *)
(* A caller hands parse a piece of its input at a time; parse calls        *)
(* consume for one character after the other until the request is good or  *)
(* bad or the piece is used up.  state_ stays in the parser and the fields *)
(* read so far stay in the caller's request object from call to call;      *)
(* reset puts back state_, not the object.                                 *)
(*                                                                         *)
(* A character stands for the class consume puts it in: "a" for the other  *)
(* token characters, "quote" for the other tspecials, "CTL" for the other  *)
(* control characters, "8bit" for bytes above 127 (negative as a char).    *)
(***************************************************************************)
EXTENDS Integers, Sequences

Chars ==
  {"SP", "HT", "CR", "LF", ":", "/", ".", "H", "T", "P", "0", "1", "a",
   "quote", "CTL", "8bit"}

CONSTANTS
  Texts,      \* the inputs of the first request
  NextTexts,  \* the inputs of a request that follows a reset
  Pieces,     \* how many characters a call of parse may be given
  MaxResets   \* bound: calls of reset

ASSUME ParserAssumption ==
  /\ Texts \cup NextTexts \subseteq Seq(Chars)
  /\ Pieces \subseteq Nat \ {0}
  /\ MaxResets \in Nat

is_char(c) == c # "8bit"
is_ctl(c) == c \in {"HT", "CR", "LF", "CTL"}
is_tspecial(c) == c \in {"SP", "HT", ":", "/", "quote"}
is_digit(c) == c \in {"0", "1"}

(* What a method and a header name are made of.                            *)
Plain(c) == is_char(c) /\ ~is_ctl(c) /\ ~is_tspecial(c)

VARIABLES
  text,    \* the caller's input
  pos,     \* how much of it parse has consumed (begin)
  end,     \* the end of the piece parse was called with
  state_,  \* the parser's state
  req,     \* the caller's request object
  result,  \* what the last call of consume returned
  resets,  \* how often reset was called
  fresh    \* history: the object was new when its request began

vars == <<text, pos, end, state_, req, result, resets, fresh>>

States ==
  {"method_start", "method", "uri", "http_version_h", "http_version_t_1",
   "http_version_t_2", "http_version_p", "http_version_slash",
   "http_version_major_start", "http_version_major",
   "http_version_minor_start", "http_version_minor", "expecting_newline_1",
   "header_line_start", "header_lws", "header_name",
   "space_before_header_value", "header_value", "expecting_newline_2",
   "expecting_newline_3"}

(* A default-initialised object leaves the version indeterminate; no state *)
(* reads it before http_version_slash has set it.                          *)
NewRequest ==
  [original_req |-> <<>>, method |-> <<>>, uri |-> <<>>,
   http_version_major |-> 0, http_version_minor |-> 0, headers |-> <<>>]

Init ==
  /\ text \in Texts
  /\ pos = 0 /\ end = 0
  /\ state_ = "method_start"
  /\ req = NewRequest
  /\ result = "indeterminate"
  /\ resets = 0
  /\ fresh = TRUE

-----------------------------------------------------------------------------
(* The caller.                                                             *)

(* Mutant of Parse: the piece may end behind the input.                    *)
ParsePast(n) ==
  /\ result = "indeterminate" /\ pos = end /\ pos < Len(text)
  /\ end' = pos + n
  /\ UNCHANGED <<text, pos, state_, req, result, resets, fresh>>

(* parse(req, begin, end) with the next n characters, or what is left.     *)
Parse(n) ==
  /\ result = "indeterminate" /\ pos = end /\ pos < Len(text)
  /\ end' = IF pos + n < Len(text) THEN pos + n ELSE Len(text)
  /\ UNCHANGED <<text, pos, state_, req, result, resets, fresh>>

(* Mutant of Reset: state_ is left as it is.                               *)
ResetNothing(t, r) ==
  /\ resets < MaxResets /\ result # "indeterminate"
  /\ text' = t /\ pos' = 0 /\ end' = 0
  /\ state_' = state_
  /\ req' = r
  /\ result' = "indeterminate"
  /\ resets' = resets + 1
  /\ fresh' = (r = NewRequest)

(* reset(), and the next request t into the object r.                      *)
Reset(t, r) ==
  /\ resets < MaxResets /\ result # "indeterminate"
  /\ text' = t /\ pos' = 0 /\ end' = 0
  /\ state_' = "method_start"
  /\ req' = r
  /\ result' = "indeterminate"
  /\ resets' = resets + 1
  /\ fresh' = (r = NewRequest)

-----------------------------------------------------------------------------
(* consume(req, c), one action per group of cases.                         *)

(* consume is called with c: parse's loop.                                 *)
Next_c == text[pos + 1]
Reads(c) == result = "indeterminate" /\ pos < end /\ c = Next_c

(* original_req gets every character; r is what else the case has done.    *)
Took(c, r) ==
  /\ req' = [r EXCEPT !.original_req = Append(@, c)]
  /\ pos' = pos + 1
  /\ UNCHANGED <<text, end, resets, fresh>>

Goto(c, label, r) ==
  Took(c, r) /\ state_' = label /\ result' = "indeterminate"

Bad(c) == Took(c, req) /\ state_' = state_ /\ result' = "bad"

Method(c) ==
  /\ Reads(c) /\ state_ \in {"method_start", "method"}
  /\ \/ /\ state_ = "method" /\ c = "SP"
        /\ Goto(c, "uri", req)
     \/ /\ Plain(c)
        /\ Goto(c, "method", [req EXCEPT !.method = Append(@, c)])
     \/ /\ ~Plain(c) /\ ~(state_ = "method" /\ c = "SP")
        /\ Bad(c)

Uri(c) ==
  /\ Reads(c) /\ state_ = "uri"
  /\ \/ c = "SP" /\ Goto(c, "http_version_h", req)
     \/ is_ctl(c) /\ Bad(c)
     \/ /\ c # "SP" /\ ~is_ctl(c)
        /\ Goto(c, "uri", [req EXCEPT !.uri = Append(@, c)])

(* The states that wait for one character, and the state behind it.        *)
Literal ==
  [http_version_h            |-> [char |-> "H",  to |-> "http_version_t_1"],
   http_version_t_1          |-> [char |-> "T",  to |-> "http_version_t_2"],
   http_version_t_2          |-> [char |-> "T",  to |-> "http_version_p"],
   http_version_p            |-> [char |-> "P",  to |-> "http_version_slash"],
   expecting_newline_1       |-> [char |-> "LF", to |-> "header_line_start"],
   space_before_header_value |-> [char |-> "SP", to |-> "header_value"],
   expecting_newline_2       |-> [char |-> "LF", to |-> "header_line_start"]]

Expect(c) ==
  /\ Reads(c) /\ state_ \in DOMAIN Literal
  /\ \/ c = Literal[state_].char /\ Goto(c, Literal[state_].to, req)
     \/ c # Literal[state_].char /\ Bad(c)

Slash(c) ==
  /\ Reads(c) /\ state_ = "http_version_slash"
  /\ \/ /\ c = "/"
        /\ Goto(c, "http_version_major_start",
                [req EXCEPT !.http_version_major = 0, !.http_version_minor = 0])
     \/ c # "/" /\ Bad(c)

Value(c) == IF c = "1" THEN 1 ELSE 0

Major(c) ==
  /\ Reads(c) /\ state_ \in {"http_version_major_start", "http_version_major"}
  /\ \/ /\ state_ = "http_version_major" /\ c = "."
        /\ Goto(c, "http_version_minor_start", req)
     \/ /\ is_digit(c)
        /\ Goto(c, "http_version_major",
                [req EXCEPT !.http_version_major = 10 * @ + Value(c)])
     \/ /\ ~is_digit(c) /\ ~(state_ = "http_version_major" /\ c = ".")
        /\ Bad(c)

Minor(c) ==
  /\ Reads(c) /\ state_ \in {"http_version_minor_start", "http_version_minor"}
  /\ \/ /\ state_ = "http_version_minor" /\ c = "CR"
        /\ Goto(c, "expecting_newline_1", req)
     \/ /\ is_digit(c)
        /\ Goto(c, "http_version_minor",
                [req EXCEPT !.http_version_minor = 10 * @ + Value(c)])
     \/ /\ ~is_digit(c) /\ ~(state_ = "http_version_minor" /\ c = "CR")
        /\ Bad(c)

(* req.headers.back(); on an empty vector its behaviour is undefined.      *)
Back(field, c) ==
  [req EXCEPT !.headers[Len(req.headers)][field] = Append(@, c)]

(* Mutant of HeaderLineStart: a continuation is accepted at any line.      *)
HeaderLineStartFolds(c) ==
  /\ Reads(c) /\ state_ = "header_line_start"
  /\ \/ c = "CR" /\ Goto(c, "expecting_newline_3", req)
     \/ c \in {"SP", "HT"} /\ Goto(c, "header_lws", req)
     \/ c # "CR" /\ c \notin {"SP", "HT"} /\ ~Plain(c) /\ Bad(c)
     \/ /\ Plain(c)
        /\ Goto(c, "header_name",
                [req EXCEPT !.headers = Append(@, [name |-> <<c>>, value |-> <<>>])])

(* A blank continues the last header's value, if there is a header.        *)
HeaderLineStart(c) ==
  LET folds == c \in {"SP", "HT"} /\ req.headers # <<>>
  IN  /\ Reads(c) /\ state_ = "header_line_start"
      /\ \/ c = "CR" /\ Goto(c, "expecting_newline_3", req)
         \/ folds /\ Goto(c, "header_lws", req)
         \/ c # "CR" /\ ~folds /\ ~Plain(c) /\ Bad(c)
         \/ /\ Plain(c)
            /\ Goto(c, "header_name",
                    [req EXCEPT !.headers =
                                  Append(@, [name |-> <<c>>, value |-> <<>>])])

HeaderName(c) ==
  /\ Reads(c) /\ state_ = "header_name"
  /\ \/ c = ":" /\ Goto(c, "space_before_header_value", req)
     \/ c # ":" /\ ~Plain(c) /\ Bad(c)
     \/ Plain(c) /\ Goto(c, "header_name", Back("name", c))

(* Mutant of HeaderLws: the blanks become part of the value.               *)
HeaderLwsKeeps(c) ==
  /\ Reads(c) /\ state_ = "header_lws"
  /\ \/ c = "CR" /\ Goto(c, "expecting_newline_2", req)
     \/ c # "CR" /\ c # "HT" /\ is_ctl(c) /\ Bad(c)
     \/ /\ c # "CR" /\ (c = "HT" \/ ~is_ctl(c))
        /\ Goto(c, "header_value", Back("value", c))

HeaderLws(c) ==
  /\ Reads(c) /\ state_ = "header_lws"
  /\ \/ c = "CR" /\ Goto(c, "expecting_newline_2", req)
     \/ c \in {"SP", "HT"} /\ Goto(c, "header_lws", req)
     \/ c \notin {"CR", "SP", "HT"} /\ is_ctl(c) /\ Bad(c)
     \/ /\ c \notin {"CR", "SP", "HT"} /\ ~is_ctl(c)
        /\ Goto(c, "header_value", Back("value", c))

HeaderValue(c) ==
  /\ Reads(c) /\ state_ = "header_value"
  /\ \/ c = "CR" /\ Goto(c, "expecting_newline_2", req)
     \/ c # "CR" /\ is_ctl(c) /\ Bad(c)
     \/ ~is_ctl(c) /\ Goto(c, "header_value", Back("value", c))

(* state_ stays; what follows the request is not consumed.                 *)
LastNewline(c) ==
  /\ Reads(c) /\ state_ = "expecting_newline_3"
  /\ \/ c = "LF" /\ Took(c, req) /\ state_' = state_ /\ result' = "good"
     \/ c # "LF" /\ Bad(c)

Consume(c) ==
  \/ Method(c) \/ Uri(c) \/ Expect(c) \/ Slash(c) \/ Major(c) \/ Minor(c)
  \/ HeaderLineStart(c) \/ HeaderName(c) \/ HeaderLws(c) \/ HeaderValue(c)
  \/ LastNewline(c)

-----------------------------------------------------------------------------
Next ==
  \/ \E n \in Pieces : Parse(n)
  \/ \E c \in Chars : Consume(c)
  \/ \E t \in NextTexts : \E r \in {NewRequest, req} : Reset(t, r)

Spec == Init /\ [][Next]_vars

-----------------------------------------------------------------------------
Header == [name : Seq(Chars), value : Seq(Chars)]

Request ==
  [original_req : Seq(Chars), method : Seq(Chars), uri : Seq(Chars),
   http_version_major : Nat, http_version_minor : Nat, headers : Seq(Header)]

(* The variables stay in their types, and parse stays within its piece.    *)
TypeOK ==
  /\ text \in Seq(Chars)
  /\ end \in 0..Len(text) /\ pos \in 0..end
  /\ state_ \in States
  /\ req \in Request
  /\ result \in {"good", "bad", "indeterminate"}
  /\ resets \in 0..MaxResets
  /\ fresh \in BOOLEAN

(* Where consume may call req.headers.back(), there is a header: in a      *)
(* first request, after a reset, with a new and with a used object.        *)
HeadersBacked ==
  state_ \in {"header_lws", "header_name", "space_before_header_value",
              "header_value", "expecting_newline_2"}
  => req.headers # <<>>
=============================================================================
