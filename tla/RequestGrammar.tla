--------------------------- MODULE RequestGrammar ---------------------------
(***************************************************************************)
(* What a request is, line by line: the reference request_parser is        *)
(* checked against.  s is a text, and a, b, e and n are places in it.      *)
(***************************************************************************)
EXTENDS RequestParser, FiniteSetsExt

Blank(c) == c \in {"SP", "HT"}
Token(s, a, b) == a <= b /\ \A i \in a..b : Plain(s[i])
Text(s, a, b) == \A i \in a..b : ~is_ctl(s[i])
Number(s, a, b) == a <= b /\ \A i \in a..b : is_digit(s[i])

(* The first place from a to b with a character of C; b + 1 without one.   *)
First(C, s, a, b) == Min({i \in a..(b + 1) : i = b + 1 \/ s[i] \in C})

(* method SP uri SP HTTP/major.minor, up to e: the uri holds no space.     *)
Space1(s, e) == First({"SP"}, s, 1, e)
Space2(s, e) == First({"SP"}, s, Space1(s, e) + 1, e)
Dot(s, e) == First({"."}, s, Space2(s, e) + 6, e)
IsRequestLine(s, e) ==
  /\ Space1(s, e) <= e /\ Token(s, 1, Space1(s, e) - 1)
  /\ Space2(s, e) + 5 <= e /\ Text(s, Space1(s, e) + 1, Space2(s, e) - 1)
  /\ SubSeq(s, Space2(s, e) + 1, Space2(s, e) + 5) = <<"H", "T", "T", "P", "/">>
  /\ Number(s, Space2(s, e) + 6, Dot(s, e) - 1) /\ Number(s, Dot(s, e) + 1, e)

(* From a to b: name, colon, exactly one space, value.                     *)
Colon(s, a, b) == First({":"}, s, a, b)
IsHeader(s, a, b) ==
  /\ Token(s, a, Colon(s, a, b) - 1)
  /\ Colon(s, a, b) < b /\ s[Colon(s, a, b) + 1] = "SP"
  /\ Text(s, Colon(s, a, b) + 2, b)

(* A continuation: blanks, then text.                                      *)
Indented(s, a, b) == First(Chars \ {"SP", "HT"}, s, a, b)
IsFold(s, a, b) == a <= b /\ Blank(s[a]) /\ Text(s, Indented(s, a, b), b)

(* The line whose CR is at e: the first is the request line, a header has  *)
(* to come before a continuation.                                          *)
LineBegin(s, e) == 1 + Max({0} \cup {i \in 1..(e - 1) : s[i] = "LF"})
IsLine(s, a, e) ==
  \/ a = 1 /\ IsRequestLine(s, e - 1)
  \/ a > 1 /\ IsHeader(s, a, e - 1)
  \/ (\E i \in 1..(a - 2) : s[i] = "LF") /\ IsFold(s, a, e - 1)

(* Up to n lines, each ends in CR LF, and neither is anywhere else.        *)
IsLines(s, n) ==
  /\ n > 0 /\ s[n] = "LF"
  /\ \A i \in 1..n : s[i] = "LF" => i > 1 /\ s[i - 1] = "CR"
  /\ \A i \in 1..n : s[i] = "CR" =>
       i < n /\ s[i + 1] = "LF" /\ IsLine(s, LineBegin(s, i), i)

IsRequest(s, n) ==
  n > 2 /\ IsLines(s, n - 2) /\ s[n - 1] = "CR" /\ s[n] = "LF"

(* The headers of the lines: a continuation is put behind the last value.  *)
AddLine(headers, s, a, b) ==
  IF Blank(s[a])
  THEN [headers EXCEPT ![Len(headers)].value =
                         @ \o SubSeq(s, Indented(s, a, b), b)]
  ELSE Append(headers, [name |-> SubSeq(s, a, Colon(s, a, b) - 1),
                        value |-> SubSeq(s, Colon(s, a, b) + 2, b)])
HeadersUpto(s) ==
  LET upto[n \in 0..Len(s)] ==
        IF n = 0 THEN <<>>
        ELSE IF s[n] = "CR" /\ LineBegin(s, n) \notin {1, n}
        THEN AddLine(upto[n - 1], s, LineBegin(s, n), n - 1)
        ELSE upto[n - 1]
  IN  upto

NumberOf(s, a, b) ==
  LET upto[n \in 0..Len(s)] ==
        IF n < a THEN 0 ELSE 10 * upto[n - 1] + Value(s[n])
  IN  upto[b]

RequestOf(s, n) ==
  LET e == First({"CR"}, s, 1, Len(s)) - 1
  IN  [original_req |-> SubSeq(s, 1, n),
       method |-> SubSeq(s, 1, Space1(s, e) - 1),
       uri |-> SubSeq(s, Space1(s, e) + 1, Space2(s, e) - 1),
       http_version_major |-> NumberOf(s, Space2(s, e) + 6, Dot(s, e) - 1),
       http_version_minor |-> NumberOf(s, Dot(s, e) + 1, e),
       headers |-> HeadersUpto(s)[n]]

-----------------------------------------------------------------------------
(* "true when a complete request has been parsed, false if the data is     *)
(* invalid" (request_parser.h), however the input is cut into pieces and   *)
(* whatever was parsed before: parse says good at the end of a request and *)
(* nowhere else, and bad only where no request begins.                     *)
VerdictExact ==
  fresh =>
    /\ result = "good" <=> IsRequest(text, pos)
    /\ result = "bad" => \A n \in pos..Len(text) : ~IsRequest(text, n)

(* A good request's fields are the parts of its text.                      *)
FieldsExact == fresh /\ result = "good" => req = RequestOf(text, pos)
=============================================================================
