---------------------------- MODULE RequestProofs ----------------------------
(***************************************************************************)
(* Proofs about the request parser, for any inputs, any way of cutting     *)
(* them into pieces and any number of resets.                              *)
(***************************************************************************)
EXTENDS RequestGrammar, IdListProofs

(* headers.back() is typed where there is a header, and a header is there  *)
(* because a header line was begun in this object.                         *)
Inv == TypeOK /\ HeadersBacked

HeaderStates ==
  {"header_lws", "header_name", "space_before_header_value", "header_value",
   "expecting_newline_2"}

(* An assignment to one field of the request object.                       *)
LEMMA FieldType ==
  ASSUME NEW q \in Request, NEW s \in Seq(Chars), NEW k \in Nat
  PROVE  /\ [q EXCEPT !.original_req = s] \in Request
         /\ [q EXCEPT !.original_req = s].headers = q.headers
         /\ [q EXCEPT !.method = s] \in Request
         /\ [q EXCEPT !.uri = s] \in Request
         /\ [q EXCEPT !.http_version_major = k] \in Request
         /\ [q EXCEPT !.http_version_minor = k] \in Request
BY DEF Request

LEMMA FieldsOf ==
  ASSUME NEW q \in Request, NEW c \in Chars
  PROVE  /\ Append(q.original_req, c) \in Seq(Chars)
         /\ Append(q.method, c) \in Seq(Chars)
         /\ Append(q.uri, c) \in Seq(Chars)
         /\ 10 * q.http_version_major + Value(c) \in Nat
         /\ 10 * q.http_version_minor + Value(c) \in Nat
<1>1. /\ q.original_req \in Seq(Chars) /\ q.method \in Seq(Chars)
      /\ q.uri \in Seq(Chars)
  BY DEF Request
<1>2. q.http_version_major \in Nat /\ q.http_version_minor \in Nat /\ Value(c) \in Nat
  BY DEF Request, Value
<1> QED BY <1>1, <1>2

(* What a step of consume leaves: r is the object without this character   *)
(* in original_req, label the state.                                       *)
LEMMA TookInv ==
  ASSUME Inv, NEW c \in Chars, Reads(c), NEW r \in Request, Took(c, r),
         state_' \in States, result' \in {"good", "bad", "indeterminate"},
         state_' \in HeaderStates => r.headers # <<>>
  PROVE  Inv'
<1>1. req' \in Request /\ req'.headers = r.headers
  BY FieldType, FieldsOf DEF Took
<1>2. pos' \in 0..end' /\ end' \in 0..Len(text') /\ text' = text
  BY DEF Took, Reads, Inv, TypeOK
<1>3. TypeOK'
  BY <1>1, <1>2 DEF Took, Inv, TypeOK
<1> QED BY <1>1, <1>3 DEF Inv, HeadersBacked, HeaderStates

LEMMA GotoInv ==
  ASSUME Inv, NEW c \in Chars, Reads(c), NEW label \in States,
         NEW r \in Request, Goto(c, label, r),
         label \in HeaderStates => r.headers # <<>>
  PROVE  Inv'
BY TookInv DEF Goto

LEMMA BadInv ==
  ASSUME Inv, NEW c \in Chars, Reads(c), Bad(c)
  PROVE  Inv'
<1>1. req \in Request /\ state_ \in States
  BY DEF Inv, TypeOK
<1>2. state_ \in HeaderStates => req.headers # <<>>
  BY DEF Inv, HeadersBacked, HeaderStates
<1> QED BY <1>1, <1>2, TookInv DEF Bad

LEMMA BackType ==
  ASSUME NEW q \in Request, q.headers # <<>>, NEW c \in Chars,
         NEW field \in {"name", "value"}
  PROVE  /\ [q EXCEPT !.headers[Len(q.headers)][field] = Append(@, c)] \in Request
         /\ [q EXCEPT !.headers[Len(q.headers)][field] = Append(@, c)].headers # <<>>
<1> DEFINE hs == q.headers
           n == Len(hs)
           h == [hs[n] EXCEPT ![field] = Append(@, c)]
           new == [hs EXCEPT ![n] = h]
<1>1. hs \in Seq(Header) /\ n \in 1..Len(hs)
  BY EmptySeq DEF Request
<1>2. hs[n] \in Header
  BY <1>1
<1>3. h \in Header
  <2>1. hs[n].name \in Seq(Chars) /\ hs[n].value \in Seq(Chars)
    BY <1>2 DEF Header
  <2>2. Append(hs[n].name, c) \in Seq(Chars) /\ Append(hs[n].value, c) \in Seq(Chars)
    BY <2>1
  <2>3. ASSUME NEW s \in Seq(Chars)
        PROVE  [hs[n] EXCEPT !.name = s] \in Header /\ [hs[n] EXCEPT !.value = s] \in Header
    BY <1>2 DEF Header
  <2>4. h = [hs[n] EXCEPT !.name = Append(hs[n].name, c)]
          \/ h = [hs[n] EXCEPT !.value = Append(hs[n].value, c)]
    BY <1>2 DEF Header
  <2> HIDE DEF h
  <2> QED BY <2>2, <2>3, <2>4
<1>4. new \in Seq(Header) /\ Len(new) = n
  <2> HIDE DEF h
  <2> QED BY <1>1, <1>3
<1>5. new # <<>>
  BY <1>1, <1>4
<1>6. [q EXCEPT !.headers[Len(q.headers)][field] = Append(@, c)]
        = [q EXCEPT !.headers = new]
  BY DEF Request
<1> HIDE DEF new
<1>7. [q EXCEPT !.headers = new] \in Request /\ [q EXCEPT !.headers = new].headers = new
  BY <1>4 DEF Request
<1> QED BY <1>5, <1>6, <1>7

LEMMA NewRequestType == NewRequest \in Request
BY DEF NewRequest, Request

LEMMA InvInit == Init => Inv
<1> SUFFICES ASSUME Init PROVE Inv
  OBVIOUS
<1>1. text \in Seq(Chars)
  BY ParserAssumption DEF Init
<1>2. 0 \in 0..Len(text) /\ 0 \in 0..0 /\ 0 \in 0..MaxResets
  BY <1>1, ParserAssumption
<1> QED BY <1>1, <1>2, NewRequestType DEF Init, Inv, TypeOK, HeadersBacked, States

LEMMA RequestLineInv ==
  ASSUME Inv, NEW c \in Chars,
         Method(c) \/ Uri(c) \/ Expect(c) \/ Slash(c) \/ Major(c) \/ Minor(c)
  PROVE  Inv'
<1>0. req \in Request
  BY DEF Inv, TypeOK
<1>1. CASE Bad(c)
  BY <1>1, BadInv DEF Method, Uri, Expect, Slash, Major, Minor
<1>2. CASE Method(c)
  <2>1. [req EXCEPT !.method = Append(@, c)] \in Request
    BY <1>0, FieldType, FieldsOf
  <2> QED BY <1>0, <1>1, <1>2, <2>1, GotoInv DEF Method, States, HeaderStates
<1>3. CASE Uri(c)
  <2>1. [req EXCEPT !.uri = Append(@, c)] \in Request
    BY <1>0, FieldType, FieldsOf
  <2> QED BY <1>0, <1>1, <1>3, <2>1, GotoInv DEF Uri, States, HeaderStates
<1>4. CASE Expect(c) /\ ~Bad(c)
  <2>1. Reads(c) /\ state_ \in DOMAIN Literal /\ Goto(c, Literal[state_].to, req)
    BY <1>4 DEF Expect
  <2>2. /\ Literal[state_].to \in States
        /\ Literal[state_].to \in HeaderStates => state_ \in HeaderStates
    BY <2>1 DEF Literal, States, HeaderStates
  <2> QED BY <1>0, <2>1, <2>2, GotoInv DEF Inv, HeadersBacked, HeaderStates
<1>5. CASE Slash(c)
  <2>1. [req EXCEPT !.http_version_major = 0, !.http_version_minor = 0] \in Request
    BY <1>0 DEF Request
  <2> QED BY <1>1, <1>5, <2>1, GotoInv DEF Slash, States, HeaderStates
<1>6. CASE Major(c)
  <2>1. [req EXCEPT !.http_version_major = 10 * @ + Value(c)] \in Request
    <3> DEFINE k == 10 * req.http_version_major + Value(c)
    <3>1. k \in Nat
      BY <1>0, FieldsOf
    <3> HIDE DEF k
    <3>2. [req EXCEPT !.http_version_major = k] \in Request
      BY <1>0, <3>1 DEF Request
    <3> QED BY <3>2 DEF k
  <2> QED BY <1>0, <1>1, <1>6, <2>1, GotoInv DEF Major, States, HeaderStates
<1>7. CASE Minor(c)
  <2>1. [req EXCEPT !.http_version_minor = 10 * @ + Value(c)] \in Request
    <3> DEFINE k == 10 * req.http_version_minor + Value(c)
    <3>1. k \in Nat
      BY <1>0, FieldsOf
    <3> HIDE DEF k
    <3>2. [req EXCEPT !.http_version_minor = k] \in Request
      BY <1>0, <3>1 DEF Request
    <3> QED BY <3>2 DEF k
  <2> QED BY <1>0, <1>1, <1>7, <2>1, GotoInv DEF Minor, States, HeaderStates
<1> QED BY <1>1, <1>2, <1>3, <1>4, <1>5, <1>6, <1>7

LEMMA HeaderInv ==
  ASSUME Inv, NEW c \in Chars,
         \/ HeaderLineStart(c) \/ HeaderName(c) \/ HeaderLws(c)
         \/ HeaderValue(c) \/ LastNewline(c)
  PROVE  Inv'
<1>0. req \in Request /\ state_ \in States
  BY DEF Inv, TypeOK
<1>1. CASE Bad(c)
  BY <1>1, BadInv
  DEF HeaderLineStart, HeaderName, HeaderLws, HeaderValue, LastNewline
<1>2. CASE HeaderLineStart(c)
  <2> DEFINE h == [name |-> <<c>>, value |-> <<>>]
             r == [req EXCEPT !.headers = Append(@, h)]
  <2>1. h \in Header
    BY DEF Header
  <2>2. r \in Request /\ r.headers # <<>>
    <3> HIDE DEF h
    <3> DEFINE hs == Append(req.headers, h)
    <3>1. req.headers \in Seq(Header)
      BY <1>0 DEF Request
    <3>2. hs \in Seq(Header) /\ hs # <<>>
      BY <2>1, <3>1
    <3> HIDE DEF hs
    <3>3. /\ [req EXCEPT !.headers = hs] \in Request
          /\ [req EXCEPT !.headers = hs].headers = hs
      BY <1>0, <3>2 DEF Request
    <3> QED BY <3>2, <3>3 DEF hs
  <2>3. CASE Goto(c, "expecting_newline_3", req)
    BY <1>0, <1>2, <2>3, GotoInv DEF HeaderLineStart, States, HeaderStates
  <2>4. CASE req.headers # <<>> /\ Goto(c, "header_lws", req)
    BY <1>0, <1>2, <2>4, GotoInv DEF HeaderLineStart, States
  <2>5. CASE Goto(c, "header_name", r)
    <3> HIDE DEF r
    <3> QED BY <1>2, <2>2, <2>5, GotoInv DEF HeaderLineStart, States
  <2> QED BY <1>1, <1>2, <2>3, <2>4, <2>5 DEF HeaderLineStart
<1>3. ASSUME NEW field \in {"name", "value"}, NEW label \in States,
             state_ \in HeaderStates, Reads(c), Goto(c, label, Back(field, c))
      PROVE  Inv'
  <2>1. req.headers # <<>>
    BY <1>3 DEF Inv, HeadersBacked, HeaderStates
  <2>2. Back(field, c) \in Request /\ Back(field, c).headers # <<>>
    BY <1>0, <2>1, BackType DEF Back
  <2> QED BY <1>3, <2>2, GotoInv
<1>4. ASSUME NEW label \in States, state_ \in HeaderStates, Reads(c),
             Goto(c, label, req)
      PROVE  Inv'
  BY <1>0, <1>4, GotoInv DEF Inv, HeadersBacked, HeaderStates
<1>5. CASE HeaderName(c)
  BY <1>1, <1>3, <1>4, <1>5 DEF HeaderName, States, HeaderStates
<1>6. CASE HeaderLws(c)
  BY <1>1, <1>3, <1>4, <1>6 DEF HeaderLws, States, HeaderStates
<1>7. CASE HeaderValue(c)
  BY <1>1, <1>3, <1>4, <1>7 DEF HeaderValue, States, HeaderStates
<1>8. CASE LastNewline(c)
  BY <1>0, <1>1, <1>8, TookInv DEF LastNewline, HeaderStates
<1> QED BY <1>2, <1>5, <1>6, <1>7, <1>8

LEMMA InvStep == Inv /\ [Next]_vars => Inv'
<1> SUFFICES ASSUME Inv, [Next]_vars PROVE Inv'
  OBVIOUS
<1>1. CASE UNCHANGED vars
  BY <1>1 DEF vars, Inv, TypeOK, HeadersBacked
<1>2. ASSUME NEW n \in Pieces, Parse(n) PROVE Inv'
  <2>1. Len(text) \in Nat /\ n \in Nat
    BY ParserAssumption DEF Inv, TypeOK
  <2>2. end' \in 0..Len(text) /\ pos \in 0..end'
    BY <1>2, <2>1 DEF Parse, Inv, TypeOK
  <2> QED BY <1>2, <2>2 DEF Parse, Inv, TypeOK, HeadersBacked
<1>3. ASSUME NEW c \in Chars, Consume(c) PROVE Inv'
  BY <1>3, RequestLineInv, HeaderInv DEF Consume
<1>4. ASSUME NEW t \in NextTexts, NEW r \in {NewRequest, req}, Reset(t, r)
      PROVE  Inv'
  <2>1. t \in Seq(Chars) /\ r \in Request
    BY ParserAssumption, NewRequestType DEF Inv, TypeOK
  <2>2. /\ text' = t /\ pos' = 0 /\ end' = 0 /\ state_' = "method_start"
        /\ req' = r /\ result' = "indeterminate"
        /\ resets' = resets + 1 /\ resets < MaxResets
    BY <1>4 DEF Reset
  <2>3. 0 \in 0..Len(t) /\ 0 \in 0..0 /\ resets + 1 \in 0..MaxResets
    BY <2>1, <2>2, ParserAssumption DEF Inv, TypeOK
  <2>4. fresh' \in BOOLEAN
    BY <1>4 DEF Reset
  <2> QED BY <2>1, <2>2, <2>3, <2>4 DEF Inv, TypeOK, HeadersBacked, States
<1> QED BY <1>1, <1>2, <1>3, <1>4 DEF Next

(* The parser never reads behind the piece it was given, and the object it *)
(* fills stays well typed, for every input and every sequence of calls.    *)
THEOREM TypeCorrect == Spec => []TypeOK
<1>1. Inv => TypeOK
  BY DEF Inv
<1> QED BY <1>1, InvInit, InvStep, PTL DEF Spec

(* consume never calls back() of an empty vector of headers, for every     *)
(* input, with new and with used request objects.                          *)
THEOREM BackHasHeader == Spec => []HeadersBacked
<1>1. Inv => HeadersBacked
  BY DEF Inv
<1> QED BY <1>1, InvInit, InvStep, PTL DEF Spec

-----------------------------------------------------------------------------
(* The grammar the verdicts and the fields are measured against.           *)

(* What First finds.                                                       *)
LEMMA FirstProperties ==
  ASSUME NEW C, NEW s, NEW a \in Nat, NEW b \in Int, a <= b + 1
  PROVE  /\ First(C, s, a, b) \in a..(b + 1)
         /\ \A i \in a..(First(C, s, a, b) - 1) : s[i] \notin C
         /\ First(C, s, a, b) <= b => s[First(C, s, a, b)] \in C
<1> DEFINE T == {i \in a..(b + 1) : i = b + 1 \/ s[i] \in C}
<1>1. b + 1 \in T /\ T \subseteq Nat
  OBVIOUS
<1>2. Min(T) \in T /\ \A y \in T : Min(T) <= y
  <2> HIDE DEF T
  <2> QED BY <1>1, MinExists
<1>3. First(C, s, a, b) = Min(T)
  BY DEF First
<1>4. PICK m : m = Min(T)
  OBVIOUS
<1>5. m \in a..(b + 1) /\ (m = b + 1 \/ s[m] \in C)
  BY <1>2, <1>4
<1>6. ASSUME NEW i \in a..(m - 1) PROVE s[i] \notin C
  <2>1. i \in a..(b + 1) /\ ~(m <= i)
    BY <1>5
  <2>2. i \notin T
    BY <1>2, <1>4, <2>1
  <2> QED BY <2>1, <2>2
<1> QED BY <1>3, <1>4, <1>5, <1>6

LEMMA FirstUnique ==
  ASSUME NEW C, NEW s, NEW a \in Nat, NEW b \in Int, NEW i \in a..(b + 1),
         i = b + 1 \/ s[i] \in C, \A k \in a..(i - 1) : s[k] \notin C
  PROVE  First(C, s, a, b) = i
<1> DEFINE m == First(C, s, a, b)
<1>1. /\ m \in a..(b + 1) /\ \A k \in a..(m - 1) : s[k] \notin C
      /\ m <= b => s[m] \in C
  BY FirstProperties
<1> HIDE DEF m
<1>2. ~(m < i)
  BY <1>1
<1>3. ~(i < m)
  BY <1>1
<1>4. m = i
  BY <1>1, <1>2, <1>3
<1> QED BY <1>4 DEF m

(* A line begins behind the last LF.                                       *)
LEMMA LineBeginUnique ==
  ASSUME NEW s, NEW e \in Nat, NEW a \in 1..e, a = 1 \/ s[a - 1] = "LF",
         \A i \in a..(e - 1) : s[i] # "LF"
  PROVE  LineBegin(s, e) = a
<1> DEFINE T == {0} \cup {i \in 1..(e - 1) : s[i] = "LF"}
<1>1. T \subseteq 0..e /\ T # {} /\ a - 1 \in T
  OBVIOUS
<1>2. Max(T) \in T /\ \A y \in T : y <= Max(T)
  <2> HIDE DEF T
  <2> QED BY <1>1, MaxExists
<1>3. PICK m : m = Max(T)
  OBVIOUS
<1>4. m \in 0..e /\ a - 1 <= m /\ m \in T
  BY <1>1, <1>2, <1>3
<1>5. ~(a <= m)
  BY <1>4
<1>6. m = a - 1
  BY <1>4, <1>5
<1> QED BY <1>3, <1>6 DEF LineBegin

LEMMA LineBeginProperties ==
  ASSUME NEW s, NEW e \in Nat \ {0}
  PROVE  /\ LineBegin(s, e) \in 1..e
         /\ LineBegin(s, e) = 1 \/ s[LineBegin(s, e) - 1] = "LF"
         /\ \A i \in LineBegin(s, e)..(e - 1) : s[i] # "LF"
<1> DEFINE T == {0} \cup {i \in 1..(e - 1) : s[i] = "LF"}
<1>1. T \subseteq 0..(e - 1) /\ T # {} /\ e - 1 \in Nat
  OBVIOUS
<1>2. Max(T) \in T /\ \A y \in T : y <= Max(T)
  <2> HIDE DEF T
  <2> QED BY <1>1, MaxExists
<1>3. PICK m : m = Max(T)
  OBVIOUS
<1>4. m \in 0..(e - 1) /\ m \in T /\ \A y \in T : y <= m
  BY <1>1, <1>2, <1>3
<1>5. ASSUME NEW i \in (m + 1)..(e - 1) PROVE s[i] # "LF"
  <2>1. i \in 1..(e - 1) /\ ~(i <= m)
    BY <1>4
  <2> QED BY <1>4, <2>1 DEF Recursion
<1>6. LineBegin(s, e) = m + 1
  BY <1>3, <1>4 DEF LineBegin
<1> QED BY <1>4, <1>5, <1>6

(* The value of a run of digits, from one digit to the next.               *)
LEMMA NumberProperties ==
  ASSUME NEW s \in Seq(Chars), NEW a \in Nat \ {0}, NEW b \in 0..Len(s)
  PROVE  /\ b < a => NumberOf(s, a, b) = 0
         /\ b >= a => NumberOf(s, a, b) = 10 * NumberOf(s, a, b - 1) + Value(s[b])
<1> DEFINE N == Len(s)
           Eq(f) == f = [n \in 0..N |-> IF n < a THEN 0 ELSE 10 * f[n - 1] + Value(s[n])]
           upto == CHOOSE f : Eq(f)
           step == [x \in (1..N) \X Nat |->
                      IF x[1] < a THEN 0 ELSE 10 * x[2] + Value(s[x[1]])]
<1>1. \A m : NumberOf(s, a, m) = upto[m]
  BY DEF NumberOf
<1>2. N \in Nat /\ \A n \in 1..N : Value(s[n]) \in Nat
  BY DEF Value
<1>3. step \in [(1..N) \X Nat -> Nat]
  BY <1>2
<1>4. PICK f : Recursion(Nat, N, 0, step, f)
  <2>1. 0 \in Nat
    OBVIOUS
  <2> HIDE DEF step, N
  <2> QED BY <1>2, <1>3, <2>1, RecursionExists
<1>5. Eq(f)
  <2>1. ASSUME NEW n \in 0..N
        PROVE  f[n] = IF n < a THEN 0 ELSE 10 * f[n - 1] + Value(s[n])
    <3>1. CASE n = 0
      BY <1>4, <3>1 DEF Recursion
    <3>2. CASE n # 0
      <4>1. n \in 1..N /\ n - 1 \in 0..N /\ f[n - 1] \in Nat
        BY <1>2, <1>4, <3>2 DEF Recursion
      <4> QED BY <1>4, <4>1 DEF Recursion
    <3> QED BY <3>1, <3>2
  <2> QED BY <1>4, <2>1 DEF Recursion
<1>6. Eq(upto)
  <2> HIDE DEF Eq
  <2> QED BY <1>5
<1> HIDE DEF upto
<1>7. upto[b] = IF b < a THEN 0 ELSE 10 * upto[b - 1] + Value(s[b])
  BY <1>6
<1> QED BY <1>1, <1>7

(* Characters of the text are in every part of it.                         *)
LEMMA PartType ==
  ASSUME NEW s \in Seq(Chars), NEW a \in Nat \ {0}, NEW b \in Int, b <= Len(s)
  PROVE  /\ SubSeq(s, a, b) \in Seq(Chars)
         /\ Len(SubSeq(s, a, b)) = IF a <= b THEN b - a + 1 ELSE 0
         /\ \A i \in 1..(b - a + 1) : SubSeq(s, a, b)[i] = s[a + i - 1]
<1>1. a \in Int /\ \A i \in a..b : s[i] \in Chars
  OBVIOUS
<1> QED BY <1>1, SubSeqProperties

(* One header's value replaced by a longer one.                            *)
LEMMA LongerValue ==
  ASSUME NEW hs \in Seq(Header), NEW v \in Seq(Chars)
  PROVE  /\ [hs EXCEPT ![Len(hs)].value = @ \o v] \in Seq(Header)
         /\ Len([hs EXCEPT ![Len(hs)].value = @ \o v]) = Len(hs)
<1> DEFINE n == Len(hs)
           h == [hs[n] EXCEPT !.value = @ \o v]
           new == [hs EXCEPT ![n] = h]
<1>1. [hs EXCEPT ![Len(hs)].value = @ \o v] = new
  OBVIOUS
<1>2. n \in Nat /\ DOMAIN hs = 1..n
  OBVIOUS
<1>3. CASE n = 0
  <2>1. new = hs
    BY <1>2, <1>3
  <2> QED BY <1>1, <2>1
<1>4. CASE n # 0
  <2>1. n \in 1..n /\ hs[n] \in Header
    BY <1>2, <1>4
  <2>2. hs[n].value \in Seq(Chars)
    BY <2>1 DEF Header
  <2>3. hs[n].value \o v \in Seq(Chars)
    BY <2>2
  <2>4. ASSUME NEW w \in Seq(Chars) PROVE [hs[n] EXCEPT !.value = w] \in Header
    BY <2>1 DEF Header
  <2>5. h \in Header
    BY <2>3, <2>4
  <2> HIDE DEF h
  <2>6. new \in Seq(Header) /\ Len(new) = Len(hs)
    BY <1>2, <2>1, <2>5, ExceptSeq
  <2> QED BY <1>1, <2>6
<1> QED BY <1>2, <1>3, <1>4

LEMMA AddLineType ==
  ASSUME NEW s \in Seq(Chars), NEW hs \in Seq(Header),
         NEW b \in 0..Len(s), NEW a \in 1..b
  PROVE  /\ AddLine(hs, s, a, b) \in Seq(Header)
         /\ hs # <<>> \/ ~Blank(s[a]) => AddLine(hs, s, a, b) # <<>>
<1>0. a \in Nat \ {0} /\ b \in Int /\ a <= b + 1 /\ b <= Len(s) /\ Len(s) \in Nat
  OBVIOUS
<1>1. CASE Blank(s[a])
  <2> DEFINE f == Indented(s, a, b)
             v == SubSeq(s, f, b)
  <2>1. f \in a..(b + 1)
    BY <1>0, FirstProperties DEF Indented
  <2>2. v \in Seq(Chars)
    <3> HIDE DEF f
    <3>1. f \in Nat \ {0}
      BY <1>0, <2>1
    <3> QED BY <1>0, <3>1, PartType
  <2>3. AddLine(hs, s, a, b) = [hs EXCEPT ![Len(hs)].value = @ \o v]
    BY <1>1 DEF AddLine
  <2> HIDE DEF v
  <2>4. /\ AddLine(hs, s, a, b) \in Seq(Header)
        /\ Len(AddLine(hs, s, a, b)) = Len(hs)
    BY <2>2, <2>3, LongerValue
  <2>5. hs # <<>> => Len(hs) # 0
    BY EmptySeq
  <2>6. AddLine(hs, s, a, b) = <<>> => Len(AddLine(hs, s, a, b)) = 0
    OBVIOUS
  <2> QED BY <1>1, <2>4, <2>5, <2>6
<1>2. CASE ~Blank(s[a])
  <2> DEFINE i == Colon(s, a, b)
             h == [name |-> SubSeq(s, a, i - 1), value |-> SubSeq(s, i + 2, b)]
  <2>1. i \in a..(b + 1)
    BY <1>0, FirstProperties DEF Colon
  <2>2. h \in Header
    <3> HIDE DEF i
    <3>1. i - 1 \in Int /\ i - 1 <= Len(s) /\ i + 2 \in Nat \ {0}
      BY <1>0, <2>1
    <3>2. SubSeq(s, a, i - 1) \in Seq(Chars) /\ SubSeq(s, i + 2, b) \in Seq(Chars)
      BY <1>0, <3>1, PartType
    <3> QED BY <3>2 DEF Header
  <2>3. AddLine(hs, s, a, b) = Append(hs, h)
    BY <1>2 DEF AddLine
  <2> HIDE DEF h
  <2> QED BY <2>2, <2>3, AppendProperties
<1> QED BY <1>1, <1>2

(* The headers, from one character to the next.                            *)
LEMMA HeadersProperties ==
  ASSUME NEW s \in Seq(Chars)
  PROVE  /\ HeadersUpto(s) \in [0..Len(s) -> Seq(Header)]
         /\ HeadersUpto(s)[0] = <<>>
         /\ \A n \in 1..Len(s) :
              HeadersUpto(s)[n] =
                IF s[n] = "CR" /\ LineBegin(s, n) \notin {1, n}
                THEN AddLine(HeadersUpto(s)[n - 1], s, LineBegin(s, n), n - 1)
                ELSE HeadersUpto(s)[n - 1]
<1> DEFINE N == Len(s)
           Add(n, hs) == IF s[n] = "CR" /\ LineBegin(s, n) \notin {1, n}
                         THEN AddLine(hs, s, LineBegin(s, n), n - 1)
                         ELSE hs
           Eq(f) == f = [n \in 0..N |-> IF n = 0 THEN <<>> ELSE Add(n, f[n - 1])]
           upto == CHOOSE f : Eq(f)
           step == [x \in (1..N) \X Seq(Header) |-> Add(x[1], x[2])]
<1>1. HeadersUpto(s) = upto
  BY DEF HeadersUpto
<1>2. N \in Nat /\ <<>> \in Seq(Header)
  OBVIOUS
<1>3. ASSUME NEW n \in 1..N, NEW hs \in Seq(Header) PROVE Add(n, hs) \in Seq(Header)
  <2>1. CASE LineBegin(s, n) \notin {1, n}
    <3>1. n \in Nat \ {0} /\ n - 1 \in 0..Len(s)
      OBVIOUS
    <3>2. LineBegin(s, n) \in 1..n
      BY <3>1, LineBeginProperties
    <3>3. LineBegin(s, n) \in 1..(n - 1)
      BY <2>1, <3>1, <3>2
    <3> QED BY <3>1, <3>3, AddLineType
  <2> QED BY <2>1
<1> HIDE DEF Add
<1>4. step \in [(1..N) \X Seq(Header) -> Seq(Header)]
  BY <1>3
<1>5. PICK f : Recursion(Seq(Header), N, <<>>, step, f)
  <2> HIDE DEF step, N
  <2> QED BY <1>2, <1>4, RecursionExists
<1>6. Eq(f)
  <2>1. ASSUME NEW n \in 0..N
        PROVE  f[n] = IF n = 0 THEN <<>> ELSE Add(n, f[n - 1])
    <3>1. CASE n = 0
      BY <1>5, <3>1 DEF Recursion
    <3>2. CASE n # 0
      <4>1. n \in 1..N /\ n - 1 \in 0..N /\ f[n - 1] \in Seq(Header)
        BY <1>2, <1>5, <3>2 DEF Recursion
      <4> QED BY <1>5, <4>1 DEF Recursion
    <3> QED BY <3>1, <3>2
  <2> QED BY <1>5, <2>1 DEF Recursion
<1>7. Eq(upto)
  <2> HIDE DEF Eq
  <2> QED BY <1>6
<1> HIDE DEF upto
<1>8. \A n \in 1..N : upto[n] = Add(n, upto[n - 1])
  BY <1>2, <1>7
<1>9. upto[0] = <<>>
  BY <1>2, <1>7
<1>10. upto \in [0..N -> Seq(Header)]
  <2> DEFINE T == {n \in 0..N : upto[n] \in Seq(Header)}
  <2>1. 0 \in T
    <3>1. 0 \in 0..N
      BY <1>2
    <3>2. upto[0] \in Seq(Header)
      BY <1>2, <1>9, Zenon
    <3> QED BY <3>1, <3>2, Zenon
  <2>2. ASSUME NEW m \in 0..(N - 1), m \in T PROVE m + 1 \in T
    <3>1. m + 1 \in 1..N /\ (m + 1) - 1 = m /\ m + 1 \in 0..N
      BY <1>2
    <3> QED BY <1>3, <1>8, <2>2, <3>1
  <2>3. \A m \in 0..N : m \in T
    <3> HIDE DEF T, N
    <3> QED BY <1>2, <2>1, <2>2, UptoInduction
  <2> QED BY <1>7, <2>3
<1> QED BY <1>1, <1>8, <1>9, <1>10 DEF Add
-----------------------------------------------------------------------------
(* What has been read of s when p characters of it are consumed and q is   *)
(* the object: one predicate per part of a request.                        *)

Quiet(s, a, b) == \A i \in a..b : s[i] \notin {"CR", "LF"}
HTTP == <<"H", "T", "T", "P", "/">>

InMethod(s, p, q) ==
  /\ \A x \in 1..p : Plain(s[x])
  /\ q.method = SubSeq(s, 1, p)

InUri(s, i, p, q) ==
  /\ 1 < i /\ i <= p /\ s[i] = "SP" /\ InMethod(s, i - 1, q)
  /\ \A x \in (i + 1)..p : s[x] # "SP" /\ ~is_ctl(s[x])
  /\ q.uri = SubSeq(s, i + 1, p)

InVersion(s, i, j, p, q) ==
  /\ InUri(s, i, j - 1, q) /\ s[j] = "SP" /\ j <= p /\ p <= j + 5
  /\ \A x \in 1..(p - j) : s[j + x] = HTTP[x]

InMajor(s, i, j, p, q) ==
  /\ InVersion(s, i, j, j + 5, q) /\ j + 5 <= p
  /\ \A x \in (j + 6)..p : is_digit(s[x])
  /\ q.http_version_major = NumberOf(s, j + 6, p)

InMinor(s, i, j, k, p, q) ==
  /\ InMajor(s, i, j, k - 1, q) /\ j + 6 < k /\ k <= p /\ s[k] = "."
  /\ \A x \in (k + 1)..p : is_digit(s[x])
  /\ q.http_version_minor = NumberOf(s, k + 1, p)

VersionAt ==
  [http_version_h |-> 0, http_version_t_1 |-> 1, http_version_t_2 |-> 2,
   http_version_p |-> 3, http_version_slash |-> 4]

OnFirstLine(l, s, p, q) ==
  /\ Quiet(s, 1, p) /\ q.headers = <<>> /\ HeadersUpto(s)[p] = <<>>
  /\ \/ l = "method_start" /\ p = 0 /\ InMethod(s, p, q) /\ q.uri = <<>>
     \/ l = "method" /\ p > 0 /\ InMethod(s, p, q) /\ q.uri = <<>>
     \/ l = "uri" /\ \E i \in 1..p : InUri(s, i, p, q)
     \/ /\ l \in DOMAIN VersionAt
        /\ \E i, j \in 1..p : InVersion(s, i, j, p, q) /\ p = j + VersionAt[l]
     \/ /\ l \in {"http_version_major_start", "http_version_major"}
        /\ q.http_version_minor = 0
        /\ \E i, j \in 1..p :
             InMajor(s, i, j, p, q) /\ (l = "http_version_major" <=> p > j + 5)
     \/ /\ l \in {"http_version_minor_start", "http_version_minor"}
        /\ \E i, j, k \in 1..p :
             InMinor(s, i, j, k, p, q) /\ (l = "http_version_minor" <=> p > k)

(* The request line's fields are those of the text's first line.           *)
LineFields(s, q) ==
  /\ q.method = RequestOf(s, 0).method /\ q.uri = RequestOf(s, 0).uri
  /\ q.http_version_major = RequestOf(s, 0).http_version_major
  /\ q.http_version_minor = RequestOf(s, 0).http_version_minor

BehindFirstLine(l, s, p, q) ==
  /\ l = "expecting_newline_1" /\ p > 0 /\ s[p] = "CR" /\ Quiet(s, 1, p - 1)
  /\ IsRequestLine(s, p - 1) /\ LineFields(s, q)
  /\ q.headers = <<>> /\ HeadersUpto(s)[p] = <<>>

(* A header line from a on, behind the headers hs.                         *)
InName(s, hs, a, p, q) ==
  /\ \A x \in a..p : Plain(s[x])
  /\ a <= p
  /\ q.headers = Append(hs, [name |-> SubSeq(s, a, p), value |-> <<>>])

AtColon(s, hs, a, p, q) == InName(s, hs, a, p - 1, q) /\ s[p] = ":"

InValue(s, hs, a, i, p, q) ==
  /\ a < i /\ i < p /\ s[i] = ":" /\ s[i + 1] = "SP"
  /\ \A x \in a..(i - 1) : Plain(s[x])
  /\ Text(s, i + 2, p)
  /\ q.headers = Append(hs, [name |-> SubSeq(s, a, i - 1),
                             value |-> SubSeq(s, i + 2, p)])

More(s, a) == \E i \in 1..(a - 2) : s[i] = "LF"

InBlanks(s, hs, a, p, q) ==
  /\ a <= p /\ \A x \in a..p : Blank(s[x])
  /\ More(s, a) /\ q.headers = hs

(* headers.back() with v behind its value.                                 *)
Folded(hs, v) == [hs EXCEPT ![Len(hs)].value = @ \o v]

InFold(s, hs, a, f, p, q) ==
  /\ a < f /\ f <= p /\ ~Blank(s[f])
  /\ \A x \in a..(f - 1) : Blank(s[x])
  /\ Text(s, f, p) /\ More(s, a)
  /\ q.headers = Folded(hs, SubSeq(s, f, p))

InHeader(l, s, hs, a, p, q) ==
  \/ l = "header_line_start" /\ p = a - 1 /\ q.headers = hs
  \/ l = "header_name" /\ InName(s, hs, a, p, q)
  \/ l = "space_before_header_value" /\ AtColon(s, hs, a, p, q)
  \/ l = "header_value" /\ \E i \in a..p : InValue(s, hs, a, i, p, q)
  \/ l = "header_value" /\ \E f \in a..p : InFold(s, hs, a, f, p, q)
  \/ l = "header_lws" /\ InBlanks(s, hs, a, p, q)

OnHeaderLine(l, s, a, p, q) ==
  /\ Quiet(s, a, p)
  /\ HeadersUpto(s)[p] # <<>> <=> More(s, a)
  /\ InHeader(l, s, HeadersUpto(s)[p], a, p, q)

BehindHeaderLine(l, s, a, p, q) ==
  /\ l = "expecting_newline_2" /\ a < p /\ s[p] = "CR" /\ Quiet(s, a, p - 1)
  /\ IsLine(s, a, p)
  /\ q.headers = HeadersUpto(s)[p] /\ q.headers # <<>>

BehindHeaders(l, s, a, p, q) ==
  /\ l = "expecting_newline_3" /\ p = a /\ s[p] = "CR"
  /\ q.headers = HeadersUpto(s)[p]

Shape(l, s, p, q) ==
  \/ OnFirstLine(l, s, p, q)
  \/ BehindFirstLine(l, s, p, q)
  \/ /\ LineFields(s, q)
     /\ \E a \in 2..(p + 1) :
          /\ IsLines(s, a - 1)
          /\ \/ OnHeaderLine(l, s, a, p, q)
             \/ BehindHeaderLine(l, s, a, p, q)
             \/ BehindHeaders(l, s, a, p, q)

(* The inductive invariant: while it reads, the parser's state says what   *)
(* the characters so far are; at the end the verdict is right.             *)
Reading ==
  fresh =>
    /\ req.original_req = SubSeq(text, 1, pos)
    /\ result = "indeterminate" => Shape(state_, text, pos, req)
    /\ result = "good" => IsRequest(text, pos) /\ req = RequestOf(text, pos)
    /\ result = "bad" => \A n \in pos..Len(text) : ~IsRequest(text, n)

-----------------------------------------------------------------------------
(* One more character.                                                     *)

LEMMA PartAppend ==
  ASSUME NEW s \in Seq(Chars), NEW p \in 0..(Len(s) - 1), NEW a \in 1..(p + 1)
  PROVE  SubSeq(s, a, p + 1) = Append(SubSeq(s, a, p), s[p + 1])
<1>1. p + 1 \in 1..Len(s) /\ a \in 1..Len(s) /\ p + 1 \in a..Len(s) /\ (p + 1) - 1 = p
  OBVIOUS
<1>2. SubSeq(s, a, p + 1) = SubSeq(s, a, p) \o <<s[p + 1]>>
  BY <1>1, SubSeqRecursiveSecond
<1>3. SubSeq(s, a, p) \in Seq(Chars) /\ s[p + 1] \in Chars
  <2>1. a \in Nat \ {0} /\ p \in Int /\ p <= Len(s)
    BY <1>1
  <2> QED BY <1>1, <2>1, PartType
<1> QED BY <1>2, <1>3, AppendIsConcat

LEMMA PartEmpty ==
  ASSUME NEW s, NEW a \in Int, NEW b \in Int, b < a
  PROVE  SubSeq(s, a, b) = <<>>
BY SubSeqEmpty

LEMMA NoCRHeaders ==
  ASSUME NEW s \in Seq(Chars), NEW p \in 0..(Len(s) - 1), s[p + 1] # "CR"
  PROVE  HeadersUpto(s)[p + 1] = HeadersUpto(s)[p]
<1>1. p + 1 \in 1..Len(s) /\ (p + 1) - 1 = p
  OBVIOUS
<1> QED BY <1>1, HeadersProperties

LEMMA QuietMore ==
  ASSUME NEW s, NEW a \in Nat, NEW p \in Nat, Quiet(s, a, p),
         s[p + 1] \notin {"CR", "LF"}
  PROVE  Quiet(s, a, p + 1)
<1>1. \A i \in a..(p + 1) : i \in a..p \/ i = p + 1
  OBVIOUS
<1> QED BY <1>1 DEF Quiet

(* The fields of r are those of q but for the ones the step has changed.   *)
SameVersion(q, r) ==
  /\ r.http_version_major = q.http_version_major
  /\ r.http_version_minor = q.http_version_minor

(* What the first line's states have in common.                            *)
LEMMA FirstLineMore ==
  ASSUME NEW s \in Seq(Chars), NEW p \in 0..(Len(s) - 1), NEW q, NEW r, NEW l,
         OnFirstLine(l, s, p, q), s[p + 1] \notin {"CR", "LF"},
         r.headers = q.headers
  PROVE  Quiet(s, 1, p + 1) /\ r.headers = <<>> /\ HeadersUpto(s)[p + 1] = <<>>
<1>1. p \in Nat /\ 1 \in Nat
  OBVIOUS
<1> QED BY <1>1, QuietMore, NoCRHeaders DEF OnFirstLine

LEMMA MethodMore ==
  ASSUME NEW s \in Seq(Chars), NEW p \in 0..(Len(s) - 1), NEW q, NEW r, NEW l,
         OnFirstLine(l, s, p, q), l \in {"method_start", "method"},
         Plain(s[p + 1]), r.method = Append(q.method, s[p + 1]), r.uri = q.uri,
         r.headers = q.headers
  PROVE  OnFirstLine("method", s, p + 1, r)
<1>1. s[p + 1] \notin {"CR", "LF"}
  BY DEF Plain, is_ctl
<1>2. InMethod(s, p, q) /\ q.uri = <<>>
  BY DEF OnFirstLine, VersionAt
<1>3. r.method = SubSeq(s, 1, p + 1)
  BY <1>2, PartAppend DEF InMethod
<1>4. \A x \in 1..(p + 1) : x \in 1..p \/ x = p + 1
  OBVIOUS
<1>5. InMethod(s, p + 1, r)
  BY <1>2, <1>3, <1>4 DEF InMethod
<1>6. p + 1 > 0
  OBVIOUS
<1> QED BY <1>1, <1>2, <1>5, <1>6, FirstLineMore DEF OnFirstLine

LEMMA MethodEnds ==
  ASSUME NEW s \in Seq(Chars), NEW p \in 0..(Len(s) - 1), NEW q, NEW r,
         OnFirstLine("method", s, p, q), s[p + 1] = "SP", r.method = q.method,
         r.uri = q.uri, r.headers = q.headers
  PROVE  OnFirstLine("uri", s, p + 1, r)
<1>1. p > 0 /\ InMethod(s, p, q) /\ q.uri = <<>>
  BY DEF OnFirstLine, VersionAt
<1>2. (p + 1) - 1 = p /\ 1 < p + 1 /\ p + 1 \in 1..(p + 1)
      /\ p + 1 + 1 \in Int /\ p + 1 \in Int /\ p + 1 < p + 1 + 1
  BY <1>1
<1>3. r.uri = SubSeq(s, p + 1 + 1, p + 1)
  BY <1>1, <1>2, PartEmpty
<1>4. \A x \in (p + 1 + 1)..(p + 1) : FALSE
  OBVIOUS
<1>5. InUri(s, p + 1, p + 1, r)
  BY <1>1, <1>2, <1>3, <1>4 DEF InUri, InMethod
<1> QED BY <1>2, <1>5, FirstLineMore DEF OnFirstLine

LEMMA UriMore ==
  ASSUME NEW s \in Seq(Chars), NEW p \in 0..(Len(s) - 1), NEW q, NEW r,
         OnFirstLine("uri", s, p, q), s[p + 1] # "SP", ~is_ctl(s[p + 1]),
         r.method = q.method, r.uri = Append(q.uri, s[p + 1]), r.headers = q.headers
  PROVE  OnFirstLine("uri", s, p + 1, r)
<1>1. s[p + 1] \notin {"CR", "LF"}
  BY DEF is_ctl
<1>2. PICK i \in 1..p : InUri(s, i, p, q)
  BY DEF OnFirstLine, VersionAt
<1>3. i + 1 \in 1..(p + 1) /\ i \in 1..(p + 1) /\ 1 < i /\ i <= p + 1
  BY <1>2 DEF InUri
<1>4. r.uri = SubSeq(s, i + 1, p + 1)
  BY <1>2, <1>3, PartAppend DEF InUri
<1>5. \A x \in (i + 1)..(p + 1) : x \in (i + 1)..p \/ x = p + 1
  OBVIOUS
<1>6. InUri(s, i, p + 1, r)
  BY <1>2, <1>3, <1>4, <1>5 DEF InUri, InMethod
<1> QED BY <1>1, <1>3, <1>6, FirstLineMore DEF OnFirstLine

LEMMA UriEnds ==
  ASSUME NEW s \in Seq(Chars), NEW p \in 0..(Len(s) - 1), NEW q, NEW r,
         OnFirstLine("uri", s, p, q), s[p + 1] = "SP",
         r.method = q.method, r.uri = q.uri, r.headers = q.headers
  PROVE  OnFirstLine("http_version_h", s, p + 1, r)
<1>1. PICK i \in 1..p : InUri(s, i, p, q)
  BY DEF OnFirstLine, VersionAt
<1>2. /\ (p + 1) - 1 = p /\ i \in 1..(p + 1) /\ p + 1 \in 1..(p + 1)
      /\ p + 1 <= p + 1 + 5
      /\ \A x \in 1..((p + 1) - (p + 1)) : FALSE
  OBVIOUS
<1>3. InVersion(s, i, p + 1, p + 1, r)
  BY <1>1, <1>2 DEF InVersion, InUri, InMethod
<1>4. /\ "http_version_h" \in DOMAIN VersionAt
      /\ p + 1 = p + 1 + VersionAt["http_version_h"]
  BY DEF VersionAt
<1> QED BY <1>2, <1>3, <1>4, FirstLineMore DEF OnFirstLine

LEMMA VersionMore ==
  ASSUME NEW s \in Seq(Chars), NEW p \in 0..(Len(s) - 1), NEW q, NEW r, NEW l,
         OnFirstLine(l, s, p, q), l \in DOMAIN VersionAt \ {"http_version_slash"},
         s[p + 1] = Literal[l].char, r.method = q.method, r.uri = q.uri,
         r.headers = q.headers
  PROVE  OnFirstLine(Literal[l].to, s, p + 1, r)
<1>1. PICK i \in 1..p, j \in 1..p : InVersion(s, i, j, p, q) /\ p = j + VersionAt[l]
  BY DEF OnFirstLine, VersionAt
<1>2. /\ Literal[l].to \in DOMAIN VersionAt
      /\ VersionAt[l] \in 0..3
      /\ VersionAt[Literal[l].to] = VersionAt[l] + 1
      /\ Literal[l].char = HTTP[VersionAt[l] + 1]
      /\ s[p + 1] \notin {"CR", "LF"}
  BY DEF VersionAt, Literal, HTTP
<1>3. /\ \A x \in 1..(p + 1 - j) : x \in 1..(p - j) \/ x = VersionAt[l] + 1
      /\ j + (VersionAt[l] + 1) = p + 1
      /\ i \in 1..(p + 1) /\ j \in 1..(p + 1) /\ j <= p + 1 /\ p + 1 <= j + 5
      /\ p + 1 = j + VersionAt[Literal[l].to]
  BY <1>1, <1>2
<1>4. \A x \in 1..(p + 1 - j) : s[j + x] = HTTP[x]
  <2> TAKE x \in 1..(p + 1 - j)
  <2>1. CASE x \in 1..(p - j)
    BY <1>1, <2>1 DEF InVersion
  <2>2. CASE x = VersionAt[l] + 1
    BY <1>2, <1>3, <2>2
  <2> QED BY <1>3, <2>1, <2>2
<1>5. InVersion(s, i, j, p + 1, r)
  BY <1>1, <1>3, <1>4 DEF InVersion, InUri, InMethod
<1> QED BY <1>2, <1>3, <1>5, FirstLineMore DEF OnFirstLine

LEMMA SlashRead ==
  ASSUME NEW s \in Seq(Chars), NEW p \in 0..(Len(s) - 1), NEW q, NEW r,
         OnFirstLine("http_version_slash", s, p, q), s[p + 1] = "/",
         r.method = q.method, r.uri = q.uri, r.headers = q.headers,
         r.http_version_major = 0, r.http_version_minor = 0
  PROVE  OnFirstLine("http_version_major_start", s, p + 1, r)
<1>1. PICK i \in 1..p, j \in 1..p : InVersion(s, i, j, p, q) /\ p = j + 4
  BY DEF OnFirstLine, VersionAt
<1>2. /\ p + 1 = j + 5 /\ i \in 1..(p + 1) /\ j \in 1..(p + 1) /\ j <= j + 5
      /\ j + 5 - j = 5 /\ p - j = 4 /\ j + 5 <= j + 5
      /\ j + 6 \in Nat \ {0} /\ p + 1 \in 0..Len(s) /\ p + 1 < j + 6
      /\ \A x \in (j + 6)..(p + 1) : FALSE
      /\ ~(p + 1 > j + 5)
  BY <1>1
<1>3. \A x \in 1..5 : s[j + x] = HTTP[x]
  <2> TAKE x \in 1..5
  <2>1. CASE x \in 1..4
    BY <1>1, <1>2, <2>1 DEF InVersion
  <2>2. CASE x = 5
    BY <1>2, <2>2 DEF HTTP
  <2> QED BY <2>1, <2>2
<1>4. InVersion(s, i, j, j + 5, r)
  <2>1. InUri(s, i, j - 1, r) /\ s[j] = "SP"
    BY <1>1 DEF InVersion, InUri, InMethod
  <2>2. (j + 5) - j = 5 /\ j <= j + 5 /\ j + 5 <= j + 5
    OBVIOUS
  <2>3. \A x \in 1..((j + 5) - j) : s[j + x] = HTTP[x]
    BY <1>3, <2>2
  <2> QED BY <2>1, <2>2, <2>3 DEF InVersion
<1>5. NumberOf(s, j + 6, p + 1) = 0
  BY <1>2, NumberProperties
<1>6. InMajor(s, i, j, p + 1, r)
  BY <1>2, <1>4, <1>5 DEF InMajor
<1> QED BY <1>2, <1>6, FirstLineMore DEF OnFirstLine

(* The digits of one number, and the number.                               *)
LEMMA DigitMore ==
  ASSUME NEW s \in Seq(Chars), NEW p \in 0..(Len(s) - 1), NEW a \in 1..(p + 1)
  PROVE  NumberOf(s, a, p + 1) = 10 * NumberOf(s, a, p) + Value(s[p + 1])
<1>1. a \in Nat \ {0} /\ p + 1 \in 0..Len(s) /\ p + 1 >= a /\ (p + 1) - 1 = p
  OBVIOUS
<1> QED BY <1>1, NumberProperties

LEMMA MajorMore ==
  ASSUME NEW s \in Seq(Chars), NEW p \in 0..(Len(s) - 1), NEW q, NEW r, NEW l,
         OnFirstLine(l, s, p, q),
         l \in {"http_version_major_start", "http_version_major"},
         is_digit(s[p + 1]), r.method = q.method, r.uri = q.uri,
         r.headers = q.headers, r.http_version_minor = q.http_version_minor,
         r.http_version_major = 10 * q.http_version_major + Value(s[p + 1])
  PROVE  OnFirstLine("http_version_major", s, p + 1, r)
<1>1. PICK i \in 1..p, j \in 1..p : InMajor(s, i, j, p, q)
  BY DEF OnFirstLine, VersionAt
<1>2. q.http_version_minor = 0
  BY DEF OnFirstLine, VersionAt
<1>3. /\ i \in 1..(p + 1) /\ j \in 1..(p + 1) /\ p + 1 > j + 5 /\ j + 5 <= p + 1
      /\ j + 6 \in 1..(p + 1)
      /\ \A x \in (j + 6)..(p + 1) : x \in (j + 6)..p \/ x = p + 1
      /\ s[p + 1] \notin {"CR", "LF"}
  BY <1>1 DEF InMajor, is_digit
<1>4. r.http_version_major = NumberOf(s, j + 6, p + 1)
  BY <1>1, <1>3, DigitMore DEF InMajor
<1>5. InVersion(s, i, j, j + 5, r)
  BY <1>1 DEF InMajor, InVersion, InUri, InMethod
<1>6. InMajor(s, i, j, p + 1, r)
  BY <1>1, <1>3, <1>4, <1>5 DEF InMajor
<1> QED BY <1>2, <1>3, <1>6, FirstLineMore DEF OnFirstLine

LEMMA MajorEnds ==
  ASSUME NEW s \in Seq(Chars), NEW p \in 0..(Len(s) - 1), NEW q, NEW r,
         OnFirstLine("http_version_major", s, p, q), s[p + 1] = ".",
         r.method = q.method, r.uri = q.uri, r.headers = q.headers,
         SameVersion(q, r)
  PROVE  OnFirstLine("http_version_minor_start", s, p + 1, r)
<1>1. PICK i \in 1..p, j \in 1..p : InMajor(s, i, j, p, q) /\ p > j + 5
  BY DEF OnFirstLine, VersionAt
<1>2. q.http_version_minor = 0
  BY DEF OnFirstLine, VersionAt
<1>3. /\ i \in 1..(p + 1) /\ j \in 1..(p + 1) /\ p + 1 \in 1..(p + 1)
      /\ (p + 1) - 1 = p /\ j + 6 < p + 1 /\ ~(p + 1 > p + 1)
      /\ p + 1 + 1 \in Nat \ {0} /\ p + 1 \in 0..Len(s) /\ p + 1 < p + 1 + 1
      /\ \A x \in (p + 1 + 1)..(p + 1) : FALSE
  BY <1>1
<1>4. NumberOf(s, p + 1 + 1, p + 1) = 0
  BY <1>3, NumberProperties
<1>5. InMajor(s, i, j, p, r)
  BY <1>1 DEF InMajor, InVersion, InUri, InMethod, SameVersion
<1>6. InMinor(s, i, j, p + 1, p + 1, r)
  BY <1>2, <1>3, <1>4, <1>5 DEF InMinor, SameVersion
<1> QED BY <1>3, <1>6, FirstLineMore DEF OnFirstLine

LEMMA MinorMore ==
  ASSUME NEW s \in Seq(Chars), NEW p \in 0..(Len(s) - 1), NEW q, NEW r, NEW l,
         OnFirstLine(l, s, p, q),
         l \in {"http_version_minor_start", "http_version_minor"},
         is_digit(s[p + 1]), r.method = q.method, r.uri = q.uri,
         r.headers = q.headers, r.http_version_major = q.http_version_major,
         r.http_version_minor = 10 * q.http_version_minor + Value(s[p + 1])
  PROVE  OnFirstLine("http_version_minor", s, p + 1, r)
<1>1. PICK i \in 1..p, j \in 1..p, k \in 1..p : InMinor(s, i, j, k, p, q)
  BY DEF OnFirstLine, VersionAt
<1>2. /\ i \in 1..(p + 1) /\ j \in 1..(p + 1) /\ k \in 1..(p + 1)
      /\ p + 1 > k /\ k <= p + 1 /\ k + 1 \in 1..(p + 1)
      /\ \A x \in (k + 1)..(p + 1) : x \in (k + 1)..p \/ x = p + 1
      /\ s[p + 1] \notin {"CR", "LF"}
  BY <1>1 DEF InMinor, is_digit
<1>3. r.http_version_minor = NumberOf(s, k + 1, p + 1)
  BY <1>1, <1>2, DigitMore DEF InMinor
<1>4. InMajor(s, i, j, k - 1, r)
  BY <1>1 DEF InMinor, InMajor, InVersion, InUri, InMethod
<1>5. InMinor(s, i, j, k, p + 1, r)
  BY <1>1, <1>2, <1>3, <1>4 DEF InMinor
<1> QED BY <1>2, <1>5, FirstLineMore DEF OnFirstLine

(* Where the request line is split.                                        *)
LEMMA SplitsAt ==
  ASSUME NEW s \in Seq(Chars), NEW e \in 0..Len(s), NEW q,
         NEW i \in 1..e, NEW j \in 1..e, InUri(s, i, j - 1, q), s[j] = "SP"
  PROVE  Space1(s, e) = i /\ Space2(s, e) = j
<1>1. /\ i \in 1..(e + 1) /\ e \in Int /\ 1 \in Nat /\ s[i] = "SP"
      /\ i + 1 \in Nat /\ j \in (i + 1)..(e + 1)
  BY DEF InUri
<1>2. \A x \in 1..(i - 1) : s[x] \notin {"SP"}
  BY DEF InUri, InMethod, Plain, is_tspecial
<1>3. Space1(s, e) = i
  BY <1>1, <1>2, FirstUnique DEF Space1
<1>4. \A x \in (i + 1)..(j - 1) : s[x] \notin {"SP"}
  BY DEF InUri
<1>5. First({"SP"}, s, i + 1, e) = j
  BY <1>1, <1>4, FirstUnique
<1> QED BY <1>3, <1>5 DEF Space2

LEMMA DotAt ==
  ASSUME NEW s \in Seq(Chars), NEW e \in 0..Len(s), NEW q,
         NEW i \in 1..e, NEW j \in 1..e, NEW k \in 1..e, InMinor(s, i, j, k, e, q)
  PROVE  Space1(s, e) = i /\ Space2(s, e) = j /\ Dot(s, e) = k
<1>1. InUri(s, i, j - 1, q) /\ s[j] = "SP"
  BY DEF InMinor, InMajor, InVersion
<1>2. Space1(s, e) = i /\ Space2(s, e) = j
  BY <1>1, SplitsAt
<1>3. k \in (j + 6)..(e + 1) /\ e \in Int /\ j + 6 \in Nat /\ s[k] \in {"."}
  BY DEF InMinor
<1>4. \A x \in (j + 6)..(k - 1) : s[x] \notin {"."}
  BY DEF InMinor, InMajor, is_digit
<1>5. First({"."}, s, j + 6, e) = k
  BY <1>3, <1>4, FirstUnique
<1> QED BY <1>2, <1>5 DEF Dot

LEMMA HttpPart ==
  ASSUME NEW s \in Seq(Chars), NEW j \in Nat \ {0}, j + 5 <= Len(s)
  PROVE  SubSeq(s, j + 1, j + 5) = HTTP <=> \A x \in 1..5 : s[j + x] = HTTP[x]
<1> DEFINE t == SubSeq(s, j + 1, j + 5)
<1>1. /\ j + 1 \in Nat \ {0} /\ j + 5 \in Int /\ j + 1 <= j + 5
      /\ (j + 5) - (j + 1) + 1 = 5
  OBVIOUS
<1>2. /\ t \in Seq(Chars) /\ Len(t) = 5
      /\ \A x \in 1..5 : t[x] = s[j + 1 + x - 1]
  BY <1>1, PartType
<1>3. \A x \in 1..5 : j + 1 + x - 1 = j + x
  OBVIOUS
<1>4. HTTP \in Seq(Chars) /\ Len(HTTP) = 5
  BY DEF HTTP, Chars
<1> HIDE DEF t
<1>5. (\A x \in 1..5 : t[x] = HTTP[x]) => t = HTTP
  BY <1>2, <1>4, SeqEqual
<1>6. t = HTTP <=> \A x \in 1..5 : s[j + x] = HTTP[x]
  BY <1>2, <1>3, <1>5
<1> QED BY <1>6 DEF t

LEMMA MinorEnds ==
  ASSUME NEW s \in Seq(Chars), NEW p \in 0..(Len(s) - 1), NEW q, NEW r,
         OnFirstLine("http_version_minor", s, p, q), s[p + 1] = "CR",
         r.method = q.method, r.uri = q.uri, r.headers = q.headers,
         SameVersion(q, r)
  PROVE  BehindFirstLine("expecting_newline_1", s, p + 1, r)
<1>1. PICK i \in 1..p, j \in 1..p, k \in 1..p : InMinor(s, i, j, k, p, q) /\ p > k
  BY DEF OnFirstLine, VersionAt
<1>2. Quiet(s, 1, p) /\ q.headers = <<>> /\ HeadersUpto(s)[p] = <<>>
  BY DEF OnFirstLine
<1>3. /\ p \in 0..Len(s) /\ p + 1 \in 1..Len(s) /\ (p + 1) - 1 = p /\ p + 1 > 0
      /\ p + 1 \in Nat /\ 1 \in 1..(p + 1) /\ Len(s) \in Int
      /\ p + 1 \in 1..(Len(s) + 1)
  OBVIOUS
<1>4. Space1(s, p) = i /\ Space2(s, p) = j /\ Dot(s, p) = k
  BY <1>1, <1>3, DotAt
<1>5. IsRequestLine(s, p)
  <2>1. /\ j + 5 <= p /\ j + 6 < k /\ k <= p /\ 1 < i /\ i <= j - 1
        /\ j \in Nat \ {0} /\ j + 5 <= Len(s)
    <3>1. /\ j + 6 < k /\ k <= p /\ 1 < i /\ i <= j - 1
          /\ j \in Nat \ {0} /\ k \in Nat /\ p \in Nat /\ p <= Len(s) /\ Len(s) \in Nat
      BY <1>1, <1>3 DEF InMinor, InMajor, InVersion, InUri
    <3> QED BY <3>1
  <2>2. \A x \in 1..5 : s[j + x] = HTTP[x]
    <3>1. InVersion(s, i, j, j + 5, q)
      BY <1>1 DEF InMinor, InMajor
    <3>2. \A x \in 1..((j + 5) - j) : s[j + x] = HTTP[x]
      BY <3>1 DEF InVersion
    <3>3. (j + 5) - j = 5
      BY <2>1
    <3> QED BY <3>2, <3>3
  <2>3. SubSeq(s, j + 1, j + 5) = <<"H", "T", "T", "P", "/">>
    BY <2>1, <2>2, HttpPart DEF HTTP
  <2>4. i <= p /\ Token(s, 1, i - 1)
    BY <1>1, <2>1 DEF Token, InMinor, InMajor, InVersion, InUri, InMethod
  <2>5. Text(s, i + 1, j - 1)
    BY <1>1 DEF Text, InMinor, InMajor, InVersion, InUri
  <2>6. Number(s, j + 6, k - 1) /\ Number(s, k + 1, p)
    BY <1>1, <2>1 DEF Number, InMinor, InMajor
  <2> QED BY <1>4, <2>1, <2>3, <2>4, <2>5, <2>6 DEF IsRequestLine
<1>6. First({"CR"}, s, 1, Len(s)) = p + 1
  <2>1. \A x \in 1..((p + 1) - 1) : s[x] \notin {"CR"}
    BY <1>2, <1>3 DEF Quiet
  <2> QED BY <1>3, <2>1, FirstUnique
<1>7. LineFields(s, r)
  <2>1. /\ r.method = SubSeq(s, 1, i - 1) /\ r.uri = SubSeq(s, i + 1, j - 1)
        /\ r.http_version_major = NumberOf(s, j + 6, k - 1)
        /\ r.http_version_minor = NumberOf(s, k + 1, p)
    BY <1>1 DEF InMinor, InMajor, InVersion, InUri, InMethod, SameVersion
  <2> QED BY <1>3, <1>4, <1>6, <2>1 DEF LineFields, RequestOf
<1>8. LineBegin(s, p + 1) = 1
  <2>1. \A x \in 1..((p + 1) - 1) : s[x] # "LF"
    BY <1>2, <1>3 DEF Quiet
  <2> QED BY <1>3, <2>1, LineBeginUnique
<1>9. HeadersUpto(s)[p + 1] = <<>>
  BY <1>2, <1>3, <1>8, HeadersProperties
<1> QED BY <1>2, <1>3, <1>5, <1>7, <1>9 DEF BehindFirstLine

-----------------------------------------------------------------------------
(* From line to line.                                                      *)

LEMMA LinesMore ==
  ASSUME NEW s \in Seq(Chars), NEW p \in 1..(Len(s) - 1), NEW a \in 1..p,
         a = 1 \/ IsLines(s, a - 1), Quiet(s, a, p - 1), s[p] = "CR",
         IsLine(s, a, p), s[p + 1] = "LF"
  PROVE  IsLines(s, p + 1)
<1>1. LineBegin(s, p) = a
  <2>1. p \in Nat /\ \A i \in a..(p - 1) : s[i] # "LF"
    BY DEF Quiet
  <2>2. a = 1 \/ s[a - 1] = "LF"
    BY DEF IsLines
  <2> QED BY <2>1, <2>2, LineBeginUnique
<1>2. ASSUME NEW i \in 1..(p + 1)
      PROVE  /\ s[i] = "LF" => i > 1 /\ s[i - 1] = "CR"
             /\ s[i] = "CR" =>
                  i < p + 1 /\ s[i + 1] = "LF" /\ IsLine(s, LineBegin(s, i), i)
  <2>1. CASE i < a
    <3>1. i \in 1..(a - 1) /\ a # 1
      BY <2>1
    <3>2. i < a - 1 => i < p + 1
      BY <3>1
    <3> QED BY <3>1, <3>2 DEF IsLines
  <2>2. CASE i >= a /\ i < p
    <3>1. i \in a..(p - 1)
      BY <2>2
    <3> QED BY <3>1 DEF Quiet
  <2>3. CASE i = p
    BY <1>1, <2>3
  <2>4. CASE i = p + 1
    <3>1. i > 1 /\ i - 1 = p
      BY <2>4
    <3> QED BY <2>4, <3>1
  <2>5. i < a \/ (i >= a /\ i < p) \/ i = p \/ i = p + 1
    OBVIOUS
  <2> QED BY <2>1, <2>2, <2>3, <2>4, <2>5
<1>3. p + 1 > 0
  OBVIOUS
<1> QED BY <1>2, <1>3 DEF IsLines

(* A new line: nothing of it is read yet.                                  *)
LEMMA LineStarts ==
  ASSUME NEW s \in Seq(Chars), NEW p \in 1..(Len(s) - 1), NEW r,
         s[p + 1] = "LF", HeadersUpto(s)[p] # <<>> <=> More(s, p + 2),
         r.headers = HeadersUpto(s)[p]
  PROVE  OnHeaderLine("header_line_start", s, p + 2, p + 1, r)
<1>1. /\ p + 1 = p + 2 - 1 /\ p \in 0..(Len(s) - 1)
      /\ \A i \in (p + 2)..(p + 1) : FALSE
  OBVIOUS
<1>2. HeadersUpto(s)[p + 1] = HeadersUpto(s)[p]
  BY <1>1, NoCRHeaders
<1> QED BY <1>1, <1>2 DEF OnHeaderLine, Quiet, InHeader

LEMMA FirstLineEnds ==
  ASSUME NEW s \in Seq(Chars), NEW p \in 0..(Len(s) - 1), NEW q, NEW r, NEW l,
         BehindFirstLine(l, s, p, q), s[p + 1] = "LF", r.headers = q.headers
  PROVE  /\ IsLines(s, p + 1)
         /\ OnHeaderLine("header_line_start", s, p + 2, p + 1, r)
<1>1. /\ p \in 1..(Len(s) - 1) /\ 1 \in 1..p /\ p + 2 - 2 = p
  BY DEF BehindFirstLine
<1>2. IsLine(s, 1, p)
  BY DEF BehindFirstLine, IsLine
<1>3. IsLines(s, p + 1)
  BY <1>1, <1>2, LinesMore DEF BehindFirstLine
<1>4. ~More(s, p + 2)
  <2>1. ASSUME NEW i \in 1..p PROVE s[i] # "LF"
    <3>1. i \in 1..(p - 1) \/ i = p
      OBVIOUS
    <3> QED BY <3>1 DEF BehindFirstLine, Quiet
  <2> QED BY <1>1, <2>1 DEF More
<1> QED BY <1>1, <1>3, <1>4, LineStarts DEF BehindFirstLine

LEMMA HeaderLineEnds ==
  ASSUME NEW s \in Seq(Chars), NEW p \in 0..(Len(s) - 1), NEW a \in 2..(p + 1),
         NEW q, NEW r, NEW l, IsLines(s, a - 1), BehindHeaderLine(l, s, a, p, q),
         s[p + 1] = "LF", r.headers = q.headers
  PROVE  /\ IsLines(s, p + 1)
         /\ OnHeaderLine("header_line_start", s, p + 2, p + 1, r)
<1>1. /\ p \in 1..(Len(s) - 1) /\ a \in 1..p /\ a - 1 \in 1..(p + 2 - 2)
  BY DEF BehindHeaderLine
<1>2. IsLines(s, p + 1)
  BY <1>1, LinesMore DEF BehindHeaderLine
<1>3. More(s, p + 2)
  BY <1>1 DEF More, IsLines
<1> QED BY <1>1, <1>2, <1>3, LineStarts DEF BehindHeaderLine

LEMMA HeadersEnd ==
  ASSUME NEW s \in Seq(Chars), NEW p \in 0..(Len(s) - 1), NEW a \in 2..(p + 1),
         NEW q, NEW l, IsLines(s, a - 1), BehindHeaders(l, s, a, p, q),
         s[p + 1] = "LF"
  PROVE  IsRequest(s, p + 1) /\ q.headers = HeadersUpto(s)[p + 1]
<1>1. p = a /\ p + 1 > 2 /\ p + 1 - 2 = a - 1 /\ p + 1 - 1 = p
  BY DEF BehindHeaders
<1>2. HeadersUpto(s)[p + 1] = HeadersUpto(s)[p]
  BY NoCRHeaders
<1> QED BY <1>1, <1>2 DEF IsRequest, BehindHeaders

(* Within a header line.                                                   *)
LEMMA HeaderLineMore ==
  ASSUME NEW s \in Seq(Chars), NEW p \in 0..(Len(s) - 1), NEW a \in 2..(p + 1),
         NEW q, NEW r, NEW l, NEW m, OnHeaderLine(l, s, a, p, q),
         s[p + 1] \notin {"CR", "LF"},
         InHeader(m, s, HeadersUpto(s)[p], a, p + 1, r)
  PROVE  OnHeaderLine(m, s, a, p + 1, r)
<1>1. a \in Nat /\ p \in Nat
  OBVIOUS
<1> QED BY <1>1, QuietMore, NoCRHeaders DEF OnHeaderLine

LEMMA HeadersType ==
  ASSUME NEW s \in Seq(Chars), NEW p \in 0..Len(s)
  PROVE  HeadersUpto(s)[p] \in Seq(Header)
BY HeadersProperties

LEMMA HeaderExcept ==
  ASSUME NEW h \in Header, NEW w \in Seq(Chars)
  PROVE  /\ [h EXCEPT !.name = w] = [name |-> w, value |-> h.value]
         /\ [h EXCEPT !.value = w] = [name |-> h.name, value |-> w]
         /\ [h EXCEPT !["name"] = w] = [name |-> w, value |-> h.value]
         /\ [h EXCEPT !["value"] = w] = [name |-> h.name, value |-> w]
<1>1. /\ [h EXCEPT !["name"] = w] = [h EXCEPT !.name = w]
      /\ [h EXCEPT !["value"] = w] = [h EXCEPT !.value = w]
  OBVIOUS
<1>2. /\ [h EXCEPT !.name = w] = [name |-> w, value |-> h.value]
      /\ [h EXCEPT !.value = w] = [name |-> h.name, value |-> w]
  BY DEF Header
<1> QED BY <1>1, <1>2

LEMMA ConcatAppend ==
  ASSUME NEW u \in Seq(Chars), NEW v \in Seq(Chars), NEW c \in Chars
  PROVE  Append(u \o v, c) = u \o Append(v, c)
<1>1. u \o v \in Seq(Chars) /\ <<c>> \in Seq(Chars)
  OBVIOUS
<1>2. Append(u \o v, c) = (u \o v) \o <<c>> /\ Append(v, c) = v \o <<c>>
  BY <1>1, AppendIsConcat
<1>3. (u \o v) \o <<c>> = u \o (v \o <<c>>)
  BY <1>1, ConcatAssociative
<1> QED BY <1>2, <1>3

(* Back, of any object.                                                    *)
BackOf(q, field, c) == [q EXCEPT !.headers[Len(q.headers)][field] = Append(@, c)]

(* headers.back() is the header that was put there last.                   *)
LEMMA BackOfAppend ==
  ASSUME NEW q \in Request, NEW hs \in Seq(Header), NEW h \in Header,
         q.headers = Append(hs, h), NEW c \in Chars
  PROVE  /\ BackOf(q, "name", c).headers
              = Append(hs, [name |-> Append(h.name, c), value |-> h.value])
         /\ BackOf(q, "value", c).headers
              = Append(hs, [name |-> h.name, value |-> Append(h.value, c)])
<1> DEFINE all == Append(hs, h)
           n == Len(hs) + 1
<1>1. /\ all \in Seq(Header) /\ Len(all) = n /\ all[n] = h /\ n \in Nat /\ n \in 1..n
      /\ \A i \in 1..Len(hs) : all[i] = hs[i]
  BY AppendProperties
<1>2. DOMAIN h = {"name", "value"}
  BY DEF Header
<1>3. ASSUME NEW new \in Header
      PROVE  [all EXCEPT ![n] = new] = Append(hs, new)
  <2> DEFINE f == Append(hs, new)
             g == [all EXCEPT ![n] = new]
  <2>1. /\ f \in Seq(Header) /\ Len(f) = n /\ f[n] = new
        /\ \A i \in 1..Len(hs) : f[i] = hs[i]
    BY AppendProperties
  <2>2. \A i \in 1..n : i = n \/ i \in 1..Len(hs)
    BY <1>1
  <2> HIDE DEF all, f
  <2>3. /\ g \in Seq(Header) /\ Len(g) = n
        /\ \A i \in 1..n : g[i] = IF i = n THEN new ELSE all[i]
    BY <1>1, ExceptSeq
  <2> HIDE DEF g
  <2>4. \A i \in 1..n : g[i] = f[i]
    BY <1>1, <2>1, <2>2, <2>3
  <2>5. g = f
    BY <2>1, <2>3, <2>4, SeqEqual
  <2> QED BY <2>5 DEF f, g
<1>4. ASSUME NEW w \in Seq(Chars)
      PROVE  /\ [h EXCEPT !["name"] = w] = [name |-> w, value |-> h.value]
             /\ [h EXCEPT !["value"] = w] = [name |-> h.name, value |-> w]
             /\ [name |-> w, value |-> h.value] \in Header
             /\ [name |-> h.name, value |-> w] \in Header
  <2>1. h.name \in Seq(Chars) /\ h.value \in Seq(Chars)
    BY DEF Header
  <2>5. /\ [name |-> w, value |-> h.value] \in Header
        /\ [name |-> h.name, value |-> w] \in Header
    BY <2>1 DEF Header
  <2> QED BY <2>5, HeaderExcept
<1>6. Append(h.name, c) \in Seq(Chars) /\ Append(h.value, c) \in Seq(Chars)
  <2>1. h.name \in Seq(Chars) /\ h.value \in Seq(Chars)
    BY DEF Header
  <2> QED BY <2>1
<1>5. \A f \in {"name", "value"} :
        BackOf(q, f, c).headers
          = [all EXCEPT ![n] = [h EXCEPT ![f] = Append(@, c)]]
  <2> TAKE f \in {"name", "value"}
  <2>1. q.headers = all /\ Len(q.headers) = n
    BY <1>1
  <2> HIDE DEF all, n
  <2>2. [q EXCEPT !.headers[n][f] = Append(@, c)].headers
          = [q.headers EXCEPT ![n] = [q.headers[n] EXCEPT ![f] = Append(@, c)]]
    BY DEF Request
  <2> QED BY <1>1, <2>1, <2>2 DEF BackOf
<1> HIDE DEF all
<1> QED BY <1>3, <1>4, <1>5, <1>6

LEMMA FoldedProperties ==
  ASSUME NEW hs \in Seq(Header), hs # <<>>, NEW v \in Seq(Chars)
  PROVE  /\ Folded(hs, v) \in Seq(Header) /\ Len(Folded(hs, v)) = Len(hs)
         /\ \A i \in 1..Len(hs) :
              Folded(hs, v)[i] =
                IF i = Len(hs)
                THEN [name |-> hs[i].name, value |-> hs[i].value \o v] ELSE hs[i]
<1> DEFINE n == Len(hs)
           h == [name |-> hs[n].name, value |-> hs[n].value \o v]
<1>1. n \in 1..n /\ n \in Nat /\ hs[n] \in Header
  BY EmptySeq
<1>2. hs[n].name \in Seq(Chars) /\ hs[n].value \in Seq(Chars)
  BY <1>1 DEF Header
<1>3. hs[n].value \o v \in Seq(Chars)
  BY <1>2
<1>4. h \in Header
  BY <1>2, <1>3 DEF Header
<1>5. ASSUME NEW w \in Seq(Chars)
      PROVE  [hs[n] EXCEPT !.value = w] = [name |-> hs[n].name, value |-> w]
  BY <1>1, HeaderExcept
<1>6. Folded(hs, v) = [hs EXCEPT ![n] = [hs[n] EXCEPT !.value = hs[n].value \o v]]
  BY DEF Folded
<1>7. Folded(hs, v) = [hs EXCEPT ![n] = h]
  BY <1>3, <1>5, <1>6
<1> HIDE DEF h
<1>8. /\ [hs EXCEPT ![n] = h] \in Seq(Header) /\ Len([hs EXCEPT ![n] = h]) = n
      /\ \A i \in 1..n : [hs EXCEPT ![n] = h][i] = IF i = n THEN h ELSE hs[i]
  BY <1>1, <1>4, ExceptSeq
<1> QED BY <1>7, <1>8 DEF h

LEMMA FoldedNothing ==
  ASSUME NEW hs \in Seq(Header), hs # <<>>
  PROVE  Folded(hs, <<>>) = hs
<1> DEFINE n == Len(hs)
           g == Folded(hs, <<>>)
<1>1. <<>> \in Seq(Chars)
  OBVIOUS
<1>2. /\ g \in Seq(Header) /\ Len(g) = n
      /\ \A i \in 1..n :
           g[i] = IF i = n THEN [name |-> hs[i].name, value |-> hs[i].value \o <<>>]
                           ELSE hs[i]
  BY <1>1, FoldedProperties
<1> HIDE DEF g
<1>3. ASSUME NEW i \in 1..n PROVE g[i] = hs[i]
  <2>1. hs[i] \in Header
    OBVIOUS
  <2>2. hs[i].value \in Seq(Chars) /\ hs[i] = [name |-> hs[i].name, value |-> hs[i].value]
    BY <2>1 DEF Header
  <2>3. hs[i].value \o <<>> = hs[i].value
    BY <2>2, ConcatEmptySeq
  <2> QED BY <1>2, <2>2, <2>3
<1>4. g = hs
  BY <1>2, <1>3, SeqEqual
<1> QED BY <1>4 DEF g

LEMMA BackOfFolded ==
  ASSUME NEW q \in Request, NEW hs \in Seq(Header), hs # <<>>,
         NEW v \in Seq(Chars), q.headers = Folded(hs, v), NEW c \in Chars
  PROVE  BackOf(q, "value", c).headers
           = Folded(hs, Append(v, c))
<1> DEFINE n == Len(hs)
           g == Folded(hs, v)
           w == Append(v, c)
           t == Folded(hs, w)
           h == [name |-> g[n].name, value |-> Append(g[n].value, c)]
<1>0. n \in 1..n /\ n \in Nat /\ w \in Seq(Chars) /\ hs[n] \in Header
  BY EmptySeq
<1>1. /\ g \in Seq(Header) /\ Len(g) = n
      /\ \A i \in 1..n :
           g[i] = IF i = n THEN [name |-> hs[i].name, value |-> hs[i].value \o v]
                           ELSE hs[i]
  BY FoldedProperties
<1>2. /\ t \in Seq(Header) /\ Len(t) = n
      /\ \A i \in 1..n :
           t[i] = IF i = n THEN [name |-> hs[i].name, value |-> hs[i].value \o w]
                           ELSE hs[i]
  <2> HIDE DEF w
  <2> QED BY <1>0, FoldedProperties
<1>3. BackOf(q, "value", c).headers
        = [g EXCEPT ![n] = [g[n] EXCEPT !["value"] = Append(g[n]["value"], c)]]
  <2> HIDE DEF g, n
  <2>1. q.headers = g /\ Len(q.headers) = n
    BY <1>1 DEF g
  <2>2. [q EXCEPT !.headers[n]["value"] = Append(@, c)].headers
          = [q.headers EXCEPT ![n] = [q.headers[n] EXCEPT !["value"] = Append(@, c)]]
    BY DEF Request
  <2> QED BY <2>1, <2>2 DEF BackOf
<1> HIDE DEF g, t
<1>4. g[n] \in Header
  BY <1>0, <1>1
<1>5. g[n].name \in Seq(Chars) /\ g[n].value \in Seq(Chars)
  BY <1>4 DEF Header
<1>6. Append(g[n].value, c) \in Seq(Chars)
  BY <1>5
<1>7. [g[n] EXCEPT !["value"] = Append(g[n]["value"], c)] = h
  BY <1>4, <1>6, HeaderExcept
<1>8. h \in Header
  BY <1>5, <1>6 DEF Header
<1>9. h = t[n]
  <2>1. hs[n].value \in Seq(Chars)
    BY <1>0 DEF Header
  <2>2. Append(hs[n].value \o v, c) = hs[n].value \o w
    BY <2>1, ConcatAppend
  <2>3. g[n] = [name |-> hs[n].name, value |-> hs[n].value \o v]
    BY <1>0, <1>1
  <2>4. t[n] = [name |-> hs[n].name, value |-> hs[n].value \o w]
    BY <1>0, <1>2
  <2>5. g[n].name = hs[n].name /\ g[n].value = hs[n].value \o v
    BY <2>3
  <2> HIDE DEF w
  <2> QED BY <2>2, <2>4, <2>5
<1> HIDE DEF h
<1>10. /\ [g EXCEPT ![n] = h] \in Seq(Header) /\ Len([g EXCEPT ![n] = h]) = n
       /\ \A i \in 1..n : [g EXCEPT ![n] = h][i] = IF i = n THEN h ELSE g[i]
  BY <1>0, <1>1, <1>8, ExceptSeq
<1>11. \A i \in 1..n : [g EXCEPT ![n] = h][i] = t[i]
  BY <1>1, <1>2, <1>9, <1>10
<1>12. [g EXCEPT ![n] = h] = t
  BY <1>2, <1>10, <1>11, SeqEqual
<1> QED BY <1>3, <1>7, <1>12 DEF t

LEMMA NameBegins ==
  ASSUME NEW s \in Seq(Chars), NEW p \in 0..(Len(s) - 1), NEW a \in 2..(p + 1),
         NEW hs, NEW q, NEW r, InHeader("header_line_start", s, hs, a, p, q),
         Plain(s[p + 1]),
         r.headers = Append(q.headers, [name |-> <<s[p + 1]>>, value |-> <<>>])
  PROVE  InHeader("header_name", s, hs, a, p + 1, r)
<1>1. p = a - 1 /\ q.headers = hs
  BY DEF InHeader
<1>2. p + 1 = a /\ a \in 1..(p + 1) /\ a \in Int /\ p \in Int /\ p < a /\ a <= p + 1
      /\ \A x \in a..(p + 1) : x = p + 1
  BY <1>1
<1>3. SubSeq(s, a, p + 1) = Append(<<>>, s[p + 1])
  BY <1>2, PartAppend, PartEmpty
<1>4. SubSeq(s, a, p + 1) = <<s[p + 1]>>
  BY <1>3
<1> QED BY <1>1, <1>2, <1>4 DEF InHeader, InName

LEMMA NameMore ==
  ASSUME NEW s \in Seq(Chars), NEW p \in 0..(Len(s) - 1), NEW a \in 2..(p + 1),
         NEW hs \in Seq(Header), NEW q \in Request, NEW r,
         InHeader("header_name", s, hs, a, p, q), Plain(s[p + 1]),
         r.headers = BackOf(q, "name", s[p + 1]).headers
  PROVE  InHeader("header_name", s, hs, a, p + 1, r)
<1> DEFINE h == [name |-> SubSeq(s, a, p), value |-> <<>>]
<1>1. InName(s, hs, a, p, q)
  BY DEF InHeader
<1>2. /\ a \in 1..(p + 1) /\ a \in Nat \ {0} /\ p \in Int /\ p <= Len(s)
      /\ s[p + 1] \in Chars /\ a <= p + 1
      /\ \A x \in a..(p + 1) : x \in a..p \/ x = p + 1
  BY <1>1 DEF InName
<1>3. SubSeq(s, a, p) \in Seq(Chars)
  BY <1>2, PartType
<1>4. h \in Header /\ q.headers = Append(hs, h)
  BY <1>1, <1>3 DEF InName, Header
<1>5. /\ h.name = SubSeq(s, a, p) /\ h.value = <<>>
      /\ Append(h.name, s[p + 1]) = SubSeq(s, a, p + 1)
  BY <1>2, PartAppend
<1> HIDE DEF h
<1>6. r.headers = Append(hs, [name |-> Append(h.name, s[p + 1]), value |-> h.value])
  BY <1>2, <1>4, BackOfAppend
<1>7. r.headers = Append(hs, [name |-> SubSeq(s, a, p + 1), value |-> <<>>])
  BY <1>5, <1>6
<1> QED BY <1>1, <1>2, <1>7 DEF InHeader, InName

LEMMA NameEnds ==
  ASSUME NEW s \in Seq(Chars), NEW p \in 0..(Len(s) - 1), NEW a \in 2..(p + 1),
         NEW hs, NEW q, NEW r, InHeader("header_name", s, hs, a, p, q),
         s[p + 1] = ":", r.headers = q.headers
  PROVE  InHeader("space_before_header_value", s, hs, a, p + 1, r)
<1>1. InName(s, hs, a, p, q) /\ (p + 1) - 1 = p
  BY DEF InHeader
<1> QED BY <1>1 DEF InHeader, InName, AtColon

LEMMA SpaceRead ==
  ASSUME NEW s \in Seq(Chars), NEW p \in 0..(Len(s) - 1), NEW a \in 2..(p + 1),
         NEW hs, NEW q, NEW r,
         InHeader("space_before_header_value", s, hs, a, p, q),
         s[p + 1] = "SP", r.headers = q.headers
  PROVE  InHeader("header_value", s, hs, a, p + 1, r)
<1>1. InName(s, hs, a, p - 1, q) /\ s[p] = ":"
  BY DEF InHeader, AtColon
<1>2. /\ a < p /\ p < p + 1 /\ p \in a..(p + 1) /\ p + 2 \in Int /\ p + 1 \in Int
      /\ p + 1 < p + 2 /\ \A x \in (p + 2)..(p + 1) : FALSE
  BY <1>1 DEF InName
<1>3. SubSeq(s, p + 2, p + 1) = <<>>
  BY <1>2, PartEmpty
<1>4. InValue(s, hs, a, p, p + 1, r)
  BY <1>1, <1>2, <1>3 DEF InName, InValue, Text
<1> QED BY <1>2, <1>4 DEF InHeader

LEMMA ValueMore ==
  ASSUME NEW s \in Seq(Chars), NEW p \in 0..(Len(s) - 1), NEW a \in 2..(p + 1),
         NEW hs \in Seq(Header), NEW q \in Request, NEW r,
         NEW i \in a..p, InValue(s, hs, a, i, p, q), ~is_ctl(s[p + 1]),
         r.headers = BackOf(q, "value", s[p + 1]).headers
  PROVE  InHeader("header_value", s, hs, a, p + 1, r)
<1> DEFINE h == [name |-> SubSeq(s, a, i - 1), value |-> SubSeq(s, i + 2, p)]
<1>0. a < i /\ i < p
  BY DEF InValue
<1>1. /\ a < i /\ i < p + 1 /\ i \in a..(p + 1)
      /\ a \in Nat \ {0} /\ i - 1 \in Int /\ i - 1 <= Len(s)
      /\ i + 2 \in 1..(p + 1) /\ i + 2 \in Nat \ {0} /\ p \in Int /\ p <= Len(s)
      /\ s[p + 1] \in Chars
      /\ \A x \in (i + 2)..(p + 1) : x \in (i + 2)..p \/ x = p + 1
  BY <1>0
<1>2. SubSeq(s, a, i - 1) \in Seq(Chars) /\ SubSeq(s, i + 2, p) \in Seq(Chars)
  BY <1>1, PartType
<1>3. h \in Header /\ q.headers = Append(hs, h)
  BY <1>2 DEF InValue, Header
<1>4. /\ h.name = SubSeq(s, a, i - 1)
      /\ Append(h.value, s[p + 1]) = SubSeq(s, i + 2, p + 1)
  BY <1>1, PartAppend
<1> HIDE DEF h
<1>5. r.headers = Append(hs, [name |-> h.name, value |-> Append(h.value, s[p + 1])])
  <2>1. s[p + 1] \in Chars
    BY <1>1
  <2> QED BY <1>3, <2>1, BackOfAppend
<1>6. r.headers = Append(hs, [name |-> SubSeq(s, a, i - 1),
                              value |-> SubSeq(s, i + 2, p + 1)])
  BY <1>4, <1>5
<1>7. InValue(s, hs, a, i, p + 1, r)
  BY <1>1, <1>6 DEF InValue, Text
<1> QED BY <1>1, <1>7 DEF InHeader

LEMMA FoldMore ==
  ASSUME NEW s \in Seq(Chars), NEW p \in 0..(Len(s) - 1), NEW a \in 2..(p + 1),
         NEW hs \in Seq(Header), hs # <<>>, NEW q \in Request, NEW r,
         NEW f \in a..p, InFold(s, hs, a, f, p, q), ~is_ctl(s[p + 1]),
         r.headers = BackOf(q, "value", s[p + 1]).headers
  PROVE  InHeader("header_value", s, hs, a, p + 1, r)
<1>1. /\ f <= p + 1 /\ f \in a..(p + 1) /\ f \in 1..(p + 1)
      /\ f \in Nat \ {0} /\ p \in Int /\ p <= Len(s) /\ s[p + 1] \in Chars
      /\ \A x \in f..(p + 1) : x \in f..p \/ x = p + 1
  OBVIOUS
<1>2. SubSeq(s, f, p) \in Seq(Chars)
  BY <1>1, PartType
<1>3. r.headers = Folded(hs, Append(SubSeq(s, f, p), s[p + 1]))
  BY <1>1, <1>2, BackOfFolded DEF InFold
<1>4. r.headers = Folded(hs, SubSeq(s, f, p + 1))
  BY <1>1, <1>3, PartAppend
<1>5. InFold(s, hs, a, f, p + 1, r)
  BY <1>1, <1>4 DEF InFold, Text
<1> QED BY <1>1, <1>5 DEF InHeader

LEMMA BlanksBegin ==
  ASSUME NEW s \in Seq(Chars), NEW p \in 0..(Len(s) - 1), NEW a \in 2..(p + 1),
         NEW hs, NEW q, NEW r, InHeader("header_line_start", s, hs, a, p, q),
         Blank(s[p + 1]), More(s, a), r.headers = q.headers
  PROVE  InHeader("header_lws", s, hs, a, p + 1, r)
<1>1. p = a - 1 /\ q.headers = hs
  BY DEF InHeader
<1>2. a <= p + 1 /\ \A x \in a..(p + 1) : x = p + 1
  BY <1>1
<1> QED BY <1>1, <1>2 DEF InHeader, InBlanks

LEMMA BlanksMore ==
  ASSUME NEW s \in Seq(Chars), NEW p \in 0..(Len(s) - 1), NEW a \in 2..(p + 1),
         NEW hs, NEW q, NEW r, InHeader("header_lws", s, hs, a, p, q),
         Blank(s[p + 1]), r.headers = q.headers
  PROVE  InHeader("header_lws", s, hs, a, p + 1, r)
<1>1. InBlanks(s, hs, a, p, q)
  BY DEF InHeader
<1>2. a <= p + 1 /\ \A x \in a..(p + 1) : x \in a..p \/ x = p + 1
  BY <1>1
<1> QED BY <1>1, <1>2 DEF InHeader, InBlanks

LEMMA BlanksEnd ==
  ASSUME NEW s \in Seq(Chars), NEW p \in 0..(Len(s) - 1), NEW a \in 2..(p + 1),
         NEW hs \in Seq(Header), hs # <<>>, NEW q \in Request, NEW r,
         InHeader("header_lws", s, hs, a, p, q),
         ~Blank(s[p + 1]), ~is_ctl(s[p + 1]),
         r.headers = BackOf(q, "value", s[p + 1]).headers
  PROVE  InHeader("header_value", s, hs, a, p + 1, r)
<1>1. InBlanks(s, hs, a, p, q)
  BY DEF InHeader
<1>2. /\ a < p + 1 /\ p + 1 \in a..(p + 1) /\ p + 1 \in 1..(p + 1)
      /\ (p + 1) - 1 = p /\ p + 1 \in Int /\ p \in Int /\ p < p + 1
      /\ s[p + 1] \in Chars /\ <<>> \in Seq(Chars)
      /\ \A x \in (p + 1)..(p + 1) : x = p + 1
  BY <1>1 DEF InBlanks
<1>3. q.headers = Folded(hs, <<>>)
  BY <1>1, FoldedNothing DEF InBlanks
<1>4. r.headers = Folded(hs, Append(<<>>, s[p + 1]))
  BY <1>2, <1>3, BackOfFolded
<1>5. SubSeq(s, p + 1, p + 1) = Append(<<>>, s[p + 1])
  BY <1>2, PartAppend, PartEmpty
<1>6. InFold(s, hs, a, p + 1, p + 1, r)
  <2>1. r.headers = Folded(hs, SubSeq(s, p + 1, p + 1))
    BY <1>4, <1>5
  <2>2. Text(s, p + 1, p + 1)
    BY <1>2 DEF Text
  <2>3. p + 1 <= p + 1 /\ \A x \in a..((p + 1) - 1) : Blank(s[x])
    BY <1>1, <1>2 DEF InBlanks
  <2> QED BY <1>1, <1>2, <2>1, <2>2, <2>3 DEF InBlanks, InFold
<1> QED BY <1>2, <1>6 DEF InHeader

(* The CR that ends a header line.                                         *)
LEMMA LineHeaders ==
  ASSUME NEW s \in Seq(Chars), NEW p \in 0..(Len(s) - 1), NEW a \in 2..(p + 1),
         IsLines(s, a - 1), Quiet(s, a, p), s[p + 1] = "CR"
  PROVE  HeadersUpto(s)[p + 1] = IF a = p + 1 THEN HeadersUpto(s)[p]
                                 ELSE AddLine(HeadersUpto(s)[p], s, a, p)
<1>1. /\ p + 1 \in Nat /\ a \in 1..(p + 1) /\ (p + 1) - 1 = p /\ a # 1
      /\ p + 1 \in 1..Len(s)
  OBVIOUS
<1>2. s[a - 1] = "LF" /\ \A i \in a..((p + 1) - 1) : s[i] # "LF"
  BY <1>1 DEF IsLines, Quiet
<1>3. LineBegin(s, p + 1) = a
  BY <1>1, <1>2, LineBeginUnique
<1> QED BY <1>1, <1>3, HeadersProperties

LEMMA ValueEnds ==
  ASSUME NEW s \in Seq(Chars), NEW p \in 0..(Len(s) - 1), NEW a \in 2..(p + 1),
         NEW q, NEW r, NEW i \in a..p, IsLines(s, a - 1), Quiet(s, a, p),
         InValue(s, HeadersUpto(s)[p], a, i, p, q),
         s[p + 1] = "CR", r.headers = q.headers
  PROVE  BehindHeaderLine("expecting_newline_2", s, a, p + 1, r)
<1> DEFINE hs == HeadersUpto(s)[p]
<1>1. /\ a < i /\ i < p /\ a < p + 1 /\ (p + 1) - 1 = p /\ a > 1 /\ a # p + 1
      /\ a \in Nat /\ p \in Int /\ i \in a..(p + 1) /\ a \in a..(i - 1)
      /\ p \in 0..Len(s) /\ a \in 1..p /\ a <= i - 1
  BY DEF InValue
<1>2. \A x \in a..(i - 1) : Plain(s[x])
  BY DEF InValue
<1>3. Colon(s, a, p) = i
  <2>1. \A x \in a..(i - 1) : s[x] \notin {":"}
    BY <1>2 DEF Plain, is_tspecial
  <2> QED BY <1>1, <2>1, FirstUnique DEF Colon, InValue
<1>4. IsHeader(s, a, p)
  BY <1>1, <1>2, <1>3 DEF IsHeader, Token, InValue
<1>5. IsLine(s, a, p + 1)
  BY <1>1, <1>4 DEF IsLine
<1>6. ~Blank(s[a])
  BY <1>1, <1>2 DEF Plain, Blank, is_tspecial
<1>7. hs \in Seq(Header)
  BY <1>1, HeadersType
<1>8. q.headers = AddLine(hs, s, a, p)
  BY <1>3, <1>6 DEF AddLine, InValue
<1>9. HeadersUpto(s)[p + 1] = AddLine(hs, s, a, p)
  BY <1>1, LineHeaders
<1>10. AddLine(hs, s, a, p) # <<>>
  <2> HIDE DEF hs
  <2> QED BY <1>1, <1>6, <1>7, AddLineType
<1> QED BY <1>1, <1>5, <1>8, <1>9, <1>10 DEF BehindHeaderLine

(* A continuation whose text begins at f, or which has none.               *)
LEMMA FoldEnds ==
  ASSUME NEW s \in Seq(Chars), NEW p \in 0..(Len(s) - 1), NEW a \in 2..p,
         NEW q, NEW r, NEW f \in (a + 1)..(p + 1), IsLines(s, a - 1),
         Quiet(s, a, p), HeadersUpto(s)[p] # <<>>, More(s, a),
         \A x \in a..(f - 1) : Blank(s[x]), f = p + 1 \/ ~Blank(s[f]),
         Text(s, f, p), q.headers = Folded(HeadersUpto(s)[p], SubSeq(s, f, p)),
         s[p + 1] = "CR", r.headers = q.headers
  PROVE  BehindHeaderLine("expecting_newline_2", s, a, p + 1, r)
<1> DEFINE hs == HeadersUpto(s)[p]
<1>1. /\ a < p + 1 /\ (p + 1) - 1 = p /\ a # p + 1 /\ a <= p
      /\ a \in Nat /\ p \in Int /\ f \in a..(p + 1) /\ a \in a..(f - 1)
      /\ p \in 0..Len(s) /\ a \in 1..p /\ a \in 2..(p + 1)
      /\ (f # p + 1 => f \in 1..Len(s))
  OBVIOUS
<1>2. Blank(s[a])
  BY <1>1
<1>3. Indented(s, a, p) = f
  <2>1. \A x \in a..(f - 1) : s[x] \notin Chars \ {"SP", "HT"}
    BY DEF Blank
  <2>2. f = p + 1 \/ s[f] \in Chars \ {"SP", "HT"}
    BY <1>1 DEF Blank
  <2> QED BY <1>1, <2>1, <2>2, FirstUnique DEF Indented
<1>4. IsFold(s, a, p)
  BY <1>1, <1>2, <1>3 DEF IsFold
<1>5. IsLine(s, a, p + 1)
  BY <1>1, <1>4 DEF IsLine, More
<1>6. hs \in Seq(Header)
  BY <1>1, HeadersType
<1>7. q.headers = AddLine(hs, s, a, p)
  BY <1>2, <1>3 DEF AddLine, Folded
<1>8. HeadersUpto(s)[p + 1] = AddLine(hs, s, a, p)
  BY <1>1, LineHeaders
<1>9. AddLine(hs, s, a, p) # <<>>
  <2>1. hs # <<>>
    OBVIOUS
  <2> HIDE DEF hs
  <2> QED BY <1>1, <1>6, <2>1, AddLineType
<1> QED BY <1>1, <1>5, <1>7, <1>8, <1>9 DEF BehindHeaderLine

LEMMA HeaderLineCR ==
  ASSUME NEW s \in Seq(Chars), NEW p \in 0..(Len(s) - 1), NEW a \in 2..(p + 1),
         NEW q, NEW r, NEW l, IsLines(s, a - 1), OnHeaderLine(l, s, a, p, q),
         l \in {"header_value", "header_lws"}, s[p + 1] = "CR",
         r.headers = q.headers
  PROVE  BehindHeaderLine("expecting_newline_2", s, a, p + 1, r)
<1> DEFINE hs == HeadersUpto(s)[p]
<1>0. Quiet(s, a, p) /\ (hs # <<>> <=> More(s, a))
  BY DEF OnHeaderLine
<1>1. CASE \E i \in a..p : InValue(s, hs, a, i, p, q)
  BY <1>0, <1>1, ValueEnds
<1>2. ASSUME NEW f \in a..p, InFold(s, hs, a, f, p, q)
      PROVE  BehindHeaderLine("expecting_newline_2", s, a, p + 1, r)
  <2>1. f \in (a + 1)..(p + 1) /\ a \in 2..p
    BY <1>2 DEF InFold
  <2>2. /\ More(s, a) /\ ~Blank(s[f]) /\ Text(s, f, p)
        /\ \A x \in a..(f - 1) : Blank(s[x])
        /\ q.headers = Folded(hs, SubSeq(s, f, p))
    BY <1>2 DEF InFold
  <2> QED BY <1>0, <2>1, <2>2, FoldEnds
<1>3. CASE InBlanks(s, hs, a, p, q)
  <2>1. /\ p + 1 \in (a + 1)..(p + 1) /\ a \in 2..p /\ (p + 1) - 1 = p
        /\ p + 1 \in Int /\ p \in Int /\ p < p + 1
        /\ \A x \in (p + 1)..p : FALSE
    BY <1>3 DEF InBlanks
  <2>2. More(s, a) /\ q.headers = hs /\ \A x \in a..((p + 1) - 1) : Blank(s[x])
    BY <1>3, <2>1 DEF InBlanks
  <2>3. SubSeq(s, p + 1, p) = <<>> /\ Text(s, p + 1, p)
    BY <2>1, PartEmpty DEF Text
  <2>4. q.headers = Folded(hs, SubSeq(s, p + 1, p))
    <3>1. hs \in Seq(Header) /\ hs # <<>>
      <4>1. p \in 0..Len(s)
        OBVIOUS
      <4> QED BY <1>0, <2>2, <4>1, HeadersType
    <3> HIDE DEF hs
    <3> QED BY <2>2, <2>3, <3>1, FoldedNothing
  <2> QED BY <1>0, <2>1, <2>2, <2>3, <2>4, FoldEnds
<1> QED BY <1>1, <1>2, <1>3 DEF OnHeaderLine, InHeader

LEMMA EmptyLineCR ==
  ASSUME NEW s \in Seq(Chars), NEW p \in 0..(Len(s) - 1), NEW a \in 2..(p + 1),
         NEW q, NEW r, IsLines(s, a - 1),
         OnHeaderLine("header_line_start", s, a, p, q), s[p + 1] = "CR",
         r.headers = q.headers
  PROVE  BehindHeaders("expecting_newline_3", s, a, p + 1, r)
<1>1. p = a - 1 /\ q.headers = HeadersUpto(s)[p] /\ Quiet(s, a, p)
  BY DEF OnHeaderLine, InHeader
<1>2. p + 1 = a
  BY <1>1
<1> QED BY <1>1, <1>2, LineHeaders DEF BehindHeaders

-----------------------------------------------------------------------------
(* Where a request goes on: the line that holds the next character.        *)

LEMMA BreakBefore ==
  ASSUME NEW s, NEW p \in Nat, NEW a \in 1..(p + 1), p > 0,
         a = 1 \/ s[a - 1] = "LF", Quiet(s, a, p)
  PROVE  s[p] # "CR"
<1>1. CASE a = p + 1
  BY <1>1
<1>2. CASE a # p + 1
  <2>1. p \in a..p
    BY <1>2
  <2> QED BY <2>1 DEF Quiet
<1> QED BY <1>1, <1>2

LEMMA CurrentLine ==
  ASSUME NEW s \in Seq(Chars), NEW p \in 0..(Len(s) - 1), NEW a \in 1..(p + 1),
         a = 1 \/ s[a - 1] = "LF", Quiet(s, a, p),
         NEW n \in (p + 1)..Len(s), IsRequest(s, n)
  PROVE  \E e \in (p + 1)..(n - 1) :
           /\ s[e] = "CR" /\ Quiet(s, a, e - 1)
           /\ IsLine(s, a, e) \/ (e = a /\ p + 1 = a /\ a > 1)
<1> DEFINE e == First({"CR"}, s, p + 1, n - 1)
<1>0. /\ n > 2 /\ IsLines(s, n - 2) /\ s[n - 1] = "CR" /\ s[n] = "LF"
      /\ p \in Nat /\ n \in Nat
  BY DEF IsRequest
<1>1. p > 0 => s[p] # "CR"
  BY <1>0, BreakBefore
<1>2. p + 1 <= n - 1
  <2>1. p + 1 # n
    <3> SUFFICES ASSUME p + 1 = n PROVE FALSE
      OBVIOUS
    <3>1. p = n - 1 /\ p > 0
      BY <1>0
    <3> QED BY <1>0, <1>1, <3>1
  <2> QED BY <1>0, <2>1
<1>3. /\ e \in (p + 1)..n /\ \A i \in (p + 1)..(e - 1) : s[i] # "CR"
      /\ e <= n - 1 => s[e] = "CR"
  <2>1. p + 1 \in Nat /\ n - 1 \in Int /\ p + 1 <= (n - 1) + 1 /\ (n - 1) + 1 = n
    BY <1>0
  <2> QED BY <2>1, FirstProperties
<1> HIDE DEF e
<1>4. e \in (p + 1)..(n - 1) /\ s[e] = "CR"
  <2>1. e # n
    <3> SUFFICES ASSUME e = n PROVE FALSE
      OBVIOUS
    <3>1. n - 1 \in (p + 1)..(e - 1)
      BY <1>0, <1>2
    <3> QED BY <1>0, <1>3, <3>1
  <2> QED BY <1>0, <1>3, <2>1
<1>5. ASSUME NEW i \in (p + 1)..(e - 1) PROVE s[i] # "LF"
  <2> SUFFICES ASSUME s[i] = "LF" PROVE FALSE
    OBVIOUS
  <2>1. i \in 1..(n - 2)
    BY <1>0, <1>4
  <2>2. i > 1 /\ s[i - 1] = "CR"
    BY <1>0, <2>1 DEF IsLines
  <2>3. CASE i = p + 1
    <3>1. i - 1 = p /\ p > 0
      BY <1>0, <2>2, <2>3
    <3> QED BY <1>1, <2>2, <3>1
  <2>4. CASE i # p + 1
    <3>1. i - 1 \in (p + 1)..(e - 1)
      BY <1>0, <1>4, <2>4
    <3> QED BY <1>3, <2>2, <3>1
  <2> QED BY <2>3, <2>4
<1>6. Quiet(s, a, e - 1)
  <2>1. \A i \in a..(e - 1) : i \in a..p \/ i \in (p + 1)..(e - 1)
    BY <1>0, <1>4
  <2> QED BY <1>3, <1>5, <2>1 DEF Quiet
<1>7. LineBegin(s, e) = a
  <2>1. e \in Nat /\ a \in 1..e /\ \A i \in a..(e - 1) : s[i] # "LF"
    BY <1>0, <1>4, <1>6 DEF Quiet
  <2> QED BY <2>1, LineBeginUnique
<1>8. CASE e <= n - 2
  <2>1. e \in 1..(n - 2)
    BY <1>0, <1>4, <1>8
  <2>2. IsLine(s, a, e)
    BY <1>0, <1>4, <1>7, <2>1 DEF IsLines
  <2> QED BY <1>4, <1>6, <2>2
<1>9. CASE e = n - 1
  <2>1. s[n - 2] = "LF"
    BY <1>0 DEF IsLines
  <2>2. n - 2 \notin a..(e - 1)
    BY <1>6, <2>1 DEF Quiet
  <2>3. e = a /\ p + 1 = a /\ a > 1
    BY <1>0, <1>4, <1>9, <2>2
  <2> QED BY <1>4, <1>6, <2>3
<1> QED BY <1>0, <1>4, <1>8, <1>9

(* The parts of a request line, and of the other lines, by position.       *)
Splits(s, i, j, k, b) ==
  /\ 1 < i /\ i < j /\ j + 6 < k /\ k < b
  /\ s[i] = "SP" /\ \A x \in 1..(i - 1) : Plain(s[x])
  /\ s[j] = "SP" /\ \A x \in (i + 1)..(j - 1) : s[x] # "SP" /\ ~is_ctl(s[x])
  /\ \A x \in 1..5 : s[j + x] = HTTP[x]
  /\ s[k] = "." /\ \A x \in (j + 6)..(k - 1) : is_digit(s[x])
  /\ \A x \in (k + 1)..b : is_digit(s[x])

LEMMA RequestLineParts ==
  ASSUME NEW s \in Seq(Chars), NEW b \in 0..Len(s), IsRequestLine(s, b)
  PROVE  \E i, j, k \in 1..b : Splits(s, i, j, k, b)
<1> DEFINE i == Space1(s, b)
           j == Space2(s, b)
           k == Dot(s, b)
<1>0. b \in Nat /\ b \in Int /\ 1 \in Nat /\ 1 <= b + 1 /\ b <= Len(s) /\ Len(s) \in Nat
  OBVIOUS
<1>1. i \in 1..(b + 1) /\ (i <= b => s[i] = "SP")
  BY <1>0, FirstProperties DEF Space1
<1>2. i <= b /\ Token(s, 1, i - 1)
  BY DEF IsRequestLine
<1>3. 1 < i /\ s[i] = "SP" /\ \A x \in 1..(i - 1) : Plain(s[x])
  <2> HIDE DEF i
  <2> QED BY <1>0, <1>1, <1>2 DEF Token
<1>4. /\ j \in (i + 1)..(b + 1) /\ (j <= b => s[j] = "SP")
      /\ \A x \in (i + 1)..(j - 1) : s[x] # "SP"
  <2>1. i + 1 \in Nat /\ i + 1 <= b + 1
    <3> HIDE DEF i
    <3> QED BY <1>0, <1>1, <1>2
  <2> QED BY <1>0, <2>1, FirstProperties DEF Space2
<1>5. j + 5 <= b /\ Text(s, i + 1, j - 1)
      /\ SubSeq(s, j + 1, j + 5) = <<"H", "T", "T", "P", "/">>
  BY DEF IsRequestLine
<1>6. \A x \in 1..5 : s[j + x] = HTTP[x]
  <2>1. j \in Nat \ {0} /\ j + 5 <= Len(s)
    <3> HIDE DEF i, j
    <3> QED BY <1>0, <1>1, <1>4, <1>5
  <2> HIDE DEF j
  <2> QED BY <1>5, <2>1, HttpPart DEF HTTP
<1>7. /\ k \in (j + 6)..(b + 1) /\ (k <= b => s[k] = ".")
  <2>1. j + 6 \in Nat /\ j + 6 <= b + 1
    <3> HIDE DEF i, j
    <3> QED BY <1>0, <1>1, <1>4, <1>5
  <2> QED BY <1>0, <2>1, FirstProperties DEF Dot
<1>8. Number(s, j + 6, k - 1) /\ Number(s, k + 1, b)
  BY DEF IsRequestLine
<1> HIDE DEF i, j, k
<1>9. i < j /\ j + 6 < k /\ k < b /\ s[k] = "." /\ s[j] = "SP"
  BY <1>0, <1>1, <1>4, <1>5, <1>7, <1>8 DEF Number
<1>10. Splits(s, i, j, k, b)
  BY <1>3, <1>4, <1>5, <1>6, <1>8, <1>9 DEF Splits, Text, Number
<1>11. i \in 1..b /\ j \in 1..b /\ k \in 1..b
  BY <1>0, <1>1, <1>4, <1>7, <1>9
<1> QED BY <1>10, <1>11

HeaderParts(s, a, k, b) ==
  /\ a < k /\ k < b /\ s[k] = ":" /\ s[k + 1] = "SP"
  /\ \A x \in a..(k - 1) : Plain(s[x])
  /\ Text(s, k + 2, b)

FoldParts(s, a, f, b) ==
  /\ a < f /\ f <= b + 1 /\ (f = b + 1 \/ ~Blank(s[f]))
  /\ \A x \in a..(f - 1) : Blank(s[x])
  /\ Text(s, f, b)

LEMMA LineParts ==
  ASSUME NEW s \in Seq(Chars), NEW b \in 0..Len(s), NEW a \in 2..(b + 1),
         IsLine(s, a, b + 1)
  PROVE  \/ \E k \in a..b : HeaderParts(s, a, k, b)
         \/ More(s, a) /\ \E f \in a..(b + 1) : FoldParts(s, a, f, b)
<1>0. b \in Int /\ a \in Nat /\ a <= b + 1 /\ (b + 1) - 1 = b /\ a # 1
  OBVIOUS
<1>1. CASE IsHeader(s, a, b)
  <2> DEFINE k == Colon(s, a, b)
  <2>1. k \in a..(b + 1) /\ (k <= b => s[k] = ":")
    BY <1>0, FirstProperties DEF Colon
  <2>2. Token(s, a, k - 1) /\ k < b /\ s[k + 1] = "SP" /\ Text(s, k + 2, b)
    BY <1>1 DEF IsHeader
  <2> HIDE DEF k
  <2>3. a < k /\ k \in a..b
    BY <1>0, <2>1, <2>2 DEF Token
  <2>4. HeaderParts(s, a, k, b)
    BY <1>0, <2>1, <2>2, <2>3 DEF HeaderParts, Token
  <2> QED BY <2>3, <2>4
<1>2. CASE More(s, a) /\ IsFold(s, a, b)
  <2> DEFINE f == Indented(s, a, b)
  <2>1. /\ f \in a..(b + 1)
        /\ \A x \in a..(f - 1) : s[x] \notin Chars \ {"SP", "HT"}
        /\ f <= b => s[f] \in Chars \ {"SP", "HT"}
    BY <1>0, FirstProperties DEF Indented
  <2>2. a <= b /\ Blank(s[a]) /\ Text(s, f, b)
    BY <1>2 DEF IsFold
  <2> HIDE DEF f
  <2>3. a < f
    <3>1. f = a => FALSE
      BY <1>0, <2>1, <2>2 DEF Blank
    <3> QED BY <1>0, <2>1, <3>1
  <2>4. ASSUME NEW x \in a..(f - 1) PROVE Blank(s[x])
    <3>1. x \in 1..Len(s)
      BY <1>0, <2>1
    <3> QED BY <2>1, <3>1 DEF Blank
  <2>5. f = b + 1 \/ ~Blank(s[f])
    BY <1>0, <2>1 DEF Blank
  <2>6. FoldParts(s, a, f, b)
    BY <1>0, <2>1, <2>2, <2>3, <2>4, <2>5 DEF FoldParts
  <2> QED BY <1>2, <2>1, <2>6
<1> QED BY <1>0, <1>1, <1>2 DEF IsLine, More

-----------------------------------------------------------------------------
(* What consume calls bad belongs to no request.                           *)

(* The request line's character that a state of the first line refuses.    *)
FirstLineRefuses(l, c) ==
  \/ l = "method_start" /\ ~Plain(c)
  \/ l = "method" /\ ~Plain(c) /\ c # "SP"
  \/ l = "uri" /\ is_ctl(c)
  \/ l \in DOMAIN VersionAt /\ c # HTTP[VersionAt[l] + 1]
  \/ l = "http_version_major_start" /\ ~is_digit(c)
  \/ l = "http_version_major" /\ ~is_digit(c) /\ c # "."
  \/ l = "http_version_minor_start" /\ ~is_digit(c)
  \/ l = "http_version_minor" /\ ~is_digit(c) /\ c # "CR"

LEMMA SameSpaces ==
  ASSUME NEW s, NEW b \in Nat, NEW q, NEW i0 \in Nat, NEW i \in 1..b, NEW j \in 1..b,
         NEW k \in 1..b, NEW p \in Nat, InUri(s, i0, p, q), p <= b,
         Splits(s, i, j, k, b)
  PROVE  i = i0 /\ p < j
<1>1. /\ 1 < i0 /\ i0 <= p /\ s[i0] = "SP" /\ \A x \in 1..(i0 - 1) : Plain(s[x])
      /\ \A x \in (i0 + 1)..p : s[x] # "SP"
  BY DEF InUri, InMethod
<1>2. /\ 1 < i /\ i < j /\ s[i] = "SP" /\ \A x \in 1..(i - 1) : Plain(s[x])
      /\ s[j] = "SP"
  BY DEF Splits
<1>3. ~Plain("SP")
  BY DEF Plain, is_tspecial
<1>4. ~(i < i0)
  <2>1. i < i0 => i \in 1..(i0 - 1)
    OBVIOUS
  <2> QED BY <1>1, <1>2, <1>3, <2>1
<1>5. ~(i0 < i)
  <2>1. i0 < i => i0 \in 1..(i - 1)
    BY <1>1
  <2> QED BY <1>1, <1>2, <1>3, <2>1
<1>6. i = i0
  BY <1>4, <1>5
<1>7. ~(j <= p)
  <2>1. j <= p => j \in (i0 + 1)..p
    BY <1>2, <1>6
  <2> QED BY <1>1, <1>2, <2>1
<1> QED BY <1>6, <1>7

LEMMA SamePlaces ==
  ASSUME NEW s, NEW b \in Nat, NEW p \in Nat, p <= b, NEW q,
         NEW i0 \in 1..p, NEW j0 \in 1..p,
         NEW i \in 1..b, NEW j \in 1..b, NEW k \in 1..b,
         InUri(s, i0, j0 - 1, q), s[j0] = "SP", Splits(s, i, j, k, b)
  PROVE  i = i0 /\ j = j0
<1>1. j0 - 1 \in Nat /\ j0 - 1 <= b /\ i0 \in Nat
  OBVIOUS
<1>2. i = i0 /\ j0 - 1 < j
  BY <1>1, SameSpaces
<1>3. i0 <= j0 - 1
  BY DEF InUri
<1>4. j0 < j => j0 \in (i + 1)..(j - 1)
  BY <1>1, <1>2, <1>3
<1>5. ~(j0 < j)
  BY <1>4 DEF Splits
<1> QED BY <1>1, <1>2, <1>5

LEMMA FirstLineBad ==
  ASSUME NEW s \in Seq(Chars), NEW p \in 0..(Len(s) - 1), NEW l, NEW q,
         OnFirstLine(l, s, p, q), FirstLineRefuses(l, s[p + 1]),
         NEW b \in p..(Len(s) - 1), s[b + 1] = "CR",
         NEW i \in 1..b, NEW j \in 1..b, NEW k \in 1..b, Splits(s, i, j, k, b)
  PROVE  FALSE
<1>0. /\ p \in Nat /\ b \in Nat /\ p + 1 \in 1..(b + 1) /\ (p + 1 <= b \/ p = b)
      /\ p <= b
  OBVIOUS
<1>1. CASE l \in {"method_start", "method"}
  <2>1. \A x \in 1..p : Plain(s[x])
    BY <1>1 DEF OnFirstLine, InMethod, VersionAt
  <2>2. ~Plain("SP") /\ ~Plain(s[p + 1])
    BY <1>1 DEF Plain, is_tspecial, FirstLineRefuses, VersionAt
  <2>3. 1 < i /\ s[i] = "SP" /\ \A x \in 1..(i - 1) : Plain(s[x])
    BY DEF Splits
  <2>4. i \notin 1..p /\ p + 1 \notin 1..(i - 1)
    BY <2>1, <2>2, <2>3
  <2>5. p + 1 = i
    BY <1>0, <2>3, <2>4
  <2>6. l = "method_start" => p = 0
    BY DEF OnFirstLine, VersionAt
  <2> QED BY <1>1, <2>3, <2>5, <2>6 DEF FirstLineRefuses, VersionAt
<1>2. CASE l = "uri"
  <2>1. PICK i0 \in 1..p : InUri(s, i0, p, q)
    BY <1>2 DEF OnFirstLine, VersionAt
  <2>2. i = i0 /\ p < j /\ i0 <= p
    <3>1. i0 \in Nat /\ p \in Nat /\ p <= b /\ i0 <= p
      BY <1>0, <2>1
    <3> QED BY <1>0, <2>1, <3>1, SameSpaces
  <2>3. p + 1 = j \/ p + 1 \in (i + 1)..(j - 1)
    BY <1>0, <2>2
  <2>4. ~is_ctl(s[p + 1])
    BY <2>3 DEF Splits, is_ctl
  <2> QED BY <1>2, <2>4 DEF FirstLineRefuses, VersionAt
<1>3. CASE l \in DOMAIN VersionAt
  <2>1. PICK i0 \in 1..p, j0 \in 1..p :
          InVersion(s, i0, j0, p, q) /\ p = j0 + VersionAt[l]
    BY <1>3 DEF OnFirstLine, VersionAt
  <2>2. j = j0
    <3>1. InUri(s, i0, j0 - 1, q) /\ s[j0] = "SP"
      BY <2>1 DEF InVersion
    <3> QED BY <1>0, <3>1, SamePlaces
  <2>3. VersionAt[l] \in 0..4
    BY <1>3 DEF VersionAt
  <2>4. s[p + 1] # HTTP[VersionAt[l] + 1]
    BY <1>3 DEF VersionAt, FirstLineRefuses
  <2>5. PICK v \in 0..4 : v = VersionAt[l]
    BY <2>3
  <2>6. v + 1 \in 1..5 /\ j + (v + 1) = p + 1
    <3>1. p = j + v
      BY <2>1, <2>2, <2>5
    <3>2. v + 1 \in 1..5
      OBVIOUS
    <3>3. j \in Nat /\ v \in Nat
      OBVIOUS
    <3> QED BY <3>1, <3>2, <3>3
  <2> QED BY <2>4, <2>5, <2>6 DEF Splits
<1>4. CASE l \in {"http_version_major_start", "http_version_major"}
  <2>1. PICK i0 \in 1..p, j0 \in 1..p :
          InMajor(s, i0, j0, p, q) /\ (l = "http_version_major" <=> p > j0 + 5)
    BY <1>4 DEF OnFirstLine, VersionAt
  <2>2. j = j0
    <3>1. InUri(s, i0, j0 - 1, q) /\ s[j0] = "SP"
      BY <2>1 DEF InMajor, InVersion
    <3> QED BY <1>0, <3>1, SamePlaces
  <2>3. j + 5 <= p /\ \A x \in (j + 6)..p : is_digit(s[x])
    BY <2>1, <2>2 DEF InMajor
  <2>4. j + 6 < k /\ s[k] = "." /\ \A x \in (j + 6)..(k - 1) : is_digit(s[x])
    BY DEF Splits
  <2>5. ~is_digit(s[p + 1]) /\ ~is_digit(".")
    BY <1>4 DEF FirstLineRefuses, VersionAt, is_digit
  <2>6. k \notin (j + 6)..p /\ p + 1 \notin (j + 6)..(k - 1)
    BY <2>3, <2>4, <2>5
  <2>7. p + 1 = k
    BY <1>0, <2>3, <2>4, <2>6
  <2>8. p > j + 5
    BY <1>0, <2>4, <2>7
  <2> QED BY <1>4, <2>1, <2>2, <2>4, <2>7, <2>8 DEF FirstLineRefuses, VersionAt
<1>5. CASE l \in {"http_version_minor_start", "http_version_minor"}
  <2>1. PICK i0 \in 1..p, j0 \in 1..p, k0 \in 1..p :
          InMinor(s, i0, j0, k0, p, q) /\ (l = "http_version_minor" <=> p > k0)
    BY <1>5 DEF OnFirstLine, VersionAt
  <2>2. j = j0
    <3>1. InUri(s, i0, j0 - 1, q) /\ s[j0] = "SP"
      BY <2>1 DEF InMinor, InMajor, InVersion
    <3> QED BY <1>0, <3>1, SamePlaces
  <2>3. /\ j + 6 < k0 /\ k0 <= p /\ s[k0] = "."
        /\ \A x \in (j + 6)..(k0 - 1) : is_digit(s[x])
    BY <2>1, <2>2 DEF InMinor, InMajor
  <2>4. /\ j + 6 < k /\ k < b /\ s[k] = "."
        /\ \A x \in (j + 6)..(k - 1) : is_digit(s[x])
        /\ \A x \in (k + 1)..b : is_digit(s[x])
    BY DEF Splits
  <2>5. ~is_digit(s[p + 1]) /\ ~is_digit(".")
    BY <1>5 DEF FirstLineRefuses, VersionAt, is_digit
  <2>6. k \notin (j + 6)..(k0 - 1) /\ k0 \notin (j + 6)..(k - 1)
    BY <2>3, <2>4, <2>5
  <2>7. k = k0
    BY <2>3, <2>4, <2>6
  <2>8. p + 1 \notin (k + 1)..b
    BY <2>4, <2>5
  <2>9. p = b
    BY <1>0, <2>3, <2>7, <2>8
  <2> QED BY <1>5, <2>1, <2>4, <2>7, <2>9 DEF FirstLineRefuses, VersionAt
<1> QED BY <1>1, <1>2, <1>3, <1>4, <1>5 DEF FirstLineRefuses

(* A header line's character that a state refuses, more lines before it or *)
(* not.                                                                    *)
HeaderRefuses(l, c, more) ==
  \/ l = "header_line_start" /\ c # "CR" /\ ~Plain(c) /\ ~(Blank(c) /\ more)
  \/ l = "header_name" /\ ~Plain(c) /\ c # ":"
  \/ l = "space_before_header_value" /\ c # "SP"
  \/ l \in {"header_value", "header_lws"} /\ c # "CR" /\ is_ctl(c)
       /\ (l = "header_lws" => ~Blank(c))

LEMMA HeaderPartsBad ==
  ASSUME NEW s \in Seq(Chars), NEW p \in 0..(Len(s) - 1), NEW a \in 2..(p + 1),
         NEW l, NEW q, NEW hs, InHeader(l, s, hs, a, p, q),
         NEW more, HeaderRefuses(l, s[p + 1], more),
         NEW b \in p..(Len(s) - 1), s[b + 1] = "CR",
         NEW k \in a..b, HeaderParts(s, a, k, b)
  PROVE  FALSE
<1>0. p \in Nat /\ b \in Nat /\ a \in Nat /\ (p + 1 <= b \/ p = b)
  OBVIOUS
<1>1. /\ a < k /\ k < b /\ s[k] = ":" /\ s[k + 1] = "SP"
      /\ \A x \in a..(k - 1) : Plain(s[x])
      /\ \A x \in (k + 2)..b : ~is_ctl(s[x])
  BY DEF HeaderParts, Text
<1>2. Plain(s[a]) /\ ~Blank(s[a]) /\ ~Plain(":")
  <2>1. Plain(s[a])
    BY <1>0, <1>1
  <2> QED BY <2>1 DEF Plain, is_tspecial, Blank
<1>3. CASE l = "header_line_start"
  <2>1. p + 1 = a
    BY <1>3 DEF InHeader
  <2> QED BY <1>2, <1>3, <2>1 DEF HeaderRefuses
<1>4. CASE l = "header_name"
  <2>1. \A x \in a..p : Plain(s[x])
    BY <1>4 DEF InHeader, InName
  <2>2. ~Plain(s[p + 1]) /\ s[p + 1] # ":"
    BY <1>4 DEF HeaderRefuses
  <2>3. k \notin a..p /\ p + 1 \notin a..(k - 1) /\ p + 1 # k
    BY <1>1, <1>2, <2>1, <2>2
  <2> QED BY <1>0, <1>1, <2>3
<1>5. CASE l = "space_before_header_value"
  <2>1. s[p] = ":" /\ a <= p - 1 /\ \A x \in a..(p - 1) : Plain(s[x])
    BY <1>5 DEF InHeader, AtColon, InName
  <2>2. k \notin a..(p - 1) /\ p \notin a..(k - 1)
    BY <1>1, <1>2, <2>1
  <2>3. k = p
    BY <1>0, <1>1, <2>1, <2>2
  <2> QED BY <1>1, <1>5, <2>3 DEF HeaderRefuses
<1>6. CASE l = "header_lws"
  BY <1>0, <1>2, <1>6 DEF InHeader, InBlanks
<1>7. ASSUME NEW f \in a..p, InFold(s, hs, a, f, p, q) PROVE FALSE
  <2>1. a \in a..(f - 1) /\ \A x \in a..(f - 1) : Blank(s[x])
    BY <1>0, <1>7 DEF InFold
  <2> QED BY <1>2, <2>1
<1>8. ASSUME NEW i \in a..p, InValue(s, hs, a, i, p, q), l = "header_value"
      PROVE  FALSE
  <2>1. a < i /\ i < p /\ s[i] = ":" /\ \A x \in a..(i - 1) : Plain(s[x])
    BY <1>8 DEF InValue
  <2>2. k \notin a..(i - 1) /\ i \notin a..(k - 1)
    BY <1>1, <1>2, <2>1
  <2>3. k = i
    BY <1>0, <1>1, <2>1, <2>2
  <2>4. s[p + 1] # "CR" /\ is_ctl(s[p + 1])
    BY <1>8 DEF HeaderRefuses
  <2>5. p + 1 <= b
    BY <1>0, <2>4
  <2>6. p + 1 \in (k + 2)..b
    BY <1>0, <2>1, <2>3, <2>5
  <2> QED BY <1>1, <2>4, <2>6
<1> QED BY <1>3, <1>4, <1>5, <1>6, <1>7, <1>8 DEF InHeader

LEMMA FoldPartsBad ==
  ASSUME NEW s \in Seq(Chars), NEW p \in 0..(Len(s) - 1), NEW a \in 2..(p + 1),
         NEW l, NEW q, NEW hs, InHeader(l, s, hs, a, p, q),
         HeaderRefuses(l, s[p + 1], TRUE),
         NEW b \in p..(Len(s) - 1), s[b + 1] = "CR",
         NEW f \in a..(b + 1), FoldParts(s, a, f, b)
  PROVE  FALSE
<1>0. p \in Nat /\ b \in Nat /\ a \in Nat /\ (p + 1 <= b \/ p = b)
  OBVIOUS
<1>1. /\ a < f /\ f <= b + 1 /\ (f = b + 1 \/ ~Blank(s[f]))
      /\ \A x \in a..(f - 1) : Blank(s[x])
      /\ \A x \in f..b : ~is_ctl(s[x])
  BY DEF FoldParts, Text
<1>2. Blank(s[a]) /\ ~Plain(s[a])
  <2>1. Blank(s[a])
    BY <1>0, <1>1
  <2> QED BY <2>1 DEF Plain, is_tspecial, Blank
<1>3. CASE l = "header_line_start"
  <2>1. p + 1 = a
    BY <1>3 DEF InHeader
  <2> QED BY <1>2, <1>3, <2>1 DEF HeaderRefuses
<1>4. CASE l \in {"header_name", "space_before_header_value"}
  <2>1. Plain(s[a])
    BY <1>0, <1>4 DEF InHeader, InName, AtColon
  <2> QED BY <1>2, <2>1
<1>5. ASSUME NEW i \in a..p, InValue(s, hs, a, i, p, q) PROVE FALSE
  <2>1. a \in a..(i - 1) /\ \A x \in a..(i - 1) : Plain(s[x])
    BY <1>0, <1>5 DEF InValue
  <2> QED BY <1>2, <2>1
<1>6. ASSUME l \in {"header_value", "header_lws"}, p + 1 >= f PROVE FALSE
  <2>1. s[p + 1] # "CR" /\ is_ctl(s[p + 1])
    BY <1>6 DEF HeaderRefuses
  <2>2. p + 1 <= b
    BY <1>0, <2>1
  <2>3. p + 1 \in f..b
    BY <1>0, <1>6, <2>2
  <2> QED BY <1>1, <2>1, <2>3
<1>7. ASSUME NEW g \in a..p, InFold(s, hs, a, g, p, q), l = "header_value"
      PROVE  FALSE
  <2>1. g <= p /\ ~Blank(s[g])
    BY <1>7 DEF InFold
  <2>2. g \notin a..(f - 1)
    BY <1>1, <2>1
  <2>3. p + 1 >= f
    BY <1>0, <2>1, <2>2
  <2> QED BY <1>6, <1>7, <2>3
<1>8. CASE l = "header_lws"
  <2>1. ~Blank(s[p + 1])
    BY <1>8 DEF HeaderRefuses
  <2>2. p + 1 \notin a..(f - 1)
    BY <1>1, <2>1
  <2>3. p + 1 >= f
    BY <1>0, <2>2
  <2> QED BY <1>6, <1>8, <2>3
<1> QED BY <1>3, <1>4, <1>5, <1>7, <1>8 DEF InHeader

LEMMA FirstLineStop ==
  ASSUME NEW s \in Seq(Chars), NEW p \in 0..(Len(s) - 1), NEW l, NEW q,
         OnFirstLine(l, s, p, q), FirstLineRefuses(l, s[p + 1]),
         NEW n \in (p + 1)..Len(s), IsRequest(s, n)
  PROVE  FALSE
<1>1. 1 \in 1..(p + 1) /\ Quiet(s, 1, p)
  BY DEF OnFirstLine
<1>2. PICK e \in (p + 1)..(n - 1) : s[e] = "CR" /\ IsLine(s, 1, e)
  BY <1>1, CurrentLine
<1>3. PICK b \in p..(Len(s) - 1) : e = b + 1
  <2>1. e - 1 \in p..(Len(s) - 1) /\ e = (e - 1) + 1
    OBVIOUS
  <2> QED BY <2>1
<1>4. IsRequestLine(s, b)
  <2>1. e - 1 = b
    BY <1>3
  <2> QED BY <1>2, <2>1 DEF IsLine
<1>5. b \in 0..Len(s)
  OBVIOUS
<1>6. PICK i \in 1..b, j \in 1..b, k \in 1..b : Splits(s, i, j, k, b)
  BY <1>4, <1>5, RequestLineParts
<1>7. s[b + 1] = "CR"
  BY <1>2, <1>3
<1> QED BY <1>6, <1>7, FirstLineBad

LEMMA HeaderStop ==
  ASSUME NEW s \in Seq(Chars), NEW p \in 0..(Len(s) - 1), NEW a \in 2..(p + 1),
         NEW l, NEW q, IsLines(s, a - 1), OnHeaderLine(l, s, a, p, q),
         HeaderRefuses(l, s[p + 1], More(s, a)),
         NEW n \in (p + 1)..Len(s), IsRequest(s, n)
  PROVE  FALSE
<1>0. a \in 1..(p + 1) /\ s[a - 1] = "LF" /\ Quiet(s, a, p) /\ a - 1 \in Nat
      /\ p + 1 \in Nat /\ p \in Nat
  BY DEF IsLines, OnHeaderLine
<1>1. PICK hs : InHeader(l, s, hs, a, p, q)
  BY DEF OnHeaderLine
<1>2. PICK e \in (p + 1)..(n - 1) :
        s[e] = "CR" /\ (IsLine(s, a, e) \/ (e = a /\ p + 1 = a))
  BY <1>0, CurrentLine
<1>3. PICK b \in p..(Len(s) - 1) : e = b + 1
  <2>1. e - 1 \in p..(Len(s) - 1) /\ e = (e - 1) + 1
    OBVIOUS
  <2> QED BY <2>1
<1>4. s[b + 1] = "CR" /\ b \in 0..Len(s) /\ a \in 2..(b + 1)
  BY <1>2, <1>3
<1>5. CASE e = a /\ p + 1 = a
  <2>1. l = "header_line_start"
    <3>1. ~(a <= p) /\ ~(a <= p - 1) /\ a..p = {}
      BY <1>0, <1>5
    <3> QED BY <1>1, <3>1 DEF InHeader, InName, AtColon, InBlanks
  <2>2. s[p + 1] = "CR"
    BY <1>2, <1>5
  <2> QED BY <2>1, <2>2 DEF HeaderRefuses
<1>6. CASE IsLine(s, a, b + 1)
  <2>1. CASE \E k \in a..b : HeaderParts(s, a, k, b)
    <3>1. PICK k \in a..b : HeaderParts(s, a, k, b)
      BY <2>1
    <3> QED BY <1>1, <1>4, <3>1, HeaderPartsBad
  <2>2. CASE More(s, a) /\ \E f \in a..(b + 1) : FoldParts(s, a, f, b)
    <3>1. PICK f \in a..(b + 1) : FoldParts(s, a, f, b)
      BY <2>2
    <3>2. HeaderRefuses(l, s[p + 1], TRUE)
      BY <2>2 DEF HeaderRefuses
    <3> QED BY <1>1, <1>4, <3>1, <3>2, FoldPartsBad
  <2> QED BY <1>4, <1>6, <2>1, <2>2, LineParts
<1> QED BY <1>2, <1>3, <1>5, <1>6

LEMMA NewlineStop ==
  ASSUME NEW s \in Seq(Chars), NEW p \in 1..(Len(s) - 1), s[p] = "CR",
         s[p + 1] # "LF", NEW n \in (p + 1)..Len(s), IsRequest(s, n)
  PROVE  FALSE
<1>1. IsLines(s, n - 2) /\ s[n] = "LF" /\ n > 2
  BY DEF IsRequest
<1>2. CASE p <= n - 2
  <2>1. p \in 1..(n - 2)
    BY <1>2
  <2> QED BY <1>1, <2>1 DEF IsLines
<1>3. CASE p = n - 1
  <2>1. p + 1 = n
    BY <1>3
  <2> QED BY <1>1, <2>1
<1> QED BY <1>2, <1>3

(* As long as parse waits, the request is not complete.                    *)
LEMMA NotYet ==
  ASSUME NEW s \in Seq(Chars), NEW p \in 0..Len(s), NEW l, NEW q,
         Shape(l, s, p, q), IsRequest(s, p)
  PROVE  FALSE
<1>1. p > 2 /\ IsLines(s, p - 2) /\ s[p - 1] = "CR" /\ s[p] = "LF"
  BY DEF IsRequest
<1>2. CASE OnFirstLine(l, s, p, q)
  <2>1. p \in 1..p
    BY <1>1
  <2> QED BY <1>1, <1>2, <2>1 DEF OnFirstLine, Quiet
<1>3. CASE BehindFirstLine(l, s, p, q)
  BY <1>1, <1>3 DEF BehindFirstLine
<1>4. ASSUME NEW a \in 2..(p + 1), IsLines(s, a - 1), OnHeaderLine(l, s, a, p, q)
      PROVE  FALSE
  <2>1. ~(a <= p)
    <3>1. a <= p => p \in a..p
      OBVIOUS
    <3> QED BY <1>1, <1>4, <3>1 DEF OnHeaderLine, Quiet
  <2>2. a - 1 = p /\ p - 1 \in 1..p
    BY <1>1, <2>1
  <2>3. IsLine(s, LineBegin(s, p - 1), p - 1)
    BY <1>1, <1>4, <2>2 DEF IsLines
  <2>4. s[p - 2] = "LF"
    BY <1>1 DEF IsLines
  <2>5. LineBegin(s, p - 1) = p - 1
    <3>1. /\ p - 1 \in Nat /\ p - 1 \in 1..(p - 1) /\ (p - 1) - 1 = p - 2
          /\ (p - 1)..((p - 1) - 1) = {}
      BY <1>1
    <3> QED BY <2>4, <3>1, LineBeginUnique
  <2>6. PICK b \in 0..Len(s) : b + 1 = p - 1 /\ b >= 1
    <3>1. p - 2 \in 0..Len(s) /\ (p - 2) + 1 = p - 1 /\ p - 2 >= 1
      BY <1>1
    <3> QED BY <3>1
  <2>7. IsLine(s, b + 1, b + 1) /\ b + 1 \in 2..(b + 1)
    BY <2>3, <2>5, <2>6
  <2>8. \/ \E k \in (b + 1)..b : HeaderParts(s, b + 1, k, b)
        \/ \E f \in (b + 1)..(b + 1) : FoldParts(s, b + 1, f, b)
    BY <2>7, LineParts
  <2> QED BY <2>8 DEF FoldParts
<1>5. ASSUME NEW a \in 2..(p + 1),
             BehindHeaderLine(l, s, a, p, q) \/ BehindHeaders(l, s, a, p, q)
      PROVE  FALSE
  BY <1>1, <1>5 DEF BehindHeaderLine, BehindHeaders
<1> QED BY <1>2, <1>3, <1>4, <1>5 DEF Shape

-----------------------------------------------------------------------------
(* The steps of consume.                                                   *)

(* Which part of the request a state belongs to.                           *)
LEMMA FirstLineState ==
  ASSUME NEW s, NEW p, NEW q, NEW l, Shape(l, s, p, q),
         l \in {"method_start", "method", "uri", "http_version_major_start",
                "http_version_major", "http_version_minor_start",
                "http_version_minor"} \cup DOMAIN VersionAt
  PROVE  OnFirstLine(l, s, p, q)
BY DEF Shape, BehindFirstLine, OnHeaderLine, InHeader, BehindHeaderLine,
       BehindHeaders, VersionAt

LEMMA HeaderState ==
  ASSUME NEW s, NEW p, NEW q, NEW l, Shape(l, s, p, q),
         l \in {"header_line_start", "header_name", "space_before_header_value",
                "header_value", "header_lws"}
  PROVE  /\ LineFields(s, q)
         /\ \E a \in 2..(p + 1) : IsLines(s, a - 1) /\ OnHeaderLine(l, s, a, p, q)
BY DEF Shape, OnFirstLine, BehindFirstLine, BehindHeaderLine, BehindHeaders, VersionAt

LEMMA NewlineState ==
  ASSUME NEW s, NEW p, NEW q, NEW l, Shape(l, s, p, q),
         l \in {"expecting_newline_1", "expecting_newline_2", "expecting_newline_3"}
  PROVE  \/ l = "expecting_newline_1" /\ BehindFirstLine(l, s, p, q)
         \/ /\ LineFields(s, q)
            /\ \E a \in 2..(p + 1) :
                 /\ IsLines(s, a - 1)
                 /\ \/ l = "expecting_newline_2" /\ BehindHeaderLine(l, s, a, p, q)
                    \/ l = "expecting_newline_3" /\ BehindHeaders(l, s, a, p, q)
BY DEF Shape, OnFirstLine, OnHeaderLine, InHeader, VersionAt, BehindFirstLine,
       BehindHeaderLine, BehindHeaders

SameLine(q, r) == r.method = q.method /\ r.uri = q.uri /\ SameVersion(q, r)

LEMMA SameLineFields ==
  ASSUME NEW s, NEW q, NEW r, LineFields(s, q), SameLine(q, r)
  PROVE  LineFields(s, r)
BY DEF LineFields, SameLine, SameVersion

(* What a step of consume leaves of r, the object its case has filled.     *)
LEMMA TookFields ==
  ASSUME Inv, NEW c \in Chars, Reads(c), NEW r \in Request, Took(c, r)
  PROVE  /\ SameLine(r, req') /\ req'.headers = r.headers
         /\ req'.original_req = Append(r.original_req, c)
         /\ text' = text /\ pos' = pos + 1 /\ fresh' = fresh /\ end' = end
         /\ req \in Request /\ text \in Seq(Chars) /\ pos \in 0..(Len(text) - 1)
         /\ c = text[pos + 1]
<1>1. req' = [r EXCEPT !.original_req = Append(r.original_req, c)]
  BY DEF Took, Request
<1>2. /\ req'.headers = r.headers /\ req'.original_req = Append(r.original_req, c)
      /\ req'.method = r.method /\ req'.uri = r.uri
      /\ req'.http_version_major = r.http_version_major
      /\ req'.http_version_minor = r.http_version_minor
  BY <1>1 DEF Request
<1>3. /\ req \in Request /\ text \in Seq(Chars) /\ pos \in 0..(Len(text) - 1)
      /\ c = text[pos + 1]
  BY DEF Reads, Next_c, Inv, TypeOK
<1> QED BY <1>2, <1>3 DEF Took, SameLine, SameVersion

LEMMA TookOriginal ==
  ASSUME Inv, Reading, fresh, NEW c \in Chars, Reads(c), NEW r \in Request,
         r.original_req = req.original_req, Took(c, r)
  PROVE  req'.original_req = SubSeq(text', 1, pos')
<1>1. /\ req'.original_req = Append(req.original_req, c) /\ text' = text
      /\ pos' = pos + 1 /\ text \in Seq(Chars) /\ pos \in 0..(Len(text) - 1)
      /\ c = text[pos + 1]
  BY TookFields
<1>2. SubSeq(text, 1, pos + 1) = Append(SubSeq(text, 1, pos), c)
  BY <1>1, PartAppend
<1> QED BY <1>1, <1>2 DEF Reading

LEMMA GotoReading ==
  ASSUME Inv, Reading, fresh, NEW c \in Chars, Reads(c), NEW r \in Request,
         r.original_req = req.original_req, NEW l, Goto(c, l, r),
         Shape(l, text, pos + 1, req')
  PROVE  Reading'
<1>1. Took(c, r) /\ state_' = l /\ result' = "indeterminate"
  BY DEF Goto
<1>2. text' = text /\ pos' = pos + 1
  BY <1>1, TookFields
<1>3. req'.original_req = SubSeq(text', 1, pos')
  BY <1>1, TookOriginal
<1>4. Shape(state_', text', pos', req')
  BY <1>1, <1>2
<1> QED BY <1>1, <1>3, <1>4 DEF Reading

LEMMA BadReading ==
  ASSUME Inv, Reading, fresh, NEW c \in Chars, Reads(c), Bad(c),
         \A n \in (pos + 1)..Len(text) : ~IsRequest(text, n)
  PROVE  Reading'
<1>1. Took(c, req) /\ result' = "bad" /\ req \in Request
  BY DEF Bad, Inv, TypeOK
<1>2. text' = text /\ pos' = pos + 1
  BY <1>1, TookFields
<1>3. req'.original_req = SubSeq(text', 1, pos')
  BY <1>1, TookOriginal
<1> QED BY <1>1, <1>2, <1>3 DEF Reading

(* Everything a step of consume starts from.                               *)
LEMMA ReadsShape ==
  ASSUME Inv, Reading, fresh, NEW c \in Chars, Reads(c)
  PROVE  /\ Shape(state_, text, pos, req) /\ req \in Request
         /\ text \in Seq(Chars) /\ pos \in 0..(Len(text) - 1) /\ c = text[pos + 1]
<1>1. /\ req \in Request /\ text \in Seq(Chars) /\ pos \in 0..(Len(text) - 1)
      /\ c = text[pos + 1]
  BY DEF Reads, Next_c, Inv, TypeOK
<1> QED BY <1>1 DEF Reading, Reads

LEMMA FirstLineBadReading ==
  ASSUME Inv, Reading, fresh, NEW c \in Chars, Reads(c), Bad(c),
         OnFirstLine(state_, text, pos, req), FirstLineRefuses(state_, c)
  PROVE  Reading'
<1>1. /\ text \in Seq(Chars) /\ pos \in 0..(Len(text) - 1) /\ c = text[pos + 1]
  BY ReadsShape
<1>2. ASSUME NEW n \in (pos + 1)..Len(text), IsRequest(text, n) PROVE FALSE
  BY <1>1, <1>2, FirstLineStop
<1> QED BY <1>2, BadReading

LEMMA MethodReading ==
  ASSUME Inv, Reading, fresh, NEW c \in Chars, Method(c)
  PROVE  Reading'
<1>1. Reads(c) /\ state_ \in {"method_start", "method"}
  BY DEF Method
<1>2. /\ Shape(state_, text, pos, req) /\ req \in Request
      /\ text \in Seq(Chars) /\ pos \in 0..(Len(text) - 1) /\ c = text[pos + 1]
  BY <1>1, ReadsShape
<1>3. OnFirstLine(state_, text, pos, req)
  BY <1>1, <1>2, FirstLineState
<1>4. CASE state_ = "method" /\ c = "SP" /\ Goto(c, "uri", req)
  <2>1. SameLine(req, req') /\ req'.headers = req.headers
    BY <1>1, <1>2, <1>4, TookFields DEF Goto
  <2>2. OnFirstLine("uri", text, pos + 1, req')
    BY <1>2, <1>3, <1>4, <2>1, MethodEnds DEF SameLine
  <2> QED BY <1>1, <1>2, <1>4, <2>2, GotoReading DEF Shape
<1>5. CASE Plain(c) /\ Goto(c, "method", [req EXCEPT !.method = Append(@, c)])
  <2>1. PICK r : r = [req EXCEPT !.method = Append(@, c)]
    OBVIOUS
  <2>2. r \in Request
    BY <1>2, <2>1, FieldType, FieldsOf
  <2>3. /\ r.method = Append(req.method, c) /\ r.uri = req.uri
        /\ r.headers = req.headers /\ r.original_req = req.original_req
    BY <1>2, <2>1 DEF Request
  <2>4. SameLine(r, req') /\ req'.headers = r.headers
    BY <1>1, <1>5, <2>1, <2>2, TookFields DEF Goto
  <2>5. OnFirstLine("method", text, pos + 1, req')
    BY <1>1, <1>2, <1>3, <1>5, <2>3, <2>4, MethodMore DEF SameLine
  <2> QED BY <1>1, <1>5, <2>1, <2>2, <2>3, <2>5, GotoReading DEF Shape
<1>6. CASE ~Plain(c) /\ ~(state_ = "method" /\ c = "SP") /\ Bad(c)
  BY <1>1, <1>3, <1>6, FirstLineBadReading DEF FirstLineRefuses
<1> QED BY <1>4, <1>5, <1>6 DEF Method

LEMMA UriReading ==
  ASSUME Inv, Reading, fresh, NEW c \in Chars, Uri(c)
  PROVE  Reading'
<1>1. Reads(c) /\ state_ = "uri"
  BY DEF Uri
<1>2. /\ Shape(state_, text, pos, req) /\ req \in Request
      /\ text \in Seq(Chars) /\ pos \in 0..(Len(text) - 1) /\ c = text[pos + 1]
  BY <1>1, ReadsShape
<1>3. OnFirstLine("uri", text, pos, req)
  BY <1>1, <1>2, FirstLineState
<1>4. CASE c = "SP" /\ Goto(c, "http_version_h", req)
  <2>1. SameLine(req, req') /\ req'.headers = req.headers
    BY <1>1, <1>2, <1>4, TookFields DEF Goto
  <2>2. OnFirstLine("http_version_h", text, pos + 1, req')
    BY <1>2, <1>3, <1>4, <2>1, UriEnds DEF SameLine
  <2> QED BY <1>1, <1>2, <1>4, <2>2, GotoReading DEF Shape
<1>5. CASE c # "SP" /\ ~is_ctl(c) /\ Goto(c, "uri", [req EXCEPT !.uri = Append(@, c)])
  <2>1. PICK r : r = [req EXCEPT !.uri = Append(@, c)]
    OBVIOUS
  <2>2. r \in Request
    BY <1>2, <2>1, FieldType, FieldsOf
  <2>3. /\ r.uri = Append(req.uri, c) /\ r.method = req.method
        /\ r.headers = req.headers /\ r.original_req = req.original_req
    BY <1>2, <2>1 DEF Request
  <2>4. SameLine(r, req') /\ req'.headers = r.headers
    BY <1>1, <1>5, <2>1, <2>2, TookFields DEF Goto
  <2>5. OnFirstLine("uri", text, pos + 1, req')
    BY <1>2, <1>3, <1>5, <2>3, <2>4, UriMore DEF SameLine
  <2> QED BY <1>1, <1>5, <2>1, <2>2, <2>3, <2>5, GotoReading DEF Shape
<1>6. CASE is_ctl(c) /\ Bad(c)
  BY <1>1, <1>3, <1>6, FirstLineBadReading DEF FirstLineRefuses
<1> QED BY <1>4, <1>5, <1>6 DEF Uri

LEMMA NewlineBadReading ==
  ASSUME Inv, Reading, fresh, NEW c \in Chars, Reads(c), Bad(c),
         state_ \in {"expecting_newline_1", "expecting_newline_2",
                     "expecting_newline_3"}, c # "LF"
  PROVE  Reading'
<1>1. /\ Shape(state_, text, pos, req) /\ text \in Seq(Chars)
      /\ pos \in 0..(Len(text) - 1) /\ c = text[pos + 1]
  BY ReadsShape
<1>2. pos > 0 /\ text[pos] = "CR"
  <2>1. CASE BehindFirstLine(state_, text, pos, req)
    BY <2>1 DEF BehindFirstLine
  <2>2. ASSUME NEW a \in 2..(pos + 1), BehindHeaderLine(state_, text, a, pos, req)
        PROVE  pos > 0 /\ text[pos] = "CR"
    BY <1>1, <2>2 DEF BehindHeaderLine
  <2>3. ASSUME NEW a \in 2..(pos + 1), BehindHeaders(state_, text, a, pos, req)
        PROVE  pos > 0 /\ text[pos] = "CR"
    BY <1>1, <2>3 DEF BehindHeaders
  <2> QED BY <1>1, <2>1, <2>2, <2>3, NewlineState
<1>3. pos \in 1..(Len(text) - 1)
  BY <1>1, <1>2
<1>4. ASSUME NEW n \in (pos + 1)..Len(text), IsRequest(text, n) PROVE FALSE
  BY <1>1, <1>2, <1>3, <1>4, NewlineStop
<1> QED BY <1>4, BadReading

LEMMA HeaderBadReading ==
  ASSUME Inv, Reading, fresh, NEW c \in Chars, Reads(c), Bad(c),
         NEW a \in 2..(pos + 1), IsLines(text, a - 1),
         OnHeaderLine(state_, text, a, pos, req),
         HeaderRefuses(state_, c, More(text, a))
  PROVE  Reading'
<1>1. /\ text \in Seq(Chars) /\ pos \in 0..(Len(text) - 1) /\ c = text[pos + 1]
  BY ReadsShape
<1>2. ASSUME NEW n \in (pos + 1)..Len(text), IsRequest(text, n) PROVE FALSE
  BY <1>1, <1>2, HeaderStop
<1> QED BY <1>2, BadReading

(* A step on a header line, and one that begins a header line.             *)
LEMMA HeaderGotoReading ==
  ASSUME Inv, Reading, fresh, NEW c \in Chars, Reads(c), NEW r \in Request,
         r.original_req = req.original_req, SameLine(req, r), NEW l,
         Goto(c, l, r), LineFields(text, req), NEW a \in 2..(pos + 2),
         IsLines(text, a - 1),
         \/ OnHeaderLine(l, text, a, pos + 1, req')
         \/ BehindHeaderLine(l, text, a, pos + 1, req')
         \/ BehindHeaders(l, text, a, pos + 1, req')
  PROVE  Reading'
<1>1. SameLine(r, req') /\ pos \in Nat
  <2>1. SameLine(r, req') /\ pos \in 0..(Len(text) - 1)
    BY TookFields DEF Goto
  <2> QED BY <2>1
<1>2. LineFields(text, req')
  <2>1. LineFields(text, r)
    BY SameLineFields
  <2> QED BY <1>1, <2>1, SameLineFields
<1>3. a \in 2..((pos + 1) + 1)
  BY <1>1
<1>4. Shape(l, text, pos + 1, req')
  BY <1>2, <1>3 DEF Shape
<1> QED BY <1>4, GotoReading

LEMMA ExpectReading ==
  ASSUME Inv, Reading, fresh, NEW c \in Chars, Expect(c)
  PROVE  Reading'
<1>1. Reads(c) /\ state_ \in DOMAIN Literal
  BY DEF Expect
<1>2. /\ Shape(state_, text, pos, req) /\ req \in Request
      /\ text \in Seq(Chars) /\ pos \in 0..(Len(text) - 1) /\ c = text[pos + 1]
  BY <1>1, ReadsShape
<1>3. SameLine(req, req)
  BY DEF SameLine, SameVersion
<1>4. CASE c = Literal[state_].char /\ Goto(c, Literal[state_].to, req)
  <2>1. SameLine(req, req') /\ req'.headers = req.headers
    BY <1>1, <1>2, <1>4, TookFields DEF Goto
  <2>2. CASE state_ \in DOMAIN VersionAt
    <3>1. OnFirstLine(state_, text, pos, req)
      BY <1>2, <2>2, FirstLineState
    <3>2. state_ # "http_version_slash"
      BY <1>1 DEF Literal
    <3>3. OnFirstLine(Literal[state_].to, text, pos + 1, req')
      BY <1>2, <1>4, <2>1, <2>2, <3>1, <3>2, VersionMore DEF SameLine
    <3> QED BY <1>1, <1>2, <1>4, <3>3, GotoReading DEF Shape
  <2>3. CASE state_ = "expecting_newline_1"
    <3>1. c = "LF" /\ Goto(c, "header_line_start", req)
      BY <1>4, <2>3 DEF Literal
    <3>2. BehindFirstLine(state_, text, pos, req)
      BY <1>2, <2>3, NewlineState
    <3>3. /\ IsLines(text, pos + 1)
          /\ OnHeaderLine("header_line_start", text, pos + 2, pos + 1, req')
      BY <1>2, <2>1, <3>1, <3>2, FirstLineEnds
    <3>4. LineFields(text, req)
      BY <3>2 DEF BehindFirstLine
    <3>5. (pos + 2) - 1 = pos + 1 /\ pos + 2 \in 2..(pos + 2)
      BY <1>2
    <3> QED BY <1>1, <1>2, <1>3, <3>1, <3>3, <3>4, <3>5, HeaderGotoReading
  <2>4. CASE state_ = "expecting_newline_2"
    <3>1. c = "LF" /\ Goto(c, "header_line_start", req)
      BY <1>4, <2>4 DEF Literal
    <3>2. LineFields(text, req)
      BY <1>2, <2>4, NewlineState
    <3>3. PICK a \in 2..(pos + 1) :
            IsLines(text, a - 1) /\ BehindHeaderLine(state_, text, a, pos, req)
      BY <1>2, <2>4, NewlineState
    <3>4. /\ IsLines(text, pos + 1)
          /\ OnHeaderLine("header_line_start", text, pos + 2, pos + 1, req')
      BY <1>2, <2>1, <3>1, <3>3, HeaderLineEnds
    <3>5. (pos + 2) - 1 = pos + 1 /\ pos + 2 \in 2..(pos + 2)
      BY <1>2
    <3> QED BY <1>1, <1>2, <1>3, <3>1, <3>2, <3>4, <3>5, HeaderGotoReading
  <2>5. CASE state_ = "space_before_header_value"
    <3>1. c = "SP" /\ Goto(c, "header_value", req)
      BY <1>4, <2>5 DEF Literal
    <3>2. PICK a \in 2..(pos + 1) :
            /\ LineFields(text, req) /\ IsLines(text, a - 1)
            /\ OnHeaderLine("space_before_header_value", text, a, pos, req)
      BY <1>2, <2>5, HeaderState
    <3>3. InHeader("header_value", text, HeadersUpto(text)[pos], a, pos + 1, req')
      BY <1>2, <2>1, <3>1, <3>2, SpaceRead DEF OnHeaderLine
    <3>4. OnHeaderLine("header_value", text, a, pos + 1, req')
      BY <1>2, <3>1, <3>2, <3>3, HeaderLineMore
    <3>5. a \in 2..(pos + 2)
      BY <1>2
    <3> QED BY <1>1, <1>2, <1>3, <3>1, <3>2, <3>4, <3>5, HeaderGotoReading
  <2> QED BY <1>1, <2>2, <2>3, <2>4, <2>5 DEF Literal, VersionAt
<1>5. CASE c # Literal[state_].char /\ Bad(c)
  <2>1. CASE state_ \in DOMAIN VersionAt
    <3>1. OnFirstLine(state_, text, pos, req)
      BY <1>2, <2>1, FirstLineState
    <3>2. c # HTTP[VersionAt[state_] + 1]
      BY <1>1, <1>5, <2>1 DEF Literal, VersionAt, HTTP
    <3> QED BY <1>1, <1>5, <2>1, <3>1, <3>2, FirstLineBadReading DEF FirstLineRefuses
  <2>2. CASE state_ \in {"expecting_newline_1", "expecting_newline_2"}
    <3>1. c # "LF"
      BY <1>5, <2>2 DEF Literal
    <3> QED BY <1>1, <1>5, <2>2, <3>1, NewlineBadReading
  <2>3. CASE state_ = "space_before_header_value"
    <3>1. c # "SP"
      BY <1>5, <2>3 DEF Literal
    <3>2. PICK a \in 2..(pos + 1) :
            IsLines(text, a - 1) /\ OnHeaderLine(state_, text, a, pos, req)
      BY <1>2, <2>3, HeaderState
    <3> QED BY <1>1, <1>5, <2>3, <3>1, <3>2, HeaderBadReading DEF HeaderRefuses
  <2> QED BY <1>1, <2>1, <2>2, <2>3 DEF Literal, VersionAt
<1> QED BY <1>4, <1>5 DEF Expect

LEMMA SlashReading ==
  ASSUME Inv, Reading, fresh, NEW c \in Chars, Slash(c)
  PROVE  Reading'
<1>1. Reads(c) /\ state_ = "http_version_slash"
  BY DEF Slash
<1>2. /\ Shape(state_, text, pos, req) /\ req \in Request
      /\ text \in Seq(Chars) /\ pos \in 0..(Len(text) - 1) /\ c = text[pos + 1]
  BY <1>1, ReadsShape
<1>3. OnFirstLine("http_version_slash", text, pos, req)
  BY <1>1, <1>2, FirstLineState DEF VersionAt
<1>4. CASE /\ c = "/"
           /\ Goto(c, "http_version_major_start",
                   [req EXCEPT !.http_version_major = 0, !.http_version_minor = 0])
  <2>1. PICK r : r = [req EXCEPT !.http_version_major = 0, !.http_version_minor = 0]
    OBVIOUS
  <2>2. /\ r \in Request /\ r.uri = req.uri /\ r.method = req.method
        /\ r.headers = req.headers /\ r.original_req = req.original_req
        /\ r.http_version_major = 0 /\ r.http_version_minor = 0
    BY <1>2, <2>1 DEF Request
  <2>3. SameLine(r, req') /\ req'.headers = r.headers
    BY <1>1, <1>4, <2>1, <2>2, TookFields DEF Goto
  <2>4. OnFirstLine("http_version_major_start", text, pos + 1, req')
    BY <1>2, <1>3, <1>4, <2>2, <2>3, SlashRead DEF SameLine, SameVersion
  <2> QED BY <1>1, <1>4, <2>1, <2>2, <2>4, GotoReading DEF Shape
<1>5. CASE c # "/" /\ Bad(c)
  <2>1. FirstLineRefuses("http_version_slash", c)
    BY <1>5 DEF FirstLineRefuses, VersionAt, HTTP
  <2> QED BY <1>1, <1>3, <1>5, <2>1, FirstLineBadReading
<1> QED BY <1>4, <1>5 DEF Slash

LEMMA MajorReading ==
  ASSUME Inv, Reading, fresh, NEW c \in Chars, Major(c)
  PROVE  Reading'
<1>1. Reads(c) /\ state_ \in {"http_version_major_start", "http_version_major"}
  BY DEF Major
<1>2. /\ Shape(state_, text, pos, req) /\ req \in Request
      /\ text \in Seq(Chars) /\ pos \in 0..(Len(text) - 1) /\ c = text[pos + 1]
  BY <1>1, ReadsShape
<1>3. OnFirstLine(state_, text, pos, req)
  BY <1>1, <1>2, FirstLineState
<1>4. CASE /\ state_ = "http_version_major" /\ c = "."
           /\ Goto(c, "http_version_minor_start", req)
  <2>1. SameLine(req, req') /\ req'.headers = req.headers
    BY <1>1, <1>2, <1>4, TookFields DEF Goto
  <2>2. OnFirstLine("http_version_minor_start", text, pos + 1, req')
    BY <1>2, <1>3, <1>4, <2>1, MajorEnds DEF SameLine
  <2> QED BY <1>1, <1>2, <1>4, <2>2, GotoReading DEF Shape
<1>5. CASE /\ is_digit(c)
           /\ Goto(c, "http_version_major",
                   [req EXCEPT !.http_version_major = 10 * @ + Value(c)])
  <2>1. PICK k : k = 10 * req.http_version_major + Value(c)
    OBVIOUS
  <2>2. k \in Nat
    BY <1>2, <2>1, FieldsOf
  <2>3. PICK r : r = [req EXCEPT !.http_version_major = k]
    OBVIOUS
  <2>4. /\ r \in Request /\ r.uri = req.uri /\ r.method = req.method
        /\ r.headers = req.headers /\ r.original_req = req.original_req
        /\ r.http_version_major = k /\ r.http_version_minor = req.http_version_minor
    BY <1>2, <2>2, <2>3 DEF Request
  <2>5. Goto(c, "http_version_major", r)
    BY <1>2, <1>5, <2>1, <2>3 DEF Request
  <2>6. SameLine(r, req') /\ req'.headers = r.headers
    BY <1>1, <2>4, <2>5, TookFields DEF Goto
  <2>7. OnFirstLine("http_version_major", text, pos + 1, req')
    BY <1>1, <1>2, <1>3, <1>5, <2>1, <2>4, <2>6, MajorMore DEF SameLine, SameVersion
  <2> QED BY <1>1, <2>4, <2>5, <2>7, GotoReading DEF Shape
<1>6. CASE ~is_digit(c) /\ ~(state_ = "http_version_major" /\ c = ".") /\ Bad(c)
  BY <1>1, <1>3, <1>6, FirstLineBadReading DEF FirstLineRefuses
<1> QED BY <1>4, <1>5, <1>6 DEF Major

LEMMA MinorReading ==
  ASSUME Inv, Reading, fresh, NEW c \in Chars, Minor(c)
  PROVE  Reading'
<1>1. Reads(c) /\ state_ \in {"http_version_minor_start", "http_version_minor"}
  BY DEF Minor
<1>2. /\ Shape(state_, text, pos, req) /\ req \in Request
      /\ text \in Seq(Chars) /\ pos \in 0..(Len(text) - 1) /\ c = text[pos + 1]
  BY <1>1, ReadsShape
<1>3. OnFirstLine(state_, text, pos, req)
  BY <1>1, <1>2, FirstLineState
<1>4. CASE /\ state_ = "http_version_minor" /\ c = "CR"
           /\ Goto(c, "expecting_newline_1", req)
  <2>1. SameLine(req, req') /\ req'.headers = req.headers
    BY <1>1, <1>2, <1>4, TookFields DEF Goto
  <2>2. BehindFirstLine("expecting_newline_1", text, pos + 1, req')
    BY <1>2, <1>3, <1>4, <2>1, MinorEnds DEF SameLine
  <2> QED BY <1>1, <1>2, <1>4, <2>2, GotoReading DEF Shape
<1>5. CASE /\ is_digit(c)
           /\ Goto(c, "http_version_minor",
                   [req EXCEPT !.http_version_minor = 10 * @ + Value(c)])
  <2>1. PICK k : k = 10 * req.http_version_minor + Value(c)
    OBVIOUS
  <2>2. k \in Nat
    BY <1>2, <2>1, FieldsOf
  <2>3. PICK r : r = [req EXCEPT !.http_version_minor = k]
    OBVIOUS
  <2>4. /\ r \in Request /\ r.uri = req.uri /\ r.method = req.method
        /\ r.headers = req.headers /\ r.original_req = req.original_req
        /\ r.http_version_minor = k /\ r.http_version_major = req.http_version_major
    BY <1>2, <2>2, <2>3 DEF Request
  <2>5. Goto(c, "http_version_minor", r)
    BY <1>2, <1>5, <2>1, <2>3 DEF Request
  <2>6. SameLine(r, req') /\ req'.headers = r.headers
    BY <1>1, <2>4, <2>5, TookFields DEF Goto
  <2>7. OnFirstLine("http_version_minor", text, pos + 1, req')
    BY <1>1, <1>2, <1>3, <1>5, <2>1, <2>4, <2>6, MinorMore DEF SameLine, SameVersion
  <2> QED BY <1>1, <2>4, <2>5, <2>7, GotoReading DEF Shape
<1>6. CASE ~is_digit(c) /\ ~(state_ = "http_version_minor" /\ c = "CR") /\ Bad(c)
  BY <1>1, <1>3, <1>6, FirstLineBadReading DEF FirstLineRefuses
<1> QED BY <1>4, <1>5, <1>6 DEF Minor

(* headers.back() changes nothing but the headers.                         *)
LEMMA BackFields ==
  ASSUME Inv, NEW c \in Chars, NEW field \in {"name", "value"},
         req.headers # <<>>, NEW r, r = Back(field, c)
  PROVE  /\ r \in Request /\ SameLine(req, r) /\ r.original_req = req.original_req
         /\ r.headers = BackOf(req, field, c).headers
<1>1. req \in Request
  BY DEF Inv, TypeOK
<1>2. r \in Request
  BY <1>1, BackType DEF Back
<1>3. r = BackOf(req, field, c)
  BY DEF Back, BackOf
<1>4. SameLine(req, r) /\ r.original_req = req.original_req
  BY <1>1 DEF Back, Request, SameLine, SameVersion
<1> QED BY <1>2, <1>3, <1>4

(* A character that stays on its header line.                              *)
LEMMA SameHeaderLine ==
  ASSUME Inv, Reading, fresh, NEW c \in Chars, Reads(c), c \notin {"CR", "LF"},
         NEW r \in Request, r.original_req = req.original_req, SameLine(req, r),
         NEW l, Goto(c, l, r), LineFields(text, req), NEW a \in 2..(pos + 1),
         IsLines(text, a - 1), OnHeaderLine(state_, text, a, pos, req),
         InHeader(l, text, HeadersUpto(text)[pos], a, pos + 1, req')
  PROVE  Reading'
<1>1. text \in Seq(Chars) /\ pos \in 0..(Len(text) - 1) /\ c = text[pos + 1]
  BY ReadsShape
<1>2. OnHeaderLine(l, text, a, pos + 1, req')
  BY <1>1, HeaderLineMore
<1>3. a \in 2..(pos + 2)
  BY <1>1
<1> QED BY <1>2, <1>3, HeaderGotoReading

LEMMA HeaderLineStartReading ==
  ASSUME Inv, Reading, fresh, NEW c \in Chars, HeaderLineStart(c)
  PROVE  Reading'
<1>1. Reads(c) /\ state_ = "header_line_start"
  BY DEF HeaderLineStart
<1>2. /\ Shape(state_, text, pos, req) /\ req \in Request
      /\ text \in Seq(Chars) /\ pos \in 0..(Len(text) - 1) /\ c = text[pos + 1]
  BY <1>1, ReadsShape
<1>3. PICK a \in 2..(pos + 1) :
        /\ LineFields(text, req) /\ IsLines(text, a - 1)
        /\ OnHeaderLine("header_line_start", text, a, pos, req)
  BY <1>1, <1>2, HeaderState
<1>4. SameLine(req, req) /\ a \in 2..(pos + 2)
  BY <1>2 DEF SameLine, SameVersion
<1>5. PICK hs : /\ hs = HeadersUpto(text)[pos] /\ req.headers = hs
                /\ InHeader("header_line_start", text, hs, a, pos, req)
  BY <1>3 DEF OnHeaderLine, InHeader
<1>6. req.headers # <<>> <=> More(text, a)
  BY <1>3, <1>5 DEF OnHeaderLine
<1>7. CASE c = "CR" /\ Goto(c, "expecting_newline_3", req)
  <2>1. req'.headers = req.headers
    BY <1>1, <1>2, <1>7, TookFields DEF Goto
  <2>2. BehindHeaders("expecting_newline_3", text, a, pos + 1, req')
    BY <1>2, <1>3, <1>7, <2>1, EmptyLineCR
  <2> QED BY <1>1, <1>2, <1>3, <1>4, <1>7, <2>2, HeaderGotoReading
<1>8. CASE Blank(c) /\ req.headers # <<>> /\ Goto(c, "header_lws", req)
  <2>1. req'.headers = req.headers
    BY <1>1, <1>2, <1>8, TookFields DEF Goto
  <2>2. InHeader("header_lws", text, hs, a, pos + 1, req')
    BY <1>2, <1>5, <1>6, <1>8, <2>1, BlanksBegin
  <2>3. c \notin {"CR", "LF"}
    BY <1>8 DEF Blank
  <2> QED BY <1>1, <1>2, <1>3, <1>4, <1>5, <1>8, <2>2, <2>3, SameHeaderLine
<1>9. CASE /\ c # "CR" /\ ~(Blank(c) /\ req.headers # <<>>) /\ ~Plain(c)
           /\ Bad(c)
  <2>1. HeaderRefuses("header_line_start", c, More(text, a))
    BY <1>6, <1>9 DEF HeaderRefuses
  <2> QED BY <1>1, <1>3, <1>9, <2>1, HeaderBadReading
<1>10. CASE /\ Plain(c)
            /\ Goto(c, "header_name",
                    [req EXCEPT !.headers =
                                  Append(@, [name |-> <<c>>, value |-> <<>>])])
  <2>1. PICK h : h = [name |-> <<c>>, value |-> <<>>]
    OBVIOUS
  <2>2. h \in Header
    BY <2>1 DEF Header
  <2>3. PICK new : new = Append(req.headers, h)
    OBVIOUS
  <2>4. new \in Seq(Header)
    <3>1. req.headers \in Seq(Header)
      BY <1>2 DEF Request
    <3> QED BY <2>2, <2>3, <3>1
  <2>5. PICK r : r = [req EXCEPT !.headers = new]
    OBVIOUS
  <2>6. /\ r \in Request /\ SameLine(req, r) /\ r.headers = new
        /\ r.original_req = req.original_req
    BY <1>2, <2>4, <2>5 DEF Request, SameLine, SameVersion
  <2>7. Goto(c, "header_name", r)
    BY <1>10, <2>1, <2>3, <2>5
  <2>8. req'.headers = new
    BY <1>1, <2>6, <2>7, TookFields DEF Goto
  <2>9. InHeader("header_name", text, hs, a, pos + 1, req')
    BY <1>2, <1>5, <1>10, <2>1, <2>3, <2>8, NameBegins
  <2>10. c \notin {"CR", "LF"}
    BY <1>10 DEF Plain, is_ctl
  <2> QED BY <1>1, <1>3, <1>5, <2>6, <2>7, <2>9, <2>10, SameHeaderLine
<1> QED BY <1>7, <1>8, <1>9, <1>10 DEF HeaderLineStart, Blank

LEMMA HeaderNameReading ==
  ASSUME Inv, Reading, fresh, NEW c \in Chars, HeaderName(c)
  PROVE  Reading'
<1>1. Reads(c) /\ state_ = "header_name" /\ req.headers # <<>>
  BY DEF HeaderName, Inv, HeadersBacked
<1>2. /\ Shape(state_, text, pos, req) /\ req \in Request
      /\ text \in Seq(Chars) /\ pos \in 0..(Len(text) - 1) /\ c = text[pos + 1]
  BY <1>1, ReadsShape
<1>3. PICK a \in 2..(pos + 1) :
        /\ LineFields(text, req) /\ IsLines(text, a - 1)
        /\ OnHeaderLine("header_name", text, a, pos, req)
  BY <1>1, <1>2, HeaderState
<1>4. SameLine(req, req)
  BY DEF SameLine, SameVersion
<1>5. PICK hs \in Seq(Header) :
        /\ hs = HeadersUpto(text)[pos]
        /\ InHeader("header_name", text, hs, a, pos, req)
  <2>1. pos \in 0..Len(text)
    BY <1>2
  <2> QED BY <1>2, <1>3, <2>1, HeadersType DEF OnHeaderLine
<1>6. CASE c = ":" /\ Goto(c, "space_before_header_value", req)
  <2>1. req'.headers = req.headers
    BY <1>1, <1>2, <1>6, TookFields DEF Goto
  <2>2. InHeader("space_before_header_value", text, hs, a, pos + 1, req')
    BY <1>2, <1>5, <1>6, <2>1, NameEnds
  <2> QED BY <1>1, <1>2, <1>3, <1>4, <1>5, <1>6, <2>2, SameHeaderLine
<1>7. CASE c # ":" /\ ~Plain(c) /\ Bad(c)
  <2>1. HeaderRefuses("header_name", c, More(text, a))
    BY <1>7 DEF HeaderRefuses
  <2> QED BY <1>1, <1>3, <1>7, <2>1, HeaderBadReading
<1>8. CASE Plain(c) /\ Goto(c, "header_name", Back("name", c))
  <2>1. PICK r : r = Back("name", c)
    OBVIOUS
  <2>2. /\ r \in Request /\ SameLine(req, r) /\ r.original_req = req.original_req
        /\ r.headers = BackOf(req, "name", c).headers
    BY <1>1, <2>1, BackFields
  <2>3. req'.headers = r.headers
    BY <1>1, <1>8, <2>1, <2>2, TookFields DEF Goto
  <2>4. InHeader("header_name", text, hs, a, pos + 1, req')
    BY <1>2, <1>5, <1>8, <2>2, <2>3, NameMore
  <2>5. c \notin {"CR", "LF"}
    BY <1>8 DEF Plain, is_ctl
  <2> QED BY <1>1, <1>3, <1>5, <1>8, <2>1, <2>2, <2>4, <2>5, SameHeaderLine
<1> QED BY <1>6, <1>7, <1>8 DEF HeaderName

LEMMA HeaderLwsReading ==
  ASSUME Inv, Reading, fresh, NEW c \in Chars, HeaderLws(c)
  PROVE  Reading'
<1>1. Reads(c) /\ state_ = "header_lws" /\ req.headers # <<>>
  BY DEF HeaderLws, Inv, HeadersBacked
<1>2. /\ Shape(state_, text, pos, req) /\ req \in Request
      /\ text \in Seq(Chars) /\ pos \in 0..(Len(text) - 1) /\ c = text[pos + 1]
  BY <1>1, ReadsShape
<1>3. PICK a \in 2..(pos + 1) :
        /\ LineFields(text, req) /\ IsLines(text, a - 1)
        /\ OnHeaderLine("header_lws", text, a, pos, req)
  BY <1>1, <1>2, HeaderState
<1>4. SameLine(req, req) /\ a \in 2..(pos + 2)
  BY <1>2 DEF SameLine, SameVersion
<1>5. PICK hs \in Seq(Header) :
        /\ hs = HeadersUpto(text)[pos] /\ hs # <<>>
        /\ InHeader("header_lws", text, hs, a, pos, req)
  <2>1. pos \in 0..Len(text)
    BY <1>2
  <2>2. HeadersUpto(text)[pos] = req.headers
    BY <1>3 DEF OnHeaderLine, InHeader, InBlanks
  <2> QED BY <1>1, <1>2, <1>3, <2>1, <2>2, HeadersType DEF OnHeaderLine
<1>6. CASE c = "CR" /\ Goto(c, "expecting_newline_2", req)
  <2>1. req'.headers = req.headers
    BY <1>1, <1>2, <1>6, TookFields DEF Goto
  <2>2. BehindHeaderLine("expecting_newline_2", text, a, pos + 1, req')
    BY <1>2, <1>3, <1>6, <2>1, HeaderLineCR
  <2> QED BY <1>1, <1>2, <1>3, <1>4, <1>6, <2>2, HeaderGotoReading
<1>7. CASE Blank(c) /\ Goto(c, "header_lws", req)
  <2>1. req'.headers = req.headers
    BY <1>1, <1>2, <1>7, TookFields DEF Goto
  <2>2. InHeader("header_lws", text, hs, a, pos + 1, req')
    BY <1>2, <1>5, <1>7, <2>1, BlanksMore
  <2>3. c \notin {"CR", "LF"}
    BY <1>7 DEF Blank
  <2> QED BY <1>1, <1>2, <1>3, <1>4, <1>5, <1>7, <2>2, <2>3, SameHeaderLine
<1>8. CASE c # "CR" /\ ~Blank(c) /\ is_ctl(c) /\ Bad(c)
  <2>1. HeaderRefuses("header_lws", c, More(text, a))
    BY <1>8 DEF HeaderRefuses
  <2> QED BY <1>1, <1>3, <1>8, <2>1, HeaderBadReading
<1>9. CASE ~Blank(c) /\ ~is_ctl(c) /\ Goto(c, "header_value", Back("value", c))
  <2>1. PICK r : r = Back("value", c)
    OBVIOUS
  <2>2. /\ r \in Request /\ SameLine(req, r) /\ r.original_req = req.original_req
        /\ r.headers = BackOf(req, "value", c).headers
    BY <1>1, <2>1, BackFields
  <2>3. req'.headers = r.headers
    BY <1>1, <1>9, <2>1, <2>2, TookFields DEF Goto
  <2>4. InHeader("header_value", text, hs, a, pos + 1, req')
    BY <1>2, <1>5, <1>9, <2>2, <2>3, BlanksEnd
  <2>5. c \notin {"CR", "LF"}
    BY <1>9 DEF is_ctl
  <2> QED BY <1>1, <1>3, <1>5, <1>9, <2>1, <2>2, <2>4, <2>5, SameHeaderLine
<1> QED BY <1>6, <1>7, <1>8, <1>9 DEF HeaderLws, Blank

LEMMA HeaderValueReading ==
  ASSUME Inv, Reading, fresh, NEW c \in Chars, HeaderValue(c)
  PROVE  Reading'
<1>1. Reads(c) /\ state_ = "header_value" /\ req.headers # <<>>
  BY DEF HeaderValue, Inv, HeadersBacked
<1>2. /\ Shape(state_, text, pos, req) /\ req \in Request
      /\ text \in Seq(Chars) /\ pos \in 0..(Len(text) - 1) /\ c = text[pos + 1]
  BY <1>1, ReadsShape
<1>3. PICK a \in 2..(pos + 1) :
        /\ LineFields(text, req) /\ IsLines(text, a - 1)
        /\ OnHeaderLine("header_value", text, a, pos, req)
  BY <1>1, <1>2, HeaderState
<1>4. SameLine(req, req) /\ a \in 2..(pos + 2)
  BY <1>2 DEF SameLine, SameVersion
<1>5. PICK hs \in Seq(Header) :
        /\ hs = HeadersUpto(text)[pos] /\ (hs # <<>> <=> More(text, a))
        /\ InHeader("header_value", text, hs, a, pos, req)
  <2>1. pos \in 0..Len(text)
    BY <1>2
  <2> QED BY <1>2, <1>3, <2>1, HeadersType DEF OnHeaderLine
<1>6. CASE c = "CR" /\ Goto(c, "expecting_newline_2", req)
  <2>1. req'.headers = req.headers
    BY <1>1, <1>2, <1>6, TookFields DEF Goto
  <2>2. BehindHeaderLine("expecting_newline_2", text, a, pos + 1, req')
    BY <1>2, <1>3, <1>6, <2>1, HeaderLineCR
  <2> QED BY <1>1, <1>2, <1>3, <1>4, <1>6, <2>2, HeaderGotoReading
<1>7. CASE c # "CR" /\ is_ctl(c) /\ Bad(c)
  <2>1. HeaderRefuses("header_value", c, More(text, a))
    BY <1>7 DEF HeaderRefuses
  <2> QED BY <1>1, <1>3, <1>7, <2>1, HeaderBadReading
<1>8. CASE ~is_ctl(c) /\ Goto(c, "header_value", Back("value", c))
  <2>1. PICK r : r = Back("value", c)
    OBVIOUS
  <2>2. /\ r \in Request /\ SameLine(req, r) /\ r.original_req = req.original_req
        /\ r.headers = BackOf(req, "value", c).headers
    BY <1>1, <2>1, BackFields
  <2>3. req'.headers = BackOf(req, "value", c).headers
    BY <1>1, <1>8, <2>1, <2>2, TookFields DEF Goto
  <2>4. InHeader("header_value", text, hs, a, pos + 1, req')
    <3>1. ASSUME NEW i \in a..pos, InValue(text, hs, a, i, pos, req)
          PROVE  InHeader("header_value", text, hs, a, pos + 1, req')
      BY <1>2, <1>8, <2>3, <3>1, ValueMore
    <3>2. ASSUME NEW f \in a..pos, InFold(text, hs, a, f, pos, req)
          PROVE  InHeader("header_value", text, hs, a, pos + 1, req')
      <4>1. hs # <<>>
        BY <1>5, <3>2 DEF InFold
      <4> QED BY <1>2, <1>8, <2>3, <3>2, <4>1, FoldMore
    <3> QED BY <1>5, <3>1, <3>2 DEF InHeader
  <2>5. c \notin {"CR", "LF"}
    BY <1>8 DEF is_ctl
  <2> QED BY <1>1, <1>3, <1>5, <1>8, <2>1, <2>2, <2>4, <2>5, SameHeaderLine
<1> QED BY <1>6, <1>7, <1>8 DEF HeaderValue

LEMMA LastNewlineReading ==
  ASSUME Inv, Reading, fresh, NEW c \in Chars, LastNewline(c)
  PROVE  Reading'
<1>1. Reads(c) /\ state_ = "expecting_newline_3"
  BY DEF LastNewline
<1>2. /\ Shape(state_, text, pos, req) /\ req \in Request
      /\ text \in Seq(Chars) /\ pos \in 0..(Len(text) - 1) /\ c = text[pos + 1]
  BY <1>1, ReadsShape
<1>3. CASE c = "LF" /\ Took(c, req) /\ result' = "good"
  <2>1. /\ SameLine(req, req') /\ req'.headers = req.headers
        /\ text' = text /\ pos' = pos + 1
    BY <1>1, <1>2, <1>3, TookFields
  <2>2. req'.original_req = SubSeq(text', 1, pos')
    BY <1>1, <1>2, <1>3, TookOriginal
  <2>3. LineFields(text, req)
    BY <1>1, <1>2, NewlineState
  <2>4. PICK a \in 2..(pos + 1) :
          IsLines(text, a - 1) /\ BehindHeaders(state_, text, a, pos, req)
    BY <1>1, <1>2, NewlineState
  <2>5. IsRequest(text, pos + 1) /\ req.headers = HeadersUpto(text)[pos + 1]
    BY <1>2, <1>3, <2>4, HeadersEnd
  <2>6. LineFields(text, req')
    BY <2>1, <2>3, SameLineFields
  <2>7. req' \in Request
    <3>1. Append(req.original_req, c) \in Seq(Chars)
      BY <1>2, FieldsOf
    <3> QED BY <1>2, <1>3, <3>1, FieldType DEF Took
  <2>8. req' = RequestOf(text, pos + 1)
    <3>1. /\ req'.original_req = RequestOf(text, pos + 1).original_req
          /\ req'.headers = RequestOf(text, pos + 1).headers
      BY <2>1, <2>2, <2>5 DEF RequestOf
    <3>2. /\ req'.method = RequestOf(text, pos + 1).method
          /\ req'.uri = RequestOf(text, pos + 1).uri
          /\ req'.http_version_major = RequestOf(text, pos + 1).http_version_major
          /\ req'.http_version_minor = RequestOf(text, pos + 1).http_version_minor
      BY <2>6 DEF LineFields, RequestOf
    <3>3. PICK o, m, u, j, k, h : RequestOf(text, pos + 1) =
            [original_req |-> o, method |-> m, uri |-> u,
             http_version_major |-> j, http_version_minor |-> k, headers |-> h]
      BY DEF RequestOf
    <3> QED BY <2>7, <3>1, <3>2, <3>3 DEF Request
  <2> QED BY <1>3, <2>1, <2>2, <2>5, <2>8 DEF Reading
<1>4. CASE c # "LF" /\ Bad(c)
  BY <1>1, <1>4, NewlineBadReading
<1> QED BY <1>3, <1>4 DEF LastNewline

-----------------------------------------------------------------------------
LEMMA NewReading ==
  ASSUME NEW t \in Seq(Chars)
  PROVE  /\ NewRequest.original_req = SubSeq(t, 1, 0)
         /\ Shape("method_start", t, 0, NewRequest)
<1>1. SubSeq(t, 1, 0) = <<>>
  BY PartEmpty
<1>2. HeadersUpto(t)[0] = <<>>
  BY HeadersProperties
<1>3. 1..0 = {}
  OBVIOUS
<1>4. OnFirstLine("method_start", t, 0, NewRequest)
  BY <1>1, <1>2, <1>3 DEF OnFirstLine, Quiet, InMethod, NewRequest
<1> QED BY <1>1, <1>4 DEF Shape, NewRequest

LEMMA ReadingInit == Init => Reading
<1> SUFFICES ASSUME Init PROVE Reading
  OBVIOUS
<1>1. text \in Seq(Chars)
  BY ParserAssumption DEF Init
<1>2. /\ NewRequest.original_req = SubSeq(text, 1, 0)
      /\ Shape("method_start", text, 0, NewRequest)
  BY <1>1, NewReading
<1> QED BY <1>2 DEF Init, Reading

LEMMA ReadingStep == Inv /\ Reading /\ [Next]_vars => Reading'
<1> SUFFICES ASSUME Inv, Reading, [Next]_vars PROVE Reading'
  OBVIOUS
<1>1. CASE UNCHANGED vars
  BY <1>1 DEF vars, Reading
<1>2. ASSUME NEW n \in Pieces, Parse(n) PROVE Reading'
  BY <1>2 DEF Parse, Reading
<1>3. ASSUME NEW c \in Chars, Consume(c) PROVE Reading'
  <2>1. CASE fresh
    BY <1>3, <2>1, MethodReading, UriReading, ExpectReading, SlashReading,
       MajorReading, MinorReading, HeaderLineStartReading, HeaderNameReading,
       HeaderLwsReading, HeaderValueReading, LastNewlineReading DEF Consume
  <2>2. CASE ~fresh
    <3>1. fresh' = fresh
      BY <1>3 DEF Consume, Method, Uri, Expect, Slash, Major, Minor,
         HeaderLineStart, HeaderName, HeaderLws, HeaderValue, LastNewline, Goto,
         Bad, Took
    <3> QED BY <2>2, <3>1 DEF Reading
  <2> QED BY <2>1, <2>2
<1>4. ASSUME NEW t \in NextTexts, NEW r \in {NewRequest, req}, Reset(t, r)
      PROVE  Reading'
  <2>1. t \in Seq(Chars)
    BY ParserAssumption
  <2>2. /\ NewRequest.original_req = SubSeq(t, 1, 0)
        /\ Shape("method_start", t, 0, NewRequest)
    BY <2>1, NewReading
  <2>3. /\ text' = t /\ pos' = 0 /\ state_' = "method_start" /\ req' = r
        /\ result' = "indeterminate" /\ (fresh' <=> r = NewRequest)
    BY <1>4 DEF Reset
  <2> QED BY <2>2, <2>3 DEF Reading
<1> QED BY <1>1, <1>2, <1>3, <1>4 DEF Next

(* parse calls a request good exactly at the end of a well-formed request, *)
(* and bad only where no request begins, for every input, every way of     *)
(* cutting it into pieces and every sequence of resets.                    *)
THEOREM VerdictIsExact == Spec => []VerdictExact
<1>1. ASSUME Inv, Reading PROVE VerdictExact
  <2> SUFFICES ASSUME fresh
               PROVE  /\ result = "good" <=> IsRequest(text, pos)
                      /\ result = "bad" => \A n \in pos..Len(text) : ~IsRequest(text, n)
    BY DEF VerdictExact
  <2>1. /\ text \in Seq(Chars) /\ pos \in 0..Len(text) /\ pos \in pos..Len(text)
        /\ result \in {"good", "bad", "indeterminate"}
    BY <1>1 DEF Inv, TypeOK
  <2>2. result = "indeterminate" => ~IsRequest(text, pos)
    BY <1>1, <2>1, NotYet DEF Reading
  <2> QED BY <1>1, <2>1, <2>2 DEF Reading
<1> QED BY <1>1, InvInit, InvStep, ReadingInit, ReadingStep, PTL DEF Spec

(* The fields of a good request are the parts of its text, its folded      *)
(* headers joined, for every input and every way of cutting it.            *)
THEOREM FieldsAreExact == Spec => []FieldsExact
<1>1. Reading => FieldsExact
  BY DEF Reading, FieldsExact
<1> QED BY <1>1, InvInit, InvStep, ReadingInit, ReadingStep, PTL DEF Spec
=============================================================================
