--------------------------- MODULE RoutingProofs ---------------------------
(***************************************************************************)
(* Proofs about Routing, for configurations and targets of any length: the *)
(* types, which location a target is served by, and which directory its    *)
(* handler works in.                                                       *)
(***************************************************************************)
EXTENDS Routing, IdListProofs

(* What get_paths makes of a statement.                                    *)
Path ==
  [type : Kinds, endpoint : Urls, root : Values \cup {None},
   map : [Keys -> Values \cup {None}]]

-----------------------------------------------------------------------------
(* Positions and prefixes.                                                 *)

(* A prefix of a URL is a URL, empty only if it has no segment.            *)
LEMMA PrefixType ==
  ASSUME NEW url \in Urls, NEW n \in 0..Len(url)
  PROVE  SubSeq(url, 1, n) \in Urls /\ Len(SubSeq(url, 1, n)) = n
<1>1. n \in Int /\ 1 \in Int /\ \A i \in 1..n : url[i] \in Names \cup {NoName}
  BY DEF Urls
<1> QED BY <1>1, SubSeqProperties DEF Urls

(* Trim leaves a URL, and never an empty one of one that was not.          *)
LEMMA TrimType ==
  ASSUME NEW url \in Urls
  PROVE  Trim(url) \in Urls /\ (url # <<>> => Trim(url) # <<>>)
<1> DEFINE named == {i \in 1..Len(url) : url[i] # NoName}
<1>1. CASE named = {}
  BY <1>1 DEF Trim
<1>2. CASE named # {}
  <2>1. Len(url) \in Nat /\ named \subseteq 0..Len(url)
    BY DEF Urls
  <2>2. Max(named) \in named
    <3> HIDE DEF named
    <3> QED BY <1>2, <2>1, MaxExists
  <2>3. PICK m \in 1..Len(url) : m = Max(named)
    BY <2>2
  <2>4. SubSeq(url, 1, m) \in Urls /\ Len(SubSeq(url, 1, m)) = m
    BY <2>1, <2>3, PrefixType
  <2>5. Trim(url) = SubSeq(url, 1, m)
    BY <1>2, <2>3 DEF Trim
  <2>6. Len(SubSeq(url, 1, m)) # 0 /\ Len(<<>>) = 0
    BY <2>4
  <2> QED BY <2>4, <2>5, <2>6
<1> QED BY <1>1, <1>2

(* A setting is a value a block has, or missing.                           *)
LEMMA SettingType ==
  ASSUME NEW block \in Seq([key : Keys, value : Values]), NEW k
  PROVE  Setting(block, k) \in Values \cup {None}
<1> DEFINE given == {i \in 1..Len(block) : block[i].key = k}
<1>1. CASE given = {}
  BY <1>1 DEF Setting
<1>2. CASE given # {}
  <2>1. Len(block) \in Nat /\ given \subseteq 0..Len(block)
    OBVIOUS
  <2>2. Max(given) \in given
    <3> HIDE DEF given
    <3> QED BY <1>2, <2>1, MaxExists
  <2>3. PICK m \in 1..Len(block) : m = Max(given)
    BY <2>2
  <2>4. block[m] \in [key : Keys, value : Values]
    BY <2>3, ElementOfSeq
  <2> QED BY <1>2, <2>3, <2>4 DEF Setting
<1> QED BY <1>1, <1>2

(* session::match in one formula: the longest prefix that is an endpoint,  *)
(* and "/" if there is none.                                               *)
Hits(url, n) == {m \in 0..n : SubSeq(url, 1, m) \in DOMAIN routes}

Longest(url, n) ==
  IF Hits(url, n) = {} THEN Root ELSE SubSeq(url, 1, Max(Hits(url, n)))

(* The longest prefix is the target itself or that of what is left of it.  *)
LEMMA LongestStep ==
  ASSUME NEW url, NEW n \in Nat
  PROVE  Longest(url, n) =
           IF SubSeq(url, 1, n) \in DOMAIN routes THEN SubSeq(url, 1, n)
           ELSE IF n = 0 THEN Root ELSE Longest(url, n - 1)
<1>1. CASE SubSeq(url, 1, n) \in DOMAIN routes
  <2>1. n \in Hits(url, n) /\ Hits(url, n) \subseteq 0..n
    BY <1>1 DEF Hits
  <2>2. PICK m \in 0..n : m = Max(Hits(url, n)) /\ n <= m
    BY <2>1, MaxExists
  <2>3. m = n
    BY <2>2
  <2> QED BY <1>1, <2>1, <2>2, <2>3 DEF Longest
<1>2. CASE SubSeq(url, 1, n) \notin DOMAIN routes /\ n = 0
  <2>1. Hits(url, n) = {}
    BY <1>2 DEF Hits
  <2> QED BY <1>2, <2>1 DEF Longest
<1>3. CASE SubSeq(url, 1, n) \notin DOMAIN routes /\ n # 0
  <2>1. \A m \in Nat : m \in 0..n <=> m \in 0..(n - 1) \/ m = n
    BY <1>3
  <2>2. Hits(url, n) = Hits(url, n - 1)
    BY <1>3, <2>1 DEF Hits
  <2> QED BY <1>3, <2>2 DEF Longest
<1> QED BY <1>1, <1>2, <1>3

LEMMA MatchLongest ==
  ASSUME NEW url \in Urls
  PROVE  Match(url) = Longest(url, Len(url))
<1> DEFINE N == Len(url)
           Step(f, n) ==
             IF SubSeq(url, 1, n) \in DOMAIN routes THEN SubSeq(url, 1, n)
             ELSE IF n = 0 THEN Root ELSE f[n - 1]
           Eq(f) == f = [n \in 0..N |-> Step(f, n)]
           g == [n \in 0..N |-> Longest(url, n)]
           Found == CHOOSE f : Eq(f)
<1>1. N \in Nat
  BY DEF Urls
<1>2. Match(url) = Found[N]
  BY DEF Match
<1>3. Eq(g)
  <2>1. ASSUME NEW n \in 0..N PROVE g[n] = Step(g, n)
    <3>1. n \in Nat /\ (n # 0 => n - 1 \in 0..N)
      BY <1>1
    <3>2. g[n] = Longest(url, n) /\ (n # 0 => g[n - 1] = Longest(url, n - 1))
      BY <3>1
    <3> HIDE DEF g
    <3> QED BY <3>1, <3>2, LongestStep
  <2> QED BY <2>1
<1>4. Eq(Found)
  <2> HIDE DEF Eq
  <2> QED BY <1>3
<1>5. \A n \in 0..N : Found[n] = Step(Found, n)
  <2> HIDE DEF Found
  <2> QED BY <1>4
<1> HIDE DEF Found
<1> DEFINE Bad == {n \in 0..N : Found[n] # Longest(url, n)}
<1>6. Bad = {}
  <2> SUFFICES ASSUME Bad # {} PROVE FALSE
    OBVIOUS
  <2>1. Bad \subseteq Nat
    BY <1>1
  <2>2. PICK m \in Bad : \A y \in Bad : m <= y
    <3> HIDE DEF Bad
    <3> QED BY <2>1, MinExists
  <2>3. m \in 0..N /\ m \in Nat /\ Found[m] # Longest(url, m)
    BY <1>1
  <2>4. m # 0 => m - 1 \in 0..N /\ m - 1 \notin Bad
    BY <1>1, <2>2, <2>3
  <2>5. m # 0 => Found[m - 1] = Longest(url, m - 1)
    BY <2>4
  <2> QED BY <1>5, <2>3, <2>5, LongestStep
<1> QED BY <1>1, <1>2, <1>6

-----------------------------------------------------------------------------
(* What one statement adds to the paths.                                   *)

(* One of the paths of the statement.                                      *)
Adds(s, p) == \E k \in 1..Len(PathsOf(s)) : p = PathsOf(s)[k]

(* The path of a statement that has no endpoint is the one a `path` is     *)
(* before any assignment, or that of an auth block without settings.       *)
Bare(s, p) ==
  /\ p.endpoint = <<>>
  /\ \/ p.type = "echo" /\ s.handler # "auth" /\ ~Complete(s)
     \/ p.type = "auth" /\ s.handler = "auth" /\ s.block = <<>> /\ p.map["root"] = None

(* Every other path has the statement's endpoint, handler and directory.   *)
Full(s, p) ==
  /\ Complete(s)
  /\ p.endpoint = Endpoint(s) /\ p.endpoint # <<>>
  /\ p.type = s.handler
  /\ s.handler \in {"static", "api"} => p.root = Setting(s.block, "root")
  /\ s.handler = "auth" => p.map["root"] = Setting(s.block, "root")

LEMMA StatementFields ==
  ASSUME NEW s \in Statement
  PROVE  /\ s.handler \in Kinds \cup {"other"}
         /\ s.url \in Urls /\ s.url # <<>>
         /\ s.block \in Seq([key : Keys, value : Values])
         /\ Trim(s.url) \in Urls /\ Trim(s.url) # <<>>
         /\ \A k : Setting(s.block, k) \in Values \cup {None}
<1>1. /\ s.handler \in Kinds \cup {"other"}
      /\ s.url \in Urls /\ s.url # <<>>
      /\ s.block \in Seq([key : Keys, value : Values])
  BY DEF Statement
<1> QED BY <1>1, TrimType, SettingType

LEMMA DefaultPathType == DefaultPath \in Path
<1>1. <<>> \in Urls
  BY DEF Urls
<1>2. NoSettings \in [Keys -> Values \cup {None}]
  BY DEF NoSettings
<1> HIDE DEF NoSettings
<1> QED BY <1>1, <1>2 DEF DefaultPath, Path, Kinds

LEMMA RootedPathFull ==
  ASSUME NEW s \in Statement, s.handler \in {"static", "api"}
  PROVE  /\ RootedPath(s) \in Path
         /\ Complete(s) => Full(s, RootedPath(s))
         /\ ~Complete(s) => Bare(s, RootedPath(s))
<1>1. CASE Setting(s.block, "root") = None
  BY <1>1, DefaultPathType DEF RootedPath, Complete, Bare, DefaultPath
<1>2. CASE Setting(s.block, "root") # None
  <2> DEFINE d == Setting(s.block, "root")
             e == Trim(s.url)
  <2>1. d \in Values \cup {None} /\ e \in Urls /\ e # <<>>
    BY StatementFields
  <2>2. RootedPath(s) = [DefaultPath EXCEPT !.type = s.handler, !.endpoint = e, !.root = d]
    BY <1>2 DEF RootedPath
  <2>3. s.handler \in Kinds /\ e = Endpoint(s) /\ Complete(s)
    BY <1>2 DEF Kinds, Endpoint, Complete
  <2> HIDE DEF d, e
  <2>4. RootedPath(s) \in Path
    BY <2>1, <2>2, <2>3, DefaultPathType DEF Path
  <2>5. Full(s, RootedPath(s))
    BY <2>1, <2>2, <2>3 DEF Full, DefaultPath, d
  <2> QED BY <2>3, <2>4, <2>5
<1> QED BY <1>1, <1>2

LEMMA PlainPathFull ==
  ASSUME NEW s \in Statement, s.handler \in {"echo", "health", "sleep"}
  PROVE  PlainPath(s) \in Path /\ Complete(s) /\ Full(s, PlainPath(s))
<1> DEFINE e == Trim(s.url)
<1>1. e \in Urls /\ e # <<>>
  BY StatementFields
<1>2. PlainPath(s) = [DefaultPath EXCEPT !.type = s.handler, !.endpoint = e]
  BY DEF PlainPath
<1>3. s.handler \in Kinds /\ e = Endpoint(s) /\ Complete(s)
  BY DEF Kinds, Endpoint, Complete
<1> HIDE DEF e
<1>4. PlainPath(s) \in Path
  BY <1>1, <1>2, <1>3, DefaultPathType DEF Path
<1> QED BY <1>1, <1>2, <1>3, <1>4 DEF Full, DefaultPath

LEMMA AuthPathFull ==
  ASSUME NEW s \in Statement, s.handler = "auth"
  PROVE  /\ AuthPath(s) \in Path
         /\ Complete(s) => Full(s, AuthPath(s))
         /\ ~Complete(s) => Bare(s, AuthPath(s))
<1>1. CASE s.block = <<>>
  <2>1. AuthPath(s) = [DefaultPath EXCEPT !.type = "auth"] /\ ~Complete(s)
    BY <1>1 DEF AuthPath, Complete
  <2>2. AuthPath(s) \in Path
    BY <2>1, DefaultPathType DEF Path, Kinds
  <2>3. NoSettings["root"] = None
    BY DEF NoSettings, Keys
  <2>4. Bare(s, AuthPath(s))
    BY <1>1, <2>1, <2>3 DEF Bare, DefaultPath
  <2> QED BY <2>1, <2>2, <2>4
<1>2. CASE s.block # <<>>
  <2> DEFINE d == Setting(s.block, "root")
             e == Trim(s.url)
             m == [k \in Keys |-> Setting(s.block, k)]
  <2>1. d \in Values \cup {None} /\ e \in Urls /\ e # <<>>
    BY StatementFields
  <2>2. m \in [Keys -> Values \cup {None}] /\ m["root"] = d
    BY StatementFields DEF Keys
  <2>3. AuthPath(s) = [type |-> "auth", endpoint |-> e, root |-> d, map |-> m]
    BY <1>2 DEF AuthPath
  <2>4. e = Endpoint(s) /\ Complete(s)
    BY <1>2 DEF Kinds, Endpoint, Complete
  <2> HIDE DEF d, e, m
  <2>5. AuthPath(s) \in Path
    BY <2>1, <2>2, <2>3 DEF Path, Kinds
  <2>6. Full(s, AuthPath(s))
    BY <2>1, <2>2, <2>3, <2>4 DEF Full, d
  <2> QED BY <2>4, <2>5, <2>6
<1> QED BY <1>1, <1>2

LEMMA ConsolePathFull ==
  ASSUME NEW s \in Statement, s.handler = "console",
         NEW i \in 1..Len(s.block)
  PROVE  /\ ConsolePath(s, s.block[i]) \in Path
         /\ Full(s, ConsolePath(s, s.block[i]))
<1>1. PICK b \in [key : Keys, value : Values] : b = s.block[i]
  BY StatementFields, ElementOfSeq
<1>2. s.url \in Urls /\ s.url # <<>> /\ s.block # <<>>
  BY StatementFields
<1> DEFINE d == IF b.key = "root" THEN b.value ELSE None
           m == [NoSettings EXCEPT ![b.key] = b.value]
<1>3. d \in Values \cup {None}
  OBVIOUS
<1>4. m \in [Keys -> Values \cup {None}]
  BY DEF NoSettings
<1>5. ConsolePath(s, b) = [type |-> "console", endpoint |-> s.url, root |-> d, map |-> m]
  BY DEF ConsolePath
<1>6. s.url = Endpoint(s) /\ Complete(s)
  BY <1>2 DEF Kinds, Endpoint, Complete
<1> HIDE DEF d, m
<1>7. ConsolePath(s, b) \in Path
  BY <1>2, <1>3, <1>4, <1>5 DEF Path, Kinds
<1>8. Full(s, ConsolePath(s, b))
  BY <1>2, <1>5, <1>6 DEF Full
<1> QED BY <1>1, <1>7, <1>8

(* A statement adds a sequence of paths, each bare or full, and at least   *)
(* one if it is complete or an auth statement.                             *)
LEMMA PathsOfStatement ==
  ASSUME NEW s \in Statement
  PROVE  /\ PathsOf(s) \in Seq(Path)
         /\ \A p : Adds(s, p) => Bare(s, p) \/ Full(s, p)
         /\ Complete(s) \/ s.handler = "auth" => PathsOf(s) # <<>>
<1>1. CASE s.handler \in {"static", "api"}
  <2>1. PathsOf(s) = <<RootedPath(s)>>
    BY <1>1 DEF PathsOf
  <2> QED BY <1>1, <2>1, RootedPathFull DEF Adds
<1>2. CASE s.handler \in {"echo", "health", "sleep"}
  <2>1. PathsOf(s) = <<PlainPath(s)>>
    BY <1>2 DEF PathsOf
  <2> QED BY <1>2, <2>1, PlainPathFull DEF Adds
<1>3. CASE s.handler = "auth"
  <2>1. PathsOf(s) = <<AuthPath(s)>>
    BY <1>3 DEF PathsOf
  <2> QED BY <1>3, <2>1, AuthPathFull DEF Adds
<1>4. CASE s.handler = "console"
  <2> DEFINE n == Len(s.block)
             q == [i \in 1..n |-> ConsolePath(s, s.block[i])]
  <2>1. PathsOf(s) = q /\ n \in Nat
    BY <1>4, StatementFields DEF PathsOf
  <2>2. \A i \in 1..n : q[i] \in Path /\ Full(s, q[i])
    BY <1>4, ConsolePathFull
  <2>3. q \in Seq(Path) /\ Len(q) = n
    BY <1>4, <2>1, ConsolePathFull, IsASeq
  <2>4. Complete(s) => n # 0
    BY <1>4, StatementFields, EmptySeq DEF Complete
  <2> HIDE DEF q, n
  <2> QED BY <1>4, <2>1, <2>2, <2>3, <2>4 DEF Adds
<1>5. CASE s.handler = "other"
  <2>1. PathsOf(s) = <<>> /\ ~Complete(s)
    BY <1>5 DEF PathsOf, Complete, Kinds
  <2> QED BY <1>5, <2>1 DEF Adds
<1> QED BY <1>1, <1>2, <1>3, <1>4, <1>5, StatementFields DEF Kinds

-----------------------------------------------------------------------------
(* The inductive invariant.                                                *)

(* src[j] is the statement that path j comes from: the paths stand in the  *)
(* order of the statements, and a statement that has paths has one there.  *)
Sourced(src) ==
  /\ \A i, j \in 1..Len(paths) : i <= j => src[i] <= src[j]
  /\ \A j \in 1..Len(paths) : Adds(config[src[j]], paths[j])
  /\ \A i \in 1..read :
       PathsOf(config[i]) # <<>> => \E j \in 1..Len(paths) : src[j] = i

Loaded ==
  /\ next > 0 => read = Len(config)
  /\ \E src \in [1..Len(paths) -> 1..read] : Sourced(src)

(* The paths init_server has seen that have the endpoint.                  *)
Seen(e) == {j \in 1..next : j <= Len(paths) /\ paths[j].endpoint = e}

(* An endpoint has a route once a path with it was seen, and the first one *)
(* decides which; "/" without a path gets the 404 handler at the end.      *)
Installed ==
  \A e \in Urls :
    /\ e \in DOMAIN routes <=> Seen(e) # {} \/ (Ready /\ e = Root)
    /\ \A j \in Seen(e) :
         (\A i \in Seen(e) : j <= i) => routes[e] = paths[j].type
    /\ Seen(e) = {} /\ e \in DOMAIN routes => routes[e] = "404"

(* The request being served was matched against the finished table.        *)
Matched ==
  served # NotServed =>
    /\ Ready
    /\ served.url \in Targets
    /\ served.location = Match(served.url)
    /\ served.kind = routes[served.location]
    /\ served.root = RootGiven(served.kind, served.location)
    /\ served.status \in Answers(served.kind, served.location, served.url)

Inv == TypeOK /\ Loaded /\ Installed /\ Matched

LEMMA InvInit == Init => Inv
<1> SUFFICES ASSUME Init PROVE Inv
  OBVIOUS
<1>1. config \in Configs /\ Len(config) \in Nat
  BY RoutingAssumption DEF Init
<1>2. served \in Served
  <2>1. <<>> \in Urls
    BY DEF Urls
  <2> QED BY <2>1 DEF Init, NotServed, Served
<1>3. DOMAIN routes = {} /\ paths \in Seq(Path) /\ Len(paths) = 0 /\ next = 0 /\ read = 0
  BY DEF Init
<1>8. alive \in BOOLEAN
  BY DEF Init
<1>4. TypeOK
  BY <1>1, <1>2, <1>3, <1>8 DEF TypeOK, Path
<1>5. Loaded
  <2>1. 1..Len(paths) = {} /\ 1..read = {}
    BY <1>3
  <2>2. PICK src : src = [j \in {} |-> 0]
    OBVIOUS
  <2>3. src \in [1..Len(paths) -> 1..read]
    BY <2>1, <2>2
  <2>4. Sourced(src)
    BY <2>1 DEF Sourced
  <2>5. ~(next > 0)
    BY <1>3
  <2> QED BY <2>3, <2>4, <2>5 DEF Loaded
<1>6. Installed
  <2>1. ~Ready /\ \A e : Seen(e) = {}
    BY <1>3 DEF Ready, Seen
  <2> QED BY <1>3, <2>1 DEF Installed
<1>7. Matched
  BY DEF Init, Matched
<1> QED BY <1>4, <1>5, <1>6, <1>7 DEF Inv

(* What the type invariant says of one statement and one path.             *)
LEMMA Elements ==
  ASSUME TypeOK
  PROVE  /\ Len(config) \in Nat /\ read \in Nat /\ next \in Nat
         /\ paths \in Seq(Path) /\ Len(paths) \in Nat
         /\ \A i \in 1..Len(config) : config[i] \in Statement
         /\ \A j \in 1..Len(paths) : paths[j] \in Path
<1>1. config \in Seq(Statement) /\ paths \in Seq(Path)
  BY RoutingAssumption DEF TypeOK, Path
<1>2. Len(config) \in Nat /\ Len(paths) \in Nat
  BY <1>1
<1>3. read \in Nat /\ next \in Nat
  BY <1>2 DEF TypeOK
<1> QED BY <1>1, <1>2, <1>3, ElementOfSeq

LEMMA ReadStep ==
  ASSUME Inv, ReadStatement
  PROVE  Inv'
<1> DEFINE s == config[read + 1]
           Q == PathsOf(s)
           n == Len(paths)
<1>1. /\ Len(config) \in Nat /\ read \in Nat /\ n \in Nat
      /\ paths \in Seq(Path) /\ s \in Statement
      /\ read < Len(config) /\ read' = read + 1 /\ paths' = paths \o Q
      /\ config' = config /\ next' = next /\ routes' = routes /\ served' = served
      /\ next = 0
  <2>1. read + 1 \in 1..Len(config)
    BY Elements DEF ReadStatement, Inv
  <2>2. next = 0
    BY Elements DEF ReadStatement, Inv, Loaded
  <2> QED BY <2>1, <2>2, Elements DEF ReadStatement, Inv
<1>2. Q \in Seq(Path) /\ Len(Q) \in Nat
  BY <1>1, PathsOfStatement
<1> HIDE DEF Q, s
<1>3. /\ paths' \in Seq(Path)
      /\ Len(paths') = n + Len(Q)
      /\ \A j \in 1..(n + Len(Q)) :
           paths'[j] = IF j <= n THEN paths[j] ELSE Q[j - n]
  BY <1>1, <1>2, ConcatProperties
<1>8. alive' = alive
  BY DEF ReadStatement
<1>4. TypeOK'
  BY <1>1, <1>2, <1>3, <1>8 DEF Inv, TypeOK, Path
<1>5. Loaded'
  <2>1. PICK src \in [1..n -> 1..read] : Sourced(src)
    BY DEF Inv, Loaded
  <2> DEFINE new == [j \in 1..(n + Len(Q)) |-> IF j <= n THEN src[j] ELSE read + 1]
  <2>2. \A j \in 1..(n + Len(Q)) : (j \in 1..n /\ j <= n) \/ (j - n \in 1..Len(Q) /\ ~(j <= n))
    BY <1>1, <1>2
  <2>3. \A j \in 1..n : j \in 1..(n + Len(Q)) /\ src[j] \in 1..read /\ src[j] \in Nat
    BY <1>1, <1>2
  <2>4. new \in [1..Len(paths') -> 1..read']
    BY <1>1, <1>3, <2>2, <2>3
  <2>5. /\ \A j \in 1..n : new[j] = src[j]
        /\ \A j \in 1..(n + Len(Q)) : ~(j <= n) => new[j] = read + 1
    BY <2>3
  <2> HIDE DEF new
  <2>6. ASSUME NEW i \in 1..(n + Len(Q)), NEW j \in 1..(n + Len(Q)), i <= j
        PROVE  new[i] <= new[j]
    <3>1. CASE j <= n
      <4>1. i \in 1..n /\ j \in 1..n
        BY <1>1, <1>2, <2>6, <3>1
      <4> QED BY <2>1, <2>5, <2>6, <4>1 DEF Sourced
    <3>2. CASE ~(j <= n) /\ i <= n
      <4>1. i \in 1..n
        BY <2>2, <3>2
      <4> QED BY <1>1, <2>3, <2>5, <3>2, <4>1
    <3>3. CASE ~(j <= n) /\ ~(i <= n)
      BY <1>1, <2>5, <3>3
    <3> QED BY <3>1, <3>2, <3>3
  <2>7. ASSUME NEW j \in 1..(n + Len(Q))
        PROVE  Adds(config[new[j]], paths'[j])
    <3>1. CASE j <= n
      <4>1. j \in 1..n
        BY <2>2, <3>1
      <4> QED BY <1>3, <2>1, <2>5, <3>1, <4>1 DEF Sourced
    <3>2. CASE ~(j <= n)
      <4>1. j - n \in 1..Len(Q) /\ paths'[j] = Q[j - n] /\ new[j] = read + 1
        BY <1>3, <2>2, <2>5, <3>2
      <4> QED BY <4>1 DEF Adds, Q, s
    <3> QED BY <3>1, <3>2
  <2>8. ASSUME NEW i \in 1..(read + 1), PathsOf(config[i]) # <<>>
        PROVE  \E j \in 1..(n + Len(Q)) : new[j] = i
    <3>1. CASE i = read + 1
      <4>1. Q # <<>>
        BY <2>8, <3>1 DEF Q, s
      <4>2. Len(Q) # 0
        BY <1>2, <4>1, EmptySeq
      <4>3. n + 1 \in 1..(n + Len(Q)) /\ ~(n + 1 <= n)
        BY <1>1, <1>2, <4>2
      <4> QED BY <2>5, <3>1, <4>3
    <3>2. CASE i \in 1..read
      <4>1. PICK j \in 1..n : src[j] = i
        BY <2>1, <2>8, <3>2 DEF Sourced
      <4> QED BY <2>3, <2>5, <4>1
    <3> QED BY <1>1, <3>1, <3>2
  <2>9. PICK m : m = new
    OBVIOUS
  <2>10. Sourced(m)'
    BY <1>1, <1>3, <2>6, <2>7, <2>8, <2>9 DEF Sourced, Adds
  <2>11. ~(next' > 0)
    BY <1>1
  <2> QED BY <2>4, <2>9, <2>10, <2>11 DEF Loaded
<1>6. Installed'
  <2>1. Len(paths') \in Nat /\ ~Ready /\ ~Ready'
    BY <1>1, <1>2, <1>3 DEF Ready
  <2>2. \A e : Seen(e) = {} /\ Seen(e)' = {}
    BY <1>1 DEF Seen
  <2> QED BY <1>1, <2>1, <2>2 DEF Inv, Installed
<1>7. Matched'
  BY <1>1 DEF Inv, Matched, Ready
<1> QED BY <1>4, <1>5, <1>6, <1>7 DEF Inv

(* After get_paths, a path keeps its statement.                            *)
LEMMA LoadedKept ==
  ASSUME Loaded, UNCHANGED <<config, read, paths>>, next' > 0 => read = Len(config)
  PROVE  Loaded'
<1>1. PICK src \in [1..Len(paths) -> 1..read] : Sourced(src)
  BY DEF Loaded
<1>2. Sourced(src)'
  BY <1>1 DEF Sourced, Adds
<1>3. src \in [1..Len(paths') -> 1..read']
  OBVIOUS
<1> QED BY <1>2, <1>3 DEF Loaded

(* emplace: a new endpoint gets the kind, an old one keeps what it had.    *)
LEMMA EmplaceRoutes ==
  ASSUME NEW e0, NEW kind, Emplace(e0, kind)
  PROVE  /\ DOMAIN routes' = DOMAIN routes \cup {e0}
         /\ \A e \in DOMAIN routes : routes'[e] = routes[e]
         /\ e0 \notin DOMAIN routes => routes'[e0] = kind
BY DEF Emplace

LEMMA InstallStep ==
  ASSUME Inv, Install
  PROVE  Inv'
<1>1. PICK k \in 1..Len(paths) : k = next + 1
  BY Elements DEF Install, Inv
<1>2. PICK p \in Path : p = paths[k]
  BY <1>1, Elements DEF Inv
<1>3. /\ read = Len(config) /\ next' = k /\ UNCHANGED <<alive, config, read, paths, served>>
      /\ Emplace(p.endpoint, p.type)
      /\ next \in Nat /\ next < Len(paths) /\ Len(paths) \in Nat
  BY <1>1, <1>2, Elements DEF Install, Inv
<1>4. p.endpoint \in Urls /\ p.type \in Kinds
  BY <1>2 DEF Path
<1>5. ~Ready /\ ~Ready'
  BY <1>1, <1>3 DEF Ready
<1>6. /\ DOMAIN routes' = DOMAIN routes \cup {p.endpoint}
      /\ \A e \in DOMAIN routes : routes'[e] = routes[e]
      /\ p.endpoint \notin DOMAIN routes => routes'[p.endpoint] = p.type
  BY <1>3, EmplaceRoutes
<1>7. TypeOK'
  <2>1. k \in 0..(Len(paths) + 1)
    BY <1>1, <1>3
  <2>2. DOMAIN routes' \subseteq Urls
    BY <1>4, <1>6 DEF Inv, TypeOK
  <2>3. \A e \in DOMAIN routes' : routes'[e] \in Kinds \cup {"404"}
    BY <1>4, <1>6 DEF Inv, TypeOK
  <2> QED BY <1>3, <2>1, <2>2, <2>3 DEF Inv, TypeOK
<1>8. Loaded'
  BY <1>3, LoadedKept DEF Inv
<1>9. Installed'
  <2> SUFFICES ASSUME NEW e \in Urls
               PROVE  /\ e \in DOMAIN routes' <=> Seen(e)' # {}
                      /\ \A j \in Seen(e)' :
                           (\A i \in Seen(e)' : j <= i) => routes'[e] = paths[j].type
                      /\ Seen(e)' = {} /\ e \in DOMAIN routes' => routes'[e] = "404"
    BY <1>3, <1>5 DEF Installed
  <2>1. \A j : j \in 1..k <=> j \in 1..next \/ j = k
    BY <1>1, <1>3
  <2>2. Seen(e)' = Seen(e) \cup (IF p.endpoint = e THEN {k} ELSE {})
    BY <1>1, <1>2, <1>3, <2>1 DEF Seen
  <2>3. \A j \in Seen(e) : j < k /\ j \in Nat
    BY <1>1, <1>3 DEF Seen
  <2>4. /\ e \in DOMAIN routes <=> Seen(e) # {}
        /\ \A j \in Seen(e) : (\A i \in Seen(e) : j <= i) => routes[e] = paths[j].type
    BY <1>5 DEF Inv, Installed
  <2>5. CASE Seen(e) # {}
    <3>1. e \in DOMAIN routes /\ routes'[e] = routes[e] /\ e \in DOMAIN routes'
      BY <1>6, <2>4, <2>5
    <3>2. ASSUME NEW j \in Seen(e)', \A i \in Seen(e)' : j <= i
          PROVE  routes'[e] = paths[j].type
      <4>1. PICK i \in Seen(e) : j <= i
        BY <2>2, <2>5, <3>2
      <4>2. j # k
        BY <1>1, <2>3, <4>1
      <4> QED BY <2>2, <2>4, <3>1, <3>2, <4>2
    <3> QED BY <2>2, <2>5, <3>1, <3>2
  <2>6. CASE Seen(e) = {}
    BY <1>2, <1>6, <2>2, <2>4, <2>6
  <2> QED BY <2>5, <2>6
<1>10. Matched'
  BY <1>3, <1>5 DEF Inv, Matched
<1> QED BY <1>7, <1>8, <1>9, <1>10 DEF Inv

LEMMA FallbackStep ==
  ASSUME Inv, InstallFallback
  PROVE  Inv'
<1>1. /\ read = Len(config) /\ next' = Len(paths) + 1 /\ next = Len(paths)
      /\ UNCHANGED <<alive, config, read, paths, served>>
      /\ Emplace(Root, "404") /\ Len(paths) \in Nat
  BY Elements DEF InstallFallback, Inv
<1>2. ~Ready /\ Ready'
  BY <1>1 DEF Ready
<1>3. /\ DOMAIN routes' = DOMAIN routes \cup {Root}
      /\ \A e \in DOMAIN routes : routes'[e] = routes[e]
      /\ Root \notin DOMAIN routes => routes'[Root] = "404"
  BY <1>1, EmplaceRoutes
<1>4. Root \in Urls
  BY DEF Root, Urls
<1>5. TypeOK'
  <2>1. next' \in 0..(Len(paths) + 1)
    BY <1>1
  <2>2. DOMAIN routes' \subseteq Urls
    BY <1>3, <1>4 DEF Inv, TypeOK
  <2>3. \A e \in DOMAIN routes' : routes'[e] \in Kinds \cup {"404"}
    BY <1>3 DEF Inv, TypeOK
  <2> QED BY <1>1, <2>1, <2>2, <2>3 DEF Inv, TypeOK
<1>6. Loaded'
  BY <1>1, LoadedKept DEF Inv
<1>7. Installed'
  <2>1. ASSUME NEW e PROVE Seen(e)' = Seen(e)
    <3>1. \A j \in Int : j \in 1..(Len(paths) + 1) /\ j <= Len(paths) <=> j \in 1..Len(paths)
      BY <1>1
    <3> QED BY <1>1, <3>1 DEF Seen
  <2> QED BY <1>1, <1>2, <1>3, <2>1 DEF Inv, Installed
<1>8. Matched'
  BY <1>1, <1>2 DEF Inv, Matched
<1> QED BY <1>5, <1>6, <1>7, <1>8 DEF Inv

(* The location that match returns has a route once the table is finished. *)
LEMMA MatchHasRoute ==
  ASSUME Inv, Ready, NEW url \in Urls
  PROVE  Match(url) \in DOMAIN routes /\ Match(url) \in Urls
<1>1. Len(url) \in Nat
  BY DEF Urls
<1>2. CASE Hits(url, Len(url)) = {}
  <2>1. Match(url) = Root
    BY <1>2, MatchLongest DEF Longest
  <2>2. Root \in Urls
    BY DEF Root, Urls
  <2> QED BY <2>1, <2>2 DEF Inv, Installed
<1>3. CASE Hits(url, Len(url)) # {}
  <2>1. Hits(url, Len(url)) \subseteq 0..Len(url)
    BY DEF Hits
  <2>2. Max(Hits(url, Len(url))) \in Hits(url, Len(url))
    BY <1>1, <1>3, <2>1, MaxExists
  <2>3. Match(url) = SubSeq(url, 1, Max(Hits(url, Len(url))))
    BY <1>3, MatchLongest DEF Longest
  <2>4. Match(url) \in DOMAIN routes
    BY <2>2, <2>3 DEF Hits
  <2> QED BY <2>4 DEF Inv, TypeOK
<1> QED BY <1>2, <1>3

(* The paths with an endpoint, and the first of them.                      *)
At(e) == {j \in 1..Len(paths) : paths[j].endpoint = e}
AuthAt(e) == {j \in 1..Len(paths) : paths[j].endpoint = e \/ paths[j].type = "auth"}

LEMMA QueriesFirst ==
  ASSUME NEW e
  PROVE  /\ GetRoot(e) = IF At(e) = {} THEN DefaultPath.root ELSE paths[Min(At(e))].root
         /\ GetAuthPathMap(e) =
              IF AuthAt(e) = {} THEN DefaultPath.map ELSE paths[Min(AuthAt(e))].map
<1>1. GetRoot(e) = IF At(e) = {} THEN DefaultPath.root ELSE paths[Min(At(e))].root
  BY DEF GetRoot, FirstPath, At
<1>2. GetAuthPathMap(e) =
        IF AuthAt(e) = {} THEN DefaultPath.map ELSE paths[Min(AuthAt(e))].map
  BY DEF GetAuthPathMap, FirstPath, AuthAt
<1> QED BY <1>1, <1>2

LEMMA RootGivenType ==
  ASSUME Inv, NEW e, NEW kind
  PROVE  RootGiven(kind, e) \in Values \cup {None}
<1>1. \A p \in Path : p.root \in Values \cup {None} /\ p.map["root"] \in Values \cup {None}
  BY DEF Path, Keys
<1>2. \A j \in 1..Len(paths) : paths[j] \in Path
  BY Elements DEF Inv
<1>3. GetRoot(e) \in Values \cup {None}
  <2>1. At(e) \subseteq Nat /\ At(e) \subseteq 1..Len(paths)
    BY DEF At
  <2>2. At(e) # {} => Min(At(e)) \in At(e)
    BY <2>1, MinExists
  <2> QED BY <1>1, <1>2, <2>1, <2>2, QueriesFirst, DefaultPathType
<1>4. GetAuthPathMap(e)["root"] \in Values \cup {None}
  <2>1. AuthAt(e) \subseteq Nat /\ AuthAt(e) \subseteq 1..Len(paths)
    BY DEF AuthAt
  <2>2. AuthAt(e) # {} => Min(AuthAt(e)) \in AuthAt(e)
    BY <2>1, MinExists
  <2> QED BY <1>1, <1>2, <2>1, <2>2, QueriesFirst, DefaultPathType
<1> QED BY <1>3, <1>4 DEF RootGiven

LEMMA ServeStep ==
  ASSUME Inv, NEW url \in Targets, Serve(url)
  PROVE  Inv'
<1> DEFINE location == Match(url)
           kind == routes[location]
           root == RootGiven(kind, location)
<1>1. PICK status \in Answers(kind, location, url) :
        served' = [url |-> url, location |-> location, kind |-> kind,
                   root |-> root, status |-> status]
  BY DEF Serve
<1>2. Ready /\ UNCHANGED <<alive, config, read, paths, next, routes>>
  BY DEF Serve
<1>3. url \in Urls /\ location \in Urls /\ location \in DOMAIN routes
  BY <1>2, RoutingAssumption, MatchHasRoute
<1>4. kind \in Kinds \cup {"404"} /\ root \in Values \cup {None}
  BY <1>3, RootGivenType DEF Inv, TypeOK
<1>5. Match(url)' = Match(url)
  BY <1>2 DEF Match
<1>6. RootGiven(kind, location)' = RootGiven(kind, location)
  BY <1>2, <1>5 DEF RootGiven, GetRoot, GetAuthPathMap, FirstPath
<1>7. Matched'
  BY <1>1, <1>2, <1>5, <1>6 DEF Matched, Ready
<1> HIDE DEF location, kind, root
<1>8. status \in {200, 201, 400, 401, 404}
  BY <1>1, <1>4 DEF Answers, EchoAnswers, HealthAnswers, SleepAnswers, StaticAnswers,
       ConsoleAnswers, AuthAnswers, ApiAnswers, NotFoundAnswers, Kinds
<1>9. served' \in Served
  BY <1>1, <1>3, <1>4, <1>8 DEF Served
<1>10. TypeOK'
  BY <1>2, <1>9 DEF Inv, TypeOK
<1>11. Loaded'
  <2>1. next' > 0 => read = Len(config)
    BY <1>2 DEF Inv, Loaded
  <2> QED BY <1>2, <2>1, LoadedKept DEF Inv
<1>12. Installed'
  BY <1>2 DEF Inv, Installed, Seen, Ready
<1> QED BY <1>7, <1>10, <1>11, <1>12 DEF Inv

LEMMA InvStep ==
  ASSUME Inv, [Next]_vars
  PROVE  Inv'
<1>1. CASE UNCHANGED vars
  <2>1. UNCHANGED <<alive, config, read, paths, next, routes, served>>
    BY <1>1 DEF vars
  <2>2. next' > 0 => read = Len(config)
    BY <2>1 DEF Inv, Loaded
  <2>3. Loaded'
    BY <2>1, <2>2, LoadedKept DEF Inv
  <2>4. TypeOK' /\ Installed'
    BY <2>1 DEF Inv, TypeOK, Installed, Seen, Ready
  <2>5. Matched'
    BY <2>1 DEF Inv, Matched, Ready, Match, RootGiven, GetRoot, GetAuthPathMap, FirstPath
  <2> QED BY <2>3, <2>4, <2>5 DEF Inv
<1>3. CASE ReadLacking
  <2>1. UNCHANGED <<config, read, paths, next, routes, served>> /\ alive' = FALSE
    BY <1>3 DEF ReadLacking
  <2>2. next' > 0 => read = Len(config)
    BY <2>1 DEF Inv, Loaded
  <2>3. Loaded'
    BY <2>1, <2>2, LoadedKept DEF Inv
  <2>4. TypeOK' /\ Installed'
    BY <2>1 DEF Inv, TypeOK, Installed, Seen, Ready
  <2>5. Matched'
    BY <2>1 DEF Inv, Matched, Ready, Match, RootGiven, GetRoot, GetAuthPathMap, FirstPath
  <2> QED BY <2>3, <2>4, <2>5 DEF Inv
<1>2. CASE Close
  <2>1. UNCHANGED <<alive, config, read, paths, next, routes>> /\ served' = NotServed
    BY <1>2 DEF Close
  <2>2. NotServed \in Served
    BY EmptySeq DEF NotServed, Served, Urls
  <2>3. next' > 0 => read = Len(config)
    BY <2>1 DEF Inv, Loaded
  <2>4. Loaded'
    BY <2>1, <2>3, LoadedKept DEF Inv
  <2>5. TypeOK' /\ Installed'
    BY <2>1, <2>2 DEF Inv, TypeOK, Installed, Seen, Ready
  <2>6. Matched'
    BY <2>1 DEF Matched
  <2> QED BY <2>4, <2>5, <2>6 DEF Inv
<1> QED BY <1>1, <1>2, <1>3, ReadStep, InstallStep, FallbackStep, ServeStep DEF Next

(* Types, and every route leads to a handler of a known kind, for every    *)
(* configuration and target.                                               *)
THEOREM TypeCorrect == Spec => []TypeOK
<1>1. Inv => TypeOK
  BY DEF Inv
<1> QED BY <1>1, InvInit, InvStep, PTL DEF Spec

-----------------------------------------------------------------------------
(* From the finished table back to the statements.                         *)

(* Once the table is finished every path was seen.                         *)
LEMMA SeenIsAt ==
  ASSUME Inv, Ready, NEW e
  PROVE  Seen(e) = At(e) /\ read = Len(config)
<1>1. Len(paths) \in Nat /\ next = Len(paths) + 1
  BY Elements DEF Inv, Ready
<1>2. \A j \in Int : j \in 1..(Len(paths) + 1) /\ j <= Len(paths) <=> j \in 1..Len(paths)
  BY <1>1
<1> QED BY <1>1, <1>2 DEF Seen, At, Inv, Loaded

(* The first path with an endpoint comes from the first complete statement *)
(* for it, and there is one exactly if there is the other.                 *)
LEMMA FirstPathSource ==
  ASSUME Inv, Ready, NEW e, e # <<>>
  PROVE  /\ At(e) = {} <=> For(e) = {}
         /\ At(e) # {} =>
              /\ Min(At(e)) \in At(e) /\ \A j \in At(e) : Min(At(e)) <= j
              /\ Full(First(e), paths[Min(At(e))])
<1>1. PICK src \in [1..Len(paths) -> 1..Len(config)] : Sourced(src)
  BY SeenIsAt DEF Inv, Loaded
<1>2. \A j \in 1..Len(paths) : config[src[j]] \in Statement /\ src[j] \in Nat
  BY <1>1, Elements DEF Inv
<1>3. ASSUME NEW j \in At(e)
      PROVE  src[j] \in For(e) /\ Full(config[src[j]], paths[j])
  <2>1. j \in 1..Len(paths) /\ paths[j].endpoint = e
    BY DEF At
  <2>2. Adds(config[src[j]], paths[j])
    BY <1>1, <2>1 DEF Sourced
  <2>3. Full(config[src[j]], paths[j])
    BY <1>2, <2>1, <2>2, PathsOfStatement DEF Bare
  <2> QED BY <1>1, <2>1, <2>3 DEF Full, For
<1>4. ASSUME NEW i \in For(e)
      PROVE  \E j \in At(e) : src[j] = i
  <2>1. i \in 1..Len(config) /\ Complete(config[i]) /\ Endpoint(config[i]) = e
    BY DEF For
  <2>2. config[i] \in Statement
    BY <2>1, Elements DEF Inv
  <2>3. PathsOf(config[i]) # <<>>
    BY <2>1, <2>2, PathsOfStatement
  <2>4. read = Len(config)
    BY SeenIsAt
  <2>5. PICK j \in 1..Len(paths) : src[j] = i
    BY <1>1, <2>1, <2>3, <2>4 DEF Sourced
  <2>6. Adds(config[i], paths[j])
    BY <1>1, <2>5 DEF Sourced
  <2>7. ~Bare(config[i], paths[j])
    BY <2>1 DEF Bare, Complete
  <2>8. paths[j].endpoint = e
    BY <2>1, <2>2, <2>6, <2>7, PathsOfStatement DEF Full
  <2> QED BY <2>5, <2>8 DEF At
<1>5. At(e) = {} <=> For(e) = {}
  BY <1>3, <1>4
<1>6. ASSUME At(e) # {}
      PROVE  /\ Min(At(e)) \in At(e) /\ \A j \in At(e) : Min(At(e)) <= j
             /\ Full(First(e), paths[Min(At(e))])
  <2>1. At(e) \subseteq Nat /\ At(e) \subseteq 1..Len(paths) /\ For(e) \subseteq Nat
    BY DEF At, For
  <2>2. PICK m \in At(e) : m = Min(At(e)) /\ \A j \in At(e) : m <= j
    BY <1>6, <2>1, MinExists
  <2>3. PICK i \in For(e) : i = Min(For(e)) /\ \A k \in For(e) : i <= k
    BY <1>5, <1>6, <2>1, MinExists
  <2>4. PICK j \in At(e) : src[j] = i
    BY <1>4
  <2>5. src[m] <= i
    BY <1>1, <2>1, <2>2, <2>4 DEF Sourced
  <2>6. src[m] \in For(e) /\ i <= src[m]
    BY <1>3, <2>3
  <2>7. src[m] = i
    BY <2>1, <2>5, <2>6
  <2> QED BY <1>3, <2>2, <2>3, <2>7 DEF First
<1> QED BY <1>5, <1>6

(* Without an endpoint there are only the paths no assignment was made to, *)
(* and those of auth blocks without settings.                              *)
LEMMA BarePaths ==
  ASSUME Inv, Ready, NEW j \in At(<<>>)
  PROVE  \/ paths[j].type = "echo"
         \/ /\ paths[j].type = "auth"
            /\ \E i \in 1..Len(config) : config[i].handler = "auth" /\ config[i].block = <<>>
<1>1. PICK src \in [1..Len(paths) -> 1..Len(config)] : Sourced(src)
  BY SeenIsAt DEF Inv, Loaded
<1>2. j \in 1..Len(paths) /\ paths[j].endpoint = <<>>
  BY DEF At
<1>3. config[src[j]] \in Statement /\ Adds(config[src[j]], paths[j]) /\ src[j] \in 1..Len(config)
  BY <1>1, <1>2, Elements DEF Inv, Sourced
<1>4. Bare(config[src[j]], paths[j])
  BY <1>2, <1>3, PathsOfStatement DEF Full
<1> QED BY <1>3, <1>4 DEF Bare

(* The route of an endpoint that some path has: the first path's type.     *)
LEMMA RouteOf ==
  ASSUME Inv, Ready, NEW e \in Urls
  PROVE  /\ e \in DOMAIN routes <=> At(e) # {} \/ e = Root
         /\ At(e) # {} => Min(At(e)) \in At(e) /\ routes[e] = paths[Min(At(e))].type
         /\ At(e) = {} /\ e = Root => routes[e] = "404"
<1>1. Seen(e) = At(e)
  BY SeenIsAt
<1>2. At(e) \subseteq Nat
  BY DEF At
<1>3. At(e) # {} => Min(At(e)) \in At(e) /\ \A j \in At(e) : Min(At(e)) <= j
  BY <1>2, MinExists
<1> QED BY <1>1, <1>3 DEF Inv, Installed

-----------------------------------------------------------------------------
(* The request being served.                                               *)

LEMMA ServedFields ==
  ASSUME Inv, served # NotServed
  PROVE  /\ Ready /\ served.url \in Urls /\ served.url # <<>>
         /\ Len(served.url) \in Nat
         /\ served.location \in Urls /\ served.location \in DOMAIN routes
         /\ served.location = Longest(served.url, Len(served.url))
         /\ served.kind = routes[served.location]
         /\ served.root = RootGiven(served.kind, served.location)
         /\ served.status \in Answers(served.kind, served.location, served.url)
<1>1. /\ Ready /\ served.url \in Targets
      /\ served.location = Match(served.url)
      /\ served.kind = routes[served.location]
      /\ served.root = RootGiven(served.kind, served.location)
      /\ served.status \in Answers(served.kind, served.location, served.url)
  BY DEF Inv, Matched
<1>2. served.url \in Urls /\ served.url # <<>>
  BY <1>1, RoutingAssumption
<1>3. Len(served.url) \in Nat
  BY <1>2 DEF Urls
<1> QED BY <1>1, <1>2, <1>3, MatchLongest, MatchHasRoute

(* The longest configured location, if there is one.                       *)
LEMMA LongestConfigured ==
  ASSUME Inv, Ready, NEW url \in Urls, Below(url) # {}
  PROVE  /\ Longest(url, Len(url)) = SubSeq(url, 1, Max(Below(url)))
         /\ For(SubSeq(url, 1, Max(Below(url)))) # {}
         /\ SubSeq(url, 1, Max(Below(url))) \in Urls \ {<<>>}
<1>1. PICK N \in Nat : N = Len(url)
  BY DEF Urls
<1>2. \A n \in 0..N : /\ SubSeq(url, 1, n) \in Urls /\ Len(SubSeq(url, 1, n)) = n
                      /\ n # 0 => SubSeq(url, 1, n) # <<>>
  BY <1>1, PrefixType, EmptySeq
<1>3. Below(url) \subseteq 0..N /\ Hits(url, N) \subseteq 0..N
  BY <1>1 DEF Below, Hits
<1>4. PICK b \in Below(url) : b = Max(Below(url)) /\ \A n \in Below(url) : n <= b
  BY <1>3, MaxExists
<1>5. b \in 1..N /\ b \in 0..N /\ For(SubSeq(url, 1, b)) # {}
  BY <1>1 DEF Below
<1>6. b \in Hits(url, N)
  <2>1. At(SubSeq(url, 1, b)) # {}
    <3>1. b # 0 /\ SubSeq(url, 1, b) # <<>>
      BY <1>2, <1>5
    <3> QED BY <1>5, <3>1, FirstPathSource
  <2> QED BY <1>2, <1>5, <2>1, RouteOf DEF Hits
<1>7. PICK h \in Hits(url, N) : h = Max(Hits(url, N)) /\ \A n \in Hits(url, N) : n <= h
  BY <1>3, <1>6, MaxExists
<1>8. h \in 0..N /\ b <= h /\ h # 0 /\ SubSeq(url, 1, h) \in DOMAIN routes
  BY <1>5, <1>6, <1>7 DEF Hits
<1>9. h = b
  <2>1. CASE At(SubSeq(url, 1, h)) # {}
    <3>1. For(SubSeq(url, 1, h)) # {}
      BY <1>2, <1>8, <2>1, FirstPathSource
    <3>2. h \in Below(url)
      BY <1>1, <1>8, <3>1 DEF Below
    <3> QED BY <1>4, <1>5, <1>8, <3>2
  <2>2. CASE SubSeq(url, 1, h) = Root
    <3>1. Len(Root) = 1
      BY DEF Root
    <3>2. h = 1
      BY <1>2, <1>8, <2>2, <3>1
    <3> QED BY <1>5, <1>8, <3>2
  <2> QED BY <1>2, <1>8, <2>1, <2>2, RouteOf
<1> QED BY <1>1, <1>2, <1>4, <1>5, <1>6, <1>7, <1>9 DEF Longest

(* session::match, emplace and the trimming in get_paths agree: a target   *)
(* below a configured location is served by the longest one, with the      *)
(* handler of the first statement for it, whatever else the file has.      *)
THEOREM LongestServes == Spec => []LongestLocationServes
<1>1. ASSUME Inv, served # NotServed, Below(served.url) # {}
      PROVE  /\ served.location = SubSeq(served.url, 1, Max(Below(served.url)))
             /\ served.kind = First(served.location).handler
  <2>1. /\ Ready /\ served.location \in Urls /\ served.location # <<>>
        /\ For(served.location) # {}
        /\ served.location = SubSeq(served.url, 1, Max(Below(served.url)))
        /\ served.kind = routes[served.location]
    BY <1>1, ServedFields, LongestConfigured
  <2>2. At(served.location) # {}
    BY <1>1, <2>1, FirstPathSource
  <2>3. routes[served.location] = paths[Min(At(served.location))].type
    BY <1>1, <2>1, <2>2, RouteOf
  <2>4. Full(First(served.location), paths[Min(At(served.location))])
    BY <1>1, <2>1, <2>2, FirstPathSource
  <2> QED BY <2>1, <2>3, <2>4 DEF Full
<1>2. Inv => LongestLocationServes
  BY <1>1 DEF LongestLocationServes
<1> QED BY <1>2, InvInit, InvStep, PTL DEF Spec

(* A target below no location is answered 404, unless "/" is configured or *)
(* an auth block has no settings: whichever of the 404 handler and the     *)
(* echo handler at the empty endpoint gets it.                             *)
THEOREM UnmatchedServes == Spec => []UnmatchedNotFound
<1>1. ASSUME Inv, served # NotServed, Below(served.url) = {}, For(Root) = {},
             ~\E i \in 1..Len(config) : config[i].handler = "auth" /\ config[i].block = <<>>
      PROVE  served.status = 404
  <2> DEFINE L == served.location
             url == served.url
  <2>1. /\ Ready /\ url \in Urls /\ url # <<>> /\ Len(url) \in Nat
        /\ L \in Urls /\ L \in DOMAIN routes /\ L = Longest(url, Len(url))
        /\ served.kind = routes[L]
        /\ served.status \in Answers(served.kind, L, url)
    BY <1>1, ServedFields
  <2>2. CASE L = Root /\ At(L) = {}
    <3>1. served.kind = "404"
      BY <1>1, <2>1, <2>2, RouteOf
    <3> QED BY <2>1, <3>1 DEF Answers, NotFoundAnswers
  <2>3. CASE At(L) # {}
    <3>1. L = <<>>
      <4>1. Root # <<>>
        BY DEF Root
      <4>2. At(Root) = {}
        BY <1>1, <2>1, <4>1, FirstPathSource
      <4>3. Hits(url, Len(url)) # {}
        BY <2>1, <2>3, <4>2 DEF Longest
      <4>4. Hits(url, Len(url)) \subseteq 0..Len(url)
        BY DEF Hits
      <4>5. PICK h \in 0..Len(url) : L = SubSeq(url, 1, h)
        BY <2>1, <4>3, <4>4, MaxExists DEF Longest
      <4>6. CASE h = 0
        BY <4>5, <4>6, SubSeqEmpty
      <4>7. CASE h # 0
        <5>1. h \in 1..Len(url) /\ h \notin Below(url)
          BY <1>1, <2>1, <4>7
        <5>2. For(L) = {}
          BY <4>5, <5>1 DEF Below
        <5> QED BY <1>1, <2>1, <2>3, <5>2, FirstPathSource
      <4> QED BY <4>6, <4>7
    <3>2. PICK j \in At(<<>>) : routes[L] = paths[j].type
      BY <1>1, <2>1, <2>3, <3>1, RouteOf
    <3>3. served.kind = "echo"
      BY <1>1, <2>1, <3>2, BarePaths
    <3>4. L # Trim(url)
      BY <2>1, <3>1, TrimType
    <3>5. Answers("echo", L, url) = {404}
      BY <3>4 DEF Answers, EchoAnswers
    <3> QED BY <2>1, <3>3, <3>5
  <2> QED BY <1>1, <2>1, <2>2, <2>3, RouteOf
<1>2. Inv => UnmatchedNotFound
  BY <1>1 DEF UnmatchedNotFound
<1> QED BY <1>2, InvInit, InvStep, PTL DEF Spec

(* get_root looks at the endpoint alone and still gives a static or API    *)
(* handler the root of the statement that its route comes from.            *)
THEOREM RootsOwn == Spec => []OwnRoot
<1>1. ASSUME Inv, served.kind \in {"static", "api"}
      PROVE  served.root = Setting(First(served.location).block, "root")
  <2> DEFINE L == served.location
  <2>1. served # NotServed
    BY <1>1 DEF NotServed
  <2>2. /\ Ready /\ L \in Urls /\ L \in DOMAIN routes
        /\ served.kind = routes[L] /\ served.root = RootGiven(served.kind, L)
    BY <1>1, <2>1, ServedFields
  <2>3. At(L) # {}
    BY <1>1, <2>2, RouteOf
  <2>4. Min(At(L)) \in At(L) /\ routes[L] = paths[Min(At(L))].type
    BY <1>1, <2>2, <2>3, RouteOf
  <2>5. L # <<>>
    BY <1>1, <2>2, <2>4, BarePaths
  <2>6. Full(First(L), paths[Min(At(L))])
    BY <1>1, <2>2, <2>3, <2>5, FirstPathSource
  <2>7. served.root = paths[Min(At(L))].root
    BY <1>1, <2>2, <2>3, QueriesFirst DEF RootGiven
  <2> QED BY <1>1, <2>2, <2>4, <2>6, <2>7 DEF Full
<1>2. Inv => OwnRoot
  BY <1>1 DEF OwnRoot
<1> QED BY <1>2, InvInit, InvStep, PTL DEF Spec
=============================================================================
