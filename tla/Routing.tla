------------------------------ MODULE Routing ------------------------------
(***************************************************************************)
(* From the configuration to the handler of a request: NginxConfig's       *)
(* get_paths turns `location` statements into paths, server::init_server   *)
(* turns paths into routes, session::match picks the route of a target,    *)
(* and the route's factory builds a handler from the configuration.        *)
(*                                                                         *)
(* A name in a URL is a sequence of segments, each standing for "/" and    *)
(* what follows: "/a/b" is <<a, b>>, "/a/" is <<a, NoName>>, "/" is        *)
(* <<NoName>> and the empty string is <<>>.                                *)
(***************************************************************************)
EXTENDS Integers, Sequences, SequencesExt

CONSTANTS
  Names,    \* segments that are not empty
  NoName,   \* the empty segment
  Values,   \* what a setting may be given: directories
  None,     \* the empty string a setting has that was not given
  Configs,  \* the configurations: sequences of location statements
  Targets   \* the request targets

Kinds == {"static", "echo", "api", "health", "sleep", "auth", "console"}

(* The settings that are told apart: "root", and "data_path" for every     *)
(* other two-token statement of a block.                                   *)
Keys == {"root", "data_path"}

Urls == Seq(Names \cup {NoName})

(* The handlers for which get_paths reads the statements of the block.     *)
ReadsBlock == {"static", "api", "auth", "console"}

(* `location <url> <handler> { <key> <value>; ... }`; the URL is a token,  *)
(* never empty, and "other" is a handler name that get_paths does not      *)
(* know.  The parser accepts statements that are not of this form:         *)
(*   "token"  a token get_paths reads is not there, the handler's name or  *)
(*            the value of a `root`, and the field for it is what the      *)
(*            memory behind the vector holds;                              *)
(*   "block"  there is no block where get_paths reads one.                 *)
Statement ==
  {s \in [handler : Kinds \cup {"other"}, url : Urls \ {<<>>},
          block : Seq([key : Keys, value : Values]),
          lacks : {"nothing", "token", "block"}] :
     s.lacks = "block" => s.handler \in ReadsBlock /\ s.block = <<>>}

ASSUME RoutingAssumption ==
  /\ NoName \notin Names /\ None \notin Values
  /\ Configs \subseteq Seq(Statement)
  /\ Targets \subseteq Urls \ {<<>>}

VARIABLES
  alive,   \* the process runs
  config,  \* NginxConfig::statements_
  read,    \* the number of statements get_paths has looked at
  paths,   \* NginxConfig::paths
  next,    \* the number of paths init_server has looked at
  routes,  \* server::routes_: a function from endpoints to handler kinds
  served   \* the request being served: its target, route, handler and answer

vars == <<alive, config, read, paths, next, routes, served>>

Root == <<NoName>>
NoSettings == [k \in Keys |-> None]

(* substr(0, find_last_not_of('/') + 1), unless there are only slashes.    *)
Trim(url) ==
  LET named == {i \in 1..Len(url) : url[i] # NoName}
  IN  IF named = {} THEN url ELSE SubSeq(url, 1, Max(named))

-----------------------------------------------------------------------------
(* get_paths: what one statement adds.                                     *)

(* A `path` no assignment was made to.                                     *)
DefaultPath ==
  [type |-> "echo", endpoint |-> <<>>, root |-> None, map |-> NoSettings]

(* The last value a block gives to a key, as the assignments of the loop   *)
(* over its statements leave it.                                           *)
Setting(block, k) ==
  LET given == {i \in 1..Len(block) : block[i].key = k}
  IN  IF given = {} THEN None ELSE block[Max(given)].value

(* Mutant of RootedPath: the type is set, with or without a root.          *)
RootedPathTyped(s) ==
  [DefaultPath EXCEPT
     !.type = s.handler,
     !.endpoint = IF Setting(s.block, "root") = None THEN @ ELSE Trim(s.url),
     !.root = Setting(s.block, "root")]

(* static and api: type and endpoint are only set along with a root.       *)
RootedPath(s) ==
  IF Setting(s.block, "root") = None THEN DefaultPath
  ELSE [DefaultPath EXCEPT !.type = s.handler, !.endpoint = Trim(s.url),
                           !.root = Setting(s.block, "root")]

PlainPath(s) ==
  [DefaultPath EXCEPT !.type = s.handler, !.endpoint = Trim(s.url)]

AuthPath(s) ==
  IF s.block = <<>> THEN [DefaultPath EXCEPT !.type = "auth"]
  ELSE [type |-> "auth", endpoint |-> Trim(s.url),
        root |-> Setting(s.block, "root"),
        map |-> [k \in Keys |-> Setting(s.block, k)]]

(* One path for every statement of the block; the URL is not trimmed.      *)
ConsolePath(s, b) ==
  [type |-> "console", endpoint |-> s.url,
   root |-> IF b.key = "root" THEN b.value ELSE None,
   map |-> [NoSettings EXCEPT ![b.key] = b.value]]

(* Mutant of PathsOf: an unknown handler makes a path too.                 *)
PathsOfUnknown(s) ==
  CASE s.handler \in {"static", "api"} -> <<RootedPath(s)>>
    [] s.handler = "auth" -> <<AuthPath(s)>>
    [] s.handler = "console" ->
         [i \in 1..Len(s.block) |-> ConsolePath(s, s.block[i])]
    [] OTHER -> <<PlainPath(s)>>

PathsOf(s) ==
  CASE s.handler \in {"static", "api"} -> <<RootedPath(s)>>
    [] s.handler \in {"echo", "health", "sleep"} -> <<PlainPath(s)>>
    [] s.handler = "auth" -> <<AuthPath(s)>>
    [] s.handler = "console" ->
         [i \in 1..Len(s.block) |-> ConsolePath(s, s.block[i])]
    [] OTHER -> <<>>

-----------------------------------------------------------------------------
(* The queries of the factories.                                           *)

(* The first path for which the test holds, or DefaultPath.                *)
FirstPath(Test(_)) ==
  LET hits == {i \in 1..Len(paths) : Test(paths[i])}
  IN  IF hits = {} THEN DefaultPath ELSE paths[Min(hits)]

(* Mutant of GetRoot: the loop goes on to the last path of the location.   *)
GetRootLast(location) ==
  LET hits == {i \in 1..Len(paths) : paths[i].endpoint = location}
  IN  IF hits = {} THEN None ELSE paths[Max(hits)].root

(* (type != static_ || type != api) is always true.                        *)
GetRoot(location) == FirstPath(LAMBDA p : p.endpoint = location).root

(* endpoint != location && type != auth: any auth path will do, though the *)
(* function is asked for the location's own.                               *)
GetAuthPathMap(location) ==
  FirstPath(LAMBDA p : p.endpoint = location \/ p.type = "auth").map

(* factory->create: the directory a handler works in.                      *)
RootGiven(kind, location) ==
  CASE kind \in {"static", "api"} -> GetRoot(location)
    [] kind \in {"auth", "console"} -> GetAuthPathMap(location)["root"]
    [] OTHER -> None

-----------------------------------------------------------------------------
(* Mutant of Match: the shortest location is taken.                        *)
MatchShortest(url) ==
  LET hits == {n \in 0..Len(url) : SubSeq(url, 1, n) \in DOMAIN routes}
  IN  IF hits = {} THEN Root ELSE SubSeq(url, 1, Min(hits))

(* session::match: the target, then what is left of it before each "/".    *)
Match(url) ==
  LET Found[n \in 0..Len(url)] ==
        IF SubSeq(url, 1, n) \in DOMAIN routes THEN SubSeq(url, 1, n)
        ELSE IF n = 0 THEN Root ELSE Found[n - 1]
  IN  Found[Len(url)]

(* handle_request of the handlers: the statuses they may answer with, as   *)
(* far as the target decides them.  Echo and health know no sub-path, and  *)
(* a static file may be missing.                                           *)
EchoAnswers(location, url) == IF location = Trim(url) THEN {200} ELSE {404}
HealthAnswers(location, url) == IF location = Trim(url) THEN {200} ELSE {404}
SleepAnswers == {200}
StaticAnswers == {200, 404}
ConsoleAnswers == {200, 401}
AuthAnswers == {200, 400, 404}
ApiAnswers == {200, 201, 400}
NotFoundAnswers == {404}

Answers(kind, location, url) ==
  CASE kind = "echo" -> EchoAnswers(location, url)
    [] kind = "health" -> HealthAnswers(location, url)
    [] kind = "sleep" -> SleepAnswers
    [] kind = "static" -> StaticAnswers
    [] kind = "console" -> ConsoleAnswers
    [] kind = "auth" -> AuthAnswers
    [] kind = "api" -> ApiAnswers
    [] kind = "404" -> NotFoundAnswers

Served ==
  [url : Urls, location : Urls, kind : Kinds \cup {"404"},
   root : Values \cup {None}, status : {200, 201, 400, 401, 404}]

NotServed ==
  [url |-> <<>>, location |-> <<>>, kind |-> "404", root |-> None, status |-> 404]

Init ==
  /\ alive = TRUE
  /\ config \in Configs
  /\ read = 0
  /\ paths = <<>>
  /\ next = 0
  /\ routes = <<>>
  /\ served = NotServed

(* One turn of get_paths' loop; nothing checks the number of tokens, so a  *)
(* token that is not there may be read like any other.                     *)
ReadStatement ==
  /\ alive /\ read < Len(config) /\ config[read + 1].lacks # "block"
  /\ read' = read + 1
  /\ paths' = paths \o PathsOf(config[read + 1])
  /\ UNCHANGED <<alive, config, next, routes, served>>

(* A null child_block_ ends the process, and so may what is behind the     *)
(* tokens: the server does not start.                                      *)
ReadLacking ==
  /\ alive /\ read < Len(config) /\ config[read + 1].lacks # "nothing"
  /\ alive' = FALSE
  /\ UNCHANGED <<config, read, paths, next, routes, served>>

(* emplace: a key that is there keeps its factory.                         *)
Emplace(endpoint, kind) ==
  routes' = [e \in DOMAIN routes \cup {endpoint} |->
              IF e \in DOMAIN routes THEN routes[e] ELSE kind]

(* One turn of init_server's loop over the paths, and after the last of    *)
(* them the route of the 404 handler.                                      *)
Install ==
  /\ read = Len(config) /\ next < Len(paths)
  /\ next' = next + 1
  /\ Emplace(paths[next + 1].endpoint, paths[next + 1].type)
  /\ UNCHANGED <<alive, config, read, paths, served>>

InstallFallback ==
  /\ read = Len(config) /\ next = Len(paths)
  /\ next' = next + 1
  /\ Emplace(Root, "404")
  /\ UNCHANGED <<alive, config, read, paths, served>>

Ready == next = Len(paths) + 1

(* handle_read: match, routes_[location], create, handle_request.          *)
Serve(url) ==
  /\ Ready /\ served = NotServed
  /\ LET location == Match(url)
         kind == routes[location]
     IN  \E status \in Answers(kind, location, url) :
           served' = [url |-> url, location |-> location, kind |-> kind,
                      root |-> RootGiven(kind, location), status |-> status]
  /\ UNCHANGED <<alive, config, read, paths, next, routes>>

(* handle_write: the connection is shut down; the next one is served anew. *)
Close ==
  /\ served # NotServed
  /\ served' = NotServed
  /\ UNCHANGED <<alive, config, read, paths, next, routes>>

Next ==
  \/ ReadStatement \/ ReadLacking \/ Install \/ InstallFallback
  \/ (\E url \in Targets : Serve(url))
  \/ Close

Spec == Init /\ [][Next]_vars

-----------------------------------------------------------------------------
(* What the configuration asks for, read off its statements.               *)

(* A statement with the settings its handler needs.                        *)
Complete(s) ==
  /\ s.handler \in Kinds
  /\ s.handler \in {"static", "api"} => Setting(s.block, "root") # None
  /\ s.handler \in {"auth", "console"} => s.block # <<>>

Endpoint(s) == IF s.handler = "console" THEN s.url ELSE Trim(s.url)

(* The statements that configure an endpoint; the first one counts.        *)
For(e) == {i \in 1..Len(config) : Complete(config[i]) /\ Endpoint(config[i]) = e}
First(e) == config[Min(For(e))]

(* The lengths of the configured endpoints the target lies below.          *)
Below(url) == {n \in 1..Len(url) : For(SubSeq(url, 1, n)) # {}}

(* Types; in particular a route leads to a handler of a known kind.        *)
TypeOK ==
  /\ alive \in BOOLEAN
  /\ config \in Configs
  /\ read \in 0..Len(config)
  /\ paths \in Seq([type : Kinds, endpoint : Urls, root : Values \cup {None},
                    map : [Keys -> Values \cup {None}]])
  /\ next \in 0..(Len(paths) + 1)
  /\ DOMAIN routes \subseteq Urls
  /\ \A e \in DOMAIN routes : routes[e] \in Kinds \cup {"404"}
  /\ served \in Served

(* A target below a configured location goes to the longest one, and to    *)
(* the handler the first statement for it names, whatever incomplete,      *)
(* repeated or unknown statements the file has as well: match, emplace and *)
(* the trimming in get_paths agree.                                        *)
LongestLocationServes ==
  served # NotServed /\ Below(served.url) # {} =>
    /\ served.location = SubSeq(served.url, 1, Max(Below(served.url)))
    /\ served.kind = First(served.location).handler

(* A target below no location is answered 404, by the 404 handler or by    *)
(* the echo handler that an incomplete static or api statement leaves at   *)
(* the empty endpoint; a location "/" and an auth block without settings   *)
(* are the exceptions.                                                     *)
UnmatchedNotFound ==
  /\ served # NotServed /\ Below(served.url) = {} /\ For(Root) = {}
  /\ ~\E i \in 1..Len(config) :
        config[i].handler = "auth" /\ config[i].block = <<>>
  => served.status = 404

(* A static or API handler works in the root of the statement that its     *)
(* route comes from, though get_root looks at the endpoint alone.          *)
OwnRoot ==
  served.kind \in {"static", "api"} =>
    served.root = Setting(First(served.location).block, "root")
=============================================================================
