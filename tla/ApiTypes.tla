------------------------------ MODULE ApiTypes ------------------------------
(***************************************************************************)
(* The requests and responses of the CRUD API, shared by the handler's     *)
(* model (ApiHandler) and by the specification of what it promises         *)
(* (KvStore).                                                              *)
(***************************************************************************)
EXTENDS Integers, Sequences

CONSTANTS
  Entities,   \* entity names, the directories under the API root
  MaxId,      \* bound: the largest id a run may hand out
  Bodies,     \* request bodies
  Empty,      \* the content of a file that was opened and not written yet
  Torn,       \* the content of a file that two streams wrote over each other
  Absent      \* "no such file", also "no body" in a response

ASSUME TypesAssumption ==
  /\ MaxId \in Nat \ {0}
  /\ Empty \notin Bodies
  /\ Torn \notin Bodies \cup {Empty}
  /\ Absent \notin Bodies \cup {Empty, Torn}

Ids == 1..MaxId

(***************************************************************************)
(* The content of a file: a complete body; nothing, between the truncating *)
(* open and the write of an std::ofstream; or the overlay of two bodies    *)
(* that were written through two streams.                                  *)
(***************************************************************************)
Contents == Bodies \cup {Empty, Torn}

(***************************************************************************)
(* A request as handle_request tells them apart.  `target` says what       *)
(* follows "/api/":                                                        *)
(*   "root"    nothing, or the target does not start with "/api/"          *)
(*   "entity"  a name without "/"                                          *)
(*   "item"    entity/id with a decimal id                                 *)
(*   "alias"   another spelling of the path of entity/id, like e//id or    *)
(*             f/../e/id: the file system finds the same file, path_counts *)
(*             has no such key                                             *)
(*   "stray"   a path with "/" that is neither (a directory, a name that   *)
(*             is not a number, a path nothing is at)                      *)
(* `logged` is profile_.login_status, taken from the session's cookie.     *)
(***************************************************************************)
Request ==
  [method : {"post", "get", "put", "delete", "other"},
   target : {"root", "entity", "item", "alias", "stray"},
   e : Entities, id : Ids, body : Bodies, logged : BOOLEAN]

(***************************************************************************)
(* A response: the status, the id a 201 names, the body of a GET or PUT,   *)
(* and the id list of a LIST.  `open` tells whether the text of a LIST     *)
(* has its opening bracket.                                                *)
(***************************************************************************)
Response ==
  [code : {200, 201, 400}, id : Ids \cup {0}, body : Contents \cup {Absent},
   list : Seq(Ids), open : BOOLEAN]

Reply(c, i, b, s, o) ==
  [code |-> c, id |-> i, body |-> b, list |-> s, open |-> o]

BadRequest == Reply(400, 0, Absent, <<>>, FALSE)
Created(i) == Reply(201, i, Absent, <<>>, FALSE)
Deleted    == Reply(200, 0, Absent, <<>>, FALSE)
Found(b)   == Reply(200, 0, b, <<>>, FALSE)
Listing(s, bracket) == Reply(200, 0, Absent, s, bracket)

(* directory.find("/") != -1                                               *)
HasSlash(r) == r.target \in {"item", "alias", "stray"}

(* Mutant of IsPut: the login is not checked.                              *)
IsPutOfAnyone(r) == r.method = "put" /\ HasSlash(r)

(* Mutant of IsDelete: the login is not checked.                           *)
IsDeleteOfAnyone(r) == r.method = "delete" /\ HasSlash(r)

(***************************************************************************)
(* The checks of handle_request's switch: which requests reach a handler.  *)
(***************************************************************************)
IsPost(r)   == r.method = "post" /\ r.target = "entity" /\ r.logged
IsGet(r)    == r.method = "get" /\ HasSlash(r)
IsList(r)   == r.method = "get" /\ r.target = "entity"
IsPut(r)    == r.method = "put" /\ HasSlash(r) /\ r.logged
IsDelete(r) == r.method = "delete" /\ HasSlash(r) /\ r.logged
IsRefused(r) ==
  ~(IsPost(r) \/ IsGet(r) \/ IsList(r) \/ IsPut(r) \/ IsDelete(r))
=============================================================================
