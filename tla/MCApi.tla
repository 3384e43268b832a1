-------------------------------- MODULE MCApi --------------------------------
(* Workloads of the CRUD API for TLC: sets of requests.                    *)
EXTENDS ApiProperties

CONSTANTS e1, e2, b1, b2

(* Requests on the item (e, i), and on the entity e, by a logged-in user.  *)
OnItem(method, e, i, b) ==
  [method |-> method, target |-> "item", e |-> e, id |-> i, body |-> b,
   logged |-> TRUE]
OnEntity(method, e) ==
  [method |-> method, target |-> "entity", e |-> e, id |-> 1, body |-> b1,
   logged |-> TRUE]

(* Every combination of method, target and login handle_request sees.      *)
EveryShape ==
  [method : {"post", "put", "delete", "get", "other"},
   target : {"root", "entity", "item", "alias", "stray"}, e : {e1}, id : {1},
   body : {b1}, logged : BOOLEAN]

(* All requests on e1, with a PUT that changes the body; e2 is filled,     *)
(* listed and emptied.                                                     *)
SerialWorkload ==
  EveryShape
  \cup {OnItem(m, e1, i, b1) : m \in {"get", "delete"}, i \in Ids}
  \cup {OnItem("put", e1, i, b2) : i \in Ids}
  \cup {OnEntity("post", e2), OnEntity("get", e2), OnItem("delete", e2, 1, b1)}

(* One entity is filled and emptied; every path of getNextID is taken.     *)
FillAndEmpty ==
  {OnEntity("post", e1)} \cup {OnItem("delete", e1, i, b1) : i \in Ids}

(* Filled, changed and emptied, for crashes and failing writes.            *)
StorageWorkload ==
  FillAndEmpty \cup {OnItem("put", e1, i, b1) : i \in Ids}

(* Two entities are filled, one of them is emptied, and its item is        *)
(* written under another spelling, by a user and by a visitor.             *)
RaceWorkload ==
  {OnEntity("post", e1), OnEntity("post", e2), OnItem("delete", e1, 1, b1)}
  \cup {[OnItem("put", e1, 1, b1) EXCEPT !.target = "alias", !.logged = l] :
          l \in BOOLEAN}
==============================================================================
