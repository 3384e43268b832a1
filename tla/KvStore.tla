------------------------------- MODULE KvStore -------------------------------
(***************************************************************************)
(* What the CRUD API promises its clients: every entity is a map from ids  *)
(* to bodies, and every request takes effect at one instant, between its   *)
(* arrival and its answer.                                                 *)
(***************************************************************************)
EXTENDS ApiTypes, FiniteSets

CONSTANTS
  Clients,    \* whoever has a request in progress (a thread of the server)
  NoRequest,  \* op[c] when c has none
  NoResponse  \* resp[c] when the request has not taken effect yet

VARIABLES
  store,      \* store[e][i]: the body stored for entity e and id i, or Absent
  op,         \* the request c is waiting for
  resp        \* the answer that is decided for it

vars == <<store, op, resp>>

Stored(e) == {i \in Ids : store[e][i] # Absent}

Init ==
  /\ store = [e \in Entities |-> [i \in Ids |-> Absent]]
  /\ op = [c \in Clients |-> NoRequest]
  /\ resp = [c \in Clients |-> NoResponse]

Submit(c, r) ==
  /\ op[c] = NoRequest
  /\ op' = [op EXCEPT ![c] = r]
  /\ UNCHANGED <<store, resp>>

Pending(c) == op[c] # NoRequest /\ resp[c] = NoResponse

Decide(c, answer) == resp' = [resp EXCEPT ![c] = answer] /\ op' = op

(* A POST stores its body under an id nothing is stored under.             *)
Post(c) ==
  /\ Pending(c) /\ IsPost(op[c])
  /\ \E i \in Ids \ Stored(op[c].e) :
       /\ store' = [store EXCEPT ![op[c].e][i] = op[c].body]
       /\ Decide(c, Created(i))

OnItem(r) == r.target = "item" /\ store[r.e][r.id] # Absent

(* A PUT also takes another spelling of an item's path.                    *)
OnStored(r) == r.target \in {"item", "alias"} /\ store[r.e][r.id] # Absent

Get(c) ==
  /\ Pending(c) /\ IsGet(op[c]) /\ OnItem(op[c])
  /\ Decide(c, Found(store[op[c].e][op[c].id]))
  /\ store' = store

Put(c) ==
  /\ Pending(c) /\ IsPut(op[c]) /\ OnStored(op[c])
  /\ store' = [store EXCEPT ![op[c].e][op[c].id] = op[c].body]
  /\ Decide(c, Found(op[c].body))

Delete(c) ==
  /\ Pending(c) /\ IsDelete(op[c]) /\ OnItem(op[c])
  /\ store' = [store EXCEPT ![op[c].e][op[c].id] = Absent]
  /\ Decide(c, Deleted)

(* A LIST names every stored id, each of them once, in some order.         *)
List(c) ==
  /\ Pending(c) /\ IsList(op[c])
  /\ \E bracket \in BOOLEAN :
     \E s \in {f \in [1..Cardinality(Stored(op[c].e)) -> Ids] :
                 {f[k] : k \in DOMAIN f} = Stored(op[c].e)} :
       Decide(c, Listing(s, bracket))
  /\ store' = store

(* A request is refused only for a reason: it is malformed or not allowed, *)
(* the item is not there, the entity has nothing to list.                  *)
Reject(c) ==
  /\ Pending(c)
  /\ \/ IsRefused(op[c])
     \/ IsList(op[c]) /\ Stored(op[c].e) = {}
     \/ (IsGet(op[c]) \/ IsDelete(op[c])) /\ ~OnItem(op[c])
     \/ IsPut(op[c]) /\ ~OnStored(op[c])
  /\ Decide(c, BadRequest)
  /\ store' = store

Answer(c) ==
  /\ resp[c] # NoResponse
  /\ op' = [op EXCEPT ![c] = NoRequest]
  /\ resp' = [resp EXCEPT ![c] = NoResponse]
  /\ store' = store

Next ==
  \E c \in Clients :
    \/ \E r \in Request : Submit(c, r)
    \/ Post(c) \/ Get(c) \/ Put(c) \/ Delete(c) \/ List(c) \/ Reject(c)
    \/ Answer(c)

Spec == Init /\ [][Next]_vars
=============================================================================
