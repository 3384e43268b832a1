---------------------------- MODULE ApiProperties ----------------------------
(***************************************************************************)
(* What is asked of the CRUD API (ApiHandler): the index path_counts       *)
(* against the files, the ids POST hands out, who may change the storage,  *)
(* and the promise KvStore makes to a client.                              *)
(***************************************************************************)
EXTENDS ApiHandler

CONSTANT NoResponse

ASSUME PropertiesAssumption == NoResponse \notin Response

(* The variables stay in their types: in particular every listed id is an  *)
(* id getNextID may hand out and every answer is one the handlers build.   *)
TypeOK ==
  /\ alive \in BOOLEAN
  /\ restarts \in 0..MaxRestarts
  /\ dirs \subseteq Entities
  /\ files \in [Entities -> [Ids -> Contents \cup {Absent}]]
  /\ keys \subseteq Entities
  /\ path_counts \in [Entities -> Seq(Ids)]
  /\ pc \in [Threads -> Labels]
  /\ req \in [Threads -> Workload \cup {NoRequest}]
  /\ dirsTodo \in [Threads -> SUBSET Entities]
  /\ dir \in [Threads -> Entities \cup {Absent}]
  /\ todo \in [Threads -> SUBSET Ids]
  /\ id \in [Threads -> Ids \cup {0}]
  /\ ids \in [Threads -> Seq(Ids)]
  /\ linked \in [Threads -> BOOLEAN]
  /\ res \in [Threads -> Response]
  /\ solo \in [Threads -> BOOLEAN]

-----------------------------------------------------------------------------
(* The ids a POST takes.                                                   *)

(* The file a POST is about to create is not there yet, and no other POST  *)
(* is about to create or fill it: `std::ofstream file(file_path)` in       *)
(* handle_post never truncates an item that is stored.                     *)
PostIdAvailable ==
  \A t \in Threads : pc[t] = "post_open" =>
    /\ files[req[t].e][id[t]] = Absent
    /\ \A u \in Threads \ {t} :
         ~(/\ pc[u] \in {"post_open", "post_fill"}
           /\ req[u].e = req[t].e /\ id[u] = id[t])

(* The same until the process is started again: in a run that began with   *)
(* an empty storage, getNextID finds a free id in whatever order POSTs and *)
(* DELETEs came and whatever opens and removals failed.                    *)
PostIdFresh == restarts = 0 => PostIdAvailable

-----------------------------------------------------------------------------
(* The index.                                                              *)

(* Every list is in the order (IdList!InOrder) in which behind the first   *)
(* run the next number is free: what getNextID hands out as available.     *)
IndexInOrder == \A e \in Entities : InOrder(path_counts[e])

(* In a run that began with an empty storage the lists stay in this order: *)
(* getNextID's insertions and the erasures of DELETE keep it.              *)
IndexOrdered == restarts = 0 => IndexInOrder

(* When a request reaches handle_request, the constructor has listed       *)
(* exactly the ids of the files, each once.                                *)
IndexExact ==
  \A t \in Threads : Ready(t) =>
    \A e \in Entities :
      /\ Indexed(e) = FileIds(e)
      /\ IsInjective(path_counts[e])

(* When a request reaches handle_request, no stored file is missing from   *)
(* the index, whatever crash or failed write went before: GET and LIST     *)
(* reach every file that survived.                                         *)
IndexRecovered ==
  \A t \in Threads : Ready(t) =>
    \A e \in Entities : FileIds(e) \subseteq Indexed(e)

(* The same with several threads, for a request that was alone since it    *)
(* came in: what racing constructors and POSTs have overwritten in         *)
(* path_counts, one undisturbed constructor puts right.                    *)
SoloScanRecovers ==
  \A t \in Threads : Ready(t) /\ solo[t] =>
    \A e \in Entities : FileIds(e) \subseteq Indexed(e)

-----------------------------------------------------------------------------
(* Failure, authorisation and answers.                                     *)

(* t serves a logged-in user and its request names file i of entity e: a   *)
(* POST to e that was given i, a PUT of the item under any spelling, a     *)
(* DELETE of the item under its own.                                       *)
Names(t, e, i) ==
  LET r == req[t]
  IN  /\ r.logged /\ r.e = e
      /\ \/ r.method = "post" /\ r.target = "entity" /\ id[t] = i
         \/ r.method = "put" /\ r.target \in {"item", "alias"} /\ r.id = i
         \/ r.method = "delete" /\ r.target = "item" /\ r.id = i

(* A file changes only in a step of a thread whose request names it and    *)
(* whose user is logged in, whatever the other threads have done to files  *)
(* and path_counts between its checks and this step; directories are only  *)
(* made, by the POST to them; a restart changes nothing.                   *)
AuthorisedStep ==
  /\ \A e \in Entities, i \in Ids :
       files'[e][i] # files[e][i] =>
         \E t \in Threads : pc'[t] # pc[t] /\ Names(t, e, i)
  /\ dirs \subseteq dirs'
  /\ \A e \in dirs' \ dirs :
       \E t \in Threads :
         /\ pc'[t] # pc[t]
         /\ req[t].method = "post" /\ req[t].logged /\ req[t].e = e

AuthorisedWrites == [][AuthorisedStep]_vars

(* The answer to a request that was accepted gets decided, unless the      *)
(* process dies: no thread waits for another, and the walk of every        *)
(* constructor ends though other threads add and remove files under it.    *)
(* Whether the answer reaches the client is the client's affair too.       *)
EveryRequestDecided ==
  \A t \in Threads :
    pc[t] # "idle" ~> (pc[t] \in {"respond", "idle"} \/ ~alive)

-----------------------------------------------------------------------------
(* KvStore.  A POST takes effect when its body is written, a PUT when it   *)
(* truncates the file, a DELETE when it removes it, every other request    *)
(* when its answer is decided.                                             *)

StoreView ==
  [e \in Entities |-> [i \in Ids |->
    LET Filling(label) ==
          {t \in Threads : pc[t] = label /\ HasOpen(t, e, i)}
    IN  IF Filling("put_fill") # {}
        THEN req[CHOOSE t \in Filling("put_fill") : TRUE].body
        ELSE IF Filling("post_fill") # {} THEN Absent ELSE files[e][i]]]

RespView ==
  [t \in Threads |->
    CASE pc[t] = "respond" -> res[t]
      [] pc[t] = "put_fill" -> Found(req[t].body)
      [] pc[t] = "del_erase" -> Deleted
      [] OTHER -> NoResponse]

KV == INSTANCE KvStore
        WITH Clients <- Threads, store <- StoreView, op <- req, resp <- RespView

(* Served one at a time from an empty storage, the API implements KvStore: *)
(* every item read, listed or refused agrees with the requests before it.  *)
ImplementsKvStore == KV!Spec
=============================================================================
