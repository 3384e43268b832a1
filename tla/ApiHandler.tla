----------------------------- MODULE ApiHandler -----------------------------
(***************************************************************************)
(* The CRUD API of the server: request_api_handler.cc, run by a pool of    *)
(* threads (server_main.cc) that share one path_counts map without a lock. *)
(*                                                                         *)
(* Every request builds a new request_api_handler.  Its constructor walks  *)
(* the storage directory and enters every file it finds into path_counts;  *)
(* then handle_request runs one of the five handlers.  A step of a thread  *)
(* is one access to the file system or one access to path_counts, so the   *)
(* accesses of concurrent requests interleave in every order.              *)
(*                                                                         *)
(* path_counts is memory and is lost when the process ends; the files and  *)
(* directories survive.                                                    *)
(***************************************************************************)
EXTENDS ApiTypes, IdList, FiniteSets

CONSTANTS
  Threads,      \* the worker threads
  Workload,     \* the requests that arrive, a subset of Request
  BadNames,     \* entities whose directory holds a foreign file that ends in
                \* a digit and does not start with a number, like getTest2
  Faults,       \* TRUE: creating, opening or removing may fail
  MaxRestarts,  \* bound: crashes of the process, each followed by a restart
  NoRequest     \* req[t] of a thread that serves no request

ASSUME ApiAssumption ==
  /\ Workload \subseteq Request
  /\ BadNames \subseteq Entities
  /\ Faults \in BOOLEAN
  /\ MaxRestarts \in Nat
  /\ NoRequest \notin Request

VARIABLES
  alive,        \* the process runs
  restarts,     \* how often it was started again
  dirs,         \* the entity directories that exist
  files,        \* files[e][i]: the content of root/e/i, or Absent
  keys,         \* the keys of path_counts
  path_counts,  \* path_counts[e]: the vector of ids (empty without a key)
  pc,           \* where each thread is
  req,          \* the request it serves
  dirsTodo,     \* constructor: directories not opened yet
  dir,          \* constructor: the directory that is being read, or Absent
  todo,         \* constructor: entries of dir not visited yet
  id,           \* the id of the current entry, the id a POST took, or 0
  ids,          \* the local copy of a vector (ids, id_list)
  linked,       \* the file behind t's open stream still has its name
  res,          \* the response
  solo          \* history: nothing else was served since t's request came in

storage == <<dirs, files>>
index == <<keys, path_counts>>
locals == <<dirsTodo, dir, todo, id, ids, linked>>
vars == <<alive, restarts, storage, index, pc, req, locals, res, solo>>

Labels ==
  {"idle", "scan", "copy", "store", "post_read", "post_take", "post_open",
   "post_fill", "get_find", "get_read", "list_read", "put_open", "put_fill",
   "del_remove", "del_erase", "respond"}

FileIds(e) == {i \in Ids : files[e][i] # Absent}
Indexed(e) == ToSet(path_counts[e])

Init ==
  /\ alive = TRUE
  /\ restarts = 0
  /\ dirs = BadNames
  /\ files = [e \in Entities |-> [i \in Ids |-> Absent]]
  /\ keys = {}
  /\ path_counts = [e \in Entities |-> <<>>]
  /\ pc = [t \in Threads |-> "idle"]
  /\ req = [t \in Threads |-> NoRequest]
  /\ dirsTodo = [t \in Threads |-> {}]
  /\ dir = [t \in Threads |-> Absent]
  /\ todo = [t \in Threads |-> {}]
  /\ id = [t \in Threads |-> 0]
  /\ ids = [t \in Threads |-> <<>>]
  /\ linked = [t \in Threads |-> FALSE]
  /\ res = [t \in Threads |-> BadRequest]
  /\ solo = [t \in Threads |-> FALSE]

-----------------------------------------------------------------------------
(* Control of a thread.                                                    *)

At(t, label) == alive /\ pc[t] = label

Goto(t, label) ==
  /\ pc' = [pc EXCEPT ![t] = label]
  /\ UNCHANGED <<alive, restarts, req, res, solo>>

(* The handler returns; its locals go out of scope.                        *)
Finish(t, answer) ==
  /\ pc' = [pc EXCEPT ![t] = "respond"]
  /\ res' = [res EXCEPT ![t] = answer]
  /\ UNCHANGED <<alive, restarts, req, solo>>

DropLocals(t) ==
  /\ id' = [id EXCEPT ![t] = 0]
  /\ ids' = [ids EXCEPT ![t] = <<>>]
  /\ linked' = [linked EXCEPT ![t] = FALSE]
  /\ UNCHANGED <<dirsTodo, dir, todo>>

(* An exception that nothing catches leaves the thread function of         *)
(* server_main: std::terminate ends the process.                           *)
Terminate ==
  /\ alive' = FALSE
  /\ UNCHANGED <<restarts, storage, index, pc, req, locals, res, solo>>

-----------------------------------------------------------------------------
(* A request arrives.  A POST is accepted only while an id is left for it  *)
(* and for the POSTs in flight, so that getNextID stays within MaxId.      *)

InUse ==
  UNION ({FileIds(e) \cup Indexed(e) : e \in Entities}
         \cup {{id[t]} \cup todo[t] \cup ToSet(ids[t]) : t \in Threads})

HasRoom ==
  LET Posts == {t \in Threads : req[t] # NoRequest /\ req[t].method = "post"}
  IN  \A i \in InUse : i + Cardinality(Posts) < MaxId

Accept(t, r) ==
  /\ At(t, "idle")
  /\ r.method = "post" => HasRoom
  /\ pc' = [pc EXCEPT ![t] = "scan"]
  /\ req' = [req EXCEPT ![t] = r]
  /\ dirsTodo' = [dirsTodo EXCEPT ![t] = dirs]
  /\ solo' = [u \in Threads |-> u = t /\ \A v \in Threads : pc[v] = "idle"]
  /\ UNCHANGED <<alive, restarts, storage, index, dir, todo, id, ids, linked,
                 res>>

-----------------------------------------------------------------------------
(* The constructor: for (file : recursive_directory_iterator(root)).       *)
(* Entries come in any order; a directory is read when it is entered.      *)

ScanEnter(t) ==
  /\ At(t, "scan") /\ todo[t] = {}
  /\ \E e \in dirsTodo[t] :
       IF e \in BadNames
       THEN Terminate                                      \* stoi throws
       ELSE /\ dirsTodo' = [dirsTodo EXCEPT ![t] = @ \ {e}]
            /\ dir' = [dir EXCEPT ![t] = e]
            /\ todo' = [todo EXCEPT ![t] = FileIds(e)]
            /\ Goto(t, "scan")
            /\ UNCHANGED <<storage, index, id, ids, linked>>

(* Mutant of ScanEntry: an entry deleted since makes the walk start over.  *)
ScanEntryRestarts(t) ==
  /\ At(t, "scan")
  /\ \E i \in todo[t] :
       IF files[dir[t]][i] # Absent
       THEN /\ Goto(t, "copy")
            /\ id' = [id EXCEPT ![t] = i]
            /\ todo' = [todo EXCEPT ![t] = @ \ {i}]
            /\ dirsTodo' = dirsTodo
       ELSE /\ Goto(t, "scan")
            /\ id' = id
            /\ todo' = [todo EXCEPT ![t] = {}]
            /\ dirsTodo' = [dirsTodo EXCEPT ![t] = dirs]
  /\ UNCHANGED <<storage, index, dir, ids, linked>>

(* is_regular_file(file): an entry deleted since is skipped.               *)
ScanEntry(t) ==
  /\ At(t, "scan")
  /\ \E i \in todo[t] :
       /\ todo' = [todo EXCEPT ![t] = @ \ {i}]
       /\ IF files[dir[t]][i] # Absent
          THEN Goto(t, "copy") /\ id' = [id EXCEPT ![t] = i]
          ELSE Goto(t, "scan") /\ id' = id
  /\ UNCHANGED <<storage, index, dirsTodo, dir, ids, linked>>

(* ids = path_counts[entity], which creates the key.                       *)
ScanCopy(t) ==
  /\ At(t, "copy")
  /\ keys' = keys \cup {dir[t]}
  /\ ids' = [ids EXCEPT ![t] = path_counts[dir[t]]]
  /\ Goto(t, "store")
  /\ UNCHANGED <<storage, path_counts, dirsTodo, dir, todo, id, linked>>

(* path_counts[entity] = ids, for an id already listed too.                *)
ScanStore(t) ==
  /\ At(t, "store")
  /\ path_counts' = [path_counts EXCEPT ![dir[t]] = ScanInsert(ids[t], id[t])]
  /\ Goto(t, "scan")
  /\ DropLocals(t)
  /\ UNCHANGED <<storage, keys>>

(* The constructor is done and handle_request starts.                      *)
Ready(t) == At(t, "scan") /\ todo[t] = {} /\ dirsTodo[t] = {}

(* The remaining steps leave the iterator's state alone; it is cleared     *)
(* with the handler object.                                                *)
Handler(t) == Ready(t) /\ UNCHANGED <<dirsTodo, todo>>

-----------------------------------------------------------------------------
(* handle_request: the refusals of the switch.                             *)

Refuse(t) ==
  /\ Handler(t) /\ IsRefused(req[t])
  /\ Finish(t, BadRequest)
  /\ UNCHANGED <<storage, index, dir, id, ids, linked>>

-----------------------------------------------------------------------------
(* handle_post                                                             *)

PostDir(t) ==
  /\ Handler(t) /\ IsPost(req[t])
  /\ \/ dirs' = dirs \cup {req[t].e} /\ Goto(t, "post_read")
     \/ /\ Faults /\ req[t].e \notin dirs                  \* if (ec)
        /\ dirs' = dirs /\ Finish(t, BadRequest)
  /\ UNCHANGED <<files, index, dir, id, ids, linked>>

(* getNextID: id_list = path_counts[directory], which creates the key.     *)
PostRead(t) ==
  /\ At(t, "post_read")
  /\ keys' = keys \cup {req[t].e}
  /\ ids' = [ids EXCEPT ![t] = path_counts[req[t].e]]
  /\ Goto(t, "post_take")
  /\ UNCHANGED <<storage, path_counts, dirsTodo, dir, todo, id, linked>>

(* getNextID: path_counts[directory] = id_list with the new id.            *)
PostTake(t) ==
  /\ At(t, "post_take")
  /\ NextId(ids[t]) <= MaxId
  /\ path_counts' = [path_counts EXCEPT ![req[t].e] = TakeId(ids[t])]
  /\ id' = [id EXCEPT ![t] = NextId(ids[t])]
  /\ ids' = [ids EXCEPT ![t] = <<>>]
  /\ Goto(t, "post_open")
  /\ UNCHANGED <<storage, keys, dirsTodo, dir, todo, linked>>

(* std::ofstream file(path): creates the file or truncates it.             *)
Open(t, e, i) ==
  /\ files' = [files EXCEPT ![e][i] = Empty]
  /\ linked' = [linked EXCEPT ![t] = TRUE]

(* file << body; file.close(): written from offset 0 of the file that was  *)
(* opened, whether or not its name is still there, over what another       *)
(* stream wrote in the meantime.                                           *)
Write(t, e, i, b) ==
  \E content \in IF files[e][i] \in {Empty, b} THEN {b} ELSE {b, Torn} :
    files' = IF linked[t] THEN [files EXCEPT ![e][i] = content] ELSE files

PostOpen(t) ==
  /\ At(t, "post_open")
  /\ Open(t, req[t].e, id[t])
  /\ Goto(t, "post_fill")
  /\ UNCHANGED <<dirs, index, dirsTodo, dir, todo, id, ids>>

(* Neither the open nor the write is checked: 201 without a file.          *)
PostOpenFails(t) ==
  /\ At(t, "post_open") /\ Faults
  /\ Finish(t, Created(id[t]))
  /\ DropLocals(t)
  /\ UNCHANGED <<storage, index>>

PostFill(t) ==
  /\ At(t, "post_fill")
  /\ Write(t, req[t].e, id[t], req[t].body)
  /\ Finish(t, Created(id[t]))
  /\ DropLocals(t)
  /\ UNCHANGED <<dirs, index>>

-----------------------------------------------------------------------------
(* handle_get, handle_list                                                 *)

(* Mutant of OnFile: whether the file exists is not asked.                 *)
OnFileUnasked(r) == r.target \in {"item", "alias"}

(* exists(path), not is_directory(path), and stoi of the id: the file of   *)
(* an item is there, however its path is spelled.                          *)
OnFile(r) == r.target \in {"item", "alias"} /\ files[r.e][r.id] # Absent

(* path_counts.find(entity): the text before the last "/" is a key.  That  *)
(* of an alias is none.                                                    *)
HasKey(r) == r.target = "item" /\ r.e \in keys

Get(t) ==
  /\ Handler(t) /\ IsGet(req[t])
  /\ IF OnFile(req[t]) THEN Goto(t, "get_find") ELSE Finish(t, BadRequest)
  /\ UNCHANGED <<storage, index, dir, id, ids, linked>>

GetFind(t) ==
  /\ At(t, "get_find")
  /\ IF HasKey(req[t]) /\ req[t].id \in Indexed(req[t].e)
     THEN Goto(t, "get_read") ELSE Finish(t, BadRequest)
  /\ UNCHANGED <<storage, index, locals>>

(* A file deleted since reads as an empty body, still with status 200.     *)
GetRead(t) ==
  /\ At(t, "get_read")
  /\ LET content == files[req[t].e][req[t].id]
     IN  Finish(t, Found(IF content = Absent THEN Empty ELSE content))
  /\ UNCHANGED <<storage, index, locals>>

List(t) ==
  /\ Handler(t) /\ IsList(req[t])
  /\ IF req[t].e \in dirs THEN Goto(t, "list_read") ELSE Finish(t, BadRequest)
  /\ UNCHANGED <<storage, index, dir, id, ids, linked>>

(* "[" and the ids, each with a ",": seekp(-1) moves back over the last    *)
(* "," and over the "[" when there is no id.                               *)
ListRead(t) ==
  /\ At(t, "list_read")
  /\ LET s == path_counts[req[t].e]
     IN  Finish(t, IF req[t].e \in keys THEN Listing(s, s # <<>>)
                                        ELSE BadRequest)
  /\ UNCHANGED <<storage, index, locals>>

-----------------------------------------------------------------------------
(* handle_put: path_counts is not consulted, so an alias is written too.   *)

Put(t) ==
  /\ Handler(t) /\ IsPut(req[t])
  /\ IF OnFile(req[t]) THEN Goto(t, "put_open") ELSE Finish(t, BadRequest)
  /\ UNCHANGED <<storage, index, dir, id, ids, linked>>

(* A file deleted since the check is created again.                        *)
PutOpen(t) ==
  /\ At(t, "put_open")
  /\ Open(t, req[t].e, req[t].id)
  /\ Goto(t, "put_fill")
  /\ UNCHANGED <<dirs, index, dirsTodo, dir, todo, id, ids>>

(* 200 and the new body, though nothing was written.                       *)
PutOpenFails(t) ==
  /\ At(t, "put_open") /\ Faults
  /\ Finish(t, Found(req[t].body))
  /\ UNCHANGED <<storage, index, locals>>

PutFill(t) ==
  /\ At(t, "put_fill")
  /\ Write(t, req[t].e, req[t].id, req[t].body)
  /\ Finish(t, Found(req[t].body))
  /\ DropLocals(t)
  /\ UNCHANGED <<dirs, index>>

-----------------------------------------------------------------------------
(* handle_delete                                                           *)

Delete(t) ==
  /\ Handler(t) /\ IsDelete(req[t])
  /\ IF OnFile(req[t]) THEN Goto(t, "del_remove") ELSE Finish(t, BadRequest)
  /\ UNCHANGED <<storage, index, dir, id, ids, linked>>

(* Streams that t's file was opened through keep writing to the file       *)
(* without a name.                                                         *)
HasOpen(u, e, i) ==
  /\ pc[u] \in {"post_fill", "put_fill"}
  /\ req[u].e = e
  /\ i = IF pc[u] = "post_fill" THEN id[u] ELSE req[u].id

(* path_counts.find(entity), then remove(path).                            *)
DelRemove(t) ==
  /\ At(t, "del_remove")
  /\ LET r == req[t]
     IN  IF HasKey(r) /\ files[r.e][r.id] # Absent
         THEN /\ files' = [files EXCEPT ![r.e][r.id] = Absent]
              /\ linked' = [u \in Threads |->
                              linked[u] /\ ~HasOpen(u, r.e, r.id)]
              /\ Goto(t, "del_erase")
         ELSE /\ UNCHANGED <<files, linked>>
              /\ Finish(t, BadRequest)
  /\ UNCHANGED <<dirs, index, dirsTodo, dir, todo, id, ids>>

(* remove(path) throws when the file cannot be removed.                    *)
DelRemoveFails(t) ==
  /\ At(t, "del_remove") /\ Faults
  /\ HasKey(req[t]) /\ OnFile(req[t])
  /\ Terminate

(* The file is gone; an id that is not listed is a 400 all the same.       *)
DelErase(t) ==
  /\ At(t, "del_erase")
  /\ LET r == req[t]
     IN  IF r.id \in Indexed(r.e)
         THEN /\ path_counts' = [path_counts EXCEPT ![r.e] = EraseId(@, r.id)]
              /\ Finish(t, Deleted)
         ELSE /\ path_counts' = path_counts
              /\ Finish(t, BadRequest)
  /\ UNCHANGED <<storage, keys, locals>>

-----------------------------------------------------------------------------
(* session::write_to_socket: the answer goes out and the handler is        *)
(* deleted.  bhttp::write returns when the client has taken what the       *)
(* socket's buffer does not hold, so this step may never come.             *)
Respond(t) ==
  /\ At(t, "respond")
  /\ pc' = [pc EXCEPT ![t] = "idle"]
  /\ req' = [req EXCEPT ![t] = NoRequest]
  /\ res' = [res EXCEPT ![t] = BadRequest]
  /\ dir' = [dir EXCEPT ![t] = Absent]
  /\ solo' = [solo EXCEPT ![t] = FALSE]
  /\ UNCHANGED <<alive, restarts, storage, index, dirsTodo, todo, id, ids,
                 linked>>

-----------------------------------------------------------------------------
(* Two threads reach path_counts at the same time and one of them changes  *)
(* it: a data race.  Either the accesses take effect in some order (the    *)
(* steps above) or a vector or tree node is read half-updated and the      *)
(* process dies.                                                           *)

(* operator[] for an entity without a key adds a node to the map.          *)
AddsKey(t) ==
  \/ pc[t] = "copy" /\ dir[t] \notin keys
  \/ pc[t] = "post_read" /\ req[t].e \notin keys

(* t is about to read, or to change, the vector of entity e.               *)
Uses(t, e) ==
  \/ pc[t] \in {"copy", "store"} /\ dir[t] = e
  \/ /\ pc[t] \in {"post_read", "post_take", "get_find", "list_read",
                   "del_erase"}
     /\ req[t].e = e /\ req[t].target # "alias"

Changes(t) == pc[t] \in {"store", "post_take", "del_erase"}

(* Every use of a vector looks it up in the map; handle_get and            *)
(* handle_delete ask whether the entity has a key.                         *)
UsesMap(t) ==
  pc[t] \in {"get_find", "del_remove"} \/ \E e \in Entities : Uses(t, e)

RaceCrash ==
  /\ alive
  /\ \E t, u \in Threads :
       /\ t # u
       /\ \/ AddsKey(t) /\ UsesMap(u)
          \/ Changes(t) /\ \E e \in Entities : Uses(t, e) /\ Uses(u, e)
  /\ Terminate

(* The process ends at any point, or has ended, and is started again.      *)
Restart ==
  /\ restarts < MaxRestarts
  /\ restarts' = restarts + 1
  /\ alive' = TRUE
  /\ keys' = {}
  /\ path_counts' = [e \in Entities |-> <<>>]
  /\ pc' = [t \in Threads |-> "idle"]
  /\ req' = [t \in Threads |-> NoRequest]
  /\ dirsTodo' = [t \in Threads |-> {}]
  /\ dir' = [t \in Threads |-> Absent]
  /\ todo' = [t \in Threads |-> {}]
  /\ id' = [t \in Threads |-> 0]
  /\ ids' = [t \in Threads |-> <<>>]
  /\ linked' = [t \in Threads |-> FALSE]
  /\ res' = [t \in Threads |-> BadRequest]
  /\ solo' = [t \in Threads |-> FALSE]
  /\ UNCHANGED storage

-----------------------------------------------------------------------------
Scan(t) == ScanEnter(t) \/ ScanEntry(t) \/ ScanCopy(t) \/ ScanStore(t)

HandlePost(t) ==
  \/ PostDir(t) \/ PostRead(t) \/ PostTake(t)
  \/ PostOpen(t) \/ PostOpenFails(t) \/ PostFill(t)

HandleGet(t) == Get(t) \/ GetFind(t) \/ GetRead(t) \/ List(t) \/ ListRead(t)

HandlePut(t) == Put(t) \/ PutOpen(t) \/ PutOpenFails(t) \/ PutFill(t)

HandleDelete(t) ==
  Delete(t) \/ DelRemove(t) \/ DelRemoveFails(t) \/ DelErase(t)

(* What a thread does on its own, without waiting for its client.          *)
Work(t) ==
  \/ Scan(t) \/ Refuse(t)
  \/ HandlePost(t) \/ HandleGet(t) \/ HandlePut(t) \/ HandleDelete(t)

Step(t) == Work(t) \/ Respond(t)

Next ==
  \/ \E t \in Threads : Step(t) \/ \E r \in Workload : Accept(t, r)
  \/ RaceCrash
  \/ Restart

Spec == Init /\ [][Next]_vars

(* A thread that has work is scheduled; nothing is assumed about arrivals  *)
(* or about clients taking their answers.                                  *)
FairSpec == Spec /\ \A t \in Threads : WF_vars(Work(t))
=============================================================================
