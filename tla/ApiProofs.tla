------------------------------ MODULE ApiProofs ------------------------------
(***************************************************************************)
(* Proofs about the CRUD API, for any sets of threads, entities, bodies    *)
(* and requests and any bound on the ids.                                  *)
(***************************************************************************)
EXTENDS ApiProperties, IdListProofs, FiniteSetTheorems

(* A PUT that handle_put lets through names an item.                       *)
PutsItem(r) == IsPut(r) /\ r.target \in {"item", "alias"}

(* What a thread past a label holds: the request it serves, with the       *)
(* method and the login that let it get there, and the directory or id it  *)
(* is working on.                                                          *)
ThreadInv(t) ==
  /\ pc[t] # "idle" => req[t] \in Workload
  /\ pc[t] \in {"copy", "store"} => dir[t] \in Entities /\ id[t] \in Ids
  /\ pc[t] \in {"post_open", "post_fill"} => id[t] \in Ids
  /\ todo[t] # {} => dir[t] \in Entities /\ pc[t] \in {"scan", "copy", "store"}
  /\ pc[t] \in {"post_read", "post_take", "post_open", "post_fill"} =>
       IsPost(req[t])
  /\ pc[t] \in {"put_open", "put_fill"} => PutsItem(req[t])
  /\ pc[t] \in {"del_remove", "del_erase"} => IsDelete(req[t])

Inv == TypeOK /\ \A t \in Threads : ThreadInv(t)

LEMMA ResponseTypes ==
  /\ BadRequest \in Response
  /\ Deleted \in Response
  /\ \A i \in Ids : Created(i) \in Response
  /\ \A b \in Contents : Found(b) \in Response
  /\ \A s \in Seq(Ids), b \in BOOLEAN : Listing(s, b) \in Response
<1>1. BadRequest \in Response
  BY DEF BadRequest, Reply, Response
<1>2. Deleted \in Response
  BY DEF Deleted, Reply, Response
<1>3. ASSUME NEW i \in Ids PROVE Created(i) \in Response
  BY DEF Created, Reply, Response
<1>4. ASSUME NEW b \in Contents PROVE Found(b) \in Response
  BY DEF Found, Reply, Response
<1>5. ASSUME NEW s \in Seq(Ids), NEW b \in BOOLEAN
      PROVE  Listing(s, b) \in Response
  BY DEF Listing, Reply, Response
<1> QED BY <1>1, <1>2, <1>3, <1>4, <1>5

LEMMA RequestTypes ==
  ASSUME NEW r \in Workload
  PROVE  r \in Request /\ r.e \in Entities /\ r.id \in Ids /\ r.body \in Contents
BY ApiAssumption DEF Request, Contents

LEMMA IdsPositive == Ids \subseteq Positive
BY TypesAssumption DEF Ids, Positive

LEMMA InvInit == Init => Inv
BY ApiAssumption, ResponseTypes
DEF Init, Inv, TypeOK, ThreadInv, Labels

(* Types of the control variables, whatever a step does to the rest.       *)
ControlType ==
  /\ alive \in BOOLEAN
  /\ restarts \in 0..MaxRestarts
  /\ pc \in [Threads -> Labels]
  /\ req \in [Threads -> Workload \cup {NoRequest}]
  /\ res \in [Threads -> Response]
  /\ solo \in [Threads -> BOOLEAN]

LEMMA GotoType ==
  ASSUME Inv, NEW t \in Threads, NEW label \in Labels, Goto(t, label)
  PROVE  ControlType' /\ req' = req /\ pc' = [pc EXCEPT ![t] = label]
BY DEF Inv, TypeOK, Goto, ControlType

LEMMA FinishType ==
  ASSUME Inv, NEW t \in Threads, NEW answer \in Response, Finish(t, answer)
  PROVE  ControlType' /\ req' = req /\ pc' = [pc EXCEPT ![t] = "respond"]
BY DEF Inv, TypeOK, Finish, ControlType, Labels

LEMMA TerminateInv == Inv /\ Terminate => Inv'
BY DEF Inv, TypeOK, ThreadInv, Terminate, storage, index, locals

LEMMA AcceptInv ==
  ASSUME Inv, NEW t \in Threads, NEW r \in Workload, Accept(t, r)
  PROVE  Inv'
BY DEF Accept, At, Inv, TypeOK, ThreadInv, Labels, storage, index

LEMMA ScanInv ==
  ASSUME Inv, NEW t \in Threads, Scan(t)
  PROVE  Inv'
<1>1. CASE ScanEnter(t)
  <2>1. CASE Terminate
    BY <2>1, TerminateInv
  <2>2. ASSUME NEW e \in dirsTodo[t],
               /\ dirsTodo' = [dirsTodo EXCEPT ![t] = @ \ {e}]
               /\ dir' = [dir EXCEPT ![t] = e]
               /\ todo' = [todo EXCEPT ![t] = FileIds(e)]
               /\ Goto(t, "scan")
               /\ UNCHANGED <<storage, index, id, ids, linked>>
        PROVE  Inv'
    BY <1>1, <2>2, GotoType
    DEF ScanEnter, At, Inv, TypeOK, ThreadInv, Labels, FileIds, ControlType,
        storage, index
  <2> QED BY <1>1, <2>1, <2>2 DEF ScanEnter
<1>2. CASE ScanEntry(t)
  <2>1. PICK i \in todo[t] :
          /\ todo' = [todo EXCEPT ![t] = @ \ {i}]
          /\ IF files[dir[t]][i] # Absent
             THEN Goto(t, "copy") /\ id' = [id EXCEPT ![t] = i]
             ELSE Goto(t, "scan") /\ id' = id
    BY <1>2 DEF ScanEntry
  <2>2. /\ UNCHANGED <<storage, index, dirsTodo, dir, ids, linked>>
        /\ pc[t] = "scan" /\ dir[t] \in Entities /\ i \in Ids
    BY <1>2, <2>1 DEF ScanEntry, At, Inv, TypeOK, ThreadInv
  <2>3. CASE Goto(t, "copy") /\ id' = [id EXCEPT ![t] = i]
    BY <2>1, <2>2, <2>3, GotoType
    DEF Inv, TypeOK, ThreadInv, Labels, ControlType, storage, index
  <2>4. CASE Goto(t, "scan") /\ id' = id
    BY <2>1, <2>2, <2>4, GotoType
    DEF Inv, TypeOK, ThreadInv, Labels, ControlType, storage, index
  <2> QED BY <2>1, <2>3, <2>4
<1>3. CASE ScanCopy(t)
  BY <1>3, GotoType
  DEF ScanCopy, At, Inv, TypeOK, ThreadInv, Labels, ControlType, storage
<1>4. CASE ScanStore(t)
  <2>1. ScanInsert(ids[t], id[t]) \in Seq(Ids)
    BY <1>4, IdsPositive, ScanInsertType
    DEF ScanStore, At, Inv, TypeOK, ThreadInv
  <2> QED
    BY <1>4, <2>1, GotoType
    DEF ScanStore, DropLocals, At, Inv, TypeOK, ThreadInv, Labels, ControlType,
        storage
<1> QED BY <1>1, <1>2, <1>3, <1>4 DEF Scan

(* Steps that return from a handler, and steps that only move on.          *)
LEMMA ReturnInv ==
  ASSUME Inv, NEW t \in Threads, NEW answer \in Response, Finish(t, answer),
         pc[t] # "idle", todo[t] = {},
         dirs' \subseteq Entities,
         files' \in [Entities -> [Ids -> Contents \cup {Absent}]],
         keys' \subseteq Entities,
         path_counts' \in [Entities -> Seq(Ids)],
         linked' \in [Threads -> BOOLEAN],
         UNCHANGED <<dirsTodo, dir, todo, id, ids>> \/ DropLocals(t)
  PROVE  Inv'
<1>1. /\ dirsTodo' = dirsTodo /\ dir' = dir /\ todo' = todo
      /\ id' \in [Threads -> Ids \cup {0}]
      /\ ids' \in [Threads -> Seq(Ids)]
      /\ \A u \in Threads \ {t} : id'[u] = id[u]
  <2>1. CASE UNCHANGED <<dirsTodo, dir, todo, id, ids>>
    BY <2>1 DEF Inv, TypeOK
  <2>2. CASE DropLocals(t)
    <3>1. <<>> \in Seq(Ids)
      OBVIOUS
    <3> QED BY <2>2, <3>1 DEF DropLocals, Inv, TypeOK
  <2> QED BY <2>1, <2>2
<1>2. ControlType' /\ req' = req /\ pc' = [pc EXCEPT ![t] = "respond"]
  BY FinishType
<1>3. TypeOK'
  BY <1>1, <1>2 DEF Inv, TypeOK, ControlType
<1>4. ASSUME NEW u \in Threads, u # t PROVE ThreadInv(u)'
  BY <1>1, <1>2, <1>4 DEF Inv, TypeOK, ThreadInv
<1>5. ThreadInv(t)'
  BY <1>1, <1>2 DEF Inv, TypeOK, ThreadInv
<1> QED BY <1>3, <1>4, <1>5 DEF Inv

LEMMA MoveInv ==
  ASSUME Inv, NEW t \in Threads, NEW label \in Labels, Goto(t, label),
         pc[t] # "idle", label \notin {"copy", "store"}, todo[t] = {},
         label \in {"post_read", "post_take", "post_open", "post_fill"} =>
           IsPost(req[t]),
         label \in {"put_open", "put_fill"} => PutsItem(req[t]),
         label \in {"del_remove", "del_erase"} => IsDelete(req[t]),
         label \in {"post_open", "post_fill"} => id'[t] \in Ids,
         dirs' \subseteq Entities,
         files' \in [Entities -> [Ids -> Contents \cup {Absent}]],
         keys' \subseteq Entities,
         path_counts' \in [Entities -> Seq(Ids)],
         linked' \in [Threads -> BOOLEAN],
         UNCHANGED <<dirsTodo, dir, todo>>,
         id' \in [Threads -> Ids \cup {0}],
         \A u \in Threads \ {t} : id'[u] = id[u],
         ids' \in [Threads -> Seq(Ids)]
  PROVE  Inv'
<1>1. ControlType' /\ req' = req /\ pc' = [pc EXCEPT ![t] = label]
  BY GotoType
<1>2. TypeOK'
  BY <1>1 DEF Inv, TypeOK, ControlType
<1>3. ASSUME NEW u \in Threads, u # t PROVE ThreadInv(u)'
  BY <1>1, <1>3 DEF Inv, TypeOK, ThreadInv
<1>4. ThreadInv(t)'
  BY <1>1 DEF Inv, TypeOK, ThreadInv
<1> QED BY <1>2, <1>3, <1>4 DEF Inv

LEMMA RefuseInv ==
  ASSUME Inv, NEW t \in Threads, Refuse(t)
  PROVE  Inv'
BY ReturnInv, ResponseTypes
DEF Refuse, Handler, Ready, At, Inv, TypeOK, storage, index

(* The file system and the streams.                                        *)
LEMMA OpenType ==
  ASSUME Inv, NEW t \in Threads, NEW e \in Entities, NEW i \in Ids, Open(t, e, i)
  PROVE  /\ files' \in [Entities -> [Ids -> Contents \cup {Absent}]]
         /\ linked' \in [Threads -> BOOLEAN]
BY DEF Open, Inv, TypeOK, Contents

LEMMA WriteType ==
  ASSUME Inv, NEW t \in Threads, NEW e \in Entities, NEW i \in Ids,
         NEW b \in Contents, Write(t, e, i, b)
  PROVE  files' \in [Entities -> [Ids -> Contents \cup {Absent}]]
BY DEF Write, Inv, TypeOK, Contents

LEMMA ServedTypes ==
  ASSUME Inv, NEW t \in Threads, pc[t] # "idle"
  PROVE  /\ req[t] \in Workload /\ req[t].e \in Entities
         /\ req[t].id \in Ids /\ req[t].body \in Contents
         /\ pc[t] \notin {"scan", "copy", "store"} => todo[t] = {}
         /\ pc[t] \in {"post_open", "post_fill"} => id[t] \in Ids
BY RequestTypes DEF Inv, ThreadInv

LEMMA PostInv ==
  ASSUME Inv, NEW t \in Threads, HandlePost(t)
  PROVE  Inv'
<1> USE DEF Inv, TypeOK, Labels
<1>1. CASE PostDir(t)
  <2>1. pc[t] # "idle" /\ todo[t] = {} /\ IsPost(req[t])
    BY <1>1 DEF PostDir, Handler, Ready, At
  <2>2. req[t].e \in Entities
    BY <2>1, ServedTypes
  <2>3. CASE Goto(t, "post_read") /\ dirs' = dirs \cup {req[t].e}
    BY <1>1, <2>1, <2>2, <2>3, MoveInv DEF PostDir, Handler, index
  <2>4. CASE Finish(t, BadRequest) /\ dirs' = dirs
    BY <1>1, <2>1, <2>4, ReturnInv, ResponseTypes DEF PostDir, Handler, index
  <2> QED BY <1>1, <2>3, <2>4 DEF PostDir
<1>2. CASE PostRead(t)
  <2>1. pc[t] # "idle" /\ todo[t] = {} /\ IsPost(req[t]) /\ req[t].e \in Entities
    BY <1>2, ServedTypes DEF PostRead, At, ThreadInv
  <2>2. ids' \in [Threads -> Seq(Ids)]
    BY <1>2, <2>1 DEF PostRead
  <2> QED BY <1>2, <2>1, <2>2, MoveInv DEF PostRead, storage
<1>3. CASE PostTake(t)
  <2>1. pc[t] # "idle" /\ todo[t] = {} /\ IsPost(req[t]) /\ req[t].e \in Entities
    BY <1>3, ServedTypes DEF PostTake, At, ThreadInv
  <2>2. ids[t] \in Seq(Positive)
    BY IdsPositive, SeqMonotonic
  <2>3. NextId(ids[t]) \in Ids
    BY <1>3, <2>2, NextIdType, TypesAssumption DEF PostTake, Ids, Positive
  <2>4. TakeId(ids[t]) \in Seq(Ids)
    BY <2>3, IdsPositive, TakeIdType
  <2>5. path_counts' \in [Entities -> Seq(Ids)] /\ ids' \in [Threads -> Seq(Ids)]
    <3>1. <<>> \in Seq(Ids)
      OBVIOUS
    <3> QED BY <1>3, <2>1, <2>4, <3>1 DEF PostTake
  <2> QED BY <1>3, <2>1, <2>3, <2>5, MoveInv DEF PostTake, storage
<1>4. CASE PostOpen(t)
  <2>1. /\ pc[t] # "idle" /\ todo[t] = {} /\ IsPost(req[t])
        /\ req[t].e \in Entities /\ id[t] \in Ids
    BY <1>4, ServedTypes DEF PostOpen, At, ThreadInv
  <2>2. /\ files' \in [Entities -> [Ids -> Contents \cup {Absent}]]
        /\ linked' \in [Threads -> BOOLEAN]
    BY <1>4, <2>1, OpenType DEF PostOpen
  <2> QED BY <1>4, <2>1, <2>2, MoveInv DEF PostOpen, index
<1>5. CASE PostOpenFails(t)
  <2>1. pc[t] # "idle" /\ todo[t] = {} /\ id[t] \in Ids
    BY <1>5, ServedTypes DEF PostOpenFails, At
  <2> QED BY <1>5, <2>1, ReturnInv, ResponseTypes
          DEF PostOpenFails, storage, index, DropLocals
<1>6. CASE PostFill(t)
  <2>1. /\ pc[t] # "idle" /\ todo[t] = {} /\ req[t].e \in Entities
        /\ id[t] \in Ids /\ req[t].body \in Contents
    BY <1>6, ServedTypes DEF PostFill, At
  <2>2. files' \in [Entities -> [Ids -> Contents \cup {Absent}]]
    BY <1>6, <2>1, WriteType DEF PostFill
  <2> QED BY <1>6, <2>1, <2>2, ReturnInv, ResponseTypes
          DEF PostFill, index, DropLocals
<1> QED BY <1>1, <1>2, <1>3, <1>4, <1>5, <1>6 DEF HandlePost

(* Handlers that pick up a checked request: Get, List, Put, Delete.        *)
LEMMA CheckInv ==
  ASSUME Inv, NEW t \in Threads, Handler(t),
         NEW label \in {"get_find", "list_read", "put_open", "del_remove"},
         label = "put_open" => PutsItem(req[t]),
         label = "del_remove" => IsDelete(req[t]),
         Goto(t, label) \/ Finish(t, BadRequest),
         UNCHANGED <<storage, index, dir, id, ids, linked>>
  PROVE  Inv'
<1> USE DEF Inv, TypeOK, Labels
<1>1. pc[t] # "idle" /\ todo[t] = {}
  BY DEF Handler, Ready, At
<1>2. CASE Goto(t, label)
  BY <1>1, <1>2, MoveInv DEF Handler, storage, index
<1>3. CASE Finish(t, BadRequest)
  BY <1>1, <1>3, ReturnInv, ResponseTypes DEF Handler, storage, index
<1> QED BY <1>2, <1>3

LEMMA GetInv ==
  ASSUME Inv, NEW t \in Threads, HandleGet(t)
  PROVE  Inv'
<1> USE DEF Inv, TypeOK, Labels
<1>1. CASE Get(t)
  BY <1>1, CheckInv DEF Get
<1>2. CASE GetFind(t)
  <2>1. pc[t] # "idle" /\ todo[t] = {}
    BY <1>2, ServedTypes DEF GetFind, At
  <2>2. CASE Goto(t, "get_read")
    BY <1>2, <2>1, <2>2, MoveInv DEF GetFind, storage, index, locals
  <2>3. CASE Finish(t, BadRequest)
    BY <1>2, <2>1, <2>3, ReturnInv, ResponseTypes
    DEF GetFind, storage, index, locals
  <2> QED BY <1>2, <2>2, <2>3 DEF GetFind
<1>3. CASE GetRead(t)
  <2>1. /\ pc[t] # "idle" /\ todo[t] = {} /\ req[t].e \in Entities
        /\ req[t].id \in Ids
    BY <1>3, ServedTypes DEF GetRead, At
  <2> DEFINE c == files[req[t].e][req[t].id]
             b == IF c = Absent THEN Empty ELSE c
  <2>2. b \in Contents /\ Finish(t, Found(b))
    BY <1>3, <2>1 DEF GetRead, Contents
  <2> HIDE DEF b, c
  <2> QED BY <1>3, <2>1, <2>2, ReturnInv, ResponseTypes
          DEF GetRead, storage, index, locals
<1>4. CASE List(t)
  BY <1>4, CheckInv DEF List
<1>5. CASE ListRead(t)
  <2>1. pc[t] # "idle" /\ todo[t] = {} /\ req[t].e \in Entities
    BY <1>5, ServedTypes DEF ListRead, At
  <2> DEFINE s == path_counts[req[t].e]
  <2>2. s \in Seq(Ids) /\ (s # <<>>) \in BOOLEAN
    BY <2>1
  <2>3. Finish(t, Listing(s, s # <<>>)) \/ Finish(t, BadRequest)
    BY <1>5 DEF ListRead
  <2> HIDE DEF s
  <2> QED BY <1>5, <2>1, <2>2, <2>3, ReturnInv, ResponseTypes
          DEF ListRead, storage, index, locals
<1> QED BY <1>1, <1>2, <1>3, <1>4, <1>5 DEF HandleGet

LEMMA PutInv ==
  ASSUME Inv, NEW t \in Threads, HandlePut(t)
  PROVE  Inv'
<1> USE DEF Inv, TypeOK, Labels
<1>1. CASE Put(t)
  <2>1. Finish(t, BadRequest) \/ (Goto(t, "put_open") /\ PutsItem(req[t]))
    BY <1>1 DEF Put, OnFile, PutsItem
  <2> QED BY <1>1, <2>1, CheckInv DEF Put
<1>2. CASE PutOpen(t)
  <2>1. /\ pc[t] # "idle" /\ todo[t] = {} /\ PutsItem(req[t])
        /\ req[t].e \in Entities /\ req[t].id \in Ids
    BY <1>2, ServedTypes DEF PutOpen, At, ThreadInv
  <2>2. /\ files' \in [Entities -> [Ids -> Contents \cup {Absent}]]
        /\ linked' \in [Threads -> BOOLEAN]
    BY <1>2, <2>1, OpenType DEF PutOpen
  <2> QED BY <1>2, <2>1, <2>2, MoveInv DEF PutOpen, index
<1>3. CASE PutOpenFails(t)
  <2>1. pc[t] # "idle" /\ todo[t] = {} /\ req[t].body \in Contents
    BY <1>3, ServedTypes DEF PutOpenFails, At
  <2> QED BY <1>3, <2>1, ReturnInv, ResponseTypes
          DEF PutOpenFails, storage, index, locals
<1>4. CASE PutFill(t)
  <2>1. /\ pc[t] # "idle" /\ todo[t] = {} /\ req[t].e \in Entities
        /\ req[t].id \in Ids /\ req[t].body \in Contents
    BY <1>4, ServedTypes DEF PutFill, At
  <2>2. files' \in [Entities -> [Ids -> Contents \cup {Absent}]]
    BY <1>4, <2>1, WriteType DEF PutFill
  <2> QED BY <1>4, <2>1, <2>2, ReturnInv, ResponseTypes
          DEF PutFill, index, DropLocals
<1> QED BY <1>1, <1>2, <1>3, <1>4 DEF HandlePut

LEMMA DeleteInv ==
  ASSUME Inv, NEW t \in Threads, HandleDelete(t)
  PROVE  Inv'
<1> USE DEF Inv, TypeOK, Labels
<1>1. CASE Delete(t)
  BY <1>1, CheckInv DEF Delete
<1>2. CASE DelRemove(t)
  <2>1. /\ pc[t] # "idle" /\ todo[t] = {} /\ IsDelete(req[t])
        /\ req[t].e \in Entities /\ req[t].id \in Ids
    BY <1>2, ServedTypes DEF DelRemove, At, ThreadInv
  <2>2. CASE /\ files' = [files EXCEPT ![req[t].e][req[t].id] = Absent]
             /\ linked' = [u \in Threads |->
                  linked[u] /\ ~HasOpen(u, req[t].e, req[t].id)]
             /\ Goto(t, "del_erase")
    <3>1. /\ files' \in [Entities -> [Ids -> Contents \cup {Absent}]]
          /\ linked' \in [Threads -> BOOLEAN]
      BY <2>1, <2>2
    <3> QED BY <1>2, <2>1, <2>2, <3>1, MoveInv DEF DelRemove, index
  <2>3. CASE UNCHANGED <<files, linked>> /\ Finish(t, BadRequest)
    BY <1>2, <2>1, <2>3, ReturnInv, ResponseTypes DEF DelRemove, index
  <2> QED BY <1>2, <2>2, <2>3 DEF DelRemove
<1>3. CASE DelRemoveFails(t)
  BY <1>3, TerminateInv DEF DelRemoveFails
<1>4. CASE DelErase(t)
  <2>1. pc[t] # "idle" /\ todo[t] = {} /\ req[t].e \in Entities
    BY <1>4, ServedTypes DEF DelErase, At
  <2>2. EraseId(path_counts[req[t].e], req[t].id) \in Seq(Ids)
    BY <2>1, EraseIdType
  <2>3. path_counts' \in [Entities -> Seq(Ids)]
    BY <1>4, <2>1, <2>2 DEF DelErase
  <2>4. Finish(t, Deleted) \/ Finish(t, BadRequest)
    BY <1>4 DEF DelErase
  <2> QED BY <1>4, <2>1, <2>3, <2>4, ReturnInv, ResponseTypes
          DEF DelErase, storage, locals
<1> QED BY <1>1, <1>2, <1>3, <1>4 DEF HandleDelete

LEMMA RespondInv ==
  ASSUME Inv, NEW t \in Threads, Respond(t)
  PROVE  Inv'
BY ResponseTypes
DEF Respond, At, Inv, TypeOK, ThreadInv, Labels, storage, index

LEMMA RestartInv == Inv /\ Restart => Inv'
BY ResponseTypes, ApiAssumption
DEF Restart, Inv, TypeOK, ThreadInv, Labels, storage

LEMMA InvStep == Inv /\ [Next]_vars => Inv'
<1> SUFFICES ASSUME Inv, [Next]_vars PROVE Inv'
  OBVIOUS
<1>1. CASE UNCHANGED vars
  BY <1>1 DEF vars, storage, index, locals, Inv, TypeOK, ThreadInv
<1>2. CASE RaceCrash
  BY <1>2, TerminateInv DEF RaceCrash
<1> QED
  BY <1>1, <1>2, AcceptInv, ScanInv, RefuseInv, PostInv, GetInv, PutInv,
     DeleteInv, RespondInv, RestartInv
  DEF Next, Step, Work

(* Whatever the threads do to each other and wherever the process dies,    *)
(* the index holds ids getNextID may hand out and the storage holds the    *)
(* contents the handlers write.                                            *)
THEOREM TypeCorrect == Spec => []TypeOK
<1>1. Spec => []Inv
  BY InvInit, InvStep, PTL DEF Spec
<1>2. Inv => TypeOK
  BY DEF Inv
<1> QED BY <1>1, <1>2, PTL

-----------------------------------------------------------------------------
(* Who changes the storage.                                                *)

LEMMA UnchangedStorage == ASSUME UNCHANGED storage PROVE AuthorisedStep
BY DEF AuthorisedStep, storage

(* A write to the file a request names, by a thread that moves on.         *)
LEMMA WriterAuthorised ==
  ASSUME Inv, NEW t \in Threads, pc'[t] # pc[t], req[t].e \in Entities,
         NEW n \in Ids,
         \/ IsPost(req[t]) /\ n = id[t]
         \/ PutsItem(req[t]) /\ n = req[t].id
         \/ IsDelete(req[t]) /\ req[t].target = "item" /\ n = req[t].id,
         NEW c, files' = files \/ files' = [files EXCEPT ![req[t].e][n] = c],
         dirs' = dirs
  PROVE  AuthorisedStep
<1>1. Names(t, req[t].e, n)
  BY DEF IsPost, PutsItem, IsPut, IsDelete, Names
<1>2. ASSUME NEW e \in Entities, NEW i \in Ids, files'[e][i] # files[e][i]
      PROVE  e = req[t].e /\ i = n
  BY <1>2 DEF Inv, TypeOK
<1> QED BY <1>1, <1>2 DEF AuthorisedStep

LEMMA AuthorisedNext == Inv /\ [Next]_vars => AuthorisedStep
<1> SUFFICES ASSUME Inv, [Next]_vars PROVE AuthorisedStep
  OBVIOUS
<1>1. CASE UNCHANGED vars \/ RaceCrash \/ Restart
  BY <1>1, UnchangedStorage DEF vars, RaceCrash, Terminate, Restart
<1>2. ASSUME NEW t \in Threads, NEW r \in Workload, Accept(t, r)
      PROVE  AuthorisedStep
  BY <1>2, UnchangedStorage DEF Accept
<1>3. ASSUME NEW t \in Threads, Scan(t) \/ Refuse(t) \/ HandleGet(t) \/ Respond(t)
      PROVE  AuthorisedStep
  BY <1>3, UnchangedStorage
  DEF Scan, ScanEnter, ScanEntry, ScanCopy, ScanStore, Terminate, Refuse,
      HandleGet, Get, GetFind, GetRead, List, ListRead, Respond
<1>4. ASSUME NEW t \in Threads, HandlePost(t) PROVE AuthorisedStep
  <2>1. CASE PostDir(t)
    <3>1. /\ pc[t] = "scan" /\ IsPost(req[t]) /\ files' = files
          /\ dirs' \in {dirs, dirs \cup {req[t].e}} /\ pc'[t] # pc[t]
      BY <2>1 DEF PostDir, Handler, Ready, At, Goto, Finish, Inv, TypeOK
    <3> QED BY <3>1 DEF AuthorisedStep, IsPost
  <2>2. CASE PostRead(t) \/ PostTake(t) \/ PostOpenFails(t)
    BY <2>2, UnchangedStorage DEF PostRead, PostTake, PostOpenFails
  <2>3. CASE PostOpen(t) \/ PostFill(t)
    <3>1. /\ pc[t] \in {"post_open", "post_fill"} /\ pc'[t] # pc[t]
          /\ dirs' = dirs
      BY <2>3 DEF PostOpen, PostFill, At, Goto, Finish, Inv, TypeOK
    <3>2. IsPost(req[t]) /\ req[t].e \in Entities /\ id[t] \in Ids
      BY <3>1, ServedTypes DEF Inv, ThreadInv
    <3>3. PICK c : files' = files \/ files' = [files EXCEPT ![req[t].e][id[t]] = c]
      <4>1. CASE PostOpen(t)
        BY <4>1 DEF PostOpen, Open
      <4>2. CASE PostFill(t)
        BY <4>2 DEF PostFill, Write
      <4> QED BY <2>3, <4>1, <4>2
    <3> QED BY <3>1, <3>2, <3>3, WriterAuthorised
  <2> QED BY <1>4, <2>1, <2>2, <2>3 DEF HandlePost
<1>5. ASSUME NEW t \in Threads, HandlePut(t) PROVE AuthorisedStep
  <2>1. CASE Put(t) \/ PutOpenFails(t)
    BY <2>1, UnchangedStorage DEF Put, PutOpenFails
  <2>2. CASE PutOpen(t) \/ PutFill(t)
    <3>1. /\ pc[t] \in {"put_open", "put_fill"} /\ pc'[t] # pc[t]
          /\ dirs' = dirs
      BY <2>2 DEF PutOpen, PutFill, At, Goto, Finish, Inv, TypeOK
    <3>2. PutsItem(req[t]) /\ req[t].e \in Entities /\ req[t].id \in Ids
      BY <3>1, ServedTypes DEF Inv, ThreadInv
    <3>3. PICK c :
            files' = files \/ files' = [files EXCEPT ![req[t].e][req[t].id] = c]
      <4>1. CASE PutOpen(t)
        BY <4>1 DEF PutOpen, Open
      <4>2. CASE PutFill(t)
        BY <4>2 DEF PutFill, Write
      <4> QED BY <2>2, <4>1, <4>2
    <3> QED BY <3>1, <3>2, <3>3, WriterAuthorised
  <2> QED BY <1>5, <2>1, <2>2 DEF HandlePut
<1>6. ASSUME NEW t \in Threads, HandleDelete(t) PROVE AuthorisedStep
  <2>1. CASE Delete(t) \/ DelRemoveFails(t) \/ DelErase(t)
    BY <2>1, UnchangedStorage DEF Delete, DelRemoveFails, Terminate, DelErase
  <2>2. CASE DelRemove(t) /\ files' = files
    BY <2>2, UnchangedStorage DEF DelRemove, storage
  <2>3. CASE DelRemove(t) /\ files' # files
    <3>1. /\ pc[t] = "del_remove" /\ pc'[t] # pc[t] /\ dirs' = dirs
          /\ req[t].target = "item"
          /\ files' = [files EXCEPT ![req[t].e][req[t].id] = Absent]
      BY <2>3 DEF DelRemove, HasKey, At, Goto, Finish, Inv, TypeOK
    <3>2. IsDelete(req[t]) /\ req[t].e \in Entities /\ req[t].id \in Ids
      BY <3>1, ServedTypes DEF Inv, ThreadInv
    <3> QED BY <3>1, <3>2, WriterAuthorised
  <2> QED BY <1>6, <2>1, <2>2, <2>3 DEF HandleDelete
<1> QED
  BY <1>1, <1>2, <1>3, <1>4, <1>5, <1>6 DEF Next, Step, Work

(* However requests interleave and whatever their paths alias, a file      *)
(* changes only for the POST, PUT or DELETE of a logged-in user that names *)
(* it, and only a POST makes a directory.                                  *)
THEOREM WritesAreAuthorised == Spec => AuthorisedWrites
BY InvInit, InvStep, AuthorisedNext, PTL DEF Spec, AuthorisedWrites

-----------------------------------------------------------------------------
(* What one undisturbed constructor puts right.                            *)

OneThread == \A t, u \in Threads : t = u

Covered == \A e \in Entities : FileIds(e) \subseteq Indexed(e)

LEMMA ListTypes ==
  ASSUME Inv, NEW e \in Entities
  PROVE  /\ path_counts[e] \in Seq(Ids) /\ path_counts[e] \in Seq(Positive)
         /\ FileIds(e) \subseteq Ids
BY IdsPositive, SeqMonotonic DEF Inv, TypeOK, FileIds

(* A file lies in a directory the iterator will find, whichever thread     *)
(* writes it and whenever.                                                 *)
WriteLabels ==
  {"post_read", "post_take", "post_open", "post_fill", "put_open", "put_fill"}

InDirs ==
  /\ \A e \in Entities, i \in Ids : files[e][i] # Absent => e \in dirs
  /\ \A t \in Threads : pc[t] \in WriteLabels => req[t].e \in dirs

LEMMA InDirsKept ==
  ASSUME InDirs, dirs \subseteq dirs',
         \A e \in Entities, i \in Ids :
           files'[e][i] # Absent => files[e][i] # Absent \/ e \in dirs',
         \A u \in Threads : pc'[u] \in WriteLabels =>
           (pc[u] \in WriteLabels /\ req'[u] = req[u]) \/ req'[u].e \in dirs'
  PROVE  InDirs'
BY DEF InDirs

LEMMA InDirsStep ==
  ASSUME Inv, InDirs, [Next]_vars
  PROVE  InDirs'
<1> USE DEF Inv, TypeOK
<1>1. CASE UNCHANGED vars \/ RaceCrash
  BY <1>1, InDirsKept DEF vars, storage, RaceCrash, Terminate
<1>2. CASE Restart
  BY <1>2 DEF Restart, storage, InDirs, WriteLabels
<1>3. ASSUME NEW t \in Threads, UNCHANGED storage,
             \/ pc' = pc /\ req' = req
             \/ /\ pc'[t] \notin WriteLabels
                /\ \A u \in Threads \ {t} : pc'[u] = pc[u] /\ req'[u] = req[u]
      PROVE  InDirs'
  BY <1>3, InDirsKept DEF storage
<1>4. ASSUME NEW t \in Threads, NEW r \in Workload, Accept(t, r) PROVE InDirs'
  <2>1. /\ pc'[t] \notin WriteLabels
        /\ \A u \in Threads \ {t} : pc'[u] = pc[u] /\ req'[u] = req[u]
    BY <1>4 DEF Accept, WriteLabels
  <2> QED BY <1>3, <1>4, <2>1 DEF Accept
<1>5. ASSUME NEW t \in Threads, NEW l \in Labels, l \notin WriteLabels,
             Goto(t, l) \/ \E a : l = "respond" /\ Finish(t, a)
      PROVE  /\ pc'[t] \notin WriteLabels
             /\ \A u \in Threads \ {t} : pc'[u] = pc[u] /\ req'[u] = req[u]
  BY <1>5 DEF Goto, Finish
<1>6. ASSUME NEW t \in Threads, Scan(t) PROVE InDirs'
  <2>1. UNCHANGED storage
    BY <1>6 DEF Scan, ScanEnter, ScanEntry, ScanCopy, ScanStore, Terminate
  <2>2. CASE pc' = pc /\ req' = req
    BY <1>3, <2>1, <2>2
  <2>3. CASE \E l \in {"scan", "copy", "store"} : Goto(t, l)
    BY <1>3, <1>5, <2>1, <2>3 DEF WriteLabels, Labels
  <2> QED BY <1>6, <2>2, <2>3
          DEF Scan, ScanEnter, ScanEntry, ScanCopy, ScanStore, Terminate
<1>7. ASSUME NEW t \in Threads, Refuse(t) \/ HandleGet(t) PROVE InDirs'
  <2>1. UNCHANGED storage
    BY <1>7 DEF Refuse, HandleGet, Get, GetFind, GetRead, List, ListRead
  <2>2. \/ \E l \in {"get_find", "get_read", "list_read"} : Goto(t, l)
        \/ \E a : Finish(t, a)
    BY <1>7 DEF Refuse, HandleGet, Get, GetFind, GetRead, List, ListRead
  <2>3. PICK l \in Labels : /\ l \notin WriteLabels
                            /\ Goto(t, l) \/ \E a : l = "respond" /\ Finish(t, a)
    BY <2>2 DEF WriteLabels, Labels
  <2> QED BY <1>3, <1>5, <2>1, <2>3
<1>8. ASSUME NEW t \in Threads, Respond(t) PROVE InDirs'
  <2>1. /\ pc'[t] \notin WriteLabels
        /\ \A u \in Threads \ {t} : pc'[u] = pc[u] /\ req'[u] = req[u]
    BY <1>8 DEF Respond, WriteLabels
  <2> QED BY <1>3, <1>8, <2>1 DEF Respond
<1>9. ASSUME NEW t \in Threads, PostDir(t) PROVE InDirs'
  <2>1. files' = files
    BY <1>9 DEF PostDir
  <2>2. CASE dirs' = dirs \cup {req[t].e} /\ Goto(t, "post_read")
    BY <2>1, <2>2, InDirsKept DEF Goto
  <2>3. CASE dirs' = dirs /\ Finish(t, BadRequest)
    BY <1>3, <1>5, <2>1, <2>3 DEF WriteLabels, Labels, storage
  <2> QED BY <1>9, <2>2, <2>3 DEF PostDir
<1>10. ASSUME NEW t \in Threads, PostRead(t) \/ PostTake(t) PROVE InDirs'
  <2>1. UNCHANGED storage /\ pc[t] \in WriteLabels
    BY <1>10 DEF PostRead, PostTake, At, WriteLabels
  <2>2. req' = req /\ \A u \in Threads \ {t} : pc'[u] = pc[u]
    BY <1>10 DEF PostRead, PostTake, Goto
  <2> QED BY <2>1, <2>2, InDirsKept DEF storage
<1>11. ASSUME NEW t \in Threads, PostOpen(t) \/ PostFill(t) \/ PutOpen(t) \/ PutFill(t)
       PROVE  InDirs'
  <2>1. pc[t] \in WriteLabels /\ req[t].e \in dirs /\ dirs' = dirs /\ pc[t] # "idle"
    BY <1>11 DEF PostOpen, PostFill, PutOpen, PutFill, At, WriteLabels, InDirs
  <2>2. req' = req /\ \A u \in Threads \ {t} : pc'[u] = pc[u]
    BY <1>11 DEF PostOpen, PostFill, PutOpen, PutFill, Goto, Finish
  <2>3. PICK i \in Ids : files' = files \/ \E c : files' = [files EXCEPT ![req[t].e][i] = c]
    <3>1. req[t].id \in Ids /\ (pc[t] \in {"post_open", "post_fill"} => id[t] \in Ids)
      BY <2>1, ServedTypes
    <3> QED BY <1>11, <3>1 DEF PostOpen, PostFill, PutOpen, PutFill, At, Open, Write
  <2>4. req[t].e \in Entities
    BY <2>1, ServedTypes
  <2>5. ASSUME NEW e \in Entities, NEW j \in Ids, files'[e][j] # Absent
        PROVE  files[e][j] # Absent \/ e \in dirs'
    <3>1. CASE e = req[t].e
      BY <2>1, <3>1
    <3>2. CASE e # req[t].e
      BY <2>3, <2>4, <2>5, <3>2
    <3> QED BY <3>1, <3>2
  <2> QED BY <2>1, <2>2, <2>5, InDirsKept
<1>12. ASSUME NEW t \in Threads, PostOpenFails(t) \/ PutOpenFails(t) PROVE InDirs'
  <2>1. UNCHANGED storage /\ \E a : Finish(t, a)
    BY <1>12 DEF PostOpenFails, PutOpenFails
  <2> QED BY <1>3, <1>5, <2>1 DEF WriteLabels, Labels
<1>13. ASSUME NEW t \in Threads, Put(t) PROVE InDirs'
  <2>1. UNCHANGED storage
    BY <1>13 DEF Put
  <2>2. CASE Finish(t, BadRequest)
    BY <1>3, <1>5, <2>1, <2>2 DEF WriteLabels, Labels
  <2>3. CASE OnFile(req[t]) /\ Goto(t, "put_open")
    <3>1. req[t].e \in Entities /\ req[t].id \in Ids
      BY <1>13, ServedTypes DEF Put, Handler, Ready, At
    <3>2. req[t].e \in dirs
      BY <2>3, <3>1 DEF OnFile, InDirs
    <3> QED BY <2>1, <2>3, <3>2, InDirsKept DEF Goto, storage
  <2> QED BY <1>13, <2>2, <2>3 DEF Put
<1>14. ASSUME NEW t \in Threads, Delete(t) \/ DelErase(t) PROVE InDirs'
  <2>1. UNCHANGED storage
    BY <1>14 DEF Delete, DelErase
  <2>2. Goto(t, "del_remove") \/ \E a : Finish(t, a)
    BY <1>14 DEF Delete, DelErase
  <2> QED BY <1>3, <1>5, <2>1, <2>2 DEF WriteLabels, Labels
<1>15. ASSUME NEW t \in Threads, DelRemove(t) PROVE InDirs'
  <2>1. dirs' = dirs /\ (Goto(t, "del_erase") \/ \E a : Finish(t, a))
    BY <1>15 DEF DelRemove
  <2>2. pc'[t] \notin WriteLabels
        /\ \A u \in Threads \ {t} : pc'[u] = pc[u] /\ req'[u] = req[u]
    BY <1>5, <2>1 DEF WriteLabels, Labels
  <2>3. req[t].e \in Entities /\ req[t].id \in Ids
    BY <1>15, ServedTypes DEF DelRemove, At
  <2>4. \A e \in Entities, i \in Ids : files'[e][i] # Absent => files[e][i] # Absent
    <3>1. \/ files' = files
          \/ files' = [files EXCEPT ![req[t].e][req[t].id] = Absent]
      BY <1>15 DEF DelRemove
    <3>2. CASE files' = files
      BY <3>2
    <3>3. ASSUME files' = [files EXCEPT ![req[t].e][req[t].id] = Absent],
                 NEW e \in Entities, NEW i \in Ids, files'[e][i] # Absent
          PROVE  files[e][i] # Absent
      BY <2>3, <3>3
    <3> QED BY <3>1, <3>2, <3>3
  <2> QED BY <2>1, <2>2, <2>4, InDirsKept
<1>16. ASSUME NEW t \in Threads, DelRemoveFails(t) PROVE InDirs'
  BY <1>3, <1>16 DEF DelRemoveFails, Terminate
<1> QED
  BY <1>1, <1>2, <1>4, <1>6, <1>7, <1>8, <1>9, <1>10, <1>11, <1>12, <1>13,
     <1>14, <1>15, <1>16
  DEF Next, Step, Work, HandlePost, HandlePut, HandleDelete

Scanning(t) == pc[t] \in {"scan", "copy", "store"}

(* What t's constructor has still to look at in the directory of e.        *)
Left(t, e) ==
  IF e \in dirsTodo[t] THEN Ids
  ELSE IF e # dir[t] THEN {}
  ELSE todo[t] \cup (IF pc[t] = "scan" THEN {} ELSE {id[t]})

(* The thread is alone with files and index: what its constructor has left *)
(* behind is listed, what it has read is still so when it stores it back,  *)
(* and its handler writes only files that are listed.                      *)
SoloWork(t) ==
  /\ Scanning(t) =>
       \A e \in Entities : FileIds(e) \subseteq Indexed(e) \cup Left(t, e)
  /\ ~Scanning(t) => Covered
  /\ pc[t] = "store" => ids[t] = path_counts[dir[t]]
  /\ pc[t] = "post_take" => ids[t] = path_counts[req[t].e]
  /\ pc[t] \in {"post_open", "post_fill"} => id[t] \in Indexed(req[t].e)
  /\ pc[t] \in {"put_open", "put_fill"} => req[t].id \in Indexed(req[t].e)
  /\ pc[t] = "del_erase" => files[req[t].e][req[t].id] = Absent

SoloThread(t) ==
  /\ pc[t] # "idle" /\ \A u \in Threads \ {t} : pc[u] = "idle"
  /\ SoloWork(t)

SoloInv == InDirs /\ \A t \in Threads : solo[t] => SoloThread(t)

LEMMA ReadyCovered ==
  ASSUME NEW t \in Threads, SoloWork(t), Ready(t)
  PROVE  Covered
BY DEF SoloWork, Ready, At, Scanning, Left, Covered

LEMMA CoveredKept ==
  ASSUME Covered, UNCHANGED <<files, path_counts>>
  PROVE  Covered'
BY DEF Covered, FileIds, Indexed

(* Labels at which a handler has read nothing it relies on.                *)
LEMMA SoloQuiet ==
  ASSUME NEW t \in Threads, Covered',
         pc'[t] \in {"post_read", "get_find", "get_read", "list_read",
                     "del_remove", "respond"}
  PROVE  SoloWork(t)'
BY DEF SoloWork, Scanning

LEMMA SoloScan ==
  ASSUME Inv, NEW t \in Threads, SoloWork(t), Scan(t)
  PROVE  SoloWork(t)'
<1> USE DEF Inv, TypeOK
<1>1. CASE ScanEnter(t)
  <2>1. CASE Terminate
    BY <2>1
    DEF Terminate, storage, index, locals, SoloWork, Scanning, Left, Covered,
        FileIds, Indexed
  <2>2. ASSUME NEW f \in dirsTodo[t],
               /\ dirsTodo' = [dirsTodo EXCEPT ![t] = @ \ {f}]
               /\ dir' = [dir EXCEPT ![t] = f]
               /\ todo' = [todo EXCEPT ![t] = FileIds(f)]
               /\ Goto(t, "scan")
               /\ UNCHANGED <<storage, index, id, ids, linked>>
        PROVE  SoloWork(t)'
    <3>1. pc[t] = "scan" /\ todo[t] = {} /\ pc'[t] = "scan"
      BY <1>1, <2>2 DEF ScanEnter, At, Goto
    <3>2. ASSUME NEW e \in Entities
          PROVE  FileIds(e)' \subseteq Indexed(e)' \cup Left(t, e)'
      <4>1. FileIds(e)' = FileIds(e) /\ Indexed(e)' = Indexed(e)
        BY <2>2 DEF storage, index, FileIds, Indexed
      <4>2. CASE e \in dirsTodo[t] /\ e # f
        BY <2>2, <4>1, <4>2 DEF Left, FileIds
      <4>3. CASE e = f
        BY <2>2, <3>1, <4>1, <4>3 DEF Left, FileIds
      <4>4. CASE e \notin dirsTodo[t]
        <5>1. Left(t, e) = {}
          BY <3>1, <4>4 DEF Left
        <5> QED BY <3>1, <4>1, <5>1 DEF SoloWork, Scanning
      <4> QED BY <4>2, <4>3, <4>4
    <3> QED BY <3>1, <3>2 DEF SoloWork, Scanning
  <2> QED BY <1>1, <2>1, <2>2 DEF ScanEnter
<1>2. CASE ScanEntry(t)
  <2>1. PICK i \in todo[t] :
          /\ todo' = [todo EXCEPT ![t] = @ \ {i}]
          /\ IF files[dir[t]][i] # Absent
             THEN Goto(t, "copy") /\ id' = [id EXCEPT ![t] = i]
             ELSE Goto(t, "scan") /\ id' = id
    BY <1>2 DEF ScanEntry
  <2>2. /\ UNCHANGED <<files, path_counts, dirsTodo, dir>>
        /\ pc[t] = "scan"
        /\ todo'[t] = todo[t] \ {i} /\ i \in Ids
    BY <1>2, <2>1 DEF ScanEntry, At, storage, index
  <2>3. \/ pc'[t] = "copy" /\ id'[t] = i
        \/ pc'[t] = "scan" /\ files[dir[t]][i] = Absent
    BY <2>1 DEF Goto
  <2>4. ASSUME NEW e \in Entities
        PROVE  FileIds(e)' \subseteq Indexed(e)' \cup Left(t, e)'
    <3>1. FileIds(e)' = FileIds(e) /\ Indexed(e)' = Indexed(e)
      BY <2>2 DEF FileIds, Indexed
    <3>2. FileIds(e) \subseteq Indexed(e) \cup Left(t, e)
      BY <2>2 DEF SoloWork, Scanning
    <3>3. FileIds(e) \cap Left(t, e) \subseteq Left(t, e)'
      <4>1. CASE e \in dirsTodo[t] \/ e # dir[t]
        BY <2>2, <4>1 DEF Left
      <4>2. CASE e \notin dirsTodo[t] /\ e = dir[t]
        <5>1. Left(t, e) = todo[t]
          BY <2>2, <4>2 DEF Left
        <5>2. CASE pc'[t] = "copy" /\ id'[t] = i
          <6>1. Left(t, e)' = (todo[t] \ {i}) \cup {i}
            BY <2>2, <4>2, <5>2 DEF Left
          <6> QED BY <5>1, <6>1
        <5>3. CASE pc'[t] = "scan" /\ files[dir[t]][i] = Absent
          <6>1. Left(t, e)' = todo[t] \ {i}
            BY <2>2, <4>2, <5>3 DEF Left
          <6>2. i \notin FileIds(e)
            BY <4>2, <5>3 DEF FileIds
          <6> QED BY <5>1, <6>1, <6>2
        <5> QED BY <2>3, <5>2, <5>3
      <4> QED BY <4>1, <4>2
    <3> QED BY <3>1, <3>2, <3>3
  <2> QED BY <2>3, <2>4 DEF SoloWork, Scanning
<1>3. CASE ScanCopy(t)
  <2>1. /\ pc[t] = "copy" /\ pc'[t] = "store" /\ ids'[t] = path_counts[dir[t]]
        /\ UNCHANGED <<files, path_counts, dir, dirsTodo, todo, id>>
    BY <1>3 DEF ScanCopy, At, Goto, storage
  <2>2. \A e \in Entities : /\ FileIds(e)' = FileIds(e) /\ Indexed(e)' = Indexed(e)
                            /\ Left(t, e)' = Left(t, e)
    BY <2>1 DEF FileIds, Indexed, Left
  <2> QED BY <2>1, <2>2 DEF SoloWork, Scanning
<1>4. CASE ScanStore(t)
  <2>1. /\ pc[t] = "store" /\ pc'[t] = "scan"
        /\ UNCHANGED <<files, dir, dirsTodo, todo>>
        /\ path_counts' =
             [path_counts EXCEPT ![dir[t]] = ScanInsert(ids[t], id[t])]
    BY <1>4 DEF ScanStore, At, Goto, storage, DropLocals
  <2>2. PICK f \in Entities : f = dir[t]
    BY <2>1 DEF ThreadInv
  <2>3. PICK s \in Seq(Positive) : s = path_counts[f] /\ s = ids[t]
    BY <2>1, <2>2, ListTypes DEF SoloWork
  <2>4. PICK i \in Positive : i = id[t]
    BY <2>1, IdsPositive DEF ThreadInv
  <2>5. /\ Indexed(f)' = Indexed(f) \cup {i}
        /\ \A e \in Entities \ {f} : Indexed(e)' = Indexed(e)
    <3>1. path_counts' = [path_counts EXCEPT ![f] = ScanInsert(s, i)]
      BY <2>1, <2>2, <2>3, <2>4
    <3>2. path_counts'[f] = ScanInsert(s, i)
          /\ \A e \in Entities \ {f} : path_counts'[e] = path_counts[e]
      BY <3>1
    <3> QED BY <2>3, <3>2, ScanInsertElements DEF Indexed
  <2>6. ASSUME NEW e \in Entities
        PROVE  FileIds(e)' \subseteq Indexed(e)' \cup Left(t, e)'
    <3>1. FileIds(e)' = FileIds(e)
      BY <2>1 DEF FileIds
    <3>2. FileIds(e) \subseteq Indexed(e) \cup Left(t, e)
      BY <2>1 DEF SoloWork, Scanning
    <3>3. Left(t, e) \subseteq Left(t, e)' \cup (IF e = f THEN {i} ELSE {})
      BY <2>1, <2>2, <2>4 DEF Left
    <3> QED BY <2>5, <3>1, <3>2, <3>3
  <2> QED BY <2>1, <2>6 DEF SoloWork, Scanning
<1> QED BY <1>1, <1>2, <1>3, <1>4 DEF Scan

(* What a handler does to the files and the index, when what it read of    *)
(* the index is still so.                                                  *)
LEMMA CoveredWrite ==
  ASSUME Inv, Covered, NEW e \in Entities, NEW i \in Ids, i \in Indexed(e),
         path_counts' = path_counts,
         files' = files \/ \E c : files' = [files EXCEPT ![e][i] = c]
  PROVE  Covered'
<1>1. ASSUME NEW f \in Entities, NEW j \in Ids, files'[f][j] # Absent
      PROVE  j \in Indexed(f)
  <2>1. files[f][j] # Absent \/ (f = e /\ j = i)
    BY <1>1 DEF Inv, TypeOK
  <2> QED BY <2>1 DEF Covered, FileIds
<1> QED BY <1>1 DEF Covered, FileIds, Indexed

LEMMA CoveredTake ==
  ASSUME Inv, Covered, NEW t \in Threads, PostTake(t),
         ids[t] = path_counts[req[t].e]
  PROVE  /\ \A f \in Entities :
              Indexed(f)' = IF f = req[t].e THEN Indexed(f) \cup {id'[t]}
                                            ELSE Indexed(f)
         /\ Covered'
<1>1. PICK e \in Entities : e = req[t].e
  BY ServedTypes DEF PostTake, At
<1>2. PICK s \in Seq(Positive) : s = path_counts[e] /\ ids[t] = s
  BY <1>1, ListTypes
<1>3. /\ files' = files /\ id'[t] = NextId(s)
      /\ path_counts' = [path_counts EXCEPT ![e] = TakeId(s)]
  BY <1>1, <1>2 DEF PostTake, storage, Inv, TypeOK
<1>4. ToSet(TakeId(s)) = ToSet(s) \cup {id'[t]}
  BY <1>3, TakeIdElements
<1>5. /\ path_counts'[e] = TakeId(s)
      /\ \A f \in Entities \ {e} : path_counts'[f] = path_counts[f]
  BY <1>3 DEF Inv, TypeOK
<1>6. ASSUME NEW f \in Entities
      PROVE  Indexed(f)' = IF f = e THEN Indexed(f) \cup {id'[t]} ELSE Indexed(f)
  BY <1>2, <1>4, <1>5 DEF Indexed
<1>7. \A f \in Entities : FileIds(f)' = FileIds(f)
  BY <1>3 DEF FileIds
<1> QED BY <1>1, <1>6, <1>7 DEF Covered

LEMMA CoveredErase ==
  ASSUME Inv, Covered, NEW t \in Threads, DelErase(t),
         files[req[t].e][req[t].id] = Absent
  PROVE  Covered'
<1> USE DEF Inv, TypeOK
<1>1. files' = files
  BY DEF DelErase, storage
<1>2. CASE path_counts' = path_counts
  BY <1>1, <1>2, CoveredKept
<1>3. CASE path_counts' = [path_counts EXCEPT ![req[t].e] = EraseId(@, req[t].id)]
  <2>1. PICK e \in Entities : e = req[t].e
    BY ServedTypes DEF DelErase, At
  <2>2. PICK s \in Seq(Positive) : s = path_counts[e]
    BY ListTypes
  <2>3. ToSet(s) \ {req[t].id} \subseteq ToSet(EraseId(s, req[t].id))
    BY EraseIdElements
  <2>4. /\ path_counts'[e] = EraseId(s, req[t].id)
        /\ \A f \in Entities \ {e} : path_counts'[f] = path_counts[f]
    BY <1>3, <2>1, <2>2
  <2>5. req[t].id \notin FileIds(e)
    BY <2>1 DEF FileIds
  <2>6. ASSUME NEW f \in Entities PROVE (FileIds(f) \subseteq Indexed(f))'
    <3>1. FileIds(f)' = FileIds(f) /\ FileIds(f) \subseteq Indexed(f)
      BY <1>1 DEF FileIds, Covered
    <3>2. CASE f = e
      BY <2>2, <2>3, <2>4, <2>5, <3>1, <3>2 DEF Indexed
    <3>3. CASE f # e
      BY <2>4, <3>1, <3>3 DEF Indexed
    <3> QED BY <3>2, <3>3
  <2> QED BY <2>6 DEF Covered
<1> QED BY <1>2, <1>3 DEF DelErase

LEMMA SoloPost ==
  ASSUME Inv, NEW t \in Threads, SoloWork(t), HandlePost(t)
  PROVE  SoloWork(t)'
<1> USE DEF Inv, TypeOK
<1>1. CASE PostDir(t)
  <2>1. Covered'
    BY <1>1, ReadyCovered, CoveredKept DEF PostDir, Handler, index
  <2>2. pc'[t] \in {"post_read", "respond"}
    BY <1>1 DEF PostDir, Goto, Finish
  <2> QED BY <2>1, <2>2, SoloQuiet
<1>2. CASE PostRead(t)
  <2>1. /\ pc[t] = "post_read" /\ pc'[t] = "post_take"
        /\ ids'[t] = path_counts[req[t].e]
        /\ UNCHANGED <<files, path_counts, req>>
    BY <1>2 DEF PostRead, At, Goto, storage
  <2>2. Covered'
    BY <2>1, CoveredKept DEF SoloWork, Scanning
  <2> QED BY <2>1, <2>2 DEF SoloWork, Scanning
<1>3. CASE PostTake(t)
  <2>1. /\ pc[t] = "post_take" /\ pc'[t] = "post_open" /\ req' = req
    BY <1>3 DEF PostTake, At, Goto
  <2>2. /\ Covered /\ ids[t] = path_counts[req[t].e] /\ req[t].e \in Entities
    BY <2>1, ServedTypes DEF SoloWork, Scanning
  <2>3. Covered' /\ id'[t] \in Indexed(req[t].e)'
    BY <1>3, <2>1, <2>2, CoveredTake
  <2> QED BY <2>1, <2>3 DEF SoloWork, Scanning
<1>4. CASE PostOpen(t) \/ PostFill(t)
  <2>1. /\ pc[t] \in {"post_open", "post_fill"}
        /\ pc'[t] \in {"post_fill", "respond"}
        /\ pc'[t] = "post_fill" => id' = id
        /\ req' = req /\ path_counts' = path_counts
    BY <1>4 DEF PostOpen, PostFill, At, Goto, Finish, index
  <2>2. files' = files \/ \E c : files' = [files EXCEPT ![req[t].e][id[t]] = c]
    BY <1>4 DEF PostOpen, PostFill, Open, Write
  <2>3. /\ Covered /\ id[t] \in Indexed(req[t].e) /\ id[t] \in Ids
        /\ req[t].e \in Entities
    BY <2>1, ServedTypes DEF SoloWork, Scanning
  <2>4. Covered'
    BY <2>1, <2>2, <2>3, CoveredWrite
  <2>5. pc'[t] = "post_fill" => id'[t] \in Indexed(req[t].e)'
    BY <2>1, <2>3 DEF Indexed
  <2> QED BY <2>1, <2>4, <2>5 DEF SoloWork, Scanning
<1>5. CASE PostOpenFails(t)
  <2>1. Covered'
    BY <1>5, CoveredKept DEF PostOpenFails, At, SoloWork, Scanning, storage, index
  <2> QED BY <1>5, <2>1, SoloQuiet DEF PostOpenFails, Finish
<1> QED BY <1>1, <1>2, <1>3, <1>4, <1>5 DEF HandlePost

LEMMA SoloGet ==
  ASSUME Inv, NEW t \in Threads, SoloWork(t), Refuse(t) \/ HandleGet(t)
  PROVE  SoloWork(t)'
<1>1. UNCHANGED <<files, path_counts>>
  BY DEF Refuse, HandleGet, Get, GetFind, GetRead, List, ListRead, storage, index
<1>2. pc'[t] \in {"get_find", "get_read", "list_read", "respond"}
  BY DEF Refuse, HandleGet, Get, GetFind, GetRead, List, ListRead, Goto, Finish,
         Inv, TypeOK
<1>3. Ready(t) \/ pc[t] \in {"get_find", "get_read", "list_read"}
  BY DEF Refuse, HandleGet, Get, GetFind, GetRead, List, ListRead, Handler, At
<1>4. Covered
  BY <1>3, ReadyCovered DEF SoloWork, Scanning
<1> QED BY <1>1, <1>2, <1>4, CoveredKept, SoloQuiet

LEMMA SoloPut ==
  ASSUME Inv, NEW t \in Threads, SoloWork(t), HandlePut(t)
  PROVE  SoloWork(t)'
<1> USE DEF Inv, TypeOK
<1>0. /\ pc[t] # "idle" /\ req[t].e \in Entities /\ req[t].id \in Ids
      /\ req' = req /\ path_counts' = path_counts
  <2>1. pc[t] # "idle" /\ req' = req /\ path_counts' = path_counts
    BY DEF HandlePut, Put, PutOpen, PutOpenFails, PutFill, Handler, Ready, At,
           Goto, Finish, index
  <2> QED BY <2>1, ServedTypes
<1>1. CASE Put(t)
  <2>1. Covered /\ files' = files
    BY <1>1, ReadyCovered DEF Put, Handler, storage
  <2>2. Covered'
    BY <1>0, <2>1, CoveredKept
  <2>3. CASE Finish(t, BadRequest)
    BY <2>2, <2>3, SoloQuiet DEF Finish
  <2>4. CASE OnFile(req[t]) /\ Goto(t, "put_open")
    <3>1. req[t].id \in Indexed(req[t].e)
      BY <1>0, <2>1, <2>4 DEF OnFile, Covered, FileIds
    <3>2. (req[t].id \in Indexed(req[t].e))' /\ pc'[t] = "put_open"
      BY <1>0, <2>4, <3>1 DEF Indexed, Goto
    <3> QED BY <2>2, <3>2 DEF SoloWork, Scanning
  <2> QED BY <1>1, <2>3, <2>4 DEF Put
<1>2. CASE PutOpen(t) \/ PutFill(t) \/ PutOpenFails(t)
  <2>1. /\ pc[t] \in {"put_open", "put_fill"}
        /\ pc'[t] \in {"put_fill", "respond"}
    BY <1>2 DEF PutOpen, PutFill, PutOpenFails, At, Goto, Finish
  <2>2. files' = files \/ \E c : files' = [files EXCEPT ![req[t].e][req[t].id] = c]
    BY <1>2 DEF PutOpen, PutFill, PutOpenFails, Open, Write, storage
  <2>3. Covered /\ req[t].id \in Indexed(req[t].e)
    BY <2>1 DEF SoloWork, Scanning
  <2>4. Covered'
    BY <1>0, <2>2, <2>3, CoveredWrite
  <2>5. (req[t].id \in Indexed(req[t].e))'
    BY <1>0, <2>3 DEF Indexed
  <2> QED BY <2>1, <2>4, <2>5 DEF SoloWork, Scanning
<1> QED BY <1>1, <1>2 DEF HandlePut

LEMMA SoloDelete ==
  ASSUME Inv, NEW t \in Threads, SoloWork(t), HandleDelete(t)
  PROVE  SoloWork(t)'
<1> USE DEF Inv, TypeOK
<1>1. CASE Delete(t)
  <2>1. Covered'
    BY <1>1, ReadyCovered, CoveredKept DEF Delete, Handler, storage, index
  <2>2. pc'[t] \in {"del_remove", "respond"}
    BY <1>1 DEF Delete, Goto, Finish
  <2> QED BY <2>1, <2>2, SoloQuiet
<1>2. CASE DelRemove(t)
  <2>1. /\ Covered /\ path_counts' = path_counts /\ req' = req
        /\ pc'[t] \in {"del_erase", "respond"}
    BY <1>2 DEF DelRemove, At, SoloWork, Scanning, index, Goto, Finish
  <2>2. req[t].e \in Entities /\ req[t].id \in Ids
    BY <1>2, ServedTypes DEF DelRemove, At
  <2>3. CASE files' = files /\ pc'[t] = "respond"
    BY <2>1, <2>3, CoveredKept, SoloQuiet
  <2>4. CASE files' = [files EXCEPT ![req[t].e][req[t].id] = Absent]
    <3>1. \A f \in Entities : FileIds(f)' \subseteq FileIds(f)
      BY <2>2, <2>4 DEF FileIds
    <3>2. Covered'
      BY <2>1, <3>1 DEF Covered, Indexed
    <3>3. (files[req[t].e][req[t].id] = Absent)'
      BY <2>1, <2>2, <2>4
    <3> QED BY <2>1, <3>2, <3>3 DEF SoloWork, Scanning
  <2> QED BY <1>2, <2>3, <2>4 DEF DelRemove, Finish
<1>3. CASE DelRemoveFails(t)
  BY <1>3
  DEF DelRemoveFails, Terminate, storage, index, locals, SoloWork, Scanning,
      Left, Covered, FileIds, Indexed
<1>4. CASE DelErase(t)
  <2>1. Covered' /\ pc'[t] = "respond"
    BY <1>4, CoveredErase DEF DelErase, At, SoloWork, Scanning, Finish
  <2> QED BY <2>1, SoloQuiet
<1> QED BY <1>1, <1>2, <1>3, <1>4 DEF HandleDelete

(* A step of t is t's alone, and only Respond ends its request.            *)
LEMMA StepFrame ==
  ASSUME Inv, NEW t \in Threads, Step(t)
  PROVE  /\ pc[t] # "idle"
         /\ \A u \in Threads \ {t} : pc'[u] = pc[u]
         /\ ~Respond(t) => pc'[t] # "idle" /\ solo' = solo /\ req' = req
<1> USE DEF Inv, TypeOK
<1>1. ASSUME NEW l, l # "idle", Goto(t, l)
      PROVE  /\ \A u \in Threads \ {t} : pc'[u] = pc[u]
             /\ pc'[t] # "idle" /\ solo' = solo /\ req' = req
  BY <1>1 DEF Goto
<1>2. ASSUME NEW a, Finish(t, a)
      PROVE  /\ \A u \in Threads \ {t} : pc'[u] = pc[u]
             /\ pc'[t] # "idle" /\ solo' = solo /\ req' = req
  BY <1>2 DEF Finish
<1>3. ASSUME Terminate, pc[t] # "idle"
      PROVE  /\ \A u \in Threads \ {t} : pc'[u] = pc[u]
             /\ pc'[t] # "idle" /\ solo' = solo /\ req' = req
  BY <1>3 DEF Terminate
<1>4. CASE Scan(t)
  <2>1. pc[t] # "idle"
    BY <1>4 DEF Scan, ScanEnter, ScanEntry, ScanCopy, ScanStore, At
  <2>2. Terminate \/ \E l \in {"scan", "copy", "store"} : Goto(t, l)
    BY <1>4 DEF Scan, ScanEnter, ScanEntry, ScanCopy, ScanStore
  <2> QED BY <1>1, <1>3, <2>1, <2>2
<1>5. CASE Refuse(t) \/ HandleGet(t)
  <2>1. pc[t] # "idle"
    BY <1>5 DEF Refuse, HandleGet, Get, GetFind, GetRead, List, ListRead,
                Handler, Ready, At
  <2>2. \/ \E l \in {"get_find", "get_read", "list_read"} : Goto(t, l)
        \/ \E a : Finish(t, a)
    BY <1>5 DEF Refuse, HandleGet, Get, GetFind, GetRead, List, ListRead
  <2> QED BY <1>1, <1>2, <2>1, <2>2
<1>6. CASE HandlePost(t)
  <2>1. pc[t] # "idle"
    BY <1>6 DEF HandlePost, PostDir, PostRead, PostTake, PostOpen,
                PostOpenFails, PostFill, Handler, Ready, At
  <2>2. \/ \E l \in {"post_read", "post_take", "post_open", "post_fill"} : Goto(t, l)
        \/ \E a : Finish(t, a)
    BY <1>6 DEF HandlePost, PostDir, PostRead, PostTake, PostOpen,
                PostOpenFails, PostFill
  <2> QED BY <1>1, <1>2, <2>1, <2>2
<1>7. CASE HandlePut(t)
  <2>1. pc[t] # "idle"
    BY <1>7 DEF HandlePut, Put, PutOpen, PutOpenFails, PutFill, Handler, Ready, At
  <2>2. (\E l \in {"put_open", "put_fill"} : Goto(t, l)) \/ \E a : Finish(t, a)
    BY <1>7 DEF HandlePut, Put, PutOpen, PutOpenFails, PutFill
  <2> QED BY <1>1, <1>2, <2>1, <2>2
<1>8. CASE HandleDelete(t)
  <2>1. pc[t] # "idle"
    BY <1>8 DEF HandleDelete, Delete, DelRemove, DelRemoveFails, DelErase,
                Handler, Ready, At
  <2>2. \/ \E l \in {"del_remove", "del_erase"} : Goto(t, l)
        \/ \E a : Finish(t, a)
        \/ Terminate
    BY <1>8 DEF HandleDelete, Delete, DelRemove, DelRemoveFails, DelErase
  <2> QED BY <1>1, <1>2, <1>3, <2>1, <2>2
<1>9. CASE Respond(t)
  BY <1>9 DEF Respond, At
<1> QED BY <1>4, <1>5, <1>6, <1>7, <1>8, <1>9 DEF Step, Work

(* A request that comes in when nothing is served finds every file in a    *)
(* directory its constructor has still to open.                            *)
LEMMA SoloAccept ==
  ASSUME Inv, InDirs, NEW t \in Threads, NEW r \in Workload, Accept(t, r)
  PROVE  \A u \in Threads : solo'[u] => SoloThread(u)'
<1> SUFFICES ASSUME solo'[t], \A u \in Threads : pc[u] = "idle"
             PROVE  SoloThread(t)'
  BY DEF Accept
<1> USE DEF Inv, TypeOK
<1>1. /\ pc'[t] = "scan" /\ \A u \in Threads \ {t} : pc'[u] = "idle"
      /\ files' = files /\ dirsTodo'[t] = dirs
  BY DEF Accept, storage
<1>2. ASSUME NEW e \in Entities
      PROVE  FileIds(e)' \subseteq Left(t, e)'
  <2>1. CASE e \in dirs
    BY <1>1, <2>1 DEF Left, FileIds
  <2>2. CASE e \notin dirs
    BY <1>1, <2>2 DEF InDirs, FileIds
  <2> QED BY <2>1, <2>2
<1>3. SoloWork(t)'
  BY <1>1, <1>2 DEF SoloWork, Scanning
<1> QED BY <1>1, <1>3 DEF SoloThread

LEMMA SoloStep ==
  ASSUME Inv, SoloInv, [Next]_vars
  PROVE  SoloInv'
<1>1. InDirs'
  BY InDirsStep DEF SoloInv
<1>2. CASE UNCHANGED vars \/ RaceCrash
  BY <1>1, <1>2
  DEF vars, RaceCrash, Terminate, storage, index, locals, SoloInv, SoloThread,
      SoloWork, Scanning, Left, Covered, FileIds, Indexed
<1>3. CASE Restart
  BY <1>1, <1>3 DEF Restart, SoloInv
<1>4. ASSUME NEW t \in Threads, NEW r \in Workload, Accept(t, r)
      PROVE  SoloInv'
  BY <1>1, <1>4, SoloAccept DEF SoloInv
<1>5. ASSUME NEW t \in Threads, Step(t)
      PROVE  SoloInv'
  <2>1. ASSUME NEW u \in Threads, solo[u] PROVE u = t
    BY <1>5, <2>1, StepFrame DEF SoloInv, SoloThread
  <2>2. CASE Respond(t)
    <3>1. \A u \in Threads : ~solo'[u]
      BY <2>1, <2>2 DEF Respond, Inv, TypeOK
    <3> QED BY <1>1, <3>1 DEF SoloInv
  <2>3. CASE ~Respond(t)
    <3>1. /\ solo' = solo /\ pc'[t] # "idle"
          /\ \A u \in Threads \ {t} : pc'[u] = pc[u]
      BY <1>5, <2>3, StepFrame
    <3>2. ASSUME solo[t] PROVE SoloThread(t)'
      <4>1. SoloWork(t)'
        BY <1>5, <2>3, <3>2, SoloScan, SoloGet, SoloPost, SoloPut, SoloDelete
        DEF Step, Work, SoloInv, SoloThread
      <4>2. \A u \in Threads \ {t} : pc'[u] = "idle"
        BY <3>1, <3>2 DEF SoloInv, SoloThread
      <4> QED BY <3>1, <4>1, <4>2 DEF SoloThread
    <3> QED BY <1>1, <2>1, <3>1, <3>2 DEF SoloInv
  <2> QED BY <2>2, <2>3
<1> QED BY <1>2, <1>3, <1>4, <1>5 DEF Next

LEMMA SoloInit == Init => SoloInv
BY DEF Init, SoloInv, InDirs, WriteLabels

(* Whatever racing constructors, POSTs and DELETEs have done to the index, *)
(* whatever crash or failed write went before: a request that is alone     *)
(* while its constructor runs finds every stored file listed when its      *)
(* handler starts.  The iterator finds every file (InDirs), each file it   *)
(* has passed is listed and stays so, since nobody else writes (SoloWork). *)
THEOREM SoloRecovery == Spec => []SoloScanRecovers
<1>1. Inv /\ SoloInv => SoloScanRecovers
  BY ReadyCovered DEF SoloInv, SoloThread, SoloScanRecovers, Covered
<1> QED BY <1>1, InvInit, InvStep, SoloInit, SoloStep, PTL DEF Spec

(* With one thread every request is alone.                                 *)
OneSolo == \A t \in Threads : pc[t] # "idle" => solo[t]

LEMMA OneSoloStep ==
  ASSUME OneThread, Inv, OneSolo, [Next]_vars
  PROVE  OneSolo'
<1> USE DEF Inv, TypeOK
<1>1. CASE UNCHANGED vars \/ RaceCrash
  BY <1>1 DEF vars, RaceCrash, Terminate, OneSolo
<1>2. CASE Restart
  BY <1>2 DEF Restart, OneSolo
<1>3. ASSUME NEW t \in Threads, NEW r \in Workload, Accept(t, r)
      PROVE  OneSolo'
  BY <1>3 DEF Accept, At, OneThread, OneSolo
<1>4. ASSUME NEW t \in Threads, Step(t)
      PROVE  OneSolo'
  <2>1. CASE Respond(t)
    BY <2>1 DEF Respond, OneThread, OneSolo
  <2>2. CASE ~Respond(t)
    BY <1>4, <2>2, StepFrame DEF OneThread, OneSolo
  <2> QED BY <2>1, <2>2
<1> QED BY <1>1, <1>2, <1>3, <1>4 DEF Next

(* With one worker thread, wherever the process died and was started       *)
(* again and whatever creations, opens and removals failed, every file on  *)
(* the disk is listed when a handler starts: GET and LIST reach all that   *)
(* survived.                                                               *)
THEOREM SerialRecovery ==
  ASSUME OneThread
  PROVE  Spec => []IndexRecovered
<1>1. Init => OneSolo
  BY DEF Init, OneSolo
<1>2. Inv /\ SoloInv /\ OneSolo => IndexRecovered
  BY ReadyCovered DEF SoloInv, SoloThread, OneSolo, IndexRecovered, Covered,
                      Ready, At
<1> QED
  BY <1>1, <1>2, InvInit, InvStep, SoloInit, SoloStep, OneSoloStep, PTL DEF Spec

-----------------------------------------------------------------------------
(* One request at a time.                                                  *)

(* What a thread has read is still so when it uses it, and the file it is  *)
(* about to write is listed.                                               *)
SerialThread(t) ==
  /\ pc[t] = "copy" => id[t] \in Indexed(dir[t])
  /\ pc[t] = "store" => /\ ids[t] = path_counts[dir[t]]
                        /\ id[t] \in ToSet(ids[t])
  /\ pc[t] = "post_take" => ids[t] = path_counts[req[t].e]
  /\ pc[t] = "post_open" => /\ files[req[t].e][id[t]] = Absent
                            /\ id[t] \in Indexed(req[t].e)
  /\ pc[t] = "post_fill" => id[t] \in Indexed(req[t].e)
  /\ pc[t] \in {"put_open", "put_fill"} => req[t].id \in Indexed(req[t].e)
  /\ pc[t] = "del_erase" => files[req[t].e][req[t].id] = Absent

SerialInv == IndexInOrder /\ Covered /\ \A t \in Threads : SerialThread(t)

LEMMA SerialInit == Init => SerialInv
<1> SUFFICES ASSUME Init PROVE SerialInv
  OBVIOUS
<1>1. IndexInOrder
  BY DEF Init, IndexInOrder, InOrder
<1>2. Covered /\ \A t \in Threads : SerialThread(t)
  BY DEF Init, Covered, FileIds, SerialThread
<1> QED BY <1>1, <1>2 DEF SerialInv

(* A step that leaves files and index alone and ends at a label that       *)
(* promises nothing.                                                       *)
LEMMA SerialQuiet ==
  ASSUME OneThread, SerialInv, NEW t \in Threads,
         UNCHANGED <<files, path_counts>>,
         pc'[t] \notin {"copy", "store", "post_take", "post_open", "post_fill",
                       "put_open", "put_fill", "del_erase"}
  PROVE  SerialInv'
BY DEF OneThread, SerialInv, IndexInOrder, Covered, FileIds, Indexed, SerialThread

LEMMA SerialScan ==
  ASSUME OneThread, Inv, SerialInv, NEW t \in Threads, Scan(t)
  PROVE  SerialInv'
<1> USE DEF Inv, TypeOK
<1>1. CASE ScanEnter(t)
  <2>1. CASE Terminate
    BY <2>1
    DEF Terminate, storage, index, locals, SerialInv, IndexInOrder, Covered,
        FileIds, Indexed, SerialThread
  <2>2. CASE /\ Goto(t, "scan")
             /\ UNCHANGED <<storage, index, id, ids, linked>>
    BY <2>2, SerialQuiet DEF Goto, storage, index
  <2> QED BY <1>1, <2>1, <2>2 DEF ScanEnter
<1>2. CASE ScanEntry(t)
  <2>1. PICK i \in todo[t] :
          IF files[dir[t]][i] # Absent
          THEN Goto(t, "copy") /\ id' = [id EXCEPT ![t] = i]
          ELSE Goto(t, "scan") /\ id' = id
    BY <1>2 DEF ScanEntry
  <2>2. UNCHANGED <<files, path_counts, dir>> /\ i \in Ids /\ dir[t] \in Entities
    BY <1>2, <2>1 DEF ScanEntry, storage, index, ThreadInv
  <2>3. CASE Goto(t, "scan")
    BY <2>2, <2>3, SerialQuiet DEF Goto
  <2>4. CASE /\ files[dir[t]][i] # Absent /\ Goto(t, "copy")
             /\ id' = [id EXCEPT ![t] = i]
    <3>1. pc'[t] = "copy" /\ id'[t] = i /\ dir' = dir
      BY <2>2, <2>4 DEF Goto
    <3>2. i \in Indexed(dir[t])
      BY <2>2, <2>4 DEF SerialInv, Covered, FileIds
    <3>3. Indexed(dir[t])' = Indexed(dir[t])
      BY <2>2 DEF Indexed
    <3>4. SerialThread(t)'
      BY <3>1, <3>2, <3>3 DEF SerialThread
    <3>5. (IndexInOrder /\ Covered)'
      BY <2>2 DEF SerialInv, IndexInOrder, Covered, FileIds, Indexed
    <3> QED BY <3>4, <3>5 DEF OneThread, SerialInv
  <2> QED BY <2>1, <2>3, <2>4
<1>3. CASE ScanCopy(t)
  <2>1. /\ pc[t] = "copy" /\ pc'[t] = "store" /\ ids'[t] = path_counts[dir[t]]
        /\ UNCHANGED <<files, path_counts, dir, id>>
    BY <1>3 DEF ScanCopy, At, Goto, storage
  <2>2. id[t] \in ToSet(path_counts[dir[t]])
    BY <2>1 DEF SerialInv, SerialThread, Indexed
  <2>3. SerialThread(t)'
    BY <2>1, <2>2 DEF SerialThread
  <2>4. (IndexInOrder /\ Covered)'
    BY <2>1 DEF SerialInv, IndexInOrder, Covered, FileIds, Indexed
  <2> QED BY <2>3, <2>4 DEF OneThread, SerialInv
<1>4. CASE ScanStore(t)
  <2>1. /\ pc[t] = "store" /\ pc'[t] = "scan" /\ files' = files
        /\ path_counts' =
             [path_counts EXCEPT ![dir[t]] = ScanInsert(ids[t], id[t])]
    BY <1>4 DEF ScanStore, At, Goto, storage
  <2>2. ScanInsert(ids[t], id[t]) = path_counts[dir[t]]
    BY <2>1 DEF SerialInv, SerialThread, ScanInsert
  <2>3. path_counts' = path_counts
    BY <2>1, <2>2
  <2> QED BY <2>1, <2>3, SerialQuiet
<1> QED BY <1>1, <1>2, <1>3, <1>4 DEF Scan

(* getNextID on a list in order: the id it takes has no file.              *)
LEMMA SerialTake ==
  ASSUME OneThread, Inv, SerialInv, NEW t \in Threads, PostTake(t)
  PROVE  SerialInv'
<1>1. PICK e \in Entities : e = req[t].e
  BY ServedTypes DEF PostTake, At
<1>2. PICK s \in Seq(Positive) : s = path_counts[e]
  BY ListTypes
<1>3. /\ InOrder(s) /\ FileIds(e) \subseteq ToSet(s)
      /\ ids[t] = s
  BY <1>1, <1>2
  DEF PostTake, At, SerialInv, IndexInOrder, Covered, Indexed, SerialThread
<1>4. PICK n : n = NextId(s)
  OBVIOUS
<1>5. /\ n \notin ToSet(s)
      /\ InOrder(TakeId(s)) /\ ToSet(TakeId(s)) = ToSet(s) \cup {n}
  BY <1>3, <1>4, NextIdFree, TakeIdKeepsOrder, TakeIdElements, ToSetSeq
<1>6. /\ files' = files /\ req' = req
      /\ path_counts' = [path_counts EXCEPT ![e] = TakeId(s)]
      /\ id'[t] = n /\ pc'[t] = "post_open" /\ n <= MaxId
  BY <1>1, <1>3, <1>4 DEF PostTake, Goto, storage, Inv, TypeOK
<1>7. n \in Ids
  <2>1. n \in Positive
    BY <1>3, <1>4, NextIdFree
  <2> QED BY <1>6, <2>1, TypesAssumption DEF Ids, Positive
<1>8. path_counts'[e] = TakeId(s) /\ \A f \in Entities \ {e} : path_counts'[f] = path_counts[f]
  BY <1>6 DEF Inv, TypeOK
<1>9. IndexInOrder'
  BY <1>5, <1>8 DEF SerialInv, IndexInOrder
<1>10. Covered'
  BY <1>1, <1>2, <1>3, CoveredTake DEF SerialInv
<1>11. SerialThread(t)'
  <2>1. files[e][n] = Absent
    BY <1>3, <1>5, <1>7 DEF FileIds
  <2>2. n \in Indexed(e)'
    BY <1>5, <1>8 DEF Indexed
  <2>3. n \in Indexed(req[t].e)'
    BY <1>1, <1>6, <2>2 DEF Indexed
  <2> QED BY <1>1, <1>6, <2>1, <2>3 DEF SerialThread
<1> QED BY <1>9, <1>10, <1>11 DEF OneThread, SerialInv

(* Writing a file whose id is listed.                                      *)
LEMMA SerialWrite ==
  ASSUME OneThread, Inv, SerialInv, NEW t \in Threads, NEW e \in Entities,
         NEW i \in Ids, i \in Indexed(e), path_counts' = path_counts,
         files' = files \/ \E c : files' = [files EXCEPT ![e][i] = c]
  PROVE  (IndexInOrder /\ Covered)'
<1>1. IndexInOrder'
  BY DEF SerialInv, IndexInOrder
<1>2. Covered'
  BY CoveredWrite DEF SerialInv
<1> QED BY <1>1, <1>2

LEMMA SerialPost ==
  ASSUME OneThread, Inv, SerialInv, NEW t \in Threads, HandlePost(t)
  PROVE  SerialInv'
<1> USE DEF Inv, TypeOK
<1>1. CASE PostDir(t)
  BY <1>1, SerialQuiet DEF PostDir, Goto, Finish, index
<1>2. CASE PostRead(t)
  <2>1. /\ pc'[t] = "post_take" /\ ids'[t] = path_counts[req[t].e]
        /\ UNCHANGED <<files, path_counts, req>>
    BY <1>2 DEF PostRead, Goto, storage
  <2>2. SerialThread(t)'
    BY <2>1 DEF SerialThread
  <2>3. (IndexInOrder /\ Covered)'
    BY <2>1 DEF SerialInv, IndexInOrder, Covered, FileIds, Indexed
  <2> QED BY <2>2, <2>3 DEF OneThread, SerialInv
<1>3. CASE PostTake(t)
  BY <1>3, SerialTake
<1>4. CASE PostOpen(t)
  <2>1. /\ req[t].e \in Entities /\ id[t] \in Ids /\ id[t] \in Indexed(req[t].e)
    BY <1>4, ServedTypes DEF PostOpen, At, SerialInv, SerialThread
  <2>2. /\ files' = [files EXCEPT ![req[t].e][id[t]] = Empty]
        /\ UNCHANGED <<path_counts, req, id>> /\ pc'[t] = "post_fill"
    BY <1>4 DEF PostOpen, Open, Goto, index
  <2>3. SerialThread(t)'
    BY <2>1, <2>2 DEF SerialThread, Indexed
  <2> QED BY <2>1, <2>2, <2>3, SerialWrite DEF OneThread, SerialInv
<1>5. CASE PostOpenFails(t)
  BY <1>5, SerialQuiet DEF PostOpenFails, Finish, storage, index
<1>6. CASE PostFill(t)
  <2>1. /\ req[t].e \in Entities /\ id[t] \in Ids /\ id[t] \in Indexed(req[t].e)
    BY <1>6, ServedTypes DEF PostFill, At, SerialInv, SerialThread
  <2>2. /\ path_counts' = path_counts /\ pc'[t] = "respond"
        /\ files' = files \/ \E c : files' = [files EXCEPT ![req[t].e][id[t]] = c]
    BY <1>6 DEF PostFill, Write, Finish, index
  <2>3. SerialThread(t)'
    BY <2>2 DEF SerialThread
  <2> QED BY <2>1, <2>2, <2>3, SerialWrite DEF OneThread, SerialInv
<1> QED BY <1>1, <1>2, <1>3, <1>4, <1>5, <1>6 DEF HandlePost

LEMMA SerialGet ==
  ASSUME OneThread, Inv, SerialInv, NEW t \in Threads,
         Refuse(t) \/ HandleGet(t) \/ Respond(t)
  PROVE  SerialInv'
<1>1. /\ UNCHANGED <<files, path_counts>>
      /\ pc'[t] \in {"respond", "get_find", "get_read", "list_read", "idle"}
  BY DEF Refuse, HandleGet, Get, GetFind, GetRead, List, ListRead, Respond,
         Goto, Finish, storage, index, Inv, TypeOK
<1> QED BY <1>1, SerialQuiet

(* The file handle_put found is listed, so what it writes stays covered.   *)
LEMMA SerialPut ==
  ASSUME OneThread, Inv, SerialInv, NEW t \in Threads, HandlePut(t)
  PROVE  SerialInv'
<1> USE DEF Inv, TypeOK
<1>0. pc[t] # "idle" /\ req[t].e \in Entities /\ req[t].id \in Ids
  <2>1. pc[t] # "idle"
    BY DEF HandlePut, Put, PutOpen, PutOpenFails, PutFill, Handler, Ready, At
  <2> QED BY <2>1, ServedTypes
<1>1. CASE Put(t)
  <2>1. CASE Finish(t, BadRequest)
    BY <1>1, <2>1, SerialQuiet DEF Put, Finish, storage, index
  <2>2. CASE OnFile(req[t]) /\ Goto(t, "put_open")
    <3>1. /\ UNCHANGED <<files, path_counts, req>> /\ pc'[t] = "put_open"
      BY <1>1, <2>2 DEF Put, Goto, storage, index
    <3>2. req[t].id \in Indexed(req[t].e)
      BY <1>0, <2>2 DEF OnFile, SerialInv, Covered, FileIds
    <3>3. SerialThread(t)'
      BY <3>1, <3>2 DEF SerialThread, Indexed
    <3>4. (IndexInOrder /\ Covered)'
      BY <3>1 DEF SerialInv, IndexInOrder, Covered, FileIds, Indexed
    <3> QED BY <3>3, <3>4 DEF OneThread, SerialInv
  <2> QED BY <1>1, <2>1, <2>2 DEF Put
<1>2. CASE PutOpen(t)
  <2>1. req[t].id \in Indexed(req[t].e)
    BY <1>2 DEF PutOpen, At, SerialInv, SerialThread
  <2>2. /\ files' = [files EXCEPT ![req[t].e][req[t].id] = Empty]
        /\ UNCHANGED <<path_counts, req>> /\ pc'[t] = "put_fill"
    BY <1>2 DEF PutOpen, Open, Goto, index
  <2>3. SerialThread(t)'
    BY <2>1, <2>2 DEF SerialThread, Indexed
  <2> QED BY <1>0, <2>1, <2>2, <2>3, SerialWrite DEF OneThread, SerialInv
<1>3. CASE PutOpenFails(t)
  BY <1>3, SerialQuiet DEF PutOpenFails, Finish, storage, index
<1>4. CASE PutFill(t)
  <2>1. req[t].id \in Indexed(req[t].e)
    BY <1>4 DEF PutFill, At, SerialInv, SerialThread
  <2>2. /\ path_counts' = path_counts /\ pc'[t] = "respond"
        /\ \/ files' = files
           \/ \E c : files' = [files EXCEPT ![req[t].e][req[t].id] = c]
    BY <1>4 DEF PutFill, Write, Finish, index
  <2>3. SerialThread(t)'
    BY <2>2 DEF SerialThread
  <2> QED BY <1>0, <2>1, <2>2, <2>3, SerialWrite DEF OneThread, SerialInv
<1> QED BY <1>1, <1>2, <1>3, <1>4 DEF HandlePut

(* handle_delete erases an id only after its file is gone.                 *)
LEMMA SerialDelete ==
  ASSUME OneThread, Inv, SerialInv, NEW t \in Threads, HandleDelete(t)
  PROVE  SerialInv'
<1> USE DEF Inv, TypeOK
<1>0. pc[t] # "idle" /\ req[t].e \in Entities /\ req[t].id \in Ids
  <2>1. pc[t] # "idle"
    BY DEF HandleDelete, Delete, DelRemove, DelRemoveFails, DelErase, Handler,
           Ready, At
  <2> QED BY <2>1, ServedTypes
<1>1. CASE Delete(t)
  BY <1>1, SerialQuiet DEF Delete, Goto, Finish, storage, index
<1>2. CASE DelRemove(t)
  <2>1. CASE Finish(t, BadRequest) /\ files' = files
    BY <1>2, <2>1, SerialQuiet DEF DelRemove, Finish, index
  <2>2. CASE /\ files' = [files EXCEPT ![req[t].e][req[t].id] = Absent]
             /\ Goto(t, "del_erase")
    <3>1. UNCHANGED <<path_counts, req>> /\ pc'[t] = "del_erase"
      BY <1>2, <2>2 DEF DelRemove, Goto, index
    <3>2. SerialThread(t)'
      BY <1>0, <2>2, <3>1 DEF SerialThread
    <3>3. \A f \in Entities : FileIds(f)' \subseteq FileIds(f)
      BY <1>0, <2>2 DEF FileIds
    <3>4. (IndexInOrder /\ Covered)'
      BY <3>1, <3>3 DEF SerialInv, IndexInOrder, Covered, Indexed
    <3> QED BY <3>2, <3>4 DEF OneThread, SerialInv
  <2> QED BY <1>2, <2>1, <2>2 DEF DelRemove
<1>3. CASE DelRemoveFails(t)
  BY <1>3
  DEF DelRemoveFails, Terminate, storage, index, locals, SerialInv,
      IndexInOrder, Covered, FileIds, Indexed, SerialThread
<1>4. CASE DelErase(t)
  <2>1. pc'[t] = "respond" /\ files' = files
    BY <1>4 DEF DelErase, Finish, storage
  <2>2. CASE path_counts' = path_counts
    BY <2>1, <2>2, SerialQuiet
  <2>3. CASE path_counts' =
               [path_counts EXCEPT ![req[t].e] = EraseId(@, req[t].id)]
    <3>1. PICK s \in Seq(Positive) : s = path_counts[req[t].e]
      BY <1>0, ListTypes
    <3>2. InOrder(EraseId(s, req[t].id))
      BY <1>0, <3>1, EraseIdKeepsOrder DEF SerialInv, IndexInOrder
    <3>3. /\ path_counts'[req[t].e] = EraseId(s, req[t].id)
          /\ \A f \in Entities \ {req[t].e} : path_counts'[f] = path_counts[f]
      BY <1>0, <2>3, <3>1
    <3>4. IndexInOrder'
      BY <3>2, <3>3 DEF SerialInv, IndexInOrder
    <3>5. Covered'
      BY <1>4, CoveredErase DEF DelErase, At, SerialInv, SerialThread
    <3>6. SerialThread(t)'
      BY <2>1 DEF SerialThread
    <3> QED BY <3>4, <3>5, <3>6 DEF OneThread, SerialInv
  <2> QED BY <1>4, <2>2, <2>3 DEF DelErase
<1> QED BY <1>1, <1>2, <1>3, <1>4 DEF HandleDelete

LEMMA SerialStep ==
  ASSUME OneThread, Inv, SerialInv, [Next]_vars, ~Restart
  PROVE  SerialInv'
<1>1. CASE UNCHANGED vars
  BY <1>1
  DEF vars, storage, index, locals, SerialInv, IndexInOrder, Covered, FileIds,
      Indexed, SerialThread
<1>2. ASSUME NEW t \in Threads, NEW r \in Workload, Accept(t, r)
      PROVE  SerialInv'
  <2>1. UNCHANGED <<files, path_counts>> /\ pc'[t] = "scan"
    BY <1>2 DEF Accept, storage, index, Inv, TypeOK
  <2> QED BY <2>1, SerialQuiet
<1>3. ASSUME NEW t \in Threads, Step(t) PROVE SerialInv'
  BY <1>3, SerialScan, SerialGet, SerialPost, SerialPut, SerialDelete
  DEF Step, Work
<1>4. ~RaceCrash
  BY DEF RaceCrash, OneThread
<1> QED BY <1>1, <1>2, <1>3, <1>4 DEF Next

(* Nothing but a restart counts as one.                                    *)
LEMMA RestartsCounted ==
  ASSUME Inv, [Next]_vars
  PROVE  \/ ~Restart /\ restarts' = restarts
         \/ Restart /\ restarts' # 0
<1>1. CASE Restart
  BY <1>1 DEF Restart, Inv, TypeOK
<1>2. CASE UNCHANGED vars
  BY <1>1, <1>2 DEF vars
<1>3. ASSUME NEW t \in Threads, NEW r \in Workload, Accept(t, r)
      PROVE  restarts' = restarts
  BY <1>3 DEF Accept
<1>4. ASSUME NEW t \in Threads, Scan(t) \/ Refuse(t) \/ Respond(t)
      PROVE  restarts' = restarts
  BY <1>4 DEF Scan, ScanEnter, ScanEntry, ScanCopy, ScanStore, Refuse, Respond,
              Goto, Finish, Terminate
<1>5. ASSUME NEW t \in Threads, HandlePost(t) \/ HandleGet(t)
      PROVE  restarts' = restarts
  BY <1>5 DEF HandlePost, PostDir, PostRead, PostTake, PostOpen, PostOpenFails,
              PostFill, HandleGet, Get, GetFind, GetRead, List, ListRead, Goto,
              Finish, Terminate
<1>6. ASSUME NEW t \in Threads, HandlePut(t) \/ HandleDelete(t)
      PROVE  restarts' = restarts
  BY <1>6 DEF HandlePut, Put, PutOpen, PutOpenFails, PutFill, HandleDelete,
              Delete, DelRemove, DelRemoveFails, DelErase, Goto, Finish,
              Terminate
<1>7. ASSUME RaceCrash PROVE restarts' = restarts
  BY <1>7 DEF RaceCrash, Terminate
<1> QED BY <1>1, <1>2, <1>3, <1>4, <1>5, <1>6, <1>7 DEF Next, Step, Work

(* With one worker thread and until the process is started again, a POST   *)
(* never truncates a stored item, whatever requests came before and        *)
(* whatever opens and removals have failed: the lists stay in order, no    *)
(* file is missing from them, and the id behind the first run of such a    *)
(* list is free.                                                           *)
THEOREM SerialPostIds ==
  ASSUME OneThread
  PROVE  Spec => [](PostIdFresh /\ IndexOrdered)
<1> DEFINE FirstRun == restarts = 0 => SerialInv
<1>1. Init => Inv /\ FirstRun
  BY InvInit, SerialInit
<1>2. Inv /\ FirstRun /\ [Next]_vars => (Inv /\ FirstRun)'
  BY InvStep, SerialStep, RestartsCounted
<1>3. Inv /\ FirstRun => PostIdFresh /\ IndexOrdered
  BY DEF SerialInv, SerialThread, PostIdAvailable, OneThread, PostIdFresh,
         IndexOrdered
<1> QED BY <1>1, <1>2, <1>3, PTL DEF Spec

-----------------------------------------------------------------------------
(* One request at a time, nothing fails, and the process lives: the index  *)
(* lists exactly the files.                                                *)

Undisturbed == OneThread /\ ~Faults /\ MaxRestarts = 0

(* The id that is listed and has no file: a POST lists its id before it    *)
(* creates the file, a DELETE removes the file before it erases the id.    *)
Extra(t, e) ==
  IF req[t].e # e THEN {}
  ELSE IF pc[t] = "post_open" THEN {id[t]}
  ELSE IF pc[t] = "del_erase" THEN {req[t].id}
  ELSE {}

ExactIndex(t) ==
  \A e \in Entities : /\ Indexed(e) \subseteq FileIds(e) \cup Extra(t, e)
                      /\ Indexed(e) # {} => e \in keys

(* What t's handler has checked is still so, and the stream it opened has  *)
(* its file, which is still empty.                                         *)
ExactThread(t) ==
  /\ pc[t] = "idle" => req[t] = NoRequest
  /\ pc[t] = "post_take" => req[t].e \in keys
  /\ pc[t] \in {"get_find", "get_read"} => IsGet(req[t]) /\ OnFile(req[t])
  /\ pc[t] = "get_read" => req[t].target = "item"
  /\ pc[t] = "list_read" => IsList(req[t])
  /\ pc[t] \in {"put_open", "del_remove"} => OnFile(req[t])
  /\ pc[t] = "post_fill" => linked[t] /\ files[req[t].e][id[t]] = Empty
  /\ pc[t] = "put_fill" => linked[t] /\ files[req[t].e][req[t].id] = Empty
  /\ pc[t] = "del_erase" => req[t].id \in Indexed(req[t].e)

ExactInv == \A t \in Threads : ExactIndex(t) /\ ExactThread(t)

LEMMA ExactInit == Init => ExactInv
<1> SUFFICES ASSUME Init, NEW t \in Threads PROVE ExactIndex(t) /\ ExactThread(t)
  BY DEF ExactInv
<1>1. ToSet(<<>>) = {}
  BY DEF ToSet
<1>2. \A e \in Entities : Indexed(e) = {}
  BY <1>1 DEF Init, Indexed
<1> QED BY <1>2 DEF Init, ExactIndex, ExactThread

(* Steps that change neither files nor lists and owe nothing before.       *)
LEMMA ExactIndexKept ==
  ASSUME NEW t \in Threads, ExactIndex(t), UNCHANGED <<files, path_counts>>,
         keys \subseteq keys', pc[t] \notin {"post_open", "del_erase"}
  PROVE  ExactIndex(t)'
<1>1. ASSUME NEW e \in Entities
      PROVE  /\ FileIds(e)' = FileIds(e) /\ Indexed(e)' = Indexed(e)
             /\ Extra(t, e) = {}
  BY DEF FileIds, Indexed, Extra
<1> QED BY <1>1 DEF ExactIndex

LEMMA ExactQuiet ==
  ASSUME NEW t \in Threads, ExactIndex(t), UNCHANGED <<files, path_counts>>,
         keys \subseteq keys', pc[t] \notin {"post_open", "del_erase"},
         pc'[t] \in {"scan", "copy", "store", "post_read", "respond"}
  PROVE  (ExactIndex(t) /\ ExactThread(t))'
BY ExactIndexKept DEF ExactThread

LEMMA ExactScan ==
  ASSUME Undisturbed, Inv, SerialInv, NEW t \in Threads, ExactIndex(t),
         ExactThread(t), Scan(t)
  PROVE  (ExactIndex(t) /\ ExactThread(t))'
<1> USE DEF Inv, TypeOK
<1>1. CASE Terminate
  BY <1>1
  DEF Terminate, storage, index, locals, ExactIndex, ExactThread, Extra,
      FileIds, Indexed, OnFile
<1>2. CASE ~Terminate /\ (ScanEnter(t) \/ ScanEntry(t) \/ ScanCopy(t))
  <2>1. /\ pc[t] \in {"scan", "copy"} /\ pc'[t] \in {"scan", "copy", "store"}
        /\ UNCHANGED <<files, path_counts>> /\ keys \subseteq keys'
    BY <1>2 DEF ScanEnter, ScanEntry, ScanCopy, At, Goto, storage, index
  <2> QED BY <2>1, ExactQuiet
<1>3. CASE ScanStore(t)
  <2>1. /\ pc[t] = "store" /\ pc'[t] = "scan" /\ UNCHANGED <<files, keys>>
        /\ path_counts' =
             [path_counts EXCEPT ![dir[t]] = ScanInsert(ids[t], id[t])]
    BY <1>3 DEF ScanStore, At, Goto, storage
  <2>2. ScanInsert(ids[t], id[t]) = path_counts[dir[t]]
    BY <2>1 DEF SerialInv, SerialThread, ScanInsert
  <2>3. path_counts' = path_counts
    BY <2>1, <2>2
  <2> QED BY <2>1, <2>3, ExactQuiet
<1> QED BY <1>1, <1>2, <1>3 DEF Scan

LEMMA ExactGet ==
  ASSUME Inv, NEW t \in Threads, ExactIndex(t), ExactThread(t),
         Refuse(t) \/ HandleGet(t) \/ Respond(t)
  PROVE  (ExactIndex(t) /\ ExactThread(t))'
<1> USE DEF Inv, TypeOK
<1>1. UNCHANGED <<files, path_counts, keys>>
  BY DEF Refuse, HandleGet, Get, GetFind, GetRead, List, ListRead, Respond,
         storage, index
<1>2. pc[t] \in {"scan", "get_find", "get_read", "list_read", "respond"}
  BY DEF Refuse, HandleGet, Get, GetFind, GetRead, List, ListRead, Respond,
         Handler, Ready, At
<1>3. ExactIndex(t)'
  BY <1>1, <1>2, ExactIndexKept
<1>4. CASE \E a : Finish(t, a)
  BY <1>1, <1>2, <1>4, ExactQuiet DEF Finish
<1>5. CASE Get(t) /\ OnFile(req[t]) /\ Goto(t, "get_find")
  <2>1. pc'[t] = "get_find" /\ req' = req /\ IsGet(req[t]) /\ OnFile(req[t])
    BY <1>5 DEF Get, Goto
  <2> QED BY <1>1, <1>3, <2>1 DEF ExactThread, OnFile
<1>6. CASE GetFind(t) /\ Goto(t, "get_read")
  <2>1. /\ pc[t] = "get_find" /\ pc'[t] = "get_read" /\ req' = req
        /\ req[t].target = "item"
    BY <1>6 DEF GetFind, HasKey, At, Goto, Finish
  <2> QED BY <1>1, <1>3, <2>1 DEF ExactThread, OnFile
<1>7. CASE List(t) /\ Goto(t, "list_read")
  <2>1. pc'[t] = "list_read" /\ req' = req /\ IsList(req[t])
    BY <1>7 DEF List, Goto
  <2> QED BY <1>3, <2>1 DEF ExactThread
<1>8. CASE Respond(t)
  <2>1. pc'[t] = "idle" /\ req'[t] = NoRequest
    BY <1>8 DEF Respond
  <2> QED BY <1>3, <2>1 DEF ExactThread
<1> QED
  BY <1>4, <1>5, <1>6, <1>7, <1>8
  DEF Refuse, HandleGet, Get, GetFind, GetRead, List, ListRead

(* The write of a stream that is alone with its file.                      *)
LEMMA WriteEmpty ==
  ASSUME NEW t, NEW e, NEW i, NEW b, Write(t, e, i, b), linked[t],
         files[e][i] = Empty
  PROVE  files' = [files EXCEPT ![e][i] = b]
BY DEF Write

(* Changing the content of one file.                                       *)
LEMMA FileWritten ==
  ASSUME Inv, NEW e \in Entities, NEW i \in Ids, NEW c, c # Absent,
         files' = [files EXCEPT ![e][i] = c]
  PROVE  /\ files'[e][i] = c
         /\ \A f \in Entities :
              FileIds(f)' = FileIds(f) \cup IF f = e THEN {i} ELSE {}
<1> USE DEF Inv, TypeOK
<1>1. files'[e][i] = c /\ \A j \in Ids \ {i} : files'[e][j] = files[e][j]
  OBVIOUS
<1>2. \A f \in Entities \ {e} : files'[f] = files[f]
  OBVIOUS
<1>3. ASSUME NEW f \in Entities \ {e} PROVE FileIds(f)' = FileIds(f)
  BY <1>2 DEF FileIds
<1>4. FileIds(e)' = FileIds(e) \cup {i}
  BY <1>1 DEF FileIds
<1> QED BY <1>1, <1>3, <1>4

LEMMA FileRemoved ==
  ASSUME Inv, NEW e \in Entities, NEW i \in Ids,
         files' = [files EXCEPT ![e][i] = Absent]
  PROVE  \A f \in Entities :
           FileIds(f)' = FileIds(f) \ IF f = e THEN {i} ELSE {}
<1> USE DEF Inv, TypeOK
<1>1. files'[e][i] = Absent /\ \A j \in Ids \ {i} : files'[e][j] = files[e][j]
  OBVIOUS
<1>2. \A f \in Entities \ {e} : files'[f] = files[f]
  OBVIOUS
<1>3. ASSUME NEW f \in Entities \ {e} PROVE FileIds(f)' = FileIds(f)
  BY <1>2 DEF FileIds
<1>4. FileIds(e)' = FileIds(e) \ {i}
  BY <1>1 DEF FileIds
<1> QED BY <1>3, <1>4

LEMMA BodiesPresent ==
  ASSUME NEW r \in Workload
  PROVE  r.body # Absent /\ Empty # Absent
BY TypesAssumption, ApiAssumption DEF Request

LEMMA ExactPost ==
  ASSUME Undisturbed, Inv, SerialInv, NEW t \in Threads, ExactIndex(t),
         ExactThread(t), HandlePost(t)
  PROVE  (ExactIndex(t) /\ ExactThread(t))'
<1>1. pc[t] # "idle" /\ req' = req
  BY DEF HandlePost, PostDir, PostRead, PostTake, PostOpen, PostOpenFails,
         PostFill, Handler, Ready, At, Goto, Finish
<1>2. req[t] \in Workload /\ req[t].e \in Entities
  BY <1>1, ServedTypes
<1>3. PICK e \in Entities : e = req[t].e
  BY <1>2
<1>4. CASE PostDir(t)
  <2>1. /\ pc[t] = "scan" /\ pc'[t] = "post_read"
        /\ UNCHANGED <<files, path_counts, keys>>
    BY <1>4 DEF PostDir, Handler, Ready, At, Undisturbed, Goto, index, Inv, TypeOK
  <2> QED BY <2>1, ExactQuiet
<1>5. CASE PostRead(t)
  <2>1. /\ pc[t] = "post_read" /\ pc'[t] = "post_take"
        /\ UNCHANGED <<files, path_counts>> /\ keys' = keys \cup {req[t].e}
    BY <1>5 DEF PostRead, At, Goto, storage, Inv, TypeOK
  <2>2. ExactIndex(t)'
    BY <2>1, ExactIndexKept
  <2> QED BY <1>1, <2>1, <2>2 DEF ExactThread
<1>6. CASE PostTake(t)
  <2>1. /\ pc[t] = "post_take" /\ pc'[t] = "post_open"
        /\ UNCHANGED <<files, keys>>
    BY <1>6 DEF PostTake, At, Goto, storage, Inv, TypeOK
  <2>2. \A f \in Entities :
          Indexed(f)' = IF f = req[t].e THEN Indexed(f) \cup {id'[t]}
                                        ELSE Indexed(f)
    BY <1>6, <2>1, CoveredTake DEF SerialInv, SerialThread
  <2>3. ASSUME NEW f \in Entities
        PROVE  /\ FileIds(f)' = FileIds(f) /\ Extra(t, f) = {}
               /\ Extra(t, f)' = IF f = req[t].e THEN {id'[t]} ELSE {}
    BY <1>1, <2>1 DEF FileIds, Extra
  <2>4. ExactIndex(t)'
    <3>1. req[t].e \in keys
      BY <2>1 DEF ExactThread
    <3> QED BY <2>1, <2>2, <2>3, <3>1 DEF ExactIndex
  <2> QED BY <2>1, <2>4 DEF ExactThread
<1>7. CASE PostOpen(t)
  <2>1. /\ pc[t] = "post_open" /\ pc'[t] = "post_fill" /\ linked'[t]
        /\ UNCHANGED <<path_counts, keys, id>>
    BY <1>7 DEF PostOpen, Open, At, Goto, index, Inv, TypeOK
  <2>2. PICK i \in Ids : i = id[t]
    BY <2>1, ServedTypes
  <2>3. files' = [files EXCEPT ![e][i] = Empty]
    BY <1>3, <1>7, <2>2 DEF PostOpen, Open
  <2>4. /\ files'[e][i] = Empty
        /\ \A f \in Entities :
             FileIds(f)' = FileIds(f) \cup IF f = e THEN {i} ELSE {}
    BY <1>2, <2>3, FileWritten, BodiesPresent
  <2>5. ASSUME NEW f \in Entities
        PROVE  /\ Indexed(f)' = Indexed(f)
               /\ Extra(t, f) = IF f = e THEN {i} ELSE {}
    BY <1>3, <2>1, <2>2 DEF Indexed, Extra
  <2>6. ExactIndex(t)'
    BY <2>1, <2>4, <2>5 DEF ExactIndex
  <2> QED BY <1>1, <1>3, <2>1, <2>2, <2>4, <2>6 DEF ExactThread
<1>8. ~PostOpenFails(t)
  BY DEF PostOpenFails, Undisturbed
<1>9. CASE PostFill(t)
  <2>1. /\ pc[t] = "post_fill" /\ pc'[t] = "respond"
        /\ UNCHANGED <<path_counts, keys>>
    BY <1>9 DEF PostFill, At, Finish, index, Inv, TypeOK
  <2>2. PICK i \in Ids : i = id[t]
    BY <2>1, ServedTypes
  <2>3. linked[t] /\ files[e][i] = Empty
    BY <1>3, <2>1, <2>2 DEF ExactThread
  <2>4. files' = [files EXCEPT ![e][i] = req[t].body]
    BY <1>3, <1>9, <2>2, <2>3, WriteEmpty DEF PostFill
  <2>5. \A f \in Entities :
          FileIds(f)' = FileIds(f) \cup IF f = e THEN {i} ELSE {}
    BY <1>2, <2>4, FileWritten, BodiesPresent
  <2>6. i \in FileIds(e)
    BY <1>2, <2>3, BodiesPresent DEF FileIds
  <2>7. ASSUME NEW f \in Entities
        PROVE  /\ FileIds(f)' = FileIds(f) /\ Indexed(f)' = Indexed(f)
               /\ Extra(t, f) = {}
    BY <2>1, <2>5, <2>6 DEF Indexed, Extra
  <2>8. ExactIndex(t)'
    BY <2>1, <2>7 DEF ExactIndex
  <2> QED BY <2>1, <2>8 DEF ExactThread
<1> QED BY <1>4, <1>5, <1>6, <1>7, <1>8, <1>9 DEF HandlePost

LEMMA ExactPut ==
  ASSUME Undisturbed, Inv, NEW t \in Threads, ExactIndex(t), ExactThread(t),
         HandlePut(t)
  PROVE  (ExactIndex(t) /\ ExactThread(t))'
<1>1. /\ pc[t] \in {"scan", "put_open", "put_fill"}
      /\ UNCHANGED <<req, path_counts, keys>>
  BY DEF HandlePut, Put, PutOpen, PutOpenFails, PutFill, Handler, Ready, At,
         Goto, Finish, index
<1>2. req[t] \in Workload /\ req[t].e \in Entities /\ req[t].id \in Ids
  BY <1>1, ServedTypes
<1>3. CASE Put(t)
  <2>1. files' = files /\ ExactIndex(t)'
    BY <1>1, <1>3, ExactIndexKept DEF Put, storage
  <2>2. CASE Finish(t, BadRequest)
    BY <2>1, <2>2 DEF Finish, ExactThread, Inv, TypeOK
  <2>3. CASE OnFile(req[t]) /\ Goto(t, "put_open")
    <3>1. pc'[t] = "put_open" /\ OnFile(req[t])'
      BY <1>1, <2>1, <2>3 DEF Goto, OnFile, Inv, TypeOK
    <3> QED BY <2>1, <3>1 DEF ExactThread
  <2> QED BY <1>3, <2>2, <2>3 DEF Put
<1>4. CASE PutOpen(t) \/ PutFill(t)
  <2>1. PICK e \in Entities, i \in Ids : e = req[t].e /\ i = req[t].id
    BY <1>2
  <2>2. i \in FileIds(e)
    BY <1>2, <1>4, <2>1, BodiesPresent
    DEF PutOpen, PutFill, At, ExactThread, OnFile, FileIds
  <2>3. CASE PutOpen(t)
    <3>1. files' = [files EXCEPT ![e][i] = Empty]
      BY <2>1, <2>3 DEF PutOpen, Open
    <3>2. pc'[t] = "put_fill" /\ linked'[t]
      BY <2>3 DEF PutOpen, Open, Goto, Inv, TypeOK
    <3>3. /\ files'[e][i] = Empty
          /\ \A f \in Entities :
               FileIds(f)' = FileIds(f) \cup IF f = e THEN {i} ELSE {}
      BY <1>2, <3>1, FileWritten, BodiesPresent
    <3>4. ASSUME NEW f \in Entities
          PROVE  /\ FileIds(f)' = FileIds(f) /\ Indexed(f)' = Indexed(f)
                 /\ Extra(t, f) = {}
      BY <1>1, <2>2, <3>3 DEF Indexed, Extra
    <3>5. ExactIndex(t)'
      BY <1>1, <3>4 DEF ExactIndex
    <3> QED BY <1>1, <2>1, <3>2, <3>3, <3>5 DEF ExactThread
  <2>4. CASE PutFill(t)
    <3>1. linked[t] /\ files[e][i] = Empty /\ pc'[t] = "respond"
      BY <2>1, <2>4 DEF PutFill, At, ExactThread, Finish, Inv, TypeOK
    <3>2. files' = [files EXCEPT ![e][i] = req[t].body]
      BY <2>1, <2>4, <3>1, WriteEmpty DEF PutFill
    <3>3. \A f \in Entities :
            FileIds(f)' = FileIds(f) \cup IF f = e THEN {i} ELSE {}
      BY <1>2, <3>2, FileWritten, BodiesPresent
    <3>4. ASSUME NEW f \in Entities
          PROVE  /\ FileIds(f)' = FileIds(f) /\ Indexed(f)' = Indexed(f)
                 /\ Extra(t, f) = {}
      BY <1>1, <2>2, <3>3 DEF Indexed, Extra
    <3>5. ExactIndex(t)'
      BY <1>1, <3>4 DEF ExactIndex
    <3> QED BY <3>1, <3>5 DEF ExactThread
  <2> QED BY <1>4, <2>3, <2>4
<1>5. ~PutOpenFails(t)
  BY DEF PutOpenFails, Undisturbed
<1> QED BY <1>3, <1>4, <1>5 DEF HandlePut

LEMMA ExactDelete ==
  ASSUME Undisturbed, Inv, SerialInv, NEW t \in Threads, ExactIndex(t),
         ExactThread(t), HandleDelete(t)
  PROVE  (ExactIndex(t) /\ ExactThread(t))'
<1>1. pc[t] # "idle" /\ UNCHANGED <<req, keys>>
  BY DEF HandleDelete, Delete, DelRemove, DelRemoveFails, DelErase, Handler,
         Ready, At, Goto, Finish, Terminate, index
<1>2. PICK e \in Entities, i \in Ids : e = req[t].e /\ i = req[t].id
  BY <1>1, ServedTypes
<1>3. CASE Delete(t)
  <2>1. UNCHANGED <<files, path_counts>> /\ pc[t] = "scan"
    BY <1>3 DEF Delete, Handler, Ready, At, storage, index
  <2>2. ExactIndex(t)'
    BY <1>1, <2>1, ExactIndexKept
  <2>3. CASE Finish(t, BadRequest)
    BY <2>2, <2>3 DEF Finish, ExactThread, Inv, TypeOK
  <2>4. CASE OnFile(req[t]) /\ Goto(t, "del_remove")
    <3>1. pc'[t] = "del_remove" /\ OnFile(req[t])'
      BY <1>1, <2>1, <2>4 DEF Goto, OnFile, Inv, TypeOK
    <3> QED BY <2>2, <3>1 DEF ExactThread
  <2> QED BY <1>3, <2>3, <2>4 DEF Delete
<1>4. CASE DelRemove(t) /\ req[t].target = "item"
  <2>1. pc[t] = "del_remove" /\ path_counts' = path_counts
    BY <1>4 DEF DelRemove, At, index
  <2>2. files[e][i] # Absent
    BY <1>2, <2>1 DEF ExactThread, OnFile
  <2>3. i \in Indexed(e)
    BY <2>2 DEF SerialInv, Covered, FileIds
  <2>4. e \in keys
    BY <2>3 DEF ExactIndex
  <2>5. files' = [files EXCEPT ![e][i] = Absent] /\ pc'[t] = "del_erase"
    BY <1>2, <1>4, <2>2, <2>4 DEF DelRemove, HasKey, Goto, Inv, TypeOK
  <2>6. \A f \in Entities :
          FileIds(f)' = FileIds(f) \ IF f = e THEN {i} ELSE {}
    BY <2>5, FileRemoved
  <2>7. ASSUME NEW f \in Entities
        PROVE  /\ Indexed(f)' = Indexed(f) /\ Extra(t, f) = {}
               /\ Extra(t, f)' = IF f = e THEN {i} ELSE {}
    BY <1>1, <1>2, <2>1, <2>5 DEF Indexed, Extra
  <2>8. ExactIndex(t)'
    BY <1>1, <2>6, <2>7 DEF ExactIndex
  <2>9. (req[t].id \in Indexed(req[t].e))'
    BY <1>1, <1>2, <2>3, <2>7 DEF Indexed
  <2> QED BY <2>5, <2>8, <2>9 DEF ExactThread
<1>5. CASE DelRemove(t) /\ req[t].target # "item"
  <2>1. /\ pc[t] = "del_remove" /\ Finish(t, BadRequest)
        /\ UNCHANGED <<files, path_counts>>
    BY <1>5 DEF DelRemove, HasKey, At, index
  <2>2. ExactIndex(t)'
    BY <1>1, <2>1, ExactIndexKept
  <2> QED BY <2>1, <2>2 DEF Finish, ExactThread, Inv, TypeOK
<1>6. ~DelRemoveFails(t)
  BY DEF DelRemoveFails, Undisturbed
<1>7. CASE DelErase(t)
  <2>1. pc[t] = "del_erase" /\ pc'[t] = "respond" /\ files' = files
    BY <1>7 DEF DelErase, At, Finish, storage, Inv, TypeOK
  <2>2. i \in Indexed(e)
    BY <1>2, <2>1 DEF ExactThread
  <2>3. PICK s \in Seq(Positive) : s = path_counts[e]
    BY ListTypes
  <2>4. ToSet(EraseId(s, i)) = ToSet(s) \ {i}
    BY <2>3, InOrderInjective, EraseIdElements DEF SerialInv, IndexInOrder
  <2>5. path_counts' = [path_counts EXCEPT ![e] = EraseId(s, i)]
    BY <1>2, <1>7, <2>2, <2>3 DEF DelErase
  <2>6. /\ path_counts'[e] = EraseId(s, i)
        /\ \A f \in Entities \ {e} : path_counts'[f] = path_counts[f]
    BY <2>5 DEF Inv, TypeOK
  <2>7. ASSUME NEW f \in Entities
        PROVE  /\ Indexed(f)' = Indexed(f) \ IF f = e THEN {i} ELSE {}
               /\ FileIds(f)' = FileIds(f)
               /\ Extra(t, f) = IF f = e THEN {i} ELSE {}
    BY <1>2, <2>1, <2>3, <2>4, <2>6 DEF Indexed, FileIds, Extra
  <2>8. ExactIndex(t)'
    BY <1>1, <2>7 DEF ExactIndex
  <2> QED BY <2>1, <2>8 DEF ExactThread
<1> QED BY <1>3, <1>4, <1>6, <1>7, <1>5 DEF HandleDelete

(* With one thread that is never started again, a step is a step of that   *)
(* thread.                                                                 *)
LEMMA UndisturbedNext ==
  ASSUME Undisturbed, Inv, [Next]_vars
  PROVE  \/ UNCHANGED vars
         \/ \E t \in Threads : Step(t) \/ \E r \in Workload : Accept(t, r)
<1>1. ~RaceCrash
  BY DEF RaceCrash, Undisturbed, OneThread
<1>2. ~Restart
  BY DEF Restart, Undisturbed, Inv, TypeOK
<1> QED BY <1>1, <1>2 DEF Next

LEMMA ExactStep ==
  ASSUME Undisturbed, Inv, SerialInv, ExactInv, [Next]_vars
  PROVE  ExactInv'
<1>1. CASE UNCHANGED vars
  BY <1>1
  DEF vars, storage, index, locals, ExactInv, ExactIndex, ExactThread, Extra,
      FileIds, Indexed, OnFile
<1>2. ASSUME NEW t \in Threads, NEW r \in Workload, Accept(t, r)
      PROVE  ExactIndex(t)' /\ ExactThread(t)'
  <2>1. /\ UNCHANGED <<files, path_counts, keys>>
        /\ pc[t] = "idle" /\ pc'[t] = "scan"
    BY <1>2 DEF Accept, At, storage, index, Inv, TypeOK
  <2> QED BY <2>1, ExactQuiet DEF ExactInv
<1>3. ASSUME NEW t \in Threads, Step(t)
      PROVE  ExactIndex(t)' /\ ExactThread(t)'
  BY <1>3, ExactScan, ExactGet, ExactPost, ExactPut, ExactDelete
  DEF Step, Work, ExactInv
<1>4. ASSUME NEW t \in Threads, ExactIndex(t)' /\ ExactThread(t)'
      PROVE  ExactInv'
  BY <1>4 DEF Undisturbed, OneThread, ExactInv
<1> QED BY <1>1, <1>2, <1>3, <1>4, UndisturbedNext

(* Served one at a time from an empty storage, with nothing failing, every *)
(* request finds an index that names each stored file and nothing else,    *)
(* each id once: what a LIST prints is what a GET can read.  The index is  *)
(* off by one id only inside a POST and a DELETE (Extra).                  *)
THEOREM SerialIndex ==
  ASSUME Undisturbed
  PROVE  Spec => []IndexExact
<1>1. Init => Inv /\ SerialInv /\ ExactInv
  BY InvInit, SerialInit, ExactInit
<1>2. Inv /\ SerialInv /\ ExactInv /\ [Next]_vars
        => (Inv /\ SerialInv /\ ExactInv)'
  <2>1. ASSUME Inv PROVE ~Restart
    BY <2>1 DEF Restart, Undisturbed, Inv, TypeOK
  <2> QED BY <2>1, InvStep, SerialStep, ExactStep DEF Undisturbed
<1>3. Inv /\ SerialInv /\ ExactInv => IndexExact
  <2> SUFFICES ASSUME Inv, SerialInv, ExactInv, NEW t \in Threads, Ready(t),
                      NEW e \in Entities
               PROVE  /\ Indexed(e) = FileIds(e)
                      /\ IsInjective(path_counts[e])
    BY DEF IndexExact
  <2>1. Extra(t, e) = {}
    BY DEF Ready, At, Extra
  <2>2. Indexed(e) = FileIds(e)
    BY <2>1 DEF ExactInv, ExactIndex, SerialInv, Covered
  <2>3. IsInjective(path_counts[e])
    BY ListTypes, InOrderInjective DEF SerialInv, IndexInOrder
  <2> QED BY <2>2, <2>3
<1> QED BY <1>1, <1>2, <1>3, PTL DEF Spec

-----------------------------------------------------------------------------
(* The promise to the clients: served one at a time, the API is a KvStore. *)

(* KvStore's view of requests and answers is the handlers'.                *)
LEMMA KvTypes ==
  /\ KV!Ids = Ids /\ KV!Request = Request
  /\ \A r : /\ KV!IsPost(r) <=> IsPost(r)
            /\ KV!IsGet(r) <=> IsGet(r)
            /\ KV!IsList(r) <=> IsList(r)
            /\ KV!IsPut(r) <=> IsPut(r)
            /\ KV!IsDelete(r) <=> IsDelete(r)
            /\ KV!IsRefused(r) <=> IsRefused(r)
  /\ KV!BadRequest = BadRequest
  /\ KV!Deleted = Deleted
  /\ \A i : KV!Created(i) = Created(i)
  /\ \A b : KV!Found(b) = Found(b)
  /\ \A s, b : KV!Listing(s, b) = Listing(s, b)
  /\ \A S : KV!Cardinality(S) = Cardinality(S)
<1>1. KV!Ids = Ids /\ KV!Request = Request
  BY DEF KV!Ids, Ids, KV!Request, Request
<1>2. ASSUME NEW r
      PROVE  /\ KV!IsPost(r) <=> IsPost(r)
             /\ KV!IsGet(r) <=> IsGet(r)
             /\ KV!IsList(r) <=> IsList(r)
             /\ KV!IsPut(r) <=> IsPut(r)
             /\ KV!IsDelete(r) <=> IsDelete(r)
             /\ KV!IsRefused(r) <=> IsRefused(r)
  BY DEF KV!IsPost, IsPost, KV!IsGet, IsGet, KV!IsList, IsList, KV!IsPut, IsPut,
         KV!IsDelete, IsDelete, KV!IsRefused, IsRefused, KV!HasSlash, HasSlash
<1>3. KV!BadRequest = BadRequest /\ KV!Deleted = Deleted
  BY DEF KV!BadRequest, BadRequest, KV!Deleted, Deleted, KV!Reply, Reply
<1>4. \A i : KV!Created(i) = Created(i)
  BY DEF KV!Created, Created, KV!Reply, Reply
<1>5. \A b : KV!Found(b) = Found(b)
  BY DEF KV!Found, Found, KV!Reply, Reply
<1>6. \A s, b : KV!Listing(s, b) = Listing(s, b)
  BY DEF KV!Listing, Listing, KV!Reply, Reply
<1>7. ASSUME NEW S PROVE KV!Cardinality(S) = Cardinality(S)
  BY Zenon DEF KV!Cardinality, Cardinality
<1> QED BY <1>1, <1>2, <1>3, <1>4, <1>5, <1>6, <1>7

(* A list without repetition is as long as the set of its elements is      *)
(* large.                                                                  *)
LEMMA InjectiveLength ==
  ASSUME NEW S, NEW s \in Seq(S), IsInjective(s)
  PROVE  Cardinality(ToSet(s)) = Len(s)
<1>1. Len(s) \in Nat /\ DOMAIN s = 1..Len(s) /\ ToSet(s) = {s[i] : i \in 1..Len(s)}
  BY ToSetSeq
<1>2. s \in [1..Len(s) -> ToSet(s)]
  BY <1>1
<1>3. s \in Bijection(1..Len(s), ToSet(s))
  BY <1>1, <1>2 DEF Bijection, Injection, Surjection
<1> QED BY <1>1, <1>3, FS_CountingElements DEF ExistsBijection

(* What a client sees of the one thread: the files, but for the one that a *)
(* stream has truncated and not yet filled, and the answer once it is      *)
(* decided.                                                                *)
Undecided ==
  Labels \ {"post_fill", "put_fill", "del_erase", "respond"}

ViewOf(t) ==
  /\ pc[t] \notin {"post_fill", "put_fill"} => StoreView = files
  /\ pc[t] = "post_fill" =>
       StoreView = [files EXCEPT ![req[t].e][id[t]] = Absent]
  /\ pc[t] = "put_fill" =>
       StoreView = [files EXCEPT ![req[t].e][req[t].id] = req[t].body]
  /\ pc[t] \in Undecided \cup {"post_fill"} => RespView[t] = NoResponse
  /\ pc[t] = "put_fill" => RespView[t] = Found(req[t].body)
  /\ pc[t] = "del_erase" => RespView[t] = Deleted
  /\ pc[t] = "respond" => RespView[t] = res[t]

LEMMA StoreViewAt ==
  ASSUME OneThread, NEW t \in Threads, NEW e \in Entities, NEW i \in Ids
  PROVE  StoreView[e][i] =
           IF pc[t] = "put_fill" /\ req[t].e = e /\ req[t].id = i
           THEN req[t].body
           ELSE IF pc[t] = "post_fill" /\ req[t].e = e /\ id[t] = i
           THEN Absent ELSE files[e][i]
<1> DEFINE Filling(label) == {u \in Threads : pc[u] = label /\ HasOpen(u, e, i)}
<1>1. StoreView[e][i] =
        IF Filling("put_fill") # {}
        THEN req[CHOOSE u \in Filling("put_fill") : TRUE].body
        ELSE IF Filling("post_fill") # {} THEN Absent ELSE files[e][i]
  BY DEF StoreView
<1>2. Filling("put_fill") =
        IF pc[t] = "put_fill" /\ req[t].e = e /\ req[t].id = i THEN {t} ELSE {}
  BY DEF OneThread, HasOpen
<1>3. Filling("post_fill") =
        IF pc[t] = "post_fill" /\ req[t].e = e /\ id[t] = i THEN {t} ELSE {}
  BY DEF OneThread, HasOpen
<1> HIDE DEF Filling
<1>4. (CHOOSE u \in {t} : TRUE) = t
  OBVIOUS
<1> QED BY <1>1, <1>2, <1>3, <1>4

LEMMA OneFileDiffers ==
  ASSUME Inv, NEW f \in Entities, NEW j \in Ids, NEW c,
         \A e \in Entities, i \in Ids :
           StoreView[e][i] = IF f = e /\ j = i THEN c ELSE files[e][i]
  PROVE  StoreView = [files EXCEPT ![f][j] = c]
<1>1. StoreView = [e \in Entities |-> [i \in Ids |-> StoreView[e][i]]]
  BY DEF StoreView
<1>2. files \in [Entities -> [Ids -> Contents \cup {Absent}]]
  BY DEF Inv, TypeOK
<1>3. PICK w : w = [files[f] EXCEPT ![j] = c]
  OBVIOUS
<1>4. w = [i \in Ids |-> IF j = i THEN c ELSE files[f][i]]
  BY <1>2, <1>3
<1>5. StoreView[f] = w
  BY <1>1, <1>4
<1>6. ASSUME NEW e \in Entities, e # f PROVE StoreView[e] = files[e]
  BY <1>1, <1>2, <1>6
<1>7. StoreView = [files EXCEPT ![f] = w]
  BY <1>1, <1>2, <1>5, <1>6
<1> QED BY <1>3, <1>7

LEMMA ViewIs ==
  ASSUME OneThread
  PROVE  Inv => \A t \in Threads : ViewOf(t)
<1> SUFFICES ASSUME Inv, NEW t \in Threads PROVE ViewOf(t)
  OBVIOUS
<1>0. files \in [Entities -> [Ids -> Contents \cup {Absent}]] /\ pc[t] \in Labels
  BY DEF Inv, TypeOK
<1>1. StoreView = [e \in Entities |-> [i \in Ids |-> StoreView[e][i]]]
  BY DEF StoreView
<1>2. ASSUME pc[t] \notin {"post_fill", "put_fill"} PROVE StoreView = files
  <2>1. \A e \in Entities, i \in Ids : StoreView[e][i] = files[e][i]
    BY <1>2, StoreViewAt
  <2> QED BY <1>0, <1>1, <2>1
<1>3. ASSUME pc[t] = "post_fill"
      PROVE  StoreView = [files EXCEPT ![req[t].e][id[t]] = Absent]
  <2>1. PICK f \in Entities, j \in Ids : f = req[t].e /\ j = id[t]
    BY <1>3, ServedTypes
  <2>2. \A e \in Entities, i \in Ids :
          StoreView[e][i] = IF f = e /\ j = i THEN Absent ELSE files[e][i]
    BY <1>3, <2>1, StoreViewAt
  <2>3. StoreView = [files EXCEPT ![f][j] = Absent]
    BY <2>2, OneFileDiffers
  <2> QED BY <2>1, <2>3
<1>4. ASSUME pc[t] = "put_fill"
      PROVE  StoreView = [files EXCEPT ![req[t].e][req[t].id] = req[t].body]
  <2>1. PICK f \in Entities, j \in Ids : f = req[t].e /\ j = req[t].id
    BY <1>4, ServedTypes
  <2>2. \A e \in Entities, i \in Ids :
          StoreView[e][i] = IF f = e /\ j = i THEN req[t].body ELSE files[e][i]
    BY <1>4, <2>1, StoreViewAt
  <2>3. StoreView = [files EXCEPT ![f][j] = req[t].body]
    BY <2>2, OneFileDiffers
  <2> QED BY <2>1, <2>3
<1>5. /\ pc[t] \in Undecided \cup {"post_fill"} => RespView[t] = NoResponse
      /\ pc[t] = "put_fill" => RespView[t] = Found(req[t].body)
      /\ pc[t] = "del_erase" => RespView[t] = Deleted
      /\ pc[t] = "respond" => RespView[t] = res[t]
  BY DEF RespView, Undecided, Labels
<1> QED BY <1>2, <1>3, <1>4, <1>5 DEF ViewOf

LEMMA ViewIsNext ==
  ASSUME OneThread
  PROVE  Inv' => (\A t \in Threads : ViewOf(t))'
<1>1. Inv => \A t \in Threads : ViewOf(t)
  BY ViewIs
<1> QED BY <1>1, PTL

(* With one thread, what happens to its answer is what happens to resp.    *)
LEMMA OneResponse ==
  ASSUME OneThread, NEW t \in Threads
  PROVE  /\ RespView'[t] = RespView[t] => RespView' = RespView
         /\ \A a : RespView'[t] = a => RespView' = [RespView EXCEPT ![t] = a]
<1>1. /\ DOMAIN RespView = Threads /\ DOMAIN RespView' = Threads
      /\ RespView = [u \in Threads |-> RespView[u]]
      /\ RespView' = [u \in Threads |-> RespView'[u]]
  BY DEF RespView
<1>2. \A u \in Threads : u = t
  BY DEF OneThread
<1> QED BY <1>1, <1>2

KvStep == [KV!Next]_(KV!vars)

LEMMA Stutters ==
  ASSUME OneThread, NEW t \in Threads, StoreView' = StoreView, req' = req,
         RespView'[t] = RespView[t]
  PROVE  KvStep
<1>1. RespView' = RespView
  BY OneResponse
<1> QED BY <1>1 DEF KvStep, KV!vars

(* Steps that decide nothing.                                              *)
LEMMA QuietStep ==
  ASSUME OneThread, Inv, Inv', NEW t \in Threads, files' = files, req' = req,
         pc[t] \in Undecided, pc'[t] \in Undecided
  PROVE  KvStep
<1>1. ViewOf(t) /\ ViewOf(t)'
  BY ViewIs, ViewIsNext
<1>2. StoreView' = StoreView /\ RespView'[t] = RespView[t]
  BY <1>1 DEF ViewOf, Undecided
<1> QED BY <1>2, Stutters

LEMMA PendingAt ==
  ASSUME OneThread, Inv, NEW t \in Threads, pc[t] # "idle",
         pc[t] \in Undecided \cup {"post_fill"}
  PROVE  KV!Pending(t) /\ req[t] \in Workload
<1>1. RespView[t] = NoResponse
  BY ViewIs DEF ViewOf
<1>2. req[t] \in Workload /\ req[t] # NoRequest
  BY ServedTypes, RequestTypes, ApiAssumption
<1> QED BY <1>1, <1>2 DEF KV!Pending

(* The files are what KvStore stores, while no stream is open.             *)
LEMMA StoredFiles ==
  ASSUME OneThread, Inv, NEW t \in Threads, pc[t] \in Undecided
  PROVE  /\ StoreView = files
         /\ \A e : KV!Stored(e) = FileIds(e)
         /\ KV!OnStored(req[t]) <=> OnFile(req[t])
         /\ KV!OnItem(req[t]) <=> OnFile(req[t]) /\ req[t].target = "item"
<1>1. StoreView = files
  BY ViewIs DEF ViewOf, Undecided
<1>2. \A e : KV!Stored(e) = FileIds(e)
  BY <1>1, KvTypes DEF KV!Stored, FileIds
<1> QED BY <1>1, <1>2 DEF KV!OnItem, KV!OnStored, OnFile

(* The handler returns: what it answers is decided now.                    *)
LEMMA Decided ==
  ASSUME OneThread, Inv, Inv', NEW t \in Threads, NEW a, Finish(t, a)
  PROVE  RespView' = [RespView EXCEPT ![t] = a] /\ req' = req /\ StoreView' = files'
<1>1. pc'[t] = "respond" /\ res'[t] = a /\ req' = req
  BY DEF Finish, Inv, TypeOK
<1>2. RespView'[t] = a /\ StoreView' = files'
  BY <1>1, ViewIsNext DEF ViewOf
<1> QED BY <1>1, <1>2, OneResponse

LEMMA Rejected ==
  ASSUME OneThread, Inv, Inv', NEW t \in Threads, pc[t] \in Undecided,
         pc[t] # "idle", files' = files, Finish(t, BadRequest),
         \/ IsRefused(req[t])
         \/ IsList(req[t]) /\ FileIds(req[t].e) = {}
         \/ (IsGet(req[t]) \/ IsPut(req[t]) \/ IsDelete(req[t])) /\ ~OnFile(req[t])
         \/ (IsGet(req[t]) \/ IsDelete(req[t])) /\ req[t].target # "item"
  PROVE  KvStep
<1>1. KV!Pending(t)
  BY PendingAt
<1>2. /\ RespView' = [RespView EXCEPT ![t] = BadRequest] /\ req' = req
      /\ StoreView' = StoreView
  BY Decided, StoredFiles
<1>3. KV!Decide(t, KV!BadRequest)
  BY <1>2, KvTypes DEF KV!Decide
<1>4. \/ KV!IsRefused(req[t])
      \/ KV!IsList(req[t]) /\ KV!Stored(req[t].e) = {}
      \/ (KV!IsGet(req[t]) \/ KV!IsDelete(req[t])) /\ ~KV!OnItem(req[t])
      \/ KV!IsPut(req[t]) /\ ~KV!OnStored(req[t])
  BY KvTypes, StoredFiles
<1>5. KV!Reject(t)
  BY <1>1, <1>2, <1>3, <1>4 DEF KV!Reject
<1> QED BY <1>5 DEF KvStep, KV!Next

LEMMA KvAccept ==
  ASSUME OneThread, Inv, Inv', ExactInv, NEW t \in Threads, NEW r \in Workload,
         Accept(t, r)
  PROVE  KvStep
<1>1. /\ pc[t] = "idle" /\ pc'[t] = "scan" /\ files' = files
      /\ req' = [req EXCEPT ![t] = r] /\ req[t] = NoRequest
  BY DEF Accept, At, storage, Inv, TypeOK, ExactInv, ExactThread
<1>2. ViewOf(t) /\ ViewOf(t)'
  BY ViewIs, ViewIsNext
<1>3. StoreView' = StoreView /\ RespView'[t] = RespView[t]
  BY <1>1, <1>2 DEF ViewOf, Undecided, Labels
<1>4. RespView' = RespView
  BY <1>3, OneResponse
<1>5. KV!Submit(t, r) /\ r \in KV!Request
  BY <1>1, <1>3, <1>4, KvTypes, RequestTypes DEF KV!Submit
<1> QED BY <1>5 DEF KvStep, KV!Next

LEMMA KvScan ==
  ASSUME OneThread, Inv, Inv', NEW t \in Threads, Scan(t)
  PROVE  KvStep
<1>1. /\ files' = files /\ req' = req
      /\ pc[t] \in {"scan", "copy", "store"} /\ pc'[t] \in {"scan", "copy", "store"}
  BY DEF Scan, ScanEnter, ScanEntry, ScanCopy, ScanStore, At, Goto, Terminate,
         storage, Inv, TypeOK
<1> QED BY <1>1, QuietStep DEF Undecided, Labels

LEMMA KvRefuse ==
  ASSUME OneThread, Inv, Inv', NEW t \in Threads, Refuse(t)
  PROVE  KvStep
BY Rejected DEF Refuse, Handler, Ready, At, storage, Undecided, Labels

LEMMA KvPost ==
  ASSUME Undisturbed, Inv, Inv', SerialInv, ExactInv, NEW t \in Threads,
         HandlePost(t)
  PROVE  KvStep
<1>1. OneThread /\ ~Faults
  BY DEF Undisturbed
<1>2. CASE PostDir(t) \/ PostRead(t) \/ PostTake(t)
  <2>1. /\ files' = files /\ req' = req
        /\ pc[t] \in {"scan", "post_read", "post_take"}
        /\ pc'[t] \in {"post_read", "post_take", "post_open"}
    BY <1>1, <1>2 DEF PostDir, PostRead, PostTake, Handler, Ready, At, Goto,
                      storage, Inv, TypeOK
  <2> QED BY <1>1, <2>1, QuietStep DEF Undecided, Labels
<1>3. CASE PostOpen(t)
  <2>1. /\ pc[t] = "post_open" /\ pc'[t] = "post_fill" /\ req' = req /\ id' = id
        /\ files' = [files EXCEPT ![req[t].e][id[t]] = Empty]
    BY <1>3 DEF PostOpen, Open, At, Goto, Inv, TypeOK
  <2>2. PICK e \in Entities, i \in Ids : e = req[t].e /\ i = id[t]
    BY <2>1, ServedTypes
  <2>3. files[e][i] = Absent
    BY <2>1, <2>2 DEF SerialInv, SerialThread
  <2>4. ViewOf(t) /\ ViewOf(t)'
    BY <1>1, ViewIs, ViewIsNext
  <2>5. /\ StoreView = files /\ StoreView' = [files' EXCEPT ![e][i] = Absent]
        /\ RespView'[t] = RespView[t]
    BY <2>1, <2>2, <2>4 DEF ViewOf, Undecided, Labels
  <2>6. [files' EXCEPT ![e][i] = Absent] = files
    BY <2>1, <2>2, <2>3 DEF Inv, TypeOK
  <2> QED BY <1>1, <2>1, <2>5, <2>6, Stutters
<1>4. ~PostOpenFails(t)
  BY <1>1 DEF PostOpenFails
<1>5. CASE PostFill(t)
  <2>1. pc[t] = "post_fill" /\ pc'[t] = "respond" /\ Finish(t, Created(id[t]))
    BY <1>5 DEF PostFill, At, Finish, Inv, TypeOK
  <2>2. PICK e \in Entities, i \in Ids : e = req[t].e /\ i = id[t]
    BY <2>1, ServedTypes
  <2>3. linked[t] /\ files[e][i] = Empty /\ IsPost(req[t])
    BY <2>1, <2>2 DEF ExactInv, ExactThread, Inv, ThreadInv
  <2>4. files' = [files EXCEPT ![e][i] = req[t].body]
    BY <1>5, <2>2, <2>3, WriteEmpty DEF PostFill
  <2>5. StoreView = [files EXCEPT ![e][i] = Absent]
    BY <1>1, <2>1, <2>2, ViewIs DEF ViewOf
  <2>6. /\ RespView' = [RespView EXCEPT ![t] = Created(i)] /\ req' = req
        /\ StoreView' = files'
    BY <1>1, <2>1, <2>2, Decided
  <2>7. StoreView' = [StoreView EXCEPT ![e][i] = req[t].body]
    BY <2>4, <2>5, <2>6 DEF Inv, TypeOK
  <2>8. i \in KV!Ids \ KV!Stored(e)
    <3>1. StoreView[e][i] = Absent
      BY <2>5 DEF Inv, TypeOK
    <3> QED BY <3>1, KvTypes DEF KV!Stored
  <2>9. KV!Decide(t, KV!Created(i))
    BY <2>6, KvTypes DEF KV!Decide
  <2>10. KV!Pending(t) /\ KV!IsPost(req[t])
    BY <1>1, <2>1, <2>3, PendingAt, KvTypes
  <2>11. KV!Post(t)
    BY <2>2, <2>7, <2>8, <2>9, <2>10 DEF KV!Post
  <2> QED BY <2>11 DEF KvStep, KV!Next
<1> QED BY <1>2, <1>3, <1>4, <1>5 DEF HandlePost

LEMMA KvGet ==
  ASSUME OneThread, Inv, Inv', SerialInv, ExactInv, InDirs, NEW t \in Threads,
         HandleGet(t)
  PROVE  KvStep
<1>1. /\ pc[t] \in {"scan", "get_find", "get_read", "list_read"}
      /\ files' = files /\ req' = req
  BY DEF HandleGet, Get, GetFind, GetRead, List, ListRead, Handler, Ready, At,
         Goto, Finish, storage
<1>2. pc[t] \in Undecided /\ pc[t] # "idle"
  BY <1>1 DEF Undecided, Labels
<1>3. PICK e \in Entities, i \in Ids : e = req[t].e /\ i = req[t].id
  BY <1>2, ServedTypes
<1>4. KV!Pending(t)
  BY <1>2, PendingAt
<1>5. ASSUME NEW l \in {"get_find", "get_read", "list_read"}, Goto(t, l)
      PROVE  KvStep
  <2>1. pc'[t] = l
    BY <1>5 DEF Goto, Inv, TypeOK
  <2>2. pc'[t] \in Undecided
    BY <2>1 DEF Undecided, Labels
  <2> QED BY <1>1, <1>2, <2>2, QuietStep
<1>6. CASE Get(t)
  BY <1>1, <1>2, <1>5, <1>6, Rejected DEF Get
<1>7. CASE GetFind(t)
  <2>1. files[e][i] # Absent /\ pc[t] = "get_find" /\ IsGet(req[t])
    BY <1>3, <1>7 DEF GetFind, At, ExactInv, ExactThread, OnFile
  <2>2. i \in Indexed(e)
    BY <2>1 DEF SerialInv, Covered, FileIds
  <2>3. e \in keys
    BY <2>2 DEF ExactInv, ExactIndex
  <2>4. CASE req[t].target = "item"
    BY <1>3, <1>5, <1>7, <2>2, <2>3, <2>4 DEF GetFind, HasKey
  <2>5. CASE req[t].target # "item"
    <3>1. Finish(t, BadRequest) /\ pc[t] \in Undecided
      BY <1>7, <2>1, <2>5 DEF GetFind, HasKey, Undecided, Labels
    <3> QED BY <1>1, <1>2, <2>1, <2>5, <3>1, Rejected
  <2> QED BY <2>4, <2>5
<1>8. CASE GetRead(t)
  <2>1. IsGet(req[t]) /\ OnFile(req[t]) /\ req[t].target = "item"
    BY <1>8 DEF GetRead, At, ExactInv, ExactThread
  <2>2. files[e][i] # Absent
    BY <1>3, <2>1 DEF OnFile
  <2>3. Finish(t, Found(files[e][i]))
    BY <1>3, <1>8, <2>2 DEF GetRead
  <2>4. /\ RespView' = [RespView EXCEPT ![t] = Found(files[e][i])]
        /\ StoreView' = StoreView /\ StoreView = files
    BY <1>1, <1>2, <2>3, Decided, StoredFiles
  <2>5. KV!Decide(t, KV!Found(StoreView[e][i]))
    BY <1>1, <2>4, KvTypes DEF KV!Decide
  <2>6. KV!IsGet(req[t]) /\ KV!OnItem(req[t])
    BY <1>2, <2>1, KvTypes, StoredFiles
  <2>7. KV!Get(t)
    BY <1>3, <1>4, <2>4, <2>5, <2>6 DEF KV!Get
  <2> QED BY <2>7 DEF KvStep, KV!Next
<1>9. CASE List(t)
  <2>1. CASE e \in dirs
    BY <1>3, <1>5, <1>9, <2>1 DEF List
  <2>2. CASE e \notin dirs
    <3>1. FileIds(e) = {}
      BY <2>2 DEF InDirs, FileIds
    <3> QED BY <1>1, <1>2, <1>3, <1>9, <2>2, <3>1, Rejected DEF List
  <2> QED BY <2>1, <2>2
<1>10. CASE ListRead(t)
  <2>1. IsList(req[t]) /\ pc[t] = "list_read"
    BY <1>10 DEF ListRead, At, ExactInv, ExactThread
  <2>2. Extra(t, e) = {}
    BY <2>1 DEF Extra
  <2>3. Indexed(e) = FileIds(e) /\ (Indexed(e) # {} => e \in keys)
    BY <2>2 DEF ExactInv, ExactIndex, SerialInv, Covered
  <2>4. CASE e \notin keys
    BY <1>1, <1>2, <1>3, <1>10, <2>1, <2>3, <2>4, Rejected DEF ListRead
  <2>5. CASE e \in keys
    <3>1. PICK s \in Seq(Ids) : s = path_counts[e]
      BY ListTypes
    <3>2. IsInjective(s)
      BY <3>1, ListTypes, InOrderInjective DEF SerialInv, IndexInOrder
    <3>3. PICK b \in BOOLEAN : b = (s # <<>>)
      OBVIOUS
    <3>4. Finish(t, Listing(s, b))
      BY <1>3, <1>10, <2>5, <3>1, <3>3 DEF ListRead
    <3>5. /\ RespView' = [RespView EXCEPT ![t] = Listing(s, b)]
          /\ StoreView' = StoreView
      BY <1>1, <1>2, <3>4, Decided, StoredFiles
    <3>6. KV!Decide(t, KV!Listing(s, b))
      BY <1>1, <3>5, KvTypes DEF KV!Decide
    <3>7. KV!Stored(e) = ToSet(s)
      BY <1>2, <2>3, <3>1, StoredFiles DEF Indexed
    <3>8. KV!Cardinality(KV!Stored(e)) = Len(s)
      BY <3>2, <3>7, KvTypes, InjectiveLength
    <3>9. /\ s \in [1..KV!Cardinality(KV!Stored(e)) -> KV!Ids]
          /\ {s[k] : k \in DOMAIN s} = KV!Stored(e)
      <4>1. s \in [1..Len(s) -> Ids]
        OBVIOUS
      <4> QED BY <3>7, <3>8, <4>1, KvTypes DEF ToSet
    <3>10. KV!List(t)
      BY <1>3, <1>4, <2>1, <3>5, <3>6, <3>9, KvTypes DEF KV!List
    <3> QED BY <3>10 DEF KvStep, KV!Next
  <2> QED BY <2>4, <2>5
<1> QED BY <1>6, <1>7, <1>8, <1>9, <1>10 DEF HandleGet

LEMMA KvPut ==
  ASSUME Undisturbed, Inv, Inv', ExactInv, NEW t \in Threads, HandlePut(t)
  PROVE  KvStep
<1>1. OneThread /\ ~Faults
  BY DEF Undisturbed
<1>2. pc[t] # "idle" /\ req' = req
  BY DEF HandlePut, Put, PutOpen, PutOpenFails, PutFill, Handler, Ready, At,
         Goto, Finish
<1>3. PICK e \in Entities, i \in Ids : e = req[t].e /\ i = req[t].id
  BY <1>2, ServedTypes
<1>4. CASE Put(t)
  <2>1. pc[t] \in Undecided /\ files' = files /\ IsPut(req[t])
    BY <1>4 DEF Put, Handler, Ready, At, Undecided, Labels, storage
  <2>2. CASE OnFile(req[t]) /\ Goto(t, "put_open")
    <3>1. pc'[t] \in Undecided
      BY <2>2 DEF Goto, Undecided, Labels, Inv, TypeOK
    <3> QED BY <1>1, <1>2, <2>1, <3>1, QuietStep
  <2>3. CASE ~OnFile(req[t]) /\ Finish(t, BadRequest)
    BY <1>1, <1>2, <2>1, <2>3, Rejected
  <2> QED BY <1>4, <2>2, <2>3 DEF Put
<1>5. CASE PutOpen(t)
  <2>1. /\ pc[t] = "put_open" /\ pc'[t] = "put_fill"
        /\ files' = [files EXCEPT ![e][i] = Empty]
    BY <1>3, <1>5 DEF PutOpen, Open, At, Goto, Inv, TypeOK
  <2>2. pc[t] \in Undecided /\ IsPut(req[t]) /\ OnFile(req[t])
    BY <2>1
    DEF Undecided, Labels, ExactInv, ExactThread, Inv, ThreadInv, PutsItem
  <2>3. StoreView = files
    BY <1>1, <2>2, StoredFiles
  <2>4. /\ StoreView' = [files' EXCEPT ![e][i] = req[t].body]
        /\ RespView'[t] = Found(req[t].body)
    BY <1>1, <1>2, <1>3, <2>1, ViewIsNext DEF ViewOf
  <2>5. StoreView' = [StoreView EXCEPT ![e][i] = req[t].body]
    BY <2>1, <2>3, <2>4 DEF Inv, TypeOK
  <2>6. RespView' = [RespView EXCEPT ![t] = Found(req[t].body)]
    BY <1>1, <2>4, OneResponse
  <2>7. KV!Decide(t, KV!Found(req[t].body))
    BY <1>2, <2>6, KvTypes DEF KV!Decide
  <2>8. KV!Pending(t) /\ KV!IsPut(req[t]) /\ KV!OnStored(req[t])
    BY <1>1, <1>2, <2>2, PendingAt, KvTypes, StoredFiles
  <2>9. KV!Put(t)
    BY <1>3, <2>5, <2>7, <2>8 DEF KV!Put
  <2> QED BY <2>9 DEF KvStep, KV!Next
<1>6. ~PutOpenFails(t)
  BY <1>1 DEF PutOpenFails
<1>7. CASE PutFill(t)
  <2>1. pc[t] = "put_fill" /\ pc'[t] = "respond" /\ Finish(t, Found(req[t].body))
    BY <1>7 DEF PutFill, At, Finish, Inv, TypeOK
  <2>2. linked[t] /\ files[e][i] = Empty
    BY <1>3, <2>1 DEF ExactInv, ExactThread
  <2>3. files' = [files EXCEPT ![e][i] = req[t].body]
    BY <1>3, <1>7, <2>2, WriteEmpty DEF PutFill
  <2>4. /\ StoreView = [files EXCEPT ![e][i] = req[t].body]
        /\ RespView[t] = Found(req[t].body)
    BY <1>1, <1>3, <2>1, ViewIs DEF ViewOf
  <2>5. res'[t] = Found(req[t].body)
    BY <2>1 DEF Finish, Inv, TypeOK
  <2>6. StoreView' = files' /\ RespView'[t] = res'[t]
    BY <1>1, <2>1, ViewIsNext DEF ViewOf
  <2> QED BY <1>1, <1>2, <2>3, <2>4, <2>5, <2>6, Stutters
<1> QED BY <1>4, <1>5, <1>6, <1>7 DEF HandlePut

LEMMA KvDelete ==
  ASSUME Undisturbed, Inv, Inv', SerialInv, ExactInv, NEW t \in Threads,
         HandleDelete(t)
  PROVE  KvStep
<1>1. OneThread /\ ~Faults
  BY DEF Undisturbed
<1>2. pc[t] # "idle" /\ req' = req
  BY DEF HandleDelete, Delete, DelRemove, DelRemoveFails, DelErase, Handler,
         Ready, At, Goto, Finish, Terminate
<1>3. PICK e \in Entities, i \in Ids : e = req[t].e /\ i = req[t].id
  BY <1>2, ServedTypes
<1>4. CASE Delete(t)
  <2>1. pc[t] \in Undecided /\ files' = files /\ IsDelete(req[t])
    BY <1>4 DEF Delete, Handler, Ready, At, Undecided, Labels, storage
  <2>2. CASE OnFile(req[t]) /\ Goto(t, "del_remove")
    <3>1. pc'[t] \in Undecided
      BY <2>2 DEF Goto, Undecided, Labels, Inv, TypeOK
    <3> QED BY <1>1, <1>2, <2>1, <3>1, QuietStep
  <2>3. CASE ~OnFile(req[t]) /\ Finish(t, BadRequest)
    BY <1>1, <1>2, <2>1, <2>3, Rejected
  <2> QED BY <1>4, <2>2, <2>3 DEF Delete
<1>5. CASE DelRemove(t) /\ req[t].target = "item"
  <2>1. pc[t] = "del_remove"
    BY <1>5 DEF DelRemove, At
  <2>2. /\ pc[t] \in Undecided /\ IsDelete(req[t]) /\ OnFile(req[t])
        /\ files[e][i] # Absent
    BY <1>3, <2>1
    DEF Undecided, Labels, ExactInv, ExactThread, OnFile, Inv, ThreadInv
  <2>3. i \in Indexed(e)
    BY <2>2 DEF SerialInv, Covered, FileIds
  <2>4. e \in keys
    BY <2>3 DEF ExactInv, ExactIndex
  <2>5. files' = [files EXCEPT ![e][i] = Absent] /\ pc'[t] = "del_erase"
    BY <1>3, <1>5, <2>2, <2>4 DEF DelRemove, HasKey, Goto, Inv, TypeOK
  <2>6. StoreView = files
    BY <1>1, <2>2, StoredFiles
  <2>7. StoreView' = files' /\ RespView'[t] = Deleted
    BY <1>1, <2>5, ViewIsNext DEF ViewOf
  <2>8. StoreView' = [StoreView EXCEPT ![e][i] = Absent]
    BY <2>5, <2>6, <2>7
  <2>9. RespView' = [RespView EXCEPT ![t] = Deleted]
    BY <1>1, <2>7, OneResponse
  <2>10. KV!Decide(t, KV!Deleted)
    BY <1>2, <2>9, KvTypes DEF KV!Decide
  <2>11. KV!Pending(t) /\ KV!IsDelete(req[t]) /\ KV!OnItem(req[t])
    BY <1>1, <1>2, <1>5, <2>2, PendingAt, KvTypes, StoredFiles
  <2>12. KV!Delete(t)
    BY <1>3, <2>8, <2>10, <2>11 DEF KV!Delete
  <2> QED BY <2>12 DEF KvStep, KV!Next
<1>6. CASE DelRemove(t) /\ req[t].target # "item"
  <2>1. /\ pc[t] = "del_remove" /\ Finish(t, BadRequest) /\ files' = files
    BY <1>6 DEF DelRemove, HasKey, At
  <2>2. pc[t] \in Undecided /\ IsDelete(req[t])
    BY <2>1 DEF Undecided, Labels, Inv, ThreadInv
  <2> QED BY <1>1, <1>2, <1>6, <2>1, <2>2, Rejected
<1>7. ~DelRemoveFails(t)
  BY <1>1 DEF DelRemoveFails
<1>8. CASE DelErase(t)
  <2>1. pc[t] = "del_erase" /\ files' = files
    BY <1>8 DEF DelErase, At, storage
  <2>2. req[t].id \in Indexed(req[t].e)
    BY <2>1 DEF ExactInv, ExactThread
  <2>3. Finish(t, Deleted)
    BY <1>8, <2>2 DEF DelErase
  <2>4. pc'[t] = "respond" /\ res'[t] = Deleted
    BY <2>3 DEF Finish, Inv, TypeOK
  <2>5. StoreView' = files' /\ RespView'[t] = res'[t]
    BY <1>1, <2>4, ViewIsNext DEF ViewOf
  <2>6. StoreView = files /\ RespView[t] = Deleted
    BY <1>1, <2>1, ViewIs DEF ViewOf
  <2> QED BY <1>1, <1>2, <2>1, <2>4, <2>5, <2>6, Stutters
<1> QED BY <1>4, <1>5, <1>7, <1>8, <1>6 DEF HandleDelete

LEMMA KvRespond ==
  ASSUME OneThread, Inv, Inv', NEW t \in Threads, Respond(t)
  PROVE  KvStep
<1>1. /\ pc[t] = "respond" /\ pc'[t] = "idle" /\ files' = files
      /\ req' = [req EXCEPT ![t] = NoRequest]
  BY DEF Respond, At, storage, Inv, TypeOK
<1>2. StoreView = files /\ RespView[t] = res[t]
  BY <1>1, ViewIs DEF ViewOf
<1>3. StoreView' = files' /\ RespView'[t] = NoResponse
  BY <1>1, ViewIsNext DEF ViewOf, Undecided, Labels
<1>4. res[t] # NoResponse
  BY PropertiesAssumption DEF Inv, TypeOK
<1>5. RespView' = [RespView EXCEPT ![t] = NoResponse]
  BY <1>3, OneResponse
<1>6. KV!Answer(t)
  BY <1>1, <1>2, <1>3, <1>4, <1>5 DEF KV!Answer
<1> QED BY <1>6 DEF KvStep, KV!Next

LEMMA KvNext ==
  ASSUME Undisturbed, Inv, Inv', SerialInv, ExactInv, InDirs, [Next]_vars
  PROVE  KvStep
<1>0. OneThread
  BY DEF Undisturbed
<1>1. CASE UNCHANGED vars
  <2>1. StoreView' = StoreView /\ RespView' = RespView /\ req' = req
    BY <1>1 DEF vars, storage, locals, StoreView, RespView, HasOpen
  <2> QED BY <2>1 DEF KvStep, KV!vars
<1>2. ASSUME NEW t \in Threads, NEW r \in Workload, Accept(t, r) PROVE KvStep
  BY <1>0, <1>2, KvAccept
<1>3. ASSUME NEW t \in Threads, Step(t) PROVE KvStep
  BY <1>0, <1>3, KvScan, KvRefuse, KvPost, KvGet, KvPut, KvDelete, KvRespond
  DEF Step, Work
<1> QED BY <1>1, <1>2, <1>3, UndisturbedNext

LEMMA KvInit == Init => KV!Init
<1> SUFFICES ASSUME Init PROVE KV!Init
  OBVIOUS
<1>1. StoreView = [e \in Entities |-> [i \in Ids |-> Absent]]
  BY DEF Init, StoreView
<1>2. RespView = [t \in Threads |-> NoResponse]
  BY DEF Init, RespView
<1> QED BY <1>1, <1>2, KvTypes DEF Init, KV!Init

(* Served one at a time from an empty storage, with nothing failing, the   *)
(* API implements KvStore, for any number of entities, bodies and ids and  *)
(* any requests: a POST takes effect when its body is written, a PUT when  *)
(* it truncates the file, a DELETE when it removes it, everything else     *)
(* when its answer is decided; all other steps are invisible.  The index   *)
(* is exact when a handler reads it, so GET and LIST answer from it as     *)
(* from the files.                                                         *)
THEOREM ImplementsStore ==
  ASSUME Undisturbed
  PROVE  Spec => ImplementsKvStore
<1> DEFINE SInv == Inv /\ SerialInv /\ ExactInv /\ InDirs
<1>1. Init => SInv
  BY InvInit, SerialInit, ExactInit, SoloInit DEF SoloInv
<1>2. SInv /\ [Next]_vars => SInv'
  <2>1. ASSUME Inv PROVE ~Restart
    BY <2>1 DEF Restart, Undisturbed, Inv, TypeOK
  <2> QED BY <2>1, InvStep, SerialStep, ExactStep, InDirsStep DEF Undisturbed
<1>3. SInv /\ SInv' /\ [Next]_vars => [KV!Next]_(KV!vars)
  BY KvNext DEF KvStep
<1> HIDE DEF SInv
<1> QED BY <1>1, <1>2, <1>3, KvInit, PTL DEF Spec, ImplementsKvStore, KV!Spec
=============================================================================
