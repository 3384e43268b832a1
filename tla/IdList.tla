------------------------------- MODULE IdList -------------------------------
(***************************************************************************)
(* The id lists of the CRUD API (request_api_handler.cc).                  *)
(*                                                                         *)
(* path_counts maps an entity to a std::vector<int> of the ids in use.     *)
(* Two pieces of code insert into such a vector: the constructor, for      *)
(* every file it finds on disk, and getNextID, for the id a POST takes.    *)
(* Both look for the end of the first run of consecutive numbers; neither  *)
(* sorts.  Indices here are 1-based: ids[i] stands for the C++ ids[i-1].   *)
(***************************************************************************)
EXTENDS Integers, Sequences, SequencesExt

(***************************************************************************)
(* The value of `index` after the loop                                     *)
(*   while (index != size && ids[index] == ids[index-1] + 1) index++       *)
(* started at 1: the length of the first run of consecutive ids.           *)
(***************************************************************************)
RunLength(ids) ==
  Min({i \in 1..Len(ids) : i = Len(ids) \/ ids[i + 1] # ids[i] + 1})

(* Mutant of ScanInsert: an id below a single listed one is forgotten.     *)
ScanInsertForgets(ids, id) ==
  IF id \in ToSet(ids) \/ (Len(ids) = 1 /\ id < ids[1]) THEN ids
  ELSE IF Len(ids) < 2 THEN Append(ids, id)
  ELSE InsertAt(ids, RunLength(ids) + 1, id)

(***************************************************************************)
(* The constructor's insertion of the id of a file found on disk.  An id   *)
(* already listed is left alone; otherwise one or no listed id is kept in  *)
(* order, and a longer list takes the new id behind its first run.         *)
(***************************************************************************)
ScanInsert(ids, id) ==
  IF id \in ToSet(ids) THEN ids
  ELSE IF Len(ids) = 1 /\ id < ids[1] THEN <<id>> \o ids
  ELSE IF Len(ids) < 2 THEN Append(ids, id)
  ELSE InsertAt(ids, RunLength(ids) + 1, id)

(* Mutant of NextId: the first id is 0.                                    *)
NextIdFromZero(ids) ==
  IF Len(ids) = 0 THEN 0
  ELSE IF Len(ids) = 1 THEN (IF ids[1] = 1 THEN 2 ELSE 1)
  ELSE ids[RunLength(ids)] + 1

(***************************************************************************)
(* getNextID: the id it returns ...                                        *)
(***************************************************************************)
NextId(ids) ==
  IF Len(ids) = 0 THEN 1
  ELSE IF Len(ids) = 1 THEN (IF ids[1] = 1 THEN 2 ELSE 1)
  ELSE ids[RunLength(ids)] + 1

(* Mutant of TakeId: every id goes to the end.                             *)
TakeIdAtEnd(ids) == Append(ids, NextId(ids))

(***************************************************************************)
(* ... and the list it stores back: in front of a list of at most one id,  *)
(* behind the first run otherwise.                                         *)
(***************************************************************************)
TakeId(ids) ==
  IF Len(ids) < 2 THEN <<NextId(ids)>> \o ids
                  ELSE InsertAt(ids, RunLength(ids) + 1, NextId(ids))

(* Mutant of EraseId: the id stays listed.                                 *)
EraseIdKeeps(ids, id) == ids

(***************************************************************************)
(* handle_delete's path_counts[entity].erase(find(begin, end, id)).        *)
(***************************************************************************)
EraseId(ids, id) == RemoveFirst(ids, id)

(***************************************************************************)
(* The order of a list that getNextID and handle_delete alone have built:  *)
(* ascending, except that 1 may stand at the end (the second POST goes in  *)
(* front of the first).  getNextID relies on it without saying so.         *)
(***************************************************************************)
InOrder(s) ==
  \A i, j \in 1..Len(s) :
    i < j => s[i] < s[j] \/ (j = Len(s) /\ s[j] = 1 /\ s[i] > 1)
=============================================================================
