---------------------------- MODULE ServerProofs ----------------------------
(***************************************************************************)
(* Proofs about sessions and the thread pool, for any number of threads    *)
(* and of sessions.                                                        *)
(***************************************************************************)
EXTENDS Server, FiniteSetTheorems, TLAPS

(* A thread in a handler was called for a session.                         *)
Called == \A t \in Threads : pc[t] # "run" => cur[t] \in Sessions

Inv == TypeOK /\ Called /\ SingleOwner /\ NoUseAfterDelete

LEMMA InvInit == Init => Inv
<1> SUFFICES ASSUME Init PROVE Inv
  OBVIOUS
<1>1. TypeOK
  BY DEF Init, TypeOK, Labels, Completion
<1>2. Called
  BY DEF Init, Called
<1>3. SingleOwner
  BY DEF Init, SingleOwner, Queued, Runs
<1>4. NoUseAfterDelete
  BY DEF Init, NoUseAfterDelete, Queued, Runs
<1> QED BY <1>1, <1>2, <1>3, <1>4 DEF Inv

(* An operation of s completes: its ownership moves to the queue.          *)
LEMMA CompleteInv ==
  ASSUME Inv, NEW s \in Sessions, op[s] # "none",
         NEW h \in {"accept", "read"}, NEW b \in BOOLEAN, Complete(s, h, b),
         UNCHANGED <<alive, object, pc, cur>>,
         client' \in [Sessions -> {"none", "connected", "sent", "answered", "gone"}],
         \/ socket' = socket
         \/ socket' = [socket EXCEPT ![s] = "open"]
  PROVE  Inv'
<1> USE DEF Inv
<1> DEFINE c == [handler |-> h, s |-> s, error |-> b]
<1>1. object[s] = "allocated" /\ ~Queued(s) /\ \A t \in Threads : ~Runs(t, s)
  BY DEF SingleOwner, NoUseAfterDelete
<1>2. /\ op' = [op EXCEPT ![s] = "none"] /\ queue' = queue \cup {c}
      /\ c \in Completion /\ c.s = s
  BY DEF Complete, Completion
<1>3. TypeOK'
  BY <1>1, <1>2 DEF TypeOK
<1>4. Called'
  BY DEF Called
<1>5. \A x \in Sessions : x # s => (Queued(x)' <=> Queued(x)) /\ op'[x] = op[x]
  BY <1>2 DEF Queued, TypeOK
<1>6. op'[s] = "none" /\ Queued(s)'
  BY <1>2 DEF Queued, TypeOK
<1>7. \A t \in Threads, x \in Sessions : Runs(t, x)' <=> Runs(t, x)
  BY DEF Runs
<1>8. \A d \in queue : d.s # s
  BY <1>1 DEF Queued
<1>9. SingleOwner'
  BY <1>1, <1>2, <1>5, <1>6, <1>7, <1>8 DEF SingleOwner
<1>10. NoUseAfterDelete'
  BY <1>1, <1>5, <1>6, <1>7 DEF NoUseAfterDelete
<1> QED BY <1>3, <1>4, <1>9, <1>10

(* Only the client's side changes.                                         *)
LEMMA ClientInv ==
  ASSUME Inv, UNCHANGED <<alive, object, op, queue, pc, cur, socket>>,
         client' \in [Sessions -> {"none", "connected", "sent", "answered", "gone"}]
  PROVE  Inv'
BY DEF Inv, TypeOK, Called, SingleOwner, NoUseAfterDelete, Queued, Runs

LEMMA EnvironmentInv ==
  ASSUME Inv, NEW s \in Sessions, Environment(s)
  PROVE  Inv'
<1> USE DEF Inv, TypeOK
<1>1. CASE Connect(s) \/ AcceptFails(s)
  BY <1>1, CompleteInv DEF Connect, AcceptFails
<1>2. CASE Send(s) \/ Leave(s)
  BY <1>2, ClientInv DEF Send, Leave
<1>3. CASE ReadDone(s)
  BY <1>3, CompleteInv DEF ReadDone
<1> QED BY <1>1, <1>2, <1>3 DEF Environment

(* The process ends.                                                       *)
LEMMA TerminateInv == ASSUME Inv, Terminate PROVE Inv'
<1>1. TypeOK' /\ Called'
  BY DEF Terminate, Inv, TypeOK, Called
<1>2. /\ \A x \in Sessions : Queued(x)' <=> Queued(x)
      /\ \A u \in Threads, x \in Sessions : Runs(u, x)' <=> Runs(u, x)
      /\ UNCHANGED <<queue, op, object>>
  BY DEF Terminate, Queued, Runs
<1>3. SingleOwner' /\ NoUseAfterDelete'
  BY <1>2 DEF Inv, SingleOwner, NoUseAfterDelete
<1> QED BY <1>1, <1>3 DEF Inv

(* Ownership moves from the queue to the thread.                           *)
LEMMA DispatchInv ==
  ASSUME Inv, NEW t \in Threads, Dispatch(t)
  PROVE  Inv'
<1> USE DEF Inv
<1>1. PICK c \in queue :
        /\ queue' = queue \ {c} /\ cur' = [cur EXCEPT ![t] = c.s]
        /\ \E l \in {"accept", "accept_error", "read", "read_error"} :
             pc' = [pc EXCEPT ![t] = l]
  BY DEF Dispatch
<1>2. /\ UNCHANGED <<alive, object, op, client, socket>> /\ pc[t] = "run"
      /\ c \in Completion
  BY <1>1 DEF Dispatch, At, TypeOK
<1>3. PICK s \in Sessions : s = c.s
  BY <1>2 DEF Completion
<1>4. /\ Queued(s) /\ op[s] = "none" /\ object[s] = "allocated"
      /\ \A u \in Threads : ~Runs(u, s)
  <2>1. Queued(s)
    BY <1>1, <1>3 DEF Queued
  <2> QED BY <2>1 DEF SingleOwner, NoUseAfterDelete
<1>5. TypeOK'
  BY <1>1, <1>2, <1>3 DEF TypeOK, Labels
<1>6. Called'
  BY <1>1, <1>2, <1>3 DEF Called, TypeOK
<1>7. ~Queued(s)'
  BY <1>1, <1>3 DEF Queued, SingleOwner
<1>8. \A x \in Sessions : x # s => (Queued(x)' <=> Queued(x))
  BY <1>1, <1>3 DEF Queued
<1>9. /\ \A u \in Threads, x \in Sessions : u # t => (Runs(u, x)' <=> Runs(u, x))
      /\ \A x \in Sessions : Runs(t, x)' => x = s
  BY <1>1, <1>3 DEF Runs, TypeOK
<1>10. \A x \in Sessions : ~Runs(t, x)
  BY <1>2 DEF Runs
<1>11. SingleOwner'
  BY <1>1, <1>2, <1>4, <1>7, <1>8, <1>9, <1>10 DEF SingleOwner
<1>12. NoUseAfterDelete'
  BY <1>2, <1>4, <1>7, <1>8, <1>9 DEF NoUseAfterDelete
<1> QED BY <1>5, <1>6, <1>11, <1>12

(* A thread leaves the session it runs, possibly for an operation or with  *)
(* the object deleted, but not both.                                       *)
LEMMA LetGoInv ==
  ASSUME Inv, NEW t \in Threads, NEW s \in Sessions, Runs(t, s),
         ~Runs(t, s)', \A x \in Sessions : x # s => ~Runs(t, x)',
         Called', TypeOK', queue' = queue,
         \A u \in Threads \ {t} : pc'[u] = pc[u] /\ cur'[u] = cur[u],
         \A x \in Sessions \ {s} : op'[x] = op[x] /\ object'[x] = object[x],
         op'[s] = "none" \/ object'[s] = "allocated"
  PROVE  Inv'
<1> USE DEF Inv
<1>1. ~Queued(s) /\ op[s] = "none" /\ \A u \in Threads : Runs(u, s) => u = t
  BY DEF SingleOwner
<1>2. \A x \in Sessions : Queued(x)' <=> Queued(x)
  BY DEF Queued
<1>3. \A u \in Threads, x \in Sessions : Runs(u, x)' => Runs(u, x) /\ u # t
  BY DEF Runs
<1>4. SingleOwner'
  BY <1>1, <1>2, <1>3 DEF SingleOwner
<1>5. NoUseAfterDelete'
  BY <1>1, <1>2, <1>3 DEF NoUseAfterDelete
<1> QED BY <1>4, <1>5

(* A thread moves on within the session it runs.                           *)
LEMMA MoveInv ==
  ASSUME Inv, NEW t \in Threads, pc[t] \notin {"run", "start_accept"},
         NEW l \in Labels \ {"run", "start_accept"}, Goto(t, l),
         UNCHANGED <<alive, object, op, queue, socket>>,
         client' \in [Sessions -> {"none", "connected", "sent", "answered", "gone"}]
  PROVE  Inv'
<1> USE DEF Inv
<1>1. TypeOK' /\ Called'
  BY DEF Goto, TypeOK, Called
<1>2. \A u \in Threads, x \in Sessions : Runs(u, x)' <=> Runs(u, x)
  BY DEF Goto, Runs, TypeOK
<1>3. \A x \in Sessions : Queued(x)' <=> Queued(x)
  BY DEF Queued
<1>4. SingleOwner' /\ NoUseAfterDelete'
  BY <1>2, <1>3 DEF SingleOwner, NoUseAfterDelete
<1> QED BY <1>1, <1>4

LEMMA StepInv ==
  ASSUME Inv, NEW t \in Threads, Step(t)
  PROVE  Inv'
<1> USE DEF Inv
<1>0. \A l : At(t, l) => pc[t] = l
  BY DEF At
<1>1. CASE Dispatch(t)
  BY <1>1, DispatchInv
<1>2. CASE HandleAccept(t) \/ HandleAcceptError(t) \/ HandleReadError(t)
             \/ HandleWrite(t) \/ (CheckPeer(t) /\ Return(t))
  <2>1. PICK s \in Sessions : s = cur[t] /\ Runs(t, s)
    BY <1>2
    DEF HandleAccept, HandleAcceptError, HandleReadError, HandleWrite, CheckPeer,
        At, Called, Runs
  <2>2. object[s] = "allocated"
    BY <2>1 DEF NoUseAfterDelete
  <2>3. TypeOK' /\ Called'
    BY <1>2, <2>1, <2>2
    DEF HandleAccept, HandleAcceptError, HandleReadError, HandleWrite, CheckPeer,
        Goto, Return, TypeOK, Called, Labels
  <2>4. /\ ~Runs(t, s)' /\ \A x \in Sessions : x # s => ~Runs(t, x)'
        /\ \A u \in Threads \ {t} : pc'[u] = pc[u] /\ cur'[u] = cur[u]
        /\ queue' = queue
    BY <1>2, <2>1
    DEF HandleAccept, HandleAcceptError, HandleReadError, HandleWrite, CheckPeer,
        Goto, Return, TypeOK, Runs
  <2>5. op[s] = "none"
    BY <2>1 DEF SingleOwner
  <2>6. /\ \A x \in Sessions \ {s} : op'[x] = op[x] /\ object'[x] = object[x]
        /\ op'[s] = "none" \/ object'[s] = "allocated"
    BY <1>2, <2>1, <2>2, <2>5
    DEF HandleAccept, HandleAcceptError, HandleReadError, HandleWrite, CheckPeer,
        TypeOK
  <2> QED BY <2>1, <2>3, <2>4, <2>6, LetGoInv
<1>3. CASE StartAccept(t)
  <2>1. PICK s \in Sessions :
          /\ object[s] = "unused" /\ object' = [object EXCEPT ![s] = "allocated"]
          /\ op' = [op EXCEPT ![s] = "accept"]
    BY <1>3 DEF StartAccept
  <2>2. op[s] = "none" /\ ~Queued(s) /\ \A u \in Threads : ~Runs(u, s)
    BY <2>1 DEF NoUseAfterDelete, TypeOK
  <2>3. TypeOK' /\ Called'
    BY <1>3, <2>1 DEF StartAccept, Return, TypeOK, Called, Labels
  <2>4. /\ \A x \in Sessions : Queued(x)' <=> Queued(x)
        /\ \A u \in Threads, x \in Sessions : Runs(u, x)' => Runs(u, x)
        /\ queue' = queue
    BY <1>3 DEF StartAccept, Return, Queued, Runs, TypeOK
  <2>5. \A x \in Sessions \ {s} : op'[x] = op[x] /\ object'[x] = object[x]
    BY <2>1 DEF TypeOK
  <2>6. object'[s] = "allocated"
    BY <2>1 DEF TypeOK
  <2>7. SingleOwner'
    BY <2>2, <2>4, <2>5 DEF SingleOwner
  <2>8. NoUseAfterDelete'
    BY <2>4, <2>5, <2>6 DEF NoUseAfterDelete
  <2> QED BY <2>3, <2>7, <2>8
<1>4. CASE OutOfSessions(t)
  <2>1. TypeOK' /\ Called'
    BY <1>4 DEF OutOfSessions, Return, TypeOK, Called, Labels
  <2>2. /\ \A x \in Sessions : Queued(x)' <=> Queued(x)
        /\ \A u \in Threads, x \in Sessions : Runs(u, x)' => Runs(u, x)
        /\ UNCHANGED <<queue, op, object>>
    BY <1>4 DEF OutOfSessions, Return, Queued, Runs, TypeOK
  <2>3. SingleOwner' /\ NoUseAfterDelete'
    BY <2>2 DEF SingleOwner, NoUseAfterDelete
  <2> QED BY <2>1, <2>3
<1>5. CASE Terminate
  BY <1>5, TerminateInv
<1>6. CASE ~Terminate /\ ~Return(t)
           /\ (HandleRead(t) \/ CheckPeer(t) \/ HandleRequest(t) \/ Write(t))
  <2>1. /\ pc[t] \in {"read", "check_peer", "handle_request", "write"}
        /\ \E l \in {"check_peer", "handle_request", "write", "handle_write"} :
             Goto(t, l)
        /\ UNCHANGED <<alive, object, op, queue, socket>>
    BY <1>0, <1>6 DEF HandleRead, CheckPeer, HandleRequest, Write
  <2>2. client' \in [Sessions -> {"none", "connected", "sent", "answered", "gone"}]
    BY <1>6 DEF HandleRead, CheckPeer, HandleRequest, Write, TypeOK
  <2> QED BY <2>1, <2>2, MoveInv DEF Labels
<1>7. CASE Return(t) /\ (HandleRead(t) \/ HandleRequest(t) \/ Write(t)) /\ ~Terminate
  BY <1>0, <1>7 DEF HandleRead, HandleRequest, Write, Goto, Return, TypeOK
<1> QED BY <1>1, <1>2, <1>3, <1>4, <1>5, <1>6, <1>7 DEF Step, Work

LEMMA InvStep == Inv /\ [Next]_vars => Inv'
<1> SUFFICES ASSUME Inv, [Next]_vars PROVE Inv'
  OBVIOUS
<1>1. CASE UNCHANGED vars
  BY <1>1 DEF vars, Inv, TypeOK, Called, SingleOwner, NoUseAfterDelete, Queued, Runs
<1> QED BY <1>1, EnvironmentInv, StepInv DEF Next

(* The types hold, and no object but an allocated one has an open socket:  *)
(* handle_accept and handle_read close it with the session they delete.    *)
THEOREM TypeCorrect == Spec => []TypeOK
<1>1. Spec => []Inv
  BY InvInit, InvStep, PTL DEF Spec
<1>2. Inv => TypeOK
  BY DEF Inv
<1> QED BY <1>1, <1>2, PTL

(* Any number of threads may run the io_service: no two of them are ever   *)
(* in the same session object (session.cc has no lock).                    *)
THEOREM SessionsOwned == Spec => []SingleOwner
<1>1. Spec => []Inv
  BY InvInit, InvStep, PTL DEF Spec
<1>2. Inv => SingleOwner
  BY DEF Inv
<1> QED BY <1>1, <1>2, PTL

(* `delete this` and `delete new_session` leave no operation pending, no   *)
(* completion queued and no thread running that would use the object.      *)
THEOREM DeletedUnused == Spec => []NoUseAfterDelete
<1>1. Spec => []Inv
  BY InvInit, InvStep, PTL DEF Spec
<1>2. Inv => NoUseAfterDelete
  BY DEF Inv
<1> QED BY <1>1, <1>2, PTL

-----------------------------------------------------------------------------
(* The acceptor is handed on like a token: from the pending accept to its  *)
(* completion in the queue, to the thread in handle_accept, and by its     *)
(* start_accept to the next session.  It is gone when no session is left.  *)

AcceptLabels == {"accept", "accept_error", "start_accept"}

PendingAccepts == {s \in Sessions : op[s] = "accept"}
QueuedAccepts == {c \in queue : c.handler = "accept"}
Accepting == {t \in Threads : pc[t] \in AcceptLabels}

Token ==
  \/ /\ \E s : PendingAccepts = {s}
     /\ QueuedAccepts = {} /\ Accepting = {}
  \/ /\ \E c : QueuedAccepts = {c}
     /\ PendingAccepts = {} /\ Accepting = {}
  \/ /\ \E t : Accepting = {t}
     /\ PendingAccepts = {} /\ QueuedAccepts = {}
  \/ /\ PendingAccepts = {} /\ QueuedAccepts = {} /\ Accepting = {}
     /\ \A s \in Sessions : object[s] # "unused"

LEMMA TokenInit == Init => Token
<1> SUFFICES ASSUME Init PROVE Token
  OBVIOUS
<1>1. PICK s \in Sessions : op = [x \in Sessions |-> IF x = s THEN "accept" ELSE "none"]
  BY DEF Init
<1>2. PendingAccepts = {s}
  BY <1>1 DEF PendingAccepts
<1>3. QueuedAccepts = {} /\ Accepting = {}
  BY DEF Init, QueuedAccepts, Accepting, AcceptLabels
<1> QED BY <1>2, <1>3 DEF Token

(* Steps that do not touch the acceptor; no session becomes unused again.  *)
LEMMA TokenKept ==
  ASSUME Token, UNCHANGED <<PendingAccepts, QueuedAccepts, Accepting>>,
         \A s \in Sessions : object'[s] = "unused" => object[s] = "unused"
  PROVE  Token'
BY DEF Token

LEMMA TokenEnvironment ==
  ASSUME Inv, Token, NEW s \in Sessions, Environment(s)
  PROVE  Token'
<1> USE DEF Inv, TypeOK
<1>0. object' = object /\ pc' = pc /\ Accepting' = Accepting
  BY DEF Environment, Connect, AcceptFails, Send, Leave, ReadDone, Accepting
<1>1. CASE Connect(s) \/ AcceptFails(s)
  <2>1. PICK b \in BOOLEAN : op[s] = "accept" /\ Complete(s, "accept", b)
    BY <1>1 DEF Connect, AcceptFails
  <2> DEFINE c == [handler |-> "accept", s |-> s, error |-> b]
  <2>2. PendingAccepts = {s} /\ QueuedAccepts = {} /\ Accepting = {}
    BY <2>1 DEF Token, PendingAccepts
  <2>3. PendingAccepts' = {}
    BY <2>1, <2>2 DEF Complete, PendingAccepts
  <2>4. QueuedAccepts' = {c}
    BY <2>1, <2>2 DEF Complete, QueuedAccepts
  <2> QED BY <1>0, <2>2, <2>3, <2>4 DEF Token
<1>2. CASE Send(s) \/ Leave(s)
  <2>1. UNCHANGED <<PendingAccepts, QueuedAccepts>>
    BY <1>2 DEF Send, Leave, PendingAccepts, QueuedAccepts
  <2> QED BY <1>0, <2>1, TokenKept
<1>3. CASE ReadDone(s)
  <2>1. PICK b \in BOOLEAN : op[s] = "read" /\ Complete(s, "read", b)
    BY <1>3 DEF ReadDone
  <2>2. PendingAccepts' = PendingAccepts
    BY <2>1 DEF Complete, PendingAccepts
  <2>3. QueuedAccepts' = QueuedAccepts
    BY <2>1 DEF Complete, QueuedAccepts
  <2> QED BY <1>0, <2>2, <2>3, TokenKept
<1> QED BY <1>1, <1>2, <1>3 DEF Environment

LEMMA TokenDispatch ==
  ASSUME Inv, Token, NEW t \in Threads, Dispatch(t)
  PROVE  Token'
<1> USE DEF Inv, TypeOK
<1>1. PICK c \in queue :
        /\ queue' = queue \ {c}
        /\ pc' = [pc EXCEPT ![t] =
                    IF c.handler = "accept"
                    THEN IF c.error THEN "accept_error" ELSE "accept"
                    ELSE IF c.error THEN "read_error" ELSE "read"]
  BY DEF Dispatch
<1>2. op' = op /\ object' = object /\ pc[t] = "run" /\ PendingAccepts' = PendingAccepts
  BY DEF Dispatch, At, PendingAccepts
<1>3. t \notin Accepting
  BY <1>2 DEF Accepting, AcceptLabels
<1>4. CASE c.handler = "accept"
  <2>1. QueuedAccepts = {c} /\ PendingAccepts = {} /\ Accepting = {}
    <3>1. c \in QueuedAccepts
      BY <1>4 DEF QueuedAccepts
    <3> QED BY <3>1 DEF Token
  <2>2. QueuedAccepts' = {}
    BY <1>1, <2>1 DEF QueuedAccepts
  <2>3. pc'[t] \in AcceptLabels /\ \A u \in Threads \ {t} : pc'[u] = pc[u]
    BY <1>1, <1>4 DEF AcceptLabels
  <2>4. Accepting' = {t}
    BY <2>1, <2>3 DEF Accepting
  <2> QED BY <1>2, <2>1, <2>2, <2>4 DEF Token
<1>5. CASE c.handler # "accept"
  <2>1. QueuedAccepts' = QueuedAccepts
    BY <1>1, <1>5 DEF QueuedAccepts
  <2>2. pc'[t] \notin AcceptLabels /\ \A u \in Threads \ {t} : pc'[u] = pc[u]
    BY <1>1, <1>5 DEF AcceptLabels
  <2>3. Accepting' = Accepting
    BY <1>3, <2>2 DEF Accepting
  <2> QED BY <1>2, <2>1, <2>3, TokenKept
<1> QED BY <1>4, <1>5

(* handle_accept keeps the token until start_accept hands it on.           *)
LEMMA TokenAccept ==
  ASSUME Inv, Token, NEW t \in Threads,
         \/ HandleAccept(t) \/ HandleAcceptError(t)
         \/ StartAccept(t) \/ OutOfSessions(t)
  PROVE  Token'
<1> USE DEF Inv, TypeOK
<1>1. pc[t] \in AcceptLabels /\ queue' = queue /\ QueuedAccepts' = QueuedAccepts
  BY DEF HandleAccept, HandleAcceptError, StartAccept, OutOfSessions, At,
         AcceptLabels, QueuedAccepts
<1>2. Accepting = {t} /\ PendingAccepts = {} /\ QueuedAccepts = {}
  <2>1. t \in Accepting
    BY <1>1 DEF Accepting
  <2> QED BY <2>1 DEF Token
<1>3. CASE HandleAccept(t) \/ HandleAcceptError(t)
  <2>1. pc'[t] \in AcceptLabels /\ \A u \in Threads \ {t} : pc'[u] = pc[u]
    BY <1>3 DEF HandleAccept, HandleAcceptError, Goto, AcceptLabels
  <2>2. Accepting' = Accepting
    BY <1>2, <2>1 DEF Accepting
  <2>3. PendingAccepts' = PendingAccepts
    BY <1>2, <1>3 DEF HandleAccept, HandleAcceptError, PendingAccepts
  <2>4. \A s \in Sessions : object'[s] = "unused" => object[s] = "unused"
    BY <1>3 DEF HandleAccept, HandleAcceptError
  <2> QED BY <1>1, <2>2, <2>3, <2>4, TokenKept
<1>4. ASSUME Return(t) PROVE Accepting' = {}
  <2>1. pc'[t] \notin AcceptLabels /\ \A u \in Threads \ {t} : pc'[u] = pc[u]
    BY <1>4 DEF Return, AcceptLabels
  <2> QED BY <1>2, <2>1 DEF Accepting
<1>5. CASE StartAccept(t)
  <2>1. PICK s \in Sessions : op' = [op EXCEPT ![s] = "accept"]
    BY <1>5 DEF StartAccept
  <2>2. PendingAccepts' = {s}
    BY <1>2, <2>1 DEF PendingAccepts
  <2>3. Accepting' = {}
    BY <1>4, <1>5 DEF StartAccept
  <2> QED BY <1>1, <1>2, <2>2, <2>3 DEF Token
<1>6. CASE OutOfSessions(t)
  <2>1. Accepting' = {} /\ PendingAccepts' = {}
    BY <1>2, <1>4, <1>6 DEF OutOfSessions, PendingAccepts
  <2>2. \A s \in Sessions : object'[s] # "unused"
    BY <1>6 DEF OutOfSessions
  <2> QED BY <1>1, <1>2, <2>1, <2>2 DEF Token
<1> QED BY <1>3, <1>5, <1>6

(* A thread that serves a session never holds the token.                   *)
LEMMA TokenServe ==
  ASSUME Inv, Token, NEW t \in Threads,
         \/ HandleReadError(t) \/ HandleRead(t) \/ CheckPeer(t)
         \/ HandleRequest(t) \/ Write(t) \/ HandleWrite(t)
  PROVE  Token'
<1> USE DEF Inv, TypeOK
<1>1. op' = op /\ queue' = queue
  BY DEF HandleReadError, HandleRead, CheckPeer, HandleRequest, Write,
         HandleWrite, Terminate
<1>2. pc[t] \notin AcceptLabels
  BY DEF HandleReadError, HandleRead, CheckPeer, HandleRequest, Write,
         HandleWrite, At, AcceptLabels
<1>3. pc'[t] \notin AcceptLabels /\ \A u \in Threads \ {t} : pc'[u] = pc[u]
  <2>1. CASE pc' = pc
    BY <1>2, <2>1
  <2>2. CASE \E l \in {"run", "check_peer", "handle_request", "write", "handle_write"} :
               pc' = [pc EXCEPT ![t] = l]
    BY <2>2 DEF AcceptLabels
  <2> QED BY <2>1, <2>2
          DEF HandleReadError, HandleRead, CheckPeer, HandleRequest, Write,
              HandleWrite, Terminate, Goto, Return
<1>4. UNCHANGED <<PendingAccepts, QueuedAccepts>>
  BY <1>1 DEF PendingAccepts, QueuedAccepts
<1>5. Accepting' = Accepting
  BY <1>2, <1>3 DEF Accepting
<1>6. \A s \in Sessions : object'[s] = "unused" => object[s] = "unused"
  BY DEF HandleReadError, HandleRead, CheckPeer, HandleRequest, Write,
         HandleWrite, Terminate
<1> QED BY <1>4, <1>5, <1>6, TokenKept

LEMMA TokenStep == Inv /\ Token /\ [Next]_vars => Token'
<1> SUFFICES ASSUME Inv, Token, [Next]_vars PROVE Token'
  OBVIOUS
<1>1. CASE UNCHANGED vars
  <2>1. UNCHANGED <<PendingAccepts, QueuedAccepts, Accepting>> /\ object' = object
    BY <1>1 DEF vars, PendingAccepts, QueuedAccepts, Accepting
  <2> QED BY <2>1, TokenKept
<1>2. ASSUME NEW t \in Threads, Step(t) PROVE Token'
  BY <1>2, TokenDispatch, TokenAccept, TokenServe DEF Step, Work
<1> QED BY <1>1, <1>2, TokenEnvironment DEF Next

LEMMA TokenCounts == Token => AcceptorArmed
<1> SUFFICES ASSUME Token PROVE AcceptorArmed
  OBVIOUS
<1> DEFINE p == Cardinality(PendingAccepts)
           q == Cardinality(QueuedAccepts)
           r == Cardinality(Accepting)
<1>1. \/ p + q + r = 1
      \/ p + q + r = 0 /\ \A s \in Sessions : object[s] # "unused"
  <2>1. Cardinality({}) = 0 /\ \A x : Cardinality({x}) = 1
    BY FS_EmptySet, FS_Singleton
  <2>2. CASE p = 1 /\ q = 0 /\ r = 0
    BY <2>2
  <2>3. CASE p = 0 /\ q = 1 /\ r = 0
    BY <2>3
  <2>4. CASE p = 0 /\ q = 0 /\ r = 1
    BY <2>4
  <2>5. CASE p = 0 /\ q = 0 /\ r = 0 /\ \A s \in Sessions : object[s] # "unused"
    BY <2>5
  <2> QED BY <2>1, <2>2, <2>3, <2>4, <2>5 DEF Token
<1>2. AcceptorArmed =
        (/\ p + q + r <= 1
         /\ (\E s \in Sessions : object[s] = "unused") => p + q + r = 1)
  BY DEF AcceptorArmed, PendingAccepts, QueuedAccepts, Accepting, AcceptLabels
<1> HIDE DEF p, q, r
<1>3. p + q + r <= 1
  BY <1>1
<1> QED BY <1>1, <1>2, <1>3

(* The server goes on accepting for as long as it runs: also when accepts  *)
(* fail, exactly one accept is pending, completed or in handle_accept, so  *)
(* start_accept is never called twice and never forgotten.                 *)
THEOREM AcceptorKept == Spec => []AcceptorArmed
<1>1. Inv /\ Token /\ [Next]_vars => (Inv /\ Token)'
  BY InvStep, TokenStep
<1> QED BY InvInit, TokenInit, <1>1, TokenCounts, PTL DEF Spec
=============================================================================
