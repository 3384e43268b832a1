------------------------------- MODULE Server -------------------------------
(***************************************************************************)
(* Connections and the thread pool: server.cc, session.cc and main.        *)
(*                                                                         *)
(* A pool of threads runs io_service::run.  The completion of an accept or *)
(* of a read is put in the io_service's queue by the system and taken by   *)
(* some thread, which runs handle_accept or handle_read to its end; the    *)
(* handlers of different sessions run at the same time.  A session object  *)
(* is allocated for each accept, before there is a client, and is freed    *)
(* with `delete this` or `delete new_session`, if it is freed at all.      *)
(*                                                                         *)
(* boost::asio and the client's end of a socket are external, and modelled *)
(* by what the code relies on.                                             *)
(***************************************************************************)
EXTENDS Integers, FiniteSets

CONSTANTS
  Threads,   \* the worker threads
  Sessions,  \* bound: the session objects a run may allocate
  None,      \* no session
  Faults     \* TRUE: an accept may fail

ASSUME ServerAssumption == None \notin Sessions /\ Faults \in BOOLEAN

VARIABLES
  alive,     \* the process runs
  object,    \* of each session: "unused", "allocated" or "deleted"
  op,        \* the operation a session waits for: "none", "accept", "read"
  queue,     \* completions the io_service holds
  pc,        \* where each thread is in a handler
  cur,       \* the session that handler was called for
  client,    \* the peer: "none", "connected", "sent", "answered", "gone"
  socket     \* "closed", "open" or "shut"

vars == <<alive, object, op, queue, pc, cur, client, socket>>

(* A completion handler: handle_accept or handle_read bound to a session,  *)
(* with its error code.                                                    *)
Completion ==
  [handler : {"accept", "read"}, s : Sessions, error : BOOLEAN]

Labels ==
  {"run", "accept", "accept_error", "start_accept", "read", "read_error",
   "check_peer", "handle_request", "write", "handle_write"}

At(t, label) == alive /\ pc[t] = label

Goto(t, label) == pc' = [pc EXCEPT ![t] = label] /\ cur' = cur

(* The handler returns to io_service::run.                                 *)
Return(t) == pc' = [pc EXCEPT ![t] = "run"] /\ cur' = [cur EXCEPT ![t] = None]

(* An exception that leaves the thread's lambda; main's catch is on        *)
(* another thread.                                                         *)
Terminate ==
  /\ alive' = FALSE
  /\ UNCHANGED <<object, op, queue, pc, cur, client, socket>>

(* main calls start_accept once, before the threads start.                 *)
Init ==
  /\ alive = TRUE
  /\ \E s \in Sessions :
       /\ object = [x \in Sessions |-> IF x = s THEN "allocated" ELSE "unused"]
       /\ op = [x \in Sessions |-> IF x = s THEN "accept" ELSE "none"]
  /\ queue = {}
  /\ pc = [t \in Threads |-> "run"]
  /\ cur = [t \in Threads |-> None]
  /\ client = [s \in Sessions |-> "none"]
  /\ socket = [s \in Sessions |-> "closed"]

-----------------------------------------------------------------------------
(* The system: clients, the acceptor and the completion of reads.          *)

Complete(s, handler, error) ==
  /\ op' = [op EXCEPT ![s] = "none"]
  /\ queue' = queue \cup {[handler |-> handler, s |-> s, error |-> error]}

(* A client connects and the pending accept completes with it.             *)
Connect(s) ==
  /\ alive /\ op[s] = "accept"
  /\ Complete(s, "accept", FALSE)
  /\ client' = [client EXCEPT ![s] = "connected"]
  /\ socket' = [socket EXCEPT ![s] = "open"]
  /\ UNCHANGED <<alive, object, pc, cur>>

AcceptFails(s) ==
  /\ alive /\ Faults /\ op[s] = "accept"
  /\ Complete(s, "accept", TRUE)
  /\ UNCHANGED <<alive, object, pc, cur, client, socket>>

(* The client sends its request.                                           *)
Send(s) ==
  /\ client[s] = "connected"
  /\ client' = [client EXCEPT ![s] = "sent"]
  /\ UNCHANGED <<alive, object, op, queue, pc, cur, socket>>

(* The client goes away, before or after it has sent anything.             *)
Leave(s) ==
  /\ client[s] \in {"connected", "sent"}
  /\ client' = [client EXCEPT ![s] = "gone"]
  /\ UNCHANGED <<alive, object, op, queue, pc, cur, socket>>

(* async_read completes: with a request, or with an error when the message *)
(* is no HTTP request or the client has left.  A request that was sent     *)
(* before the client left may still be read.                               *)
ReadDone(s) ==
  /\ alive /\ op[s] = "read" /\ client[s] \in {"sent", "gone"}
  /\ \E error \in BOOLEAN : Complete(s, "read", error)
  /\ UNCHANGED <<alive, object, pc, cur, client, socket>>

-----------------------------------------------------------------------------
(* io_service::run: an idle thread takes a completion.                     *)
Dispatch(t) ==
  /\ At(t, "run")
  /\ \E c \in queue :
       /\ queue' = queue \ {c}
       /\ cur' = [cur EXCEPT ![t] = c.s]
       /\ pc' = [pc EXCEPT ![t] =
                   IF c.handler = "accept"
                   THEN IF c.error THEN "accept_error" ELSE "accept"
                   ELSE IF c.error THEN "read_error" ELSE "read"]
  /\ UNCHANGED <<alive, object, op, client, socket>>

(* Mutants of HandleAccept: new_session is deleted in any case; start() is *)
(* not called.                                                             *)
HandleAcceptDeletes(t) ==
  /\ At(t, "accept")
  /\ op' = [op EXCEPT ![cur[t]] = "read"]
  /\ object' = [object EXCEPT ![cur[t]] = "deleted"]
  /\ socket' = [socket EXCEPT ![cur[t]] = "closed"]
  /\ Goto(t, "start_accept")
  /\ UNCHANGED <<alive, queue, client>>
HandleAcceptNoStart(t) ==
  /\ At(t, "accept")
  /\ Goto(t, "start_accept")
  /\ UNCHANGED <<alive, object, op, queue, client, socket>>

(* server::handle_accept: new_session->start() arms async_read ...         *)
HandleAccept(t) ==
  /\ At(t, "accept")
  /\ op' = [op EXCEPT ![cur[t]] = "read"]
  /\ Goto(t, "start_accept")
  /\ UNCHANGED <<alive, object, queue, client, socket>>

(* Mutant of HandleAcceptError: it returns and accepts no more.            *)
HandleAcceptErrorReturns(t) ==
  /\ At(t, "accept_error")
  /\ object' = [object EXCEPT ![cur[t]] = "deleted"]
  /\ socket' = [socket EXCEPT ![cur[t]] = "closed"]
  /\ Return(t)
  /\ UNCHANGED <<alive, op, queue, client>>

(* ... or `delete new_session`, which closes its socket ...                *)
HandleAcceptError(t) ==
  /\ At(t, "accept_error")
  /\ object' = [object EXCEPT ![cur[t]] = "deleted"]
  /\ socket' = [socket EXCEPT ![cur[t]] = "closed"]
  /\ Goto(t, "start_accept")
  /\ UNCHANGED <<alive, op, queue, client>>

(* Mutant of StartAccept: get_session returns the same session again.      *)
StartAcceptReuses(t) ==
  /\ At(t, "start_accept")
  /\ op' = [op EXCEPT ![cur[t]] = "accept"]
  /\ Return(t)
  /\ UNCHANGED <<alive, object, queue, client, socket>>

(* ... and in both cases start_accept: a new session and async_accept.     *)
StartAccept(t) ==
  /\ At(t, "start_accept")
  /\ \E s \in Sessions :
       /\ object[s] = "unused"
       /\ object' = [object EXCEPT ![s] = "allocated"]
       /\ op' = [op EXCEPT ![s] = "accept"]
  /\ Return(t)
  /\ UNCHANGED <<alive, queue, client, socket>>

(* The run has used up its sessions.                                       *)
OutOfSessions(t) ==
  /\ At(t, "start_accept")
  /\ \A s \in Sessions : object[s] # "unused"
  /\ Return(t)
  /\ UNCHANGED <<alive, object, op, queue, client, socket>>

-----------------------------------------------------------------------------
(* session::handle_read                                                    *)

(* Mutant of HandleReadError: the socket outlives the object.              *)
HandleReadErrorLeaks(t) ==
  /\ At(t, "read_error")
  /\ object' = [object EXCEPT ![cur[t]] = "deleted"]
  /\ Return(t)
  /\ UNCHANGED <<alive, op, queue, client, socket>>

(* delete this                                                             *)
HandleReadError(t) ==
  /\ At(t, "read_error")
  /\ object' = [object EXCEPT ![cur[t]] = "deleted"]
  /\ socket' = [socket EXCEPT ![cur[t]] = "closed"]
  /\ Return(t)
  /\ UNCHANGED <<alive, op, queue, client>>

(* update_user, match and create.  update_user's stoi throws for a cookie  *)
(* whose user id is no number, and create where the handler's constructor  *)
(* does (a foreign file in the API's storage).                             *)
HandleRead(t) ==
  /\ At(t, "read")
  /\ \/ Terminate
     \/ /\ Goto(t, "check_peer")
        /\ UNCHANGED <<alive, object, op, queue, client, socket>>

(* write_to_socket: remote_endpoint(ec) may fail once the client is gone;  *)
(* the function then returns and the session is left as it is.             *)
CheckPeer(t) ==
  /\ At(t, "check_peer")
  /\ \/ client[cur[t]] = "gone" /\ Return(t)
     \/ Goto(t, "handle_request")
  /\ UNCHANGED <<alive, object, op, queue, client, socket>>

(* The handler runs, for as long as it takes (sleep: two seconds; sending  *)
(* a mail: as long as the mail server keeps it waiting), and may throw (no *)
(* connection to the mail server, a file that cannot be removed).          *)
HandleRequest(t) ==
  /\ At(t, "handle_request")
  /\ \/ Terminate
     \/ /\ Goto(t, "write")
        /\ UNCHANGED <<alive, object, op, queue, client, socket>>

(* bhttp::write is synchronous: it returns when all of the answer is in    *)
(* the socket's buffer, which may wait for the client to read.  It throws  *)
(* when the client is gone and this is known.                              *)
Write(t) ==
  /\ At(t, "write")
  /\ \/ client[cur[t]] = "gone" /\ Terminate
     \/ /\ client' = [client EXCEPT ![cur[t]] =
                        IF @ = "sent" THEN "answered" ELSE @]
        /\ Goto(t, "handle_write")
        /\ UNCHANGED <<alive, object, op, queue, socket>>

(* handle_write without an error: shutdown.  The session is not deleted.   *)
HandleWrite(t) ==
  /\ At(t, "handle_write")
  /\ socket' = [socket EXCEPT ![cur[t]] = "shut"]
  /\ Return(t)
  /\ UNCHANGED <<alive, object, op, queue, client>>

-----------------------------------------------------------------------------
(* What a thread does without waiting for anyone.                          *)
Work(t) ==
  \/ Dispatch(t)
  \/ HandleAccept(t) \/ HandleAcceptError(t) \/ StartAccept(t) \/ OutOfSessions(t)
  \/ HandleReadError(t) \/ HandleRead(t) \/ CheckPeer(t) \/ HandleWrite(t)

Step(t) == Work(t) \/ HandleRequest(t) \/ Write(t)

(* t waits for the mail server, or for a client that is still there to     *)
(* read its answer.                                                        *)
Held(t) ==
  \/ pc[t] = "handle_request"
  \/ pc[t] = "write" /\ client[cur[t]] # "gone"

Environment(s) == Connect(s) \/ AcceptFails(s) \/ Send(s) \/ Leave(s) \/ ReadDone(s)

Next == (\E t \in Threads : Step(t)) \/ (\E s \in Sessions : Environment(s))

Spec == Init /\ [][Next]_vars

(* Threads are scheduled, a read with data or a reset completes, and so    *)
(* does a write to a client that is gone.  No client is assumed to         *)
(* connect, send, read its answer or leave, and no handler to return.      *)
FairSpec ==
  /\ Spec
  /\ \A t \in Threads : WF_vars(Work(t)) /\ WF_vars(~Held(t) /\ Write(t))
  /\ \A s \in Sessions : WF_vars(ReadDone(s))

-----------------------------------------------------------------------------
(* t runs code of session s.  handle_accept no longer touches the session  *)
(* when it comes to start_accept.                                          *)
Runs(t, s) == cur[t] = s /\ pc[t] \notin {"run", "start_accept"}

Queued(s) == \E c \in queue : c.s = s

(* Types; and an object that is not in use has no socket.                  *)
TypeOK ==
  /\ alive \in BOOLEAN
  /\ object \in [Sessions -> {"unused", "allocated", "deleted"}]
  /\ op \in [Sessions -> {"none", "accept", "read"}]
  /\ queue \subseteq Completion
  /\ pc \in [Threads -> Labels]
  /\ cur \in [Threads -> Sessions \cup {None}]
  /\ client \in [Sessions -> {"none", "connected", "sent", "answered", "gone"}]
  /\ socket \in [Sessions -> {"closed", "open", "shut"}]
  /\ \A s \in Sessions : object[s] # "allocated" => socket[s] = "closed"

(* A session is in one place at a time: it waits for one operation, or one *)
(* completion of it is queued, or one thread runs it.  So session needs no *)
(* lock and no strand, though any thread may pick up its next completion.  *)
SingleOwner ==
  \A s \in Sessions :
    /\ op[s] # "none" => ~Queued(s) /\ \A t \in Threads : ~Runs(t, s)
    /\ Queued(s) => \A t \in Threads : ~Runs(t, s)
    /\ \A c, d \in queue : c.s = s /\ d.s = s => c = d
    /\ \A t, u \in Threads : Runs(t, s) /\ Runs(u, s) => t = u

(* A session is not used after it was deleted: what is waited for, queued  *)
(* or running belongs to an object that is still there.                    *)
NoUseAfterDelete ==
  \A s \in Sessions :
    op[s] # "none" \/ Queued(s) \/ (\E t \in Threads : Runs(t, s)) =>
      object[s] = "allocated"

(* The server goes on accepting: exactly one accept is pending, queued or  *)
(* in handle_accept, also after an accept has failed.                      *)
AcceptorArmed ==
  LET pending == {s \in Sessions : op[s] = "accept"}
      queued == {c \in queue : c.handler = "accept"}
      running == {t \in Threads :
                    pc[t] \in {"accept", "accept_error", "start_accept"}}
      accepts == Cardinality(pending) + Cardinality(queued) + Cardinality(running)
  IN  /\ accepts <= 1
      /\ (\E s \in Sessions : object[s] = "unused") => accepts = 1

(* A client that has sent its request comes to its handler or sees the     *)
(* connection closed, unless it leaves, the process dies or every thread   *)
(* of the pool is held in handlers and writes: no completion is lost, and  *)
(* clients that connect and stay silent, or leave, hold no thread.         *)
SentIsServed ==
  \A s \in Sessions :
    client[s] = "sent" ~>
      \/ client[s] # "sent" \/ object[s] = "deleted" \/ ~alive
      \/ \E t \in Threads : cur[t] = s /\ Held(t)
      \/ \A t \in Threads : Held(t)
=============================================================================
