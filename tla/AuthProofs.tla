----------------------------- MODULE AuthProofs -----------------------------
(***************************************************************************)
(* Proofs about the user database under the authentication handler, for    *)
(* any number of threads, browsers, emails, passwords, users and crashes.  *)
(*                                                                         *)
(* The file is only appended to as long as no signup creates it while      *)
(* another one runs (FileInv); stable accounts, current cookies and the    *)
(* bound on duplicates rest on that.  Uniqueness and login after signup    *)
(* further need that what a signup has read is still so when it writes     *)
(* (SerialInv).                                                            *)
(***************************************************************************)
EXTENDS Authentication, SequenceTheorems, FiniteSetTheorems, TLAPS

-----------------------------------------------------------------------------
(* The record signup writes, as lines.                                     *)

LEMMA WrittenRows ==
  ASSUME NEW c \in Call, NEW i \in Nat
  PROVE  /\ Written(i, c) \in Seq(Lines) /\ Len(Written(i, c)) \in 1..3
         /\ \A k \in 1..Len(Written(i, c)) :
              /\ Written(i, c)[k].id = (IF k = 1 THEN i ELSE 0)
              /\ Written(i, c)[k].fields = 4 =>
                   /\ k = 1 /\ c.cut = {}
                   /\ Written(i, c)[k].email = c.email
         /\ c.cut = {} => Written(i, c) = << Line(i, c.email, c.password, 4) >>
<1> DEFINE r1(m, n) == Line(i, c.email, m, n)
           r2(m, n) == Line(0, m, NoUser, n)
<1>1. /\ c.cut \in SUBSET {"email", "name"} /\ c.email \in Emails
      /\ c.name \in Emails \cup {NoUser} /\ c.password \in Passwords
  BY DEF Call
<1>2. \A m \in Passwords \cup {NoUser}, n \in 2..4 :
        /\ r1(m, n) \in Lines /\ r1(m, n).fields = n /\ r1(m, n).id = i
        /\ r1(m, n).email = c.email
  BY <1>1 DEF Line, Lines
<1>3. \A m \in Emails \cup {NoUser}, n \in 2..4 :
        r2(m, n) \in Lines /\ r2(m, n).fields = n /\ r2(m, n).id = 0
  BY DEF Line, Lines
<1> HIDE DEF r1, r2
<1>4. CASE c.cut = {}
  <2>1. Written(i, c) = <<r1(c.password, 4)>>
    BY <1>4 DEF Written, r1
  <2> QED BY <1>1, <1>2, <1>4, <2>1 DEF r1
<1>5. CASE c.cut = {"name"}
  <2>1. Written(i, c) = <<r1(NoUser, 3), r2(NoUser, 2)>>
    BY <1>5 DEF Written, r1, r2
  <2> QED BY <1>1, <1>2, <1>3, <1>5, <2>1
<1>6. CASE c.cut = {"email"}
  <2>1. Written(i, c) = <<r1(NoUser, 2), r2(c.name, 3)>>
    BY <1>6 DEF Written, r1, r2
  <2> QED BY <1>1, <1>2, <1>3, <1>6, <2>1
<1>7. CASE c.cut = {"email", "name"}
  <2>1. c.cut # {} /\ c.cut # {"name"} /\ c.cut # {"email"}
    BY <1>7
  <2>2. Written(i, c) = <<r1(NoUser, 2), r2(c.name, 2), r2(NoUser, 2)>>
    BY <2>1 DEF Written, r1, r2
  <2> QED BY <1>1, <1>2, <1>3, <2>1, <2>2
<1> QED BY <1>1, <1>4, <1>5, <1>6, <1>7

(* What appending it does to the file.                                     *)
Appended(i, c) == db' = db \o Written(i, c)

LEMMA AppendedRows ==
  ASSUME db \in Seq(Lines), NEW c \in Call, NEW i \in Nat, Appended(i, c)
  PROVE  /\ db' \in Seq(Lines)
         /\ Len(db) \in Nat /\ Len(db') \in Nat /\ Len(db') > Len(db)
         /\ \A j \in 1..Len(db) : db'[j] = db[j]
         /\ \A j \in (Len(db) + 1)..Len(db') :
              /\ db'[j].id = (IF j = Len(db) + 1 THEN i ELSE 0)
              /\ db'[j].fields = 4 =>
                   /\ j = Len(db) + 1 /\ c.cut = {} /\ db'[j].email = c.email
         /\ c.cut = {} => /\ Len(db') = Len(db) + 1
                          /\ db'[Len(db) + 1] = Line(i, c.email, c.password, 4)
<1> DEFINE w == Written(i, c)
<1>1. /\ w \in Seq(Lines) /\ Len(w) \in 1..3
      /\ \A k \in 1..Len(w) :
           /\ w[k].id = (IF k = 1 THEN i ELSE 0)
           /\ w[k].fields = 4 => k = 1 /\ c.cut = {} /\ w[k].email = c.email
      /\ c.cut = {} => w = << Line(i, c.email, c.password, 4) >>
  BY WrittenRows
<1>2. db' = db \o w
  BY DEF Appended
<1> HIDE DEF w
<1>3. db' \in Seq(Lines) /\ Len(db') = Len(db) + Len(w) /\ Len(db) \in Nat
  BY <1>1, <1>2
<1>4. \A j \in 1..Len(db) : db'[j] = db[j]
  BY <1>1, <1>2
<1>5. ASSUME NEW j \in (Len(db) + 1)..Len(db')
      PROVE  db'[j] = w[j - Len(db)] /\ j - Len(db) \in 1..Len(w)
  BY <1>1, <1>2, <1>3
<1>6. c.cut = {} => /\ Len(db') = Len(db) + 1
                    /\ db'[Len(db) + 1] = Line(i, c.email, c.password, 4)
  <2> SUFFICES ASSUME c.cut = {} PROVE Len(db') = Len(db) + 1
                                       /\ db'[Len(db) + 1] = Line(i, c.email, c.password, 4)
    OBVIOUS
  <2>1. w = << Line(i, c.email, c.password, 4) >>
    BY <1>1
  <2>2. Len(w) = 1 /\ w[1] = Line(i, c.email, c.password, 4)
    BY <2>1
  <2> QED BY <1>3, <1>5, <2>2
<1>7. ASSUME NEW j \in (Len(db) + 1)..Len(db')
      PROVE  /\ db'[j].id = (IF j = Len(db) + 1 THEN i ELSE 0)
             /\ db'[j].fields = 4 =>
                  /\ j = Len(db) + 1 /\ c.cut = {} /\ db'[j].email = c.email
  <2>1. PICK k \in 1..Len(w) : k = j - Len(db) /\ db'[j] = w[k]
    BY <1>5
  <2>2. k = 1 <=> j = Len(db) + 1
    BY <1>1, <1>3, <2>1
  <2> QED BY <1>1, <2>1, <2>2
<1>8. Len(db') \in Nat /\ Len(db') > Len(db)
  BY <1>1, <1>3
<1> QED BY <1>3, <1>4, <1>6, <1>7, <1>8

-----------------------------------------------------------------------------
(* The invariant of the database.                                          *)

(* Threads hold a call from its start to its end, and what writes is a     *)
(* signup with an id counted from 1.                                       *)
ThreadInv(t) ==
  /\ pc[t] = "idle" => call[t] = NoCall
  /\ pc[t] # "idle" => call[t] \in Calls
  /\ pc[t] \in {"append", "create", "create_write"} => call[t].op = "signup"
  /\ pc[t] = "append" => uid[t] # 0

Alone == \A t, u \in Threads : Signing(t) /\ Signing(u) => t = u

(* A signup that creates the file finds none, and is alone with it until   *)
(* it has written its line.                                                *)
FileInv ==
  /\ ~exists => db = <<>>
  /\ \A t \in Threads : pc[t] = "create_write" => exists
  /\ "creation" \in incidents => "overlap" \in incidents
  /\ "overlap" \notin incidents => Alone
  /\ "creation" \notin incidents =>
       /\ Creating => Alone
       /\ \A t \in Threads : /\ pc[t] = "create" => ~exists
                             /\ pc[t] = "create_write" => db = <<>>

Inv == TypeOK /\ FileInv /\ \A t \in Threads : ThreadInv(t)

(* The end of the process, as the database sees it.                        *)
Killed ==
  /\ pc' = [u \in Threads |-> "idle"]
  /\ call' = [u \in Threads |-> NoCall]
  /\ uid' = [u \in Threads |-> 0]
  /\ result' = [u \in Threads |-> FALSE]
  /\ UNCHANGED <<exists, db, acked, incidents>>

(* A call that returns without a change to the file; a signup that returns *)
(* true then has lost its line.                                            *)
Quits(t) ==
  /\ pc[t] # "idle"
  /\ UNCHANGED <<exists, db>>
  /\ incidents' \in {incidents, incidents \cup {"unwritten"}}
  /\ \E b \in BOOLEAN :
       Return(t, b) /\ (b /\ call[t].op = "signup" => "unwritten" \in incidents')

(* A signup that is sent on: to create the file it did not find, or to     *)
(* append, knowing the lines or not having seen any.                       *)
GoesOn(t) ==
  /\ Calling(t, "signup")
  /\ UNCHANGED <<exists, db>>
  /\ \/ ~exists /\ Goto(t, "create") /\ uid' = uid /\ incidents' = incidents
     \/ /\ exists /\ Goto(t, "append")
        /\ Seen(call[t]) = {} /\ uid' = [uid EXCEPT ![t] = Len(db) + 1]
        /\ incidents' = incidents
     \/ /\ exists /\ Goto(t, "append")
        /\ uid' = [uid EXCEPT ![t] = 1]
        /\ incidents' = incidents \cup {"unread"}

LEMMA StepCases ==
  ASSUME Inv, [Next]_vars
  PROVE  \/ UNCHANGED vars
         \/ \E t \in Threads :
              \/ Quits(t) \/ GoesOn(t) \/ SignupAppend(t) \/ CreateOpen(t)
              \/ CreateWrite(t) \/ Done(t) \/ \E c \in Calls : Start(t, c)
<1> SUFFICES ASSUME NEW t \in Threads, Step(t)
             PROVE  \/ Quits(t) \/ GoesOn(t) \/ SignupAppend(t) \/ CreateOpen(t)
                    \/ CreateWrite(t) \/ Done(t)
  BY DEF Next
<1>1. CASE Malformed(t) \/ MalformedCookie(t)
  BY <1>1 DEF Malformed, MalformedCookie, Quits
<1>2. CASE SignupRead(t)
  BY <1>2 DEF SignupRead, Calling, Quits, GoesOn
<1>3. CASE SignupUnread(t)
  BY <1>3 DEF SignupUnread, GoesOn
<1>4. CASE SignupLost(t)
  BY <1>4 DEF SignupLost, Quits
<1>5. CASE Login(t)
  <2>1. pc[t] = "called" /\ call[t].op = "login" /\ UNCHANGED <<exists, db, incidents>>
    BY <1>5 DEF Login, Calling
  <2>2. \E b \in BOOLEAN : Return(t, b)
    <3>1. PICK rows \in Got(Found(call[t])) :
            Return(t, exists /\ {i \in rows : /\ db[i].fields = 4
                                              /\ db[i].password = call[t].password} # {})
      BY <1>5 DEF Login
    <3> QED BY <3>1 DEF Inv, TypeOK, Types
  <2> QED BY <2>1, <2>2 DEF Quits
<1>6. CASE EmailExists(t)
  <2>1. pc[t] = "called" /\ call[t].op = "email_exists" /\ UNCHANGED <<exists, db, incidents>>
    BY <1>6 DEF EmailExists, Calling
  <2>2. \E b \in BOOLEAN : Return(t, b)
    <3>1. PICK rows \in Got(Seen(call[t])) : Return(t, exists /\ rows # {})
      BY <1>6 DEF EmailExists
    <3> QED BY <3>1 DEF Inv, TypeOK, Types
  <2> QED BY <2>1, <2>2 DEF Quits
<1> QED BY <1>1, <1>2, <1>3, <1>4, <1>5, <1>6 DEF Step

LEMMA CallsType == Calls \subseteq Call /\ NoCall \notin Calls /\ NoCall.op = "none"
BY ProfileAssumption DEF Call, NoCall

(* Incidents are never forgotten.                                          *)
LEMMA IncidentsKept ==
  ASSUME Inv, [Next]_vars \/ Killed
  PROVE  incidents \subseteq incidents'
<1>1. CASE Killed
  BY <1>1 DEF Killed
<1>2. CASE [Next]_vars
  BY <1>2, StepCases
  DEF vars, Quits, GoesOn, SignupAppend, CreateOpen, CreateWrite, Done, Start
<1> QED BY <1>1, <1>2

(* While no signup creates the file next to another one, the file is left  *)
(* as it is, or one signup appends its lines and returns.                  *)
Writes(t) ==
  /\ pc[t] \in {"append", "create_write"}
  /\ Return(t, TRUE) /\ exists' /\ incidents' = incidents
  /\ \E i \in Nat \ {0} :
       /\ pc[t] = "append" => i = uid[t]
       /\ pc[t] = "create_write" => i = 1
       /\ Appended(i, call[t])

LEMMA CreateAppends ==
  ASSUME Inv, "creation" \notin incidents, NEW t \in Threads, CreateWrite(t)
  PROVE  Writes(t)
<1>1. db = <<>> /\ Len(db) = 0 /\ exists /\ call[t] \in Call
  BY CallsType DEF CreateWrite, Inv, FileInv, ThreadInv
<1> DEFINE w == Written(1, call[t])
<1>2. w \in Seq(Lines)
  BY <1>1, WrittenRows
<1>3. db' = w \o <<>> \o SubSeq(db, 1, 0)
  <2>1. PICK k \in 0..Len(db) :
          \E rest \in IF k = 0 THEN {<<>>} ELSE Rests(db[k]) :
            db' = w \o rest \o SubSeq(db, k + 1, Len(db))
    BY DEF CreateWrite
  <2> QED BY <1>1, <2>1
<1> HIDE DEF w
<1>4. SubSeq(db, 1, 0) = <<>>
  BY <1>1, SubSeqEmpty
<1>5. w \o <<>> = w /\ <<>> \o w = w
  BY <1>2, ConcatEmptySeq
<1>6. Appended(1, call[t])
  BY <1>1, <1>3, <1>4, <1>5 DEF Appended, w
<1>7. pc[t] = "create_write" /\ exists' /\ incidents' = incidents /\ Return(t, TRUE)
  BY <1>1 DEF CreateWrite, Inv, TypeOK, Types
<1>8. \E i \in Nat \ {0} :
        /\ pc[t] = "append" => i = uid[t]
        /\ pc[t] = "create_write" => i = 1
        /\ Appended(i, call[t])
  <2>1. 1 \in Nat \ {0}
    OBVIOUS
  <2> QED BY <1>6, <1>7, <2>1
<1> QED BY <1>7, <1>8 DEF Writes

LEMMA SignupAppends ==
  ASSUME Inv, NEW t \in Threads, SignupAppend(t)
  PROVE  Writes(t)
<1>1. uid[t] \in Nat \ {0}
  BY DEF SignupAppend, Inv, TypeOK, Types, ThreadInv
<1> QED BY <1>1 DEF SignupAppend, Writes, Appended

LEMMA FileStep ==
  ASSUME Inv, [Next]_vars \/ Killed, "creation" \notin incidents'
  PROVE  db' = db \/ \E t \in Threads : Writes(t)
<1>0. "creation" \notin incidents
  BY IncidentsKept
<1>1. ASSUME NEW t \in Threads, CreateOpen(t) PROVE db' = db
  BY <1>0, <1>1 DEF CreateOpen, Inv, FileInv
<1>2. CASE Killed
  BY <1>2 DEF Killed
<1>3. CASE [Next]_vars
  BY <1>0, <1>1, <1>3, StepCases, SignupAppends, CreateAppends
  DEF vars, Quits, GoesOn, Done, Start
<1> QED BY <1>2, <1>3

-----------------------------------------------------------------------------
(* The invariant is kept.                                                  *)

LEMMA RestsType ==
  ASSUME NEW l \in Lines, NEW r \in Rests(l)
  PROVE  r \in Seq(Lines)
<1>1. CASE r = <<>>
  BY <1>1
<1>2. ASSUME NEW n \in 0..(l.id - 1), r = <<[l EXCEPT !.id = n]>>
      PROVE  r \in Seq(Lines)
  <2>1. [l EXCEPT !.id = n] \in Lines
    BY DEF Lines
  <2> QED BY <1>2, <2>1
<1>3. ASSUME NEW m \in Emails \cup {NoUser}, NEW n \in 2..(l.fields - 1),
             r = <<Line(0, m, NoUser, n)>>
      PROVE  r \in Seq(Lines)
  <2>1. n \in 2..4
    BY DEF Lines
  <2>2. Line(0, m, NoUser, n) \in Lines
    BY <2>1 DEF Line, Lines
  <2> QED BY <1>3, <2>2
<1> QED BY <1>1, <1>2, <1>3 DEF Rests

LEMMA FileType ==
  ASSUME Inv, [Next]_vars \/ Killed
  PROVE  db' \in Seq(Lines)
<1>1. db \in Seq(Lines)
  BY DEF Inv, TypeOK, Types
<1>2. ASSUME NEW t \in Threads, SignupAppend(t) PROVE db' \in Seq(Lines)
  <2>1. call[t] \in Call /\ uid[t] \in Nat
    BY <1>2, CallsType DEF SignupAppend, Inv, TypeOK, Types, ThreadInv
  <2> QED BY <1>1, <1>2, <2>1, AppendedRows DEF SignupAppend, Appended
<1>3. ASSUME NEW t \in Threads, CreateWrite(t) PROVE db' \in Seq(Lines)
  <2>1. call[t] \in Call
    BY <1>3, CallsType DEF CreateWrite, Inv, ThreadInv
  <2>2. PICK k \in 0..Len(db) :
          \E rest \in IF k = 0 THEN {<<>>} ELSE Rests(db[k]) :
            db' = Written(1, call[t]) \o rest \o SubSeq(db, k + 1, Len(db))
    BY <1>3 DEF CreateWrite
  <2>3. PICK rest \in IF k = 0 THEN {<<>>} ELSE Rests(db[k]) :
          db' = Written(1, call[t]) \o rest \o SubSeq(db, k + 1, Len(db))
    BY <2>2
  <2>4. rest \in Seq(Lines)
    <3>1. CASE k = 0
      BY <2>3, <3>1
    <3>2. CASE k # 0
      <4>1. db[k] \in Lines
        BY <1>1, <3>2
      <4> QED BY <2>3, <3>2, <4>1, RestsType
    <3> QED BY <3>1, <3>2
  <2>5. Written(1, call[t]) \in Seq(Lines)
    BY <2>1, WrittenRows
  <2>6. SubSeq(db, k + 1, Len(db)) \in Seq(Lines)
    BY <1>1
  <2> QED BY <2>3, <2>4, <2>5, <2>6
<1>4. ASSUME NEW t \in Threads, CreateOpen(t) PROVE db' \in Seq(Lines)
  BY <1>4 DEF CreateOpen
<1>5. CASE Killed
  BY <1>1, <1>5 DEF Killed
<1>6. CASE [Next]_vars
  BY <1>1, <1>2, <1>3, <1>4, <1>6, StepCases DEF vars, Quits, GoesOn, Done, Start
<1> QED BY <1>5, <1>6

LEMMA NumberedStep ==
  ASSUME Inv, [Next]_vars \/ Killed
  PROVE  Numbered'
<1> SUFFICES ASSUME "creation" \notin incidents',
                    NEW j \in 1..Len(db'), db'[j].fields = 4
             PROVE  db'[j].id # 0
  BY DEF Numbered
<1>1. db \in Seq(Lines) /\ Len(db) \in Nat
      /\ \A i \in 1..Len(db) : db[i].fields = 4 => db[i].id # 0
  BY IncidentsKept DEF Inv, TypeOK, Types, Numbered
<1>2. CASE db' = db
  BY <1>1, <1>2
<1>3. ASSUME NEW t \in Threads, Writes(t) PROVE db'[j].id # 0
  <2>1. PICK i \in Nat \ {0} : Appended(i, call[t])
    BY <1>3 DEF Writes
  <2>2. call[t] \in Call
    BY <1>3, CallsType DEF Writes, Inv, ThreadInv
  <2>3. /\ Len(db') \in Nat /\ \A k \in 1..Len(db) : db'[k] = db[k]
        /\ \A k \in (Len(db) + 1)..Len(db') :
             /\ db'[k].id = (IF k = Len(db) + 1 THEN i ELSE 0)
             /\ db'[k].fields = 4 => k = Len(db) + 1
    BY <1>1, <2>1, <2>2, AppendedRows
  <2>4. j \in 1..Len(db) \/ j \in (Len(db) + 1)..Len(db')
    BY <1>1, <2>3
  <2> QED BY <1>1, <2>1, <2>3, <2>4
<1> QED BY <1>2, <1>3, FileStep

(* What a step does to the threads: one returns, goes on, starts or is     *)
(* done, or all of them are gone.                                          *)
LEMMA ReturnType ==
  ASSUME Inv, NEW t \in Threads, NEW b \in BOOLEAN, pc[t] # "idle", Return(t, b)
  PROVE  /\ pc' \in [Threads -> {"idle", "called", "append", "create",
                                 "create_write", "done"}]
         /\ call' \in [Threads -> Calls \cup {NoCall}]
         /\ uid' \in [Threads -> Nat]
         /\ result' \in [Threads -> BOOLEAN]
         /\ acked' \subseteq Calls
         /\ \A u \in Threads : ThreadInv(u)'
<1> USE DEF Inv, TypeOK, Types, ThreadInv
<1>1. call[t] \in Calls
  OBVIOUS
<1>2. acked' \subseteq Calls
  BY <1>1 DEF Return
<1> QED BY <1>1, <1>2 DEF Return

LEMMA ThreadsStep ==
  ASSUME Inv, [Next]_vars \/ Killed
  PROVE  Types' /\ \A u \in Threads : ThreadInv(u)'
<1>0. db' \in Seq(Lines)
  BY FileType
<1>1. CASE UNCHANGED vars
  BY <1>1 DEF vars, Inv, TypeOK, Types, ThreadInv
<1>2. ASSUME NEW t \in Threads, Quits(t)
      PROVE  Types' /\ \A u \in Threads : ThreadInv(u)'
  BY <1>0, <1>2, ReturnType DEF Quits, Inv, TypeOK, Types
<1>3. ASSUME NEW t \in Threads, GoesOn(t)
      PROVE  Types' /\ \A u \in Threads : ThreadInv(u)'
  <2>1. PICK label \in {"create", "append"} : Goto(t, label)
    BY <1>3 DEF GoesOn
  <2>2. uid' \in [Threads -> Nat] /\ (label = "append" => uid'[t] # 0)
        /\ \A u \in Threads \ {t} : uid'[u] = uid[u]
    <3>1. Len(db) \in Nat
      BY DEF Inv, TypeOK, Types
    <3>2. pc'[t] = label
      BY <2>1 DEF Goto, Inv, TypeOK, Types
    <3>3. CASE Goto(t, "create") /\ uid' = uid
      <4>1. label # "append"
        BY <3>2, <3>3 DEF Goto, Inv, TypeOK, Types
      <4> QED BY <3>3, <4>1 DEF Inv, TypeOK, Types
    <3>4. CASE uid' = [uid EXCEPT ![t] = Len(db) + 1]
      BY <3>1, <3>4 DEF Inv, TypeOK, Types
    <3>5. CASE uid' = [uid EXCEPT ![t] = 1]
      BY <3>5 DEF Inv, TypeOK, Types
    <3> QED BY <1>3, <3>3, <3>4, <3>5 DEF GoesOn
  <2>3. incidents' \subseteq {"overlap", "creation", "unread", "unwritten"}
        /\ exists' \in BOOLEAN
    BY <1>3 DEF GoesOn, Inv, TypeOK, Types
  <2>4. pc[t] = "called" /\ call[t].op = "signup"
    BY <1>3 DEF GoesOn, Calling
  <2> QED BY <1>0, <2>1, <2>2, <2>3, <2>4 DEF Goto, Inv, TypeOK, Types, ThreadInv
<1>4. ASSUME NEW t \in Threads, SignupAppend(t) \/ CreateWrite(t)
      PROVE  Types' /\ \A u \in Threads : ThreadInv(u)'
  BY <1>0, <1>4, ReturnType DEF SignupAppend, CreateWrite, Inv, TypeOK, Types
<1>5. ASSUME NEW t \in Threads, CreateOpen(t)
      PROVE  Types' /\ \A u \in Threads : ThreadInv(u)'
  BY <1>0, <1>5 DEF CreateOpen, Goto, Inv, TypeOK, Types, ThreadInv
<1>6. ASSUME NEW t \in Threads, Done(t)
      PROVE  Types' /\ \A u \in Threads : ThreadInv(u)'
  BY <1>0, <1>6 DEF Done, Inv, TypeOK, Types, ThreadInv
<1>7. ASSUME NEW t \in Threads, NEW c \in Calls, Start(t, c)
      PROVE  Types' /\ \A u \in Threads : ThreadInv(u)'
  BY <1>0, <1>7 DEF Start, Arises, Inv, TypeOK, Types, ThreadInv
<1>8. CASE Killed
  BY <1>0, <1>8 DEF Killed, Inv, TypeOK, Types, ThreadInv
<1> QED
  BY <1>1, <1>2, <1>3, <1>4, <1>5, <1>6, <1>7, <1>8, StepCases

(* Only a start makes a thread a signup, and none leads back to where the  *)
(* file may have to be created.                                            *)
LEMMA SigningStep ==
  ASSUME Inv, [Next]_vars \/ Killed,
         ~\E t \in Threads, c \in Calls : Start(t, c)
  PROVE  \A u \in Threads : Signing(u)' => Signing(u)
<1>1. ASSUME NEW t \in Threads, NEW b \in BOOLEAN, Return(t, b)
      PROVE  \A u \in Threads : Signing(u)' => Signing(u)
  BY <1>1 DEF Return, Signing, Inv, TypeOK, Types
<1>2. ASSUME NEW t \in Threads, NEW label \in {"create", "append", "create_write"},
             Goto(t, label), pc[t] # "done"
      PROVE  \A u \in Threads : Signing(u)' => Signing(u)
  BY <1>2 DEF Goto, Signing, Inv, TypeOK, Types
<1>3. ASSUME NEW t \in Threads, Done(t)
      PROVE  \A u \in Threads : Signing(u)' => Signing(u)
  BY <1>3 DEF Done, Signing, NoCall, Inv, TypeOK, Types
<1>4. CASE Killed
  BY <1>4 DEF Killed, Signing, NoCall
<1>5. CASE UNCHANGED vars
  BY <1>5 DEF vars, Signing
<1>6. ASSUME NEW t \in Threads, GoesOn(t) \/ CreateOpen(t)
      PROVE  \A u \in Threads : Signing(u)' => Signing(u)
  BY <1>2, <1>6 DEF GoesOn, CreateOpen, Calling
<1>7. ASSUME NEW t \in Threads, Quits(t) \/ SignupAppend(t) \/ CreateWrite(t)
      PROVE  \A u \in Threads : Signing(u)' => Signing(u)
  BY <1>1, <1>7 DEF Quits, SignupAppend, CreateWrite
<1> QED BY <1>3, <1>4, <1>5, <1>6, <1>7, StepCases

LEMMA CreatingStep ==
  ASSUME Inv, [Next]_vars \/ Killed
  PROVE  (exists => exists') /\ (Creating' => Creating)
<1> USE DEF Creating, Inv, TypeOK, Types
<1>1. CASE UNCHANGED vars \/ Killed
  BY <1>1 DEF vars, Killed
<1>2. ASSUME NEW t \in Threads, Quits(t) \/ SignupAppend(t) \/ CreateWrite(t)
      PROVE  (exists => exists') /\ (Creating' => Creating)
  BY <1>2 DEF Quits, SignupAppend, CreateWrite, Return
<1>3. ASSUME NEW t \in Threads, GoesOn(t)
      PROVE  (exists => exists') /\ (Creating' => Creating)
  BY <1>3 DEF GoesOn, Goto
<1>4. ASSUME NEW t \in Threads, CreateOpen(t)
      PROVE  (exists => exists') /\ (Creating' => Creating)
  BY <1>4 DEF CreateOpen
<1>5. ASSUME NEW t \in Threads, Done(t) \/ \E c \in Calls : Start(t, c)
      PROVE  (exists => exists') /\ (Creating' => Creating)
  BY <1>5 DEF Done, Start
<1> QED BY <1>1, <1>2, <1>3, <1>4, <1>5, StepCases

LEMMA AloneStep ==
  ASSUME Inv, [Next]_vars \/ Killed
  PROVE  /\ "creation" \in incidents' => "overlap" \in incidents'
         /\ "overlap" \notin incidents' => Alone'
         /\ "creation" \notin incidents' /\ Creating' => Alone'
<1>1. ASSUME NEW t \in Threads, NEW c \in Calls, Start(t, c)
      PROVE  /\ "creation" \in incidents' => "overlap" \in incidents'
             /\ "overlap" \notin incidents' => Alone'
             /\ "creation" \notin incidents' /\ Creating' => Alone'
  <2>1. \A u \in Threads : Signing(u)' => Signing(u) \/ (u = t /\ c.op = "signup")
    BY <1>1 DEF Start, Signing, Inv, TypeOK, Types
  <2>2. incidents' = incidents \cup Arises(c)
    BY <1>1 DEF Start
  <2>3. CASE c.op = "signup" /\ \E u \in Threads : Signing(u)
    <3>1. "overlap" \in Arises(c) /\ ("creation" \in Arises(c) <=> Creating)
      BY <2>3 DEF Arises
    <3> QED BY <1>1, <2>2, <3>1, CreatingStep
  <2>4. CASE ~(c.op = "signup" /\ \E u \in Threads : Signing(u))
    <3>1. Arises(c) = {}
      BY <2>4 DEF Arises
    <3>2. (Alone => Alone') 
      BY <2>1, <2>4 DEF Alone
    <3> QED BY <2>2, <3>1, <3>2, CreatingStep DEF Inv, FileInv
  <2> QED BY <2>3, <2>4
<1>2. CASE ~\E t \in Threads, c \in Calls : Start(t, c)
  <2>1. Alone => Alone'
    BY <1>2, SigningStep DEF Alone
  <2>2. "creation" \in incidents' => "creation" \in incidents
    <3>1. ASSUME NEW t \in Threads, Quits(t) \/ GoesOn(t)
          PROVE  "creation" \in incidents' => "creation" \in incidents
      BY <3>1 DEF Quits, GoesOn
    <3> QED BY <1>2, <3>1, StepCases DEF vars, Killed, SignupAppend, CreateOpen, CreateWrite, Done
  <2> QED BY <2>1, <2>2, IncidentsKept, CreatingStep DEF Inv, FileInv
<1> QED BY <1>1, <1>2

LEMMA FileInvStep ==
  ASSUME Inv, [Next]_vars \/ Killed
  PROVE  FileInv'
<1> USE DEF Inv, TypeOK, Types
<1>1. \A t \in Threads : pc'[t] = "create_write" => exists'
  <2>1. ASSUME NEW t \in Threads, Quits(t) \/ SignupAppend(t) \/ CreateWrite(t) \/ GoesOn(t)
        PROVE  \A u \in Threads : pc'[u] = "create_write" => exists'
    <3>1. \A u \in Threads : pc'[u] = "create_write" => pc[u] = "create_write"
      BY <2>1 DEF Quits, SignupAppend, CreateWrite, GoesOn, Return, Goto
    <3> QED BY <3>1, CreatingStep DEF FileInv
  <2>2. ASSUME NEW t \in Threads, Done(t) \/ \E c \in Calls : Start(t, c)
        PROVE  \A u \in Threads : pc'[u] = "create_write" => exists'
    BY <2>2 DEF Done, Start, FileInv
  <2>3. ASSUME NEW t \in Threads, CreateOpen(t) PROVE exists'
    BY <2>3 DEF CreateOpen
  <2>4. CASE UNCHANGED vars \/ Killed
    BY <2>4 DEF vars, Killed, FileInv
  <2> QED BY <2>1, <2>2, <2>3, <2>4, StepCases
<1>2. ~exists' => db' = <<>>
  <2> SUFFICES ASSUME ~exists' PROVE db' = <<>>
    OBVIOUS
  <2>1. ~exists /\ db = <<>>
    BY CreatingStep DEF FileInv
  <2>2. ASSUME NEW t \in Threads PROVE ~SignupAppend(t) /\ ~CreateOpen(t) /\ ~CreateWrite(t)
    BY <2>1 DEF SignupAppend, CreateOpen, CreateWrite, FileInv
  <2> QED BY <2>1, <2>2, StepCases DEF vars, Killed, Quits, GoesOn, Done, Start
<1>3. ASSUME "creation" \notin incidents', NEW u \in Threads, pc'[u] = "create"
      PROVE  ~exists'
  <2>0. "creation" \notin incidents
    BY <1>3, IncidentsKept
  <2>1. ASSUME NEW t \in Threads, GoesOn(t) PROVE ~exists'
    <3>1. CASE u = t
      BY <1>3, <2>1, <3>1 DEF GoesOn, Goto
    <3>2. CASE u # t
      BY <1>3, <2>0, <2>1, <3>2 DEF GoesOn, Goto, FileInv
    <3> QED BY <3>1, <3>2
  <2>2. ASSUME NEW t \in Threads, SignupAppend(t) \/ CreateOpen(t) PROVE FALSE
    <3>1. pc[u] = "create" /\ u # t /\ pc[t] \in {"append", "create"}
      BY <1>3, <2>2 DEF SignupAppend, CreateOpen, Return, Goto
    <3>2. Signing(u) /\ Signing(t) /\ Creating
      BY <3>1 DEF Signing, Creating, ThreadInv
    <3> QED BY <2>0, <3>1, <3>2 DEF FileInv, Alone
  <2>3. ASSUME NEW t \in Threads, Quits(t) \/ CreateWrite(t) PROVE ~exists'
    BY <1>3, <2>0, <2>3 DEF Quits, CreateWrite, Return, FileInv
  <2>4. ASSUME NEW t \in Threads, Done(t) \/ \E c \in Calls : Start(t, c) PROVE ~exists'
    BY <1>3, <2>0, <2>4 DEF Done, Start, FileInv
  <2>5. CASE UNCHANGED vars \/ Killed
    BY <1>3, <2>0, <2>5 DEF vars, Killed, FileInv
  <2> QED BY <2>1, <2>2, <2>3, <2>4, <2>5, StepCases
<1>4. ASSUME "creation" \notin incidents', NEW u \in Threads, pc'[u] = "create_write"
      PROVE  db' = <<>>
  <2>0. "creation" \notin incidents
    BY <1>4, IncidentsKept
  <2>1. ASSUME NEW t \in Threads, CreateOpen(t) PROVE db' = <<>>
    BY <2>1 DEF CreateOpen
  <2>2. ASSUME NEW t \in Threads, SignupAppend(t) \/ CreateWrite(t) PROVE FALSE
    <3>1. pc[u] = "create_write" /\ u # t /\ pc[t] \in {"append", "create_write"}
      BY <1>4, <2>2 DEF SignupAppend, CreateWrite, Return
    <3>2. Signing(u) /\ Signing(t) /\ Creating
      BY <3>1 DEF Signing, Creating, ThreadInv
    <3> QED BY <2>0, <3>1, <3>2 DEF FileInv, Alone
  <2>3. ASSUME NEW t \in Threads, Quits(t) \/ GoesOn(t) PROVE db' = <<>>
    BY <1>4, <2>0, <2>3 DEF Quits, GoesOn, Return, Goto, FileInv
  <2>4. ASSUME NEW t \in Threads, Done(t) \/ \E c \in Calls : Start(t, c) PROVE db' = <<>>
    BY <1>4, <2>0, <2>4 DEF Done, Start, FileInv
  <2>5. CASE UNCHANGED vars \/ Killed
    BY <1>4, <2>0, <2>5 DEF vars, Killed, FileInv
  <2> QED BY <2>1, <2>2, <2>3, <2>4, <2>5, StepCases
<1> QED BY <1>1, <1>2, <1>3, <1>4, AloneStep DEF FileInv

LEMMA InvStep ==
  ASSUME Inv, [Next]_vars \/ Killed
  PROVE  Inv'
BY ThreadsStep, NumberedStep, FileInvStep DEF Inv, TypeOK

LEMMA InvInit == Init => Inv
<1> SUFFICES ASSUME Init PROVE Inv
  OBVIOUS
<1>1. Types /\ Numbered
  BY DEF Init, Types, Numbered
<1>2. \A t \in Threads : ThreadInv(t) /\ ~Signing(t)
  BY CallsType DEF Init, ThreadInv, Signing
<1>3. FileInv
  BY <1>2 DEF Init, FileInv, Alone
<1> QED BY <1>1, <1>2, <1>3 DEF Inv, TypeOK

-----------------------------------------------------------------------------
(* What login finds.                                                       *)

LEMMA AppendIsStable ==
  ASSUME db \in Seq(Lines), NEW c \in Call, NEW n \in Nat, Appended(n, c)
  PROVE  StableStep
<1> SUFFICES ASSUME NEW email \in Emails, NEW i \in 1..Len(db), First(i, email)
             PROVE  First(i, email)' /\ db'[i] = db[i]
  BY DEF StableStep
<1>1. /\ Len(db) \in Nat /\ Len(db') \in Nat /\ Len(db') > Len(db)
      /\ \A j \in 1..Len(db) : db'[j] = db[j]
  BY AppendedRows
<1> QED BY <1>1 DEF First, LinesOf

LEMMA WriterCalls ==
  ASSUME Inv, NEW t \in Threads, Writes(t)
  PROVE  call[t] \in Call /\ call[t].op = "signup"
BY CallsType DEF Writes, Inv, ThreadInv

LEMMA FileIsStable ==
  ASSUME Inv, [Next]_vars \/ Killed, "creation" \notin incidents'
  PROVE  StableStep
<1>1. CASE db' = db
  BY <1>1 DEF StableStep, First, LinesOf
<1>2. ASSUME NEW t \in Threads, Writes(t) PROVE StableStep
  <2>1. PICK i \in Nat : Appended(i, call[t])
    BY <1>2 DEF Writes
  <2>2. call[t] \in Call /\ db \in Seq(Lines)
    BY <1>2, WriterCalls DEF Inv, TypeOK, Types
  <2> QED BY <2>1, <2>2, AppendIsStable
<1> QED BY <1>1, <1>2, FileStep

-----------------------------------------------------------------------------
(* How many accounts an email can get.                                     *)

(* The signups that did not find the email and have not written yet.       *)
Appending(email) ==
  {t \in Threads : /\ pc[t] \in {"append", "create_write"}
                   /\ call[t].email = email /\ call[t].cut = {}}

(* A signup joins Appending only while there is no account with its email, *)
(* so the accounts of an email were all made by threads that were in there *)
(* together.                                                               *)
Bounded ==
  incidents \cap {"unread", "creation"} = {} =>
    \A email \in Emails :
      Cardinality(Accounts(email)) + Cardinality(Appending(email))
        <= Cardinality(Threads)

(* What a step does to the accounts of an email and to the signups that    *)
(* are about to add one: a signup gives up or is lost, one that found no   *)
(* account joins, or one writes its line.                                  *)
EmailStep(email) ==
  \/ Accounts(email)' = Accounts(email) /\ Appending(email)' \subseteq Appending(email)
  \/ Accounts(email)' = {}
  \/ \E t \in Appending(email), n \in Nat :
       /\ Accounts(email)' = Accounts(email) \cup {n} /\ n \notin Accounts(email)
       /\ Appending(email)' = Appending(email) \ {t}

LEMMA AccountsFinite ==
  ASSUME Inv, NEW email \in Emails
  PROVE  /\ IsFiniteSet(Accounts(email)) /\ IsFiniteSet(Appending(email))
         /\ Cardinality(Accounts(email)) \in Nat
         /\ Cardinality(Appending(email)) \in Nat
         /\ Cardinality(Threads) \in Nat
<1>1. Len(db) \in Nat
  BY DEF Inv, TypeOK, Types
<1>2. IsFiniteSet(1..Len(db))
  BY <1>1, FS_Interval
<1>3. IsFiniteSet(Accounts(email))
  BY <1>2, FS_Subset DEF Accounts, LinesOf
<1>4. IsFiniteSet(Appending(email))
  BY ProfileAssumption, FS_Subset DEF Appending
<1> QED BY <1>3, <1>4, ProfileAssumption, FS_CardinalityType

LEMMA BoundedKept ==
  ASSUME Inv, incidents \cap {"unread", "creation"} = {}, Bounded,
         \A email \in Emails : EmailStep(email)
  PROVE  Bounded'
<1> SUFFICES ASSUME NEW email \in Emails
             PROVE  Cardinality(Accounts(email)') + Cardinality(Appending(email)')
                      <= Cardinality(Threads)
  BY DEF Bounded
<1> DEFINE l == Cardinality(Accounts(email))
           a == Cardinality(Appending(email))
           m == Cardinality(Accounts(email)')
           b == Cardinality(Appending(email)')
           n == Cardinality(Threads)
<1>1. l \in Nat /\ a \in Nat /\ n \in Nat /\ l + a <= n
  BY AccountsFinite DEF Bounded
<1>2. IsFiniteSet(Accounts(email)) /\ IsFiniteSet(Appending(email))
  BY AccountsFinite
<1>3. CASE /\ Accounts(email)' = Accounts(email)
           /\ Appending(email)' \subseteq Appending(email)
  <2>1. m = l /\ b \in Nat /\ b <= a
    BY <1>2, <1>3, FS_Subset, FS_CardinalityType
  <2> HIDE DEF l, a, m, b, n
  <2>2. m + b <= n
    BY <1>1, <2>1
  <2> QED BY <2>2 DEF m, b, n
<1>4. CASE Accounts(email)' = {}
  <2>1. Appending(email)' \subseteq Threads
    BY DEF Appending
  <2>2. m = 0 /\ b \in Nat /\ b <= n
    BY <1>4, <2>1, ProfileAssumption, FS_Subset, FS_CardinalityType, FS_EmptySet
  <2> HIDE DEF l, a, m, b, n
  <2>3. m + b <= n
    BY <1>1, <2>2
  <2> QED BY <2>3 DEF m, b, n
<1>5. ASSUME NEW t \in Appending(email), NEW i \in Nat,
             Accounts(email)' = Accounts(email) \cup {i}, i \notin Accounts(email),
             Appending(email)' = Appending(email) \ {t}
      PROVE  m + b <= n
  <2>1. m = l + 1
    BY <1>2, <1>5, FS_AddElement
  <2>2. b = a - 1
    BY <1>2, <1>5, FS_RemoveElement
  <2> HIDE DEF l, a, m, b, n
  <2> QED BY <1>1, <2>1, <2>2
<1> QED BY <1>3, <1>4, <1>5 DEF EmailStep

LEMMA WriteStep ==
  ASSUME Inv, NEW t \in Threads, Writes(t), NEW email \in Emails
  PROVE  EmailStep(email)
<1>0. Appending(email)' = Appending(email) \ {t}
  BY DEF Writes, Return, Appending, Inv, TypeOK, Types
<1>1. PICK i \in Nat : Appended(i, call[t])
  BY DEF Writes
<1>2. call[t] \in Call /\ db \in Seq(Lines)
  BY WriterCalls DEF Inv, TypeOK, Types
<1>3. /\ Len(db) \in Nat /\ Len(db') \in Nat /\ Len(db') > Len(db)
      /\ \A j \in 1..Len(db) : db'[j] = db[j]
      /\ \A j \in (Len(db) + 1)..Len(db') :
           db'[j].fields = 4 =>
             j = Len(db) + 1 /\ call[t].cut = {} /\ db'[j].email = call[t].email
      /\ call[t].cut = {} =>
           db'[Len(db) + 1] = Line(i, call[t].email, call[t].password, 4)
  BY <1>1, <1>2, AppendedRows
<1>4. \A j \in 1..Len(db') : j \in 1..Len(db) \/ j \in (Len(db) + 1)..Len(db')
  BY <1>3
<1>5. CASE call[t].email = email /\ call[t].cut = {}
  <2>1. PICK n \in Nat : n = Len(db) + 1
    BY <1>3
  <2>2. n \in 1..Len(db') /\ n \notin 1..Len(db)
    BY <1>3, <2>1
  <2>3. db'[n].email = email /\ db'[n].fields = 4
    BY <1>3, <1>5, <2>1 DEF Line
  <2>4. Accounts(email)' = Accounts(email) \cup {n} /\ n \notin Accounts(email)
    BY <1>3, <1>4, <2>1, <2>2, <2>3 DEF Accounts, LinesOf
  <2>5. t \in Appending(email)
    BY <1>5 DEF Appending, Writes
  <2> QED BY <1>0, <2>4, <2>5 DEF EmailStep
<1>6. CASE ~(call[t].email = email /\ call[t].cut = {})
  <2>1. Accounts(email)' = Accounts(email)
    BY <1>3, <1>4, <1>6 DEF Accounts, LinesOf
  <2> QED BY <1>0, <2>1 DEF EmailStep
<1> QED BY <1>5, <1>6

LEMMA BoundedStep ==
  ASSUME Inv, [Next]_vars \/ Killed, Bounded
  PROVE  Bounded'
<1> SUFFICES ASSUME incidents' \cap {"unread", "creation"} = {} PROVE Bounded'
  BY DEF Bounded
<1> USE DEF Inv, TypeOK, Types
<1>0. incidents \cap {"unread", "creation"} = {}
  BY IncidentsKept
<1> SUFFICES ASSUME NEW email \in Emails PROVE EmailStep(email)
  BY <1>0, BoundedKept
<1>1. db' = db => Accounts(email)' = Accounts(email)
  BY DEF Accounts, LinesOf
<1>2. ASSUME NEW t \in Threads, Quits(t) PROVE EmailStep(email)
  <2>1. Appending(email)' \subseteq Appending(email)
    BY <1>2 DEF Quits, Return, Appending
  <2> QED BY <1>1, <1>2, <2>1 DEF EmailStep, Quits
<1>3. ASSUME NEW t \in Threads, GoesOn(t) PROVE EmailStep(email)
  <2>1. db' = db /\ call' = call
    BY <1>3 DEF GoesOn, Goto
  <2>2. CASE Goto(t, "create")
    <3>1. Appending(email)' \subseteq Appending(email)
      BY <2>2 DEF Goto, Appending
    <3> QED BY <1>1, <2>1, <3>1 DEF EmailStep
  <2>3. CASE Goto(t, "append") /\ Seen(call[t]) = {}
    <3>1. CASE call[t].email = email /\ call[t].cut = {}
      <4>1. LinesOf(email) = {}
        BY <2>3, <3>1 DEF Seen
      <4>2. Accounts(email)' = {}
        BY <1>1, <2>1, <4>1 DEF Accounts
      <4> QED BY <4>2 DEF EmailStep
    <3>2. CASE ~(call[t].email = email /\ call[t].cut = {})
      <4>1. Appending(email)' \subseteq Appending(email)
        BY <2>3, <3>2 DEF Goto, Appending
      <4> QED BY <1>1, <2>1, <4>1 DEF EmailStep
    <3> QED BY <3>1, <3>2
  <2>4. "unread" \notin incidents'
    OBVIOUS
  <2> QED BY <1>3, <2>2, <2>3, <2>4 DEF GoesOn
<1>4. ASSUME NEW t \in Threads, CreateOpen(t) PROVE EmailStep(email)
  <2>1. Accounts(email)' = {}
    BY <1>4 DEF CreateOpen, Accounts, LinesOf
  <2> QED BY <2>1 DEF EmailStep
<1>5. ASSUME NEW t \in Threads, Done(t) \/ \E c \in Calls : Start(t, c)
      PROVE  EmailStep(email)
  <2>1. Appending(email)' \subseteq Appending(email) /\ db' = db
    BY <1>5 DEF Done, Start, Appending
  <2> QED BY <1>1, <2>1 DEF EmailStep
<1>6. CASE UNCHANGED vars \/ Killed
  <2>1. Appending(email)' \subseteq Appending(email) /\ db' = db
    BY <1>6 DEF vars, Killed, Appending
  <2> QED BY <1>1, <2>1 DEF EmailStep
<1>7. ASSUME NEW t \in Threads, SignupAppend(t) \/ CreateWrite(t) PROVE EmailStep(email)
  BY <1>0, <1>7, SignupAppends, CreateAppends, WriteStep
<1> QED BY <1>2, <1>3, <1>4, <1>5, <1>6, <1>7, StepCases

LEMMA BoundedInit == Init => Bounded
<1> SUFFICES ASSUME Init, NEW email \in Emails
             PROVE  Cardinality(Accounts(email)) + Cardinality(Appending(email))
                      <= Cardinality(Threads)
  BY DEF Bounded
<1>1. Accounts(email) = {} /\ Appending(email) = {}
  BY DEF Init, Accounts, LinesOf, Appending
<1>2. Cardinality({}) = 0 /\ Cardinality(Threads) \in Nat
  BY ProfileAssumption, FS_EmptySet, FS_CardinalityType
<1> QED BY <1>1, <1>2

LEMMA BoundedDuplicates == Inv /\ Bounded => DuplicatesBounded
<1> SUFFICES ASSUME Inv, Bounded, incidents \cap {"unread", "creation"} = {},
                    NEW email \in Emails
             PROVE  Cardinality(Accounts(email)) <= Cardinality(Threads)
  BY DEF DuplicatesBounded
<1> DEFINE l == Cardinality(Accounts(email))
           a == Cardinality(Appending(email))
           n == Cardinality(Threads)
<1>1. l \in Nat /\ a \in Nat /\ n \in Nat /\ l + a <= n
  BY AccountsFinite DEF Bounded
<1> HIDE DEF l, a, n
<1>2. l <= n
  BY <1>1
<1> QED BY <1>2 DEF l, n

-----------------------------------------------------------------------------
(* Signups one after the other, with a file that can be read.              *)

Calm == incidents \cap {"overlap", "unread"} = {}

(* A line starts with its number in the file or with none at all, and what *)
(* a signup has read is still so when it appends.                          *)
SerialInv ==
  Calm =>
    /\ \A i \in 1..Len(db) : db[i].id \in {0, i}
    /\ UniqueEmails
    /\ \A t \in Threads :
         pc[t] = "append" => uid[t] = Len(db) + 1 /\ Seen(call[t]) = {}

LEMMA SerialWrite ==
  ASSUME Inv, SerialInv, Calm, NEW t \in Threads, Writes(t)
  PROVE  Appended(Len(db) + 1, call[t]) /\ Seen(call[t]) = {}
<1>1. CASE pc[t] = "append"
  BY <1>1 DEF Writes, SerialInv
<1>2. CASE pc[t] = "create_write"
  <2>1. db = <<>> /\ Len(db) = 0
    BY <1>2 DEF Calm, Inv, FileInv
  <2>2. Seen(call[t]) = {}
    BY <2>1 DEF Seen, LinesOf
  <2> QED BY <1>2, <2>1, <2>2 DEF Writes
<1> QED BY <1>1, <1>2 DEF Writes

LEMMA SerialAppend ==
  ASSUME Inv, SerialInv, Calm, NEW t \in Threads, Writes(t)
  PROVE  UniqueEmails' /\ \A j \in 1..Len(db') : db'[j].id \in {0, j}
<1> DEFINE c == call[t]
           n == Len(db) + 1
<1>1. c \in Call /\ db \in Seq(Lines) /\ n \in Nat /\ Len(db) \in Nat
  BY WriterCalls DEF Inv, TypeOK, Types
<1>2. Appended(n, c) /\ Seen(c) = {}
  BY SerialWrite
<1>3. /\ Len(db') \in Nat /\ Len(db') > Len(db)
      /\ \A j \in 1..Len(db) : db'[j] = db[j]
      /\ \A j \in (Len(db) + 1)..Len(db') :
           /\ db'[j].id = (IF j = Len(db) + 1 THEN n ELSE 0)
           /\ db'[j].fields = 4 =>
                j = Len(db) + 1 /\ c.cut = {} /\ db'[j].email = c.email
  BY <1>1, <1>2, AppendedRows
<1>4. \A j \in 1..Len(db') : j \in 1..Len(db) \/ j \in (Len(db) + 1)..Len(db')
  BY <1>1, <1>3
<1>5. \A j \in 1..Len(db') : db'[j].id \in {0, j}
  BY <1>3, <1>4 DEF SerialInv
<1>6. ASSUME NEW email \in Emails, NEW j \in Accounts(email)', NEW k \in Accounts(email)'
      PROVE  j = k
  <2>1. /\ j \in 1..Len(db') /\ db'[j].email = email /\ db'[j].fields = 4
        /\ k \in 1..Len(db') /\ db'[k].email = email /\ db'[k].fields = 4
    BY DEF Accounts, LinesOf
  <2>2. CASE j \in 1..Len(db) /\ k \in 1..Len(db)
    BY <1>3, <2>1, <2>2 DEF SerialInv, UniqueEmails, Accounts, LinesOf
  <2>3. CASE j \in (Len(db) + 1)..Len(db') /\ k \in (Len(db) + 1)..Len(db')
    BY <1>3, <2>1, <2>3
  <2>4. ASSUME NEW o \in 1..Len(db), NEW p \in (Len(db) + 1)..Len(db'),
               db'[o].email = email, db'[p].email = email, db'[p].fields = 4
        PROVE  FALSE
    <3>1. c.cut = {} /\ c.email = email
      BY <1>3, <2>4
    <3>2. o \in LinesOf(c.email)
      BY <1>3, <2>4, <3>1 DEF LinesOf
    <3> QED BY <1>2, <3>1, <3>2 DEF Seen
  <2> QED BY <1>4, <2>1, <2>2, <2>3, <2>4
<1> QED BY <1>5, <1>6 DEF UniqueEmails

LEMMA SerialInit == Init => SerialInv
BY DEF Init, SerialInv, UniqueEmails, Accounts, LinesOf

LEMMA SerialStep ==
  ASSUME Inv, SerialInv, [Next]_vars \/ Killed
  PROVE  SerialInv'
<1> SUFFICES ASSUME Calm' PROVE SerialInv'
  BY DEF SerialInv
<1> USE DEF Inv, TypeOK, Types
<1>0. Calm /\ Alone /\ "creation" \notin incidents /\ "creation" \notin incidents'
  BY IncidentsKept, AloneStep DEF Calm, FileInv
<1>1. ASSUME db' = db,
             \A u \in Threads : pc'[u] = "append" =>
               pc[u] = "append" /\ uid'[u] = uid[u] /\ call'[u] = call[u]
      PROVE  SerialInv'
  BY <1>0, <1>1 DEF SerialInv, UniqueEmails, Accounts, LinesOf, Seen
<1>2. ASSUME NEW t \in Threads, Quits(t) PROVE SerialInv'
  BY <1>1, <1>2 DEF Quits, Return
<1>3. ASSUME NEW t \in Threads, GoesOn(t) PROVE SerialInv'
  <2>1. db' = db /\ call' = call
    BY <1>3 DEF GoesOn, Goto
  <2>2. CASE Goto(t, "create") /\ uid' = uid
    BY <1>1, <2>1, <2>2 DEF Goto
  <2>3. CASE /\ Goto(t, "append") /\ Seen(call[t]) = {}
             /\ uid' = [uid EXCEPT ![t] = Len(db) + 1]
    <3>1. ASSUME NEW u \in Threads, pc'[u] = "append"
          PROVE  uid'[u] = Len(db') + 1 /\ Seen(call[u])' = {}
      <4>1. Seen(call[u])' = Seen(call[u])
        BY <2>1 DEF Seen, LinesOf
      <4>2. CASE u = t
        BY <2>1, <2>3, <4>1, <4>2
      <4>3. CASE u # t
        BY <1>0, <2>1, <2>3, <3>1, <4>1, <4>3 DEF SerialInv, Goto
      <4> QED BY <4>2, <4>3
    <3>2. UniqueEmails' /\ \A j \in 1..Len(db') : db'[j].id \in {0, j}
      BY <1>0, <2>1 DEF SerialInv, UniqueEmails, Accounts, LinesOf
    <3> QED BY <3>1, <3>2 DEF SerialInv
  <2>4. "unread" \notin incidents'
    BY DEF Calm
  <2> QED BY <1>3, <2>2, <2>3, <2>4 DEF GoesOn
<1>4. ASSUME NEW t \in Threads, CreateOpen(t) PROVE SerialInv'
  <2>1. db' = db
    BY <1>0, <1>4 DEF CreateOpen, FileInv
  <2> QED BY <1>1, <1>4, <2>1 DEF CreateOpen, Goto
<1>5. ASSUME NEW t \in Threads, Done(t) \/ \E c \in Calls : Start(t, c)
      PROVE  SerialInv'
  BY <1>1, <1>5 DEF Done, Start
<1>6. CASE UNCHANGED vars \/ Killed
  BY <1>1, <1>6 DEF vars, Killed
<1>7. ASSUME NEW t \in Threads, Writes(t) PROVE SerialInv'
  <2>1. UniqueEmails' /\ \A j \in 1..Len(db') : db'[j].id \in {0, j}
    BY <1>0, <1>7, SerialAppend
  <2>2. ASSUME NEW u \in Threads, pc'[u] = "append" PROVE FALSE
    <3>1. pc[u] = "append" /\ u # t
      BY <1>7, <2>2 DEF Writes, Return
    <3>2. Signing(u) /\ Signing(t)
      BY <1>7, <3>1 DEF Signing, ThreadInv, Writes
    <3> QED BY <1>0, <3>1, <3>2 DEF Alone
  <2> QED BY <2>1, <2>2 DEF SerialInv
<1> QED
  BY <1>0, <1>2, <1>3, <1>4, <1>5, <1>6, <1>7, StepCases, SignupAppends, CreateAppends

LEMMA SerialEmails == SerialInv => EmailsUnique
BY DEF SerialInv, Calm, EmailsUnique

LEMMA SerialIds == Inv /\ SerialInv => IdsUnique
<1> SUFFICES ASSUME Inv, SerialInv, Calm, NEW i \in 1..Len(db), NEW j \in 1..Len(db),
                    db[i].fields = 4, db[j].fields = 4, db[i].id = db[j].id
             PROVE  i = j
  BY DEF IdsUnique, Calm
<1>1. "creation" \notin incidents
  BY DEF Calm, Inv, FileInv
<1>2. db[i].id # 0 /\ db[j].id # 0
  BY <1>1 DEF Inv, TypeOK, Numbered
<1>3. db[i].id \in {0, i} /\ db[j].id \in {0, j}
  BY DEF SerialInv
<1> QED BY <1>2, <1>3

(* Whoever was told so can log in.                                         *)
LEMMA AckedStep ==
  ASSUME Inv, SerialInv, AckedCanLogin, [Next]_vars \/ Killed
  PROVE  AckedCanLogin'
<1> SUFFICES ASSUME incidents' = {}, NEW d \in acked'
             PROVE  \E i \in Accounts(d.email)' :
                      First(i, d.email)' /\ db'[i].password = d.password
  BY DEF AckedCanLogin
<1>0. incidents = {} /\ Calm /\ StableStep
  BY IncidentsKept, FileIsStable DEF Calm
<1>1. CASE d \in acked
  <2>1. d.email \in Emails
    BY <1>1, CallsType DEF Inv, TypeOK, Types, Call
  <2>2. PICK i \in Accounts(d.email) : First(i, d.email) /\ db[i].password = d.password
    BY <1>0, <1>1 DEF AckedCanLogin
  <2>3. i \in 1..Len(db) /\ db[i].fields = 4
    BY <2>2 DEF Accounts, LinesOf
  <2>4. First(i, d.email)' /\ db'[i] = db[i]
    BY <1>0, <2>1, <2>2, <2>3 DEF StableStep
  <2>5. i \in Accounts(d.email)'
    BY <2>3, <2>4 DEF Accounts, First
  <2> QED BY <2>2, <2>4, <2>5
<1>2. ASSUME NEW t \in Threads, Writes(t), d \notin acked
      PROVE  \E i \in Accounts(d.email)' :
               First(i, d.email)' /\ db'[i].password = d.password
  <2>1. d = call[t] /\ d.cut = {} /\ d \in Call /\ db \in Seq(Lines)
    BY <1>2, WriterCalls DEF Writes, Return, Inv, TypeOK, Types
  <2>2. Appended(Len(db) + 1, d) /\ LinesOf(d.email) = {}
    BY <1>0, <1>2, <2>1, SerialWrite DEF Seen
  <2>3. Len(db) + 1 \in Nat /\ Len(db) \in Nat
    BY <2>1
  <2>4. /\ Len(db') = Len(db) + 1
        /\ db'[Len(db) + 1] = Line(Len(db) + 1, d.email, d.password, 4)
        /\ \A j \in 1..Len(db) : db'[j] = db[j]
    BY <2>1, <2>2, <2>3, AppendedRows
  <2>5. PICK n \in Nat : n = Len(db) + 1
    BY <2>3
  <2>6. db'[n].email = d.email /\ db'[n].password = d.password /\ db'[n].fields = 4
    BY <2>4, <2>5 DEF Line
  <2>7. \A j \in 1..Len(db) : db'[j].email # d.email
    BY <2>2, <2>4 DEF LinesOf
  <2>8. n \in 1..Len(db') /\ \A j \in 1..Len(db') : j \in 1..Len(db) \/ j = n
    BY <2>3, <2>4, <2>5
  <2>9. n \in LinesOf(d.email)' /\ \A j \in LinesOf(d.email)' : j = n
    BY <2>6, <2>7, <2>8 DEF LinesOf
  <2>10. First(n, d.email)' /\ n \in Accounts(d.email)'
    BY <2>5, <2>6, <2>9 DEF First, Accounts
  <2> QED BY <2>6, <2>10
<1>3. ASSUME NEW t \in Threads, Quits(t) PROVE d \in acked
  BY <1>3 DEF Quits, Return
<1>4. ASSUME NEW t \in Threads, GoesOn(t) \/ CreateOpen(t) PROVE d \in acked
  BY <1>4 DEF GoesOn, CreateOpen, Goto
<1>5. ASSUME NEW t \in Threads, Done(t) \/ \E c \in Calls : Start(t, c)
      PROVE  d \in acked
  BY <1>5 DEF Done, Start
<1>6. CASE UNCHANGED vars \/ Killed
  BY <1>1, <1>6 DEF vars, Killed
<1> QED
  BY <1>0, <1>1, <1>2, <1>3, <1>4, <1>5, <1>6, StepCases, SignupAppends, CreateAppends

-----------------------------------------------------------------------------
(* The authentication handler.                                             *)

(* What the handler does to the database is what its calls of the profile  *)
(* manager do, or nothing: a crash interrupts the calls.                   *)
LEMMA ManagerSteps ==
  ASSUME [AuthNext]_allVars
  PROVE  [Next]_vars \/ Killed
<1>1. CASE UNCHANGED allVars
  BY <1>1 DEF allVars
<1>2. ASSUME NEW t \in Threads, Handle(t) PROVE [Next]_vars
  <2>1. CASE Manager(t) \/ ManagerLogin(t)
    BY <2>1 DEF Manager, ManagerLogin, Next, Step
  <2>2. CASE \/ LoginDone(t) \/ SignupDone(t) \/ VerificationRefused(t)
             \/ \E sent \in BOOLEAN : Mail(t, sent)
    <3>1. Done(t)
      BY <2>2 DEF LoginDone, SignupDone, VerificationRefused, Mail
    <3> QED BY <3>1 DEF Next, Step
  <2>3. CASE SmtpClose(t) \/ Answer(t)
    BY <2>3 DEF SmtpClose, Answer, vars
  <2>4. CASE \/ \E c \in Calls : SmtpLogin(t, c)
             \/ \E b \in Browsers, c \in Calls : Submit(t, b, c)
    BY <2>4 DEF SmtpLogin, Submit, Next
  <2>5. ASSUME NEW b \in Browsers,
               \/ \E found \in BOOLEAN : Page(t, b, found)
               \/ Logout(t, b) \/ SendVerification(t, b)
        PROVE  UNCHANGED vars
    BY <2>5 DEF Page, Logout, SendVerification, vars
  <2> QED BY <1>2, <2>1, <2>2, <2>3, <2>4, <2>5 DEF Handle
<1>3. CASE ProcessEnds
  BY <1>3 DEF ProcessEnds, Killed
<1> QED BY <1>1, <1>2, <1>3 DEF AuthNext

(* The handler's own variables, and whose request a busy thread serves.    *)
HandlerType ==
  /\ at \in [Threads -> {"idle", "smtp", "manager", "close", "answer"}]
  /\ browser \in [Threads -> Browsers \cup {NoUser}]
  /\ \A t \in Threads : at[t] # "idle" => browser[t] \in Browsers
  /\ profile \in [Threads -> Identity \cup {NoOne}]
  /\ reply \in [Threads -> [ok : BOOLEAN,
                            set_cookie : SUBSET (Identity \cup {NoOne})]]
  /\ cookie \in [Browsers -> Identity \cup {NoOne}]
  /\ crashes \in 0..MaxCrashes

LEMMA AuthInvStep ==
  ASSUME Inv, [AuthNext]_allVars
  PROVE  Inv'
BY ManagerSteps, InvStep

(* A login that succeeds has stopped at one line, an account, whose id it  *)
(* could read.                                                             *)
LEMMA LoginFinds ==
  ASSUME Inv, NEW t \in Threads, Login(t), result'[t]
  PROVE  /\ call[t].email \in Emails
         /\ \A i \in Found(call[t]) :
              /\ i \in Accounts(call[t].email) /\ First(i, call[t].email)
              /\ Account(i) \in Identity
<1>1. call[t] \in Call /\ call[t].email \in Emails
  BY CallsType DEF Login, Calling, Inv, ThreadInv, Call
<1> DEFINE right(rows) == {i \in rows : /\ db[i].fields = 4
                                        /\ db[i].password = call[t].password}
<1>2. PICK rows \in Got(Found(call[t])) :
        /\ \A i \in right(rows) : db[i].id # 0
        /\ Return(t, exists /\ right(rows) # {})
  BY DEF Login
<1>3. right(rows) # {}
  <2> HIDE DEF right
  <2>1. result'[t] = (exists /\ right(rows) # {})
    BY <1>2 DEF Return, Inv, TypeOK, Types
  <2> QED BY <2>1
<1>4. PICK k \in rows : db[k].fields = 4 /\ db[k].id # 0
  BY <1>2, <1>3
<1>5. k \in Found(call[t])
  BY <1>4 DEF Got
<1>6. ASSUME NEW i \in Found(call[t]) PROVE i = k
  <2>1. /\ First(i, call[t].email) /\ First(k, call[t].email)
        /\ i \in 1..Len(db) /\ k \in 1..Len(db)
    BY <1>5 DEF Found, First, LinesOf
  <2>2. i <= k /\ k <= i
    BY <2>1 DEF First
  <2> QED BY <2>1, <2>2
<1>7. First(k, call[t].email) /\ k \in 1..Len(db) /\ db[k].email = call[t].email
  BY <1>5 DEF Found, First, LinesOf
<1>8. k \in Accounts(call[t].email)
  BY <1>4, <1>7 DEF Accounts, LinesOf
<1>9. db[k] \in Lines
  BY <1>7 DEF Inv, TypeOK, Types
<1>10. Account(k) \in Identity
  BY <1>1, <1>4, <1>7, <1>9 DEF Account, Identity, Lines
<1> QED BY <1>1, <1>6, <1>7, <1>8, <1>10

LEMMA HandlerStep ==
  ASSUME Inv, HandlerType, [AuthNext]_allVars
  PROVE  HandlerType'
<1> USE DEF HandlerType
<1>1. CASE UNCHANGED allVars
  BY <1>1 DEF allVars, authVars
<1>2. ASSUME NEW t \in Threads, NEW b \in Browsers,
             NEW label \in {"answer", "manager", "smtp"},
             Receive(t, b, label),
             reply' \in [Threads -> [ok : BOOLEAN,
                                     set_cookie : SUBSET (Identity \cup {NoOne})]]
      PROVE  HandlerType'
  BY <1>2 DEF Receive
<1>3. ASSUME NEW t \in Threads, NEW b \in Browsers,
             \/ \E found \in BOOLEAN : Page(t, b, found)
             \/ Logout(t, b) \/ SendVerification(t, b)
             \/ \E c \in Calls : Submit(t, b, c)
      PROVE  HandlerType'
  <2>1. ASSUME NEW found \in BOOLEAN, Page(t, b, found) PROVE HandlerType'
    <3>1. Receive(t, b, "answer")
      BY <2>1 DEF Page
    <3>2. reply' \in [Threads -> [ok : BOOLEAN,
                                  set_cookie : SUBSET (Identity \cup {NoOne})]]
      BY <2>1 DEF Page
    <3> QED BY <1>2, <3>1, <3>2
  <2>2. CASE Logout(t, b)
    <3>1. Receive(t, b, "answer")
      BY <2>2 DEF Logout
    <3>2. {NoOne} \in SUBSET (Identity \cup {NoOne})
      OBVIOUS
    <3>3. reply' = [reply EXCEPT ![t] = [ok |-> TRUE, set_cookie |-> {NoOne}]]
      BY <2>2 DEF Logout
    <3>4. reply' \in [Threads -> [ok : BOOLEAN,
                                  set_cookie : SUBSET (Identity \cup {NoOne})]]
      BY <3>2, <3>3
    <3> QED BY <1>2, <3>1, <3>4
  <2>3. CASE SendVerification(t, b) \/ \E c \in Calls : Submit(t, b, c)
    <3>1. \E label \in {"manager", "smtp"} : Receive(t, b, label)
      BY <2>3 DEF SendVerification, Submit
    <3>2. reply' = reply
      BY <2>3 DEF SendVerification, Submit
    <3> QED BY <3>1, <3>2 DEF Receive
  <2> QED BY <1>3, <2>1, <2>2, <2>3
<1>4. ASSUME NEW t \in Threads, Manager(t) PROVE HandlerType'
  BY <1>4 DEF Manager, authVars
<1>5. ASSUME NEW t \in Threads, ManagerLogin(t) PROVE HandlerType'
  <2>1. Login(t)
    BY <1>5 DEF ManagerLogin
  <2>2. result' \in [Threads -> BOOLEAN]
    <3>1. [Next]_vars
      BY <2>1 DEF Next, Step
    <3> QED BY <3>1, InvStep DEF Inv, TypeOK, Types
  <2> DEFINE found == {j \in Found(call[t]) : result'[t]}
             new == {Account(i) : i \in found}
  <2>3. \A i \in found : Account(i) \in Identity
    BY <2>1, LoginFinds
  <2>4. new \in SUBSET (Identity \cup {NoOne})
    BY <2>3
  <2>5. /\ reply' = [reply EXCEPT ![t] = [ok |-> result'[t], set_cookie |-> new]]
        /\ UNCHANGED <<at, browser, profile, cookie, crashes>>
    BY <1>5 DEF ManagerLogin
  <2> HIDE DEF new
  <2> QED BY <2>2, <2>4, <2>5
<1>6. ASSUME NEW t \in Threads,
             \/ LoginDone(t) \/ SignupDone(t) \/ VerificationRefused(t)
             \/ SmtpClose(t)
      PROVE  HandlerType'
  <2>1. PICK ok \in BOOLEAN, set \in {{}, reply[t].set_cookie} :
          at[t] # "idle" /\ Answered(t, ok, set)
    BY <1>6 DEF LoginDone, SignupDone, VerificationRefused, SmtpClose, Inv, TypeOK, Types
  <2> QED BY <2>1 DEF Answered
<1>7. ASSUME NEW t \in Threads, NEW sent \in BOOLEAN, Mail(t, sent)
      PROVE  HandlerType'
  <2>1. (sent /\ ~result[t]) \in BOOLEAN
    OBVIOUS
  <2> QED BY <1>7, <2>1 DEF Mail
<1>8. ASSUME NEW t \in Threads, NEW c \in Calls, SmtpLogin(t, c) PROVE HandlerType'
  BY <1>8 DEF SmtpLogin
<1>9. ASSUME NEW t \in Threads, Answer(t) PROVE HandlerType'
  <2> DEFINE new == CHOOSE c \in reply[t].set_cookie : TRUE
  <2>1. reply[t].set_cookie # {} => new \in Identity \cup {NoOne}
    BY <1>9
  <2>2. browser[t] \in Browsers
    BY <1>9 DEF Answer
  <2>3. cookie' \in [Browsers -> Identity \cup {NoOne}]
    <3>1. cookie' = cookie \/ (reply[t].set_cookie # {}
                               /\ cookie' = [cookie EXCEPT ![browser[t]] = new])
      BY <1>9, <2>2 DEF Answer
    <3> HIDE DEF new
    <3> QED BY <2>1, <2>2, <3>1
  <2> QED BY <1>9, <2>3 DEF Answer, NoReply
<1>10. CASE ProcessEnds
  BY <1>10, AuthAssumption DEF ProcessEnds, NoReply
<1> QED
  BY <1>1, <1>3, <1>4, <1>5, <1>6, <1>7, <1>8, <1>9, <1>10 DEF AuthNext, Handle

LEMMA AuthTypeInit == AuthInit => Inv /\ HandlerType
BY InvInit, AuthAssumption DEF AuthInit, HandlerType, NoReply

(* The database, the threads' calls and what the handler, the browsers and *)
(* the answers hold stay well typed, whatever exceptions end the process.  *)
THEOREM AuthTypeCorrect == AuthSpec => []AuthTypeOK
<1>1. Inv /\ HandlerType /\ [AuthNext]_allVars => (Inv /\ HandlerType)'
  BY AuthInvStep, HandlerStep
<1>2. Inv /\ HandlerType => AuthTypeOK
  BY DEF Inv, HandlerType, AuthTypeOK
<1> QED BY AuthTypeInit, <1>1, <1>2, PTL DEF AuthSpec

-----------------------------------------------------------------------------
(* Who is logged in.                                                       *)

(* Besides the cookies and the profiles, the answers on their way.         *)
Held ==
  {cookie[b] : b \in Browsers} \cup {profile[t] : t \in Threads}
  \cup UNION {reply[t].set_cookie : t \in Threads}

Backed == \A who \in Held : who # NoOne => Current(who)

LEMMA StableCurrent ==
  ASSUME StableStep, NEW who \in Identity, Current(who)
  PROVE  Current(who)'
<1>1. PICK i \in Accounts(who.email) : First(i, who.email) /\ Account(i) = who
  BY DEF Current
<1>2. i \in 1..Len(db) /\ db[i].fields = 4 /\ who.email \in Emails
  BY <1>1 DEF Accounts, LinesOf, Identity
<1>3. First(i, who.email)' /\ db'[i] = db[i]
  BY <1>1, <1>2 DEF StableStep
<1>4. i \in Accounts(who.email)' /\ Account(i)' = who
  BY <1>1, <1>2, <1>3 DEF First, Accounts, Account
<1> QED BY <1>3, <1>4 DEF Current

(* Whatever a step puts into cookies, profiles and answers was in one of   *)
(* them before, or is what login has just found.                           *)
LEMMA HeldStep ==
  ASSUME Inv, HandlerType, [AuthNext]_allVars, NEW who \in Held'
  PROVE  who = NoOne \/ who \in Held \/ Current(who)
<1> USE DEF HandlerType
<1>1. \/ \E b \in Browsers : who = cookie'[b]
      \/ \E u \in Threads : who = profile'[u] \/ who \in reply'[u].set_cookie
  BY DEF Held
<1>2. /\ \A b \in Browsers : cookie[b] \in Held
      /\ \A u \in Threads : profile[u] \in Held
      /\ \A u \in Threads : reply[u].set_cookie \subseteq Held
  BY DEF Held
<1>3. CASE UNCHANGED authVars
  BY <1>3 DEF authVars, Held
<1>4. ASSUME NEW t \in Threads, NEW b \in Browsers,
             \/ \E found \in BOOLEAN : Page(t, b, found)
             \/ Logout(t, b) \/ SendVerification(t, b)
             \/ \E c \in Calls : Submit(t, b, c)
      PROVE  who \in Held \cup {NoOne}
  <2>1. cookie' = cookie /\ profile' = [profile EXCEPT ![t] = cookie[b]]
    BY <1>4 DEF Page, Logout, SendVerification, Submit, Receive
  <2>2. \A u \in Threads : reply'[u].set_cookie \subseteq Held \cup {NoOne}
    <3>1. PICK ok \in BOOLEAN, set \in {{}, {NoOne}} :
            \/ reply' = reply
            \/ reply' = [reply EXCEPT ![t] = [ok |-> ok, set_cookie |-> set]]
      BY <1>4 DEF Page, Logout, SendVerification, Submit
    <3> QED BY <1>2, <3>1
  <2>3. /\ \A d \in Browsers : cookie'[d] \in Held
        /\ \A u \in Threads : profile'[u] \in Held
    BY <1>2, <2>1
  <2> QED BY <1>1, <2>2, <2>3
<1>5. ASSUME NEW t \in Threads, ManagerLogin(t)
      PROVE  who \in Held \/ Current(who)
  <2> DEFINE found == {j \in Found(call[t]) : result'[t]}
             new == {Account(i) : i \in found}
  <2>1. ASSUME NEW i \in found PROVE Current(Account(i))
    <3>1. i \in Accounts(call[t].email) /\ First(i, call[t].email)
      BY <1>5, LoginFinds DEF ManagerLogin
    <3>2. Account(i).email = call[t].email
      BY <3>1 DEF Account, Accounts, LinesOf
    <3> QED BY <3>1, <3>2 DEF Current
  <2>2. /\ reply' = [reply EXCEPT ![t] = [ok |-> result'[t], set_cookie |-> new]]
        /\ UNCHANGED <<profile, cookie>>
    BY <1>5 DEF ManagerLogin
  <2>3. who \in Held \/ who \in new
    <3> HIDE DEF new
    <3>1. \A u \in Threads : reply'[u].set_cookie \subseteq Held \cup new
      BY <1>2, <2>2
    <3> QED BY <1>1, <1>2, <2>2, <3>1
  <2> QED BY <2>1, <2>3
<1>6. ASSUME NEW t \in Threads,
             \/ LoginDone(t) \/ SignupDone(t) \/ VerificationRefused(t)
             \/ SmtpClose(t) \/ (\E sent \in BOOLEAN : Mail(t, sent))
             \/ \E c \in Calls : SmtpLogin(t, c)
      PROVE  who \in Held
  <2>1. UNCHANGED <<profile, cookie>>
    BY <1>6 DEF LoginDone, SignupDone, VerificationRefused, SmtpClose, Mail,
                SmtpLogin, Answered
  <2>2. PICK ok \in BOOLEAN, set \in {{}, reply[t].set_cookie} :
          \/ reply' = reply
          \/ reply' = [reply EXCEPT ![t] = [ok |-> ok, set_cookie |-> set]]
    <3>1. ASSUME NEW sent \in BOOLEAN, Mail(t, sent)
          PROVE  \E ok \in BOOLEAN :
                   reply' = [reply EXCEPT ![t] = [ok |-> ok, set_cookie |-> {}]]
      <4>1. (sent /\ ~result[t]) \in BOOLEAN
        OBVIOUS
      <4> QED BY <3>1, <4>1 DEF Mail
    <3>2. CASE LoginDone(t) \/ SignupDone(t) \/ VerificationRefused(t) \/ SmtpClose(t)
      BY <3>2 DEF LoginDone, SignupDone, VerificationRefused, SmtpClose,
                  Answered, Inv, TypeOK, Types
    <3>3. ASSUME NEW c \in Calls, SmtpLogin(t, c) PROVE reply' = reply
      BY <3>3 DEF SmtpLogin
    <3> QED BY <1>6, <3>1, <3>2, <3>3
  <2>3. \A u \in Threads : reply'[u].set_cookie \subseteq Held
    BY <1>2, <2>2
  <2> QED BY <1>1, <1>2, <2>1, <2>3
<1>7. ASSUME NEW t \in Threads, Answer(t) PROVE who \in Held \cup {NoOne}
  <2> DEFINE new == CHOOSE c \in reply[t].set_cookie : TRUE
  <2>1. reply[t].set_cookie # {} => new \in Held
    BY <1>2
  <2>2. cookie' = [cookie EXCEPT ![browser[t]] =
                     IF reply[t].set_cookie = {} THEN @ ELSE new]
    BY <1>7 DEF Answer
  <2>3. \A b \in Browsers : cookie'[b] \in Held
    <3> HIDE DEF new
    <3> QED BY <1>2, <2>1, <2>2
  <2>4. /\ \A u \in Threads : profile'[u] \in Held \cup {NoOne}
        /\ \A u \in Threads : reply'[u].set_cookie \subseteq Held
    BY <1>2, <1>7 DEF Answer, NoReply
  <2> QED BY <1>1, <2>3, <2>4
<1>8. ASSUME ProcessEnds PROVE who \in Held \cup {NoOne}
  <2>1. /\ cookie' = cookie
        /\ \A u \in Threads : profile'[u] = NoOne /\ reply'[u].set_cookie = {}
    BY <1>8 DEF ProcessEnds, NoReply
  <2> QED BY <1>1, <1>2, <2>1
<1> QED
  BY <1>3, <1>4, <1>5, <1>6, <1>7, <1>8
  DEF AuthNext, Handle, Manager, allVars

LEMMA BackedStep ==
  ASSUME Inv, HandlerType, HandlerType', Backed, StableStep, [AuthNext]_allVars
  PROVE  Backed'
<1> SUFFICES ASSUME NEW who \in Held', who # NoOne PROVE Current(who)'
  BY DEF Backed
<1>1. Current(who)
  BY HeldStep DEF Backed
<1>2. who \in Identity
  BY DEF Held, HandlerType
<1> QED BY <1>1, <1>2, StableCurrent

(* Whatever signups and logins race, whichever answer comes last, whatever *)
(* opens fail and wherever the process ends: who is logged in carries the  *)
(* id and email of the account that login finds for that email, as long as *)
(* no signup creates the file while another one runs.                      *)
THEOREM CookiesCurrent == AuthSpec => []CookieCurrent
<1> DEFINE I == Inv /\ HandlerType /\ ("creation" \notin incidents => Backed)
<1>1. AuthInit => I
  <2>1. AuthInit => \A who \in Held : who = NoOne
    BY DEF AuthInit, Held, NoReply
  <2> QED BY <2>1, AuthTypeInit DEF Backed
<1>2. ASSUME I, [AuthNext]_allVars PROVE I'
  <2>1. Inv' /\ HandlerType'
    BY <1>2, AuthInvStep, HandlerStep
  <2>2. ASSUME "creation" \notin incidents' PROVE Backed'
    <3>1. "creation" \notin incidents /\ StableStep
      BY <1>2, <2>2, ManagerSteps, IncidentsKept, FileIsStable
    <3> QED BY <1>2, <2>1, <3>1, BackedStep
  <2> QED BY <2>1, <2>2
<1>3. I => CookieCurrent
  BY DEF Backed, Held, CookieCurrent
<1>4. I /\ [AuthNext]_allVars => I'
  BY <1>2
<1> QED BY <1>1, <1>3, <1>4, PTL DEF AuthSpec

-----------------------------------------------------------------------------
(* What the handler makes of the database.                                 *)

LEMMA AuthInvariant == AuthSpec => [](Inv /\ Bounded /\ SerialInv)
<1>1. AuthInit => Inv /\ Bounded /\ SerialInv
  BY InvInit, BoundedInit, SerialInit DEF AuthInit
<1>2. Inv /\ Bounded /\ SerialInv /\ [AuthNext]_allVars =>
        (Inv /\ Bounded /\ SerialInv)'
  BY ManagerSteps, InvStep, BoundedStep, SerialStep
<1> QED BY <1>1, <1>2, PTL DEF AuthSpec

(* What login finds for an email never changes and never disappears, the   *)
(* end of the process at any step included, as long as no signup creates   *)
(* the file while another one runs.                                        *)
THEOREM LoginStable == AuthSpec => AccountsStable
<1>1. Inv /\ [AuthNext]_allVars => [("creation" \notin incidents)' => StableStep]_vars
  BY ManagerSteps, FileIsStable
<1>2. Inv /\ Bounded /\ SerialInv => Inv
  OBVIOUS
<1> QED BY <1>1, <1>2, AuthInvariant, PTL DEF AuthSpec, AccountsStable

(* Signups at the same time can give an email more than one account, but   *)
(* at most one per thread, as long as the file can be read and exists      *)
(* before they overlap.                                                    *)
THEOREM DuplicatesPerThread == AuthSpec => []DuplicatesBounded
<1>1. Inv /\ Bounded /\ SerialInv => DuplicatesBounded
  BY BoundedDuplicates
<1> QED BY <1>1, AuthInvariant, PTL

(* "emails must be unique": they are, whatever is posted and wherever the  *)
(* process ends, as long as no two signups overlap and the file can be     *)
(* read when it exists.                                                    *)
THEOREM EmailsStayUnique == AuthSpec => []EmailsUnique
<1>1. Inv /\ Bounded /\ SerialInv => EmailsUnique
  BY SerialEmails
<1> QED BY <1>1, AuthInvariant, PTL

(* "a corresponding user id with each new user": under the same conditions *)
(* no id is given to two accounts, lines cut in two included in the count. *)
THEOREM IdsStayUnique == AuthSpec => []IdsUnique
<1>1. Inv /\ Bounded /\ SerialInv => IdsUnique
  BY SerialIds
<1> QED BY <1>1, AuthInvariant, PTL

(* As long as no signups overlap and the file can be opened, a user whose  *)
(* signup returned true, with no line break in email or name, can log in   *)
(* from then on, whatever others post and wherever the process ends.       *)
THEOREM SignedUpCanLogin == AuthSpec => []AckedCanLogin
<1>1. AuthInit => AckedCanLogin
  BY DEF AuthInit, Init, AckedCanLogin
<1>2. Inv /\ Bounded /\ SerialInv /\ AckedCanLogin /\ [AuthNext]_allVars => AckedCanLogin'
  BY ManagerSteps, AckedStep
<1> QED BY <1>1, <1>2, AuthInvariant, PTL DEF AuthSpec
=============================================================================
