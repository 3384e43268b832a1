--------------------------- MODULE ProfileManager ---------------------------
(***************************************************************************)
(* The user database: profile_manager.cc, called by the authentication     *)
(* handler (request_authentication_handler.cc) on every worker thread.     *)
(*                                                                         *)
(* The database is a text file.  signup reads it to look for the email and *)
(* to count the users, and in a second access appends a record, or creates *)
(* the file; no lock joins the two.  A step of a thread is one open, one   *)
(* pass over the lines or one write.                                       *)
(***************************************************************************)
EXTENDS Integers, Sequences, FiniteSets

CONSTANTS
  Threads,    \* the worker threads
  Emails,     \* email addresses, and names as far as they equal one
  Passwords,  \* passwords; SHA-256 is taken to be injective on them
  NoUser,     \* any other text
  Calls,      \* the calls that come in, a subset of Call
  Faults,     \* TRUE: the file may fail to open
  MaxUsers    \* bound: lines in the database before signups stop coming in

(***************************************************************************)
(* A call as the handler's sub-handlers make them: signup-submit,          *)
(* login-submit and send-verification.  `wellformed` tells whether the     *)
(* posted data has the fields that are asked for: exactly three, for a     *)
(* login with crazyCode as the first; two "|" for send-verification.       *)
(* Fields hold no "|", but nothing keeps a line break out of them: `cut`   *)
(* names the fields with one, of which `email` and `name` are the text     *)
(* before it.                                                              *)
(***************************************************************************)
Call ==
  [op : {"signup", "login", "email_exists"}, email : Emails,
   name : Emails \cup {NoUser}, cut : SUBSET {"email", "name"},
   password : Passwords, wellformed : BOOLEAN]

ASSUME ProfileAssumption ==
  /\ NoUser \notin Emails \cup Passwords
  /\ Calls \subseteq Call
  /\ Faults \in BOOLEAN
  /\ MaxUsers \in Nat
  /\ IsFiniteSet(Threads)

VARIABLES
  exists,     \* user_database.txt exists
  db,         \* its lines, but for those without a "|", which no one looks at
  pc,         \* where each thread is
  call,       \* the call it serves
  uid,        \* signup: the user_id it is going to write, or 0
  result,     \* what the call returned
  acked,      \* history: signups without a line break that returned true
  incidents   \* history: what has happened that the database does not stand

vars == <<exists, db, pc, call, uid, result, acked, incidents>>

(***************************************************************************)
(* A line as getline and find("|") take it apart: how many fields it has,  *)
(* the number in the first (0: no number), the second, which is compared   *)
(* with an email, and the password whose hash is the fourth.               *)
(***************************************************************************)
Line(i, e, p, n) == [id |-> i, email |-> e, password |-> p, fields |-> n]
Lines ==
  [id : Nat, email : Emails \cup {NoUser}, password : Passwords \cup {NoUser},
   fields : 2..4]

(* `id|email|name|hash`, written as one record and read back line by line: *)
(* a line break in the email or in the name ends the line there.           *)
Written(i, c) ==
  CASE c.cut = {} -> <<Line(i, c.email, c.password, 4)>>
    [] c.cut = {"name"} ->
         <<Line(i, c.email, NoUser, 3), Line(0, NoUser, NoUser, 2)>>
    [] c.cut = {"email"} ->
         <<Line(i, c.email, NoUser, 2), Line(0, c.name, NoUser, 3)>>
    [] OTHER ->
         <<Line(i, c.email, NoUser, 2), Line(0, c.name, NoUser, 2),
           Line(0, NoUser, NoUser, 2)>>

NoCall ==
  [op |-> "none", email |-> NoUser, name |-> NoUser, cut |-> {},
   password |-> NoUser, wellformed |-> FALSE]

(* The lines with this email; those signup and email_exists find, for an   *)
(* email without a line break, as no line holds one.                       *)
LinesOf(email) == {i \in 1..Len(db) : db[i].email = email}
Seen(c) == IF "email" \in c.cut THEN {} ELSE LinesOf(c.email)

(* login skips lines of two fields and stops at the first with the email.  *)
First(i, email) ==
  /\ i \in LinesOf(email) /\ db[i].fields > 2
  /\ \A j \in LinesOf(email) : db[j].fields > 2 => i <= j
Found(c) == {i \in Seen(c) : First(i, c.email)}

(* A signup that may still read or write the file.                         *)
Signing(t) == call[t].op = "signup" /\ pc[t] # "done"
Creating == ~exists \/ \E t \in Threads : pc[t] \in {"create", "create_write"}

Init ==
  /\ exists \in BOOLEAN
  /\ db = <<>>
  /\ pc = [t \in Threads |-> "idle"]
  /\ call = [t \in Threads |-> NoCall]
  /\ uid = [t \in Threads |-> 0]
  /\ result = [t \in Threads |-> FALSE]
  /\ acked = {}
  /\ incidents = {}

-----------------------------------------------------------------------------
(* Two signups at a time, "overlap", and of these "creation" where one of  *)
(* them may be about to create the file.                                   *)
Arises(c) ==
  {i \in {"overlap", "creation"} :
     /\ c.op = "signup" /\ \E u \in Threads : Signing(u)
     /\ i = "creation" => Creating}

Start(t, c) ==
  /\ pc[t] = "idle"
  /\ c.op = "signup" => Len(db) + Cardinality({u \in Threads :
                                     call[u].op = "signup"}) < MaxUsers
  /\ pc' = [pc EXCEPT ![t] = "called"]
  /\ call' = [call EXCEPT ![t] = c]
  /\ incidents' = incidents \cup Arises(c)
  /\ UNCHANGED <<exists, db, uid, result, acked>>

Goto(t, label) ==
  /\ pc' = [pc EXCEPT ![t] = label]
  /\ UNCHANGED <<call, result, acked>>

Return(t, b) ==
  /\ pc' = [pc EXCEPT ![t] = "done"]
  /\ result' = [result EXCEPT ![t] = b]
  /\ uid' = [uid EXCEPT ![t] = 0]
  /\ acked' = acked \cup {c \in {call[t]} : b /\ c.op = "signup" /\ c.cut = {}}
  /\ call' = call

(* signup_string: info.size() != 3; send-verification: a missing "|".      *)
Malformed(t) ==
  /\ pc[t] = "called" /\ ~call[t].wellformed /\ call[t].op # "login"
  /\ Return(t, FALSE)
  /\ UNCHANGED <<exists, db, incidents>>

(* update_cookie: not three fields, or not ours; login is not called.      *)
MalformedCookie(t) ==
  /\ pc[t] = "called" /\ ~call[t].wellformed /\ call[t].op = "login"
  /\ Return(t, FALSE)
  /\ UNCHANGED <<exists, db, incidents>>

Calling(t, op) == pc[t] = "called" /\ call[t].wellformed /\ call[t].op = op

(* Mutants of SignupRead: the id is the number of users before this one;   *)
(* users are not counted; the email is not looked for.                     *)
SignupReadOffByOne(t) ==
  /\ Calling(t, "signup")
  /\ \/ ~exists /\ Goto(t, "create") /\ uid' = uid
     \/ exists /\ Seen(call[t]) # {} /\ Return(t, FALSE)
     \/ /\ exists /\ Seen(call[t]) = {}
        /\ uid' = [uid EXCEPT ![t] = Len(db)]
        /\ Goto(t, "append")
  /\ UNCHANGED <<exists, db, incidents>>
SignupReadUncounted(t) ==
  /\ Calling(t, "signup")
  /\ \/ ~exists /\ Goto(t, "create") /\ uid' = uid
     \/ exists /\ Seen(call[t]) # {} /\ Return(t, FALSE)
     \/ /\ exists /\ Seen(call[t]) = {}
        /\ uid' = [uid EXCEPT ![t] = 1]
        /\ Goto(t, "append")
  /\ UNCHANGED <<exists, db, incidents>>
SignupReadUnasked(t) ==
  /\ Calling(t, "signup")
  /\ IF exists THEN uid' = [uid EXCEPT ![t] = Len(db) + 1] /\ Goto(t, "append")
               ELSE uid' = uid /\ Goto(t, "create")
  /\ UNCHANGED <<exists, db, incidents>>

(* signup: exists(database_path), then one pass over the lines, which      *)
(* counts them and stops at a line with the email.                         *)
SignupRead(t) ==
  /\ Calling(t, "signup")
  /\ \/ ~exists /\ Goto(t, "create") /\ uid' = uid
     \/ exists /\ Seen(call[t]) # {} /\ Return(t, FALSE)
     \/ /\ exists /\ Seen(call[t]) = {}
        /\ uid' = [uid EXCEPT ![t] = Len(db) + 1]
        /\ Goto(t, "append")
  /\ UNCHANGED <<exists, db, incidents>>

(* database_in is not checked: when it does not open there are no lines.   *)
SignupUnread(t) ==
  /\ Calling(t, "signup") /\ exists /\ Faults
  /\ uid' = [uid EXCEPT ![t] = 1]
  /\ Goto(t, "append")
  /\ incidents' = incidents \cup {"unread"}
  /\ UNCHANGED <<exists, db>>

(* Mutant of SignupAppend: the file is opened without std::ios::app.       *)
SignupAppendTruncates(t) ==
  /\ pc[t] = "append"
  /\ db' = Written(uid[t], call[t])
  /\ exists' = TRUE
  /\ Return(t, TRUE)
  /\ UNCHANGED incidents

(* open(filename, app) and one flushed record at the end of the file.      *)
SignupAppend(t) ==
  /\ pc[t] = "append"
  /\ db' = db \o Written(uid[t], call[t])
  /\ exists' = TRUE
  /\ Return(t, TRUE)
  /\ UNCHANGED incidents

(* The stream is never checked: signup returns true all the same.          *)
SignupLost(t) ==
  /\ pc[t] \in {"append", "create"} /\ Faults
  /\ Return(t, TRUE)
  /\ incidents' = incidents \cup {"unwritten"}
  /\ UNCHANGED <<exists, db>>

(* std::ofstream database_create(data_path): creates or truncates.         *)
CreateOpen(t) ==
  /\ pc[t] = "create"
  /\ exists' = TRUE
  /\ db' = <<>>
  /\ uid' = [uid EXCEPT ![t] = 1]
  /\ Goto(t, "create_write")
  /\ UNCHANGED incidents

(* What can be left of a line when another record ends inside it: nothing, *)
(* the line with a part of its id, or a line of fewer fields whose second  *)
(* was the name, or no email at all.                                       *)
Rests(l) ==
  {<<>>}
  \cup {<<[l EXCEPT !.id = n]>> : n \in 0..(l.id - 1)}
  \cup {<<Line(0, m, NoUser, n)>> : m \in Emails \cup {NoUser}, n \in 2..(l.fields - 1)}

(* The record goes to offset 0, over what was written since the            *)
(* truncation: it replaces the first k lines, and when it ends inside the  *)
(* last of them the rest of that one stays.                                *)
CreateWrite(t) ==
  /\ pc[t] = "create_write"
  /\ \E k \in 0..Len(db) :
     \E rest \in IF k = 0 THEN {<<>>} ELSE Rests(db[k]) :
       /\ k = 0 => db = <<>>
       /\ db' = Written(1, call[t]) \o rest \o SubSeq(db, k + 1, Len(db))
  /\ exists' = exists
  /\ Return(t, TRUE)
  /\ UNCHANGED incidents

(* The lines a reader gets: those asked for, or none when its stream does  *)
(* not open.                                                               *)
Got(rows) == {rows} \cup IF Faults THEN {{}} ELSE {}

(* login: the first line with the email decides.  A right password on a    *)
(* line without a number makes stoi throw: there is no such step then, and *)
(* the process ends (Authentication).                                      *)
Login(t) ==
  /\ Calling(t, "login")
  /\ \E rows \in Got(Found(call[t])) :
       LET right == {i \in rows : /\ db[i].fields = 4
                                  /\ db[i].password = call[t].password}
       IN  /\ \A i \in right : db[i].id # 0
           /\ Return(t, exists /\ right # {})
  /\ UNCHANGED <<exists, db, incidents>>

EmailExists(t) ==
  /\ Calling(t, "email_exists")
  /\ \E rows \in Got(Seen(call[t])) : Return(t, exists /\ rows # {})
  /\ UNCHANGED <<exists, db, incidents>>

(* The handler answers and the profile_manager goes out of scope.          *)
Done(t) ==
  /\ pc[t] = "done"
  /\ pc' = [pc EXCEPT ![t] = "idle"]
  /\ call' = [call EXCEPT ![t] = NoCall]
  /\ result' = [result EXCEPT ![t] = FALSE]
  /\ UNCHANGED <<exists, db, uid, acked, incidents>>

-----------------------------------------------------------------------------
Step(t) ==
  \/ Malformed(t) \/ MalformedCookie(t)
  \/ SignupRead(t) \/ SignupUnread(t) \/ SignupAppend(t) \/ SignupLost(t)
  \/ CreateOpen(t) \/ CreateWrite(t) \/ Login(t) \/ EmailExists(t) \/ Done(t)

Next == \E t \in Threads : Step(t) \/ \E c \in Calls : Start(t, c)

Spec == Init /\ [][Next]_vars

-----------------------------------------------------------------------------
(* Lines of four fields, which are the accounts.                           *)
Accounts(email) == {i \in LinesOf(email) : db[i].fields = 4}

Types ==
  /\ exists \in BOOLEAN
  /\ db \in Seq(Lines)
  /\ pc \in [Threads -> {"idle", "called", "append", "create",
                         "create_write", "done"}]
  /\ call \in [Threads -> Calls \cup {NoCall}]
  /\ uid \in [Threads -> Nat]
  /\ result \in [Threads -> BOOLEAN]
  /\ acked \subseteq Calls
  /\ incidents \subseteq {"overlap", "creation", "unread", "unwritten"}

(* login's stoi can read the id of every account, unless the file was      *)
(* created by one signup while another one ran.                            *)
Numbered ==
  "creation" \notin incidents =>
    \A i \in 1..Len(db) : db[i].fields = 4 => db[i].id # 0

TypeOK == Types /\ Numbered

(* "emails must be unique" (signup): no two accounts have the same email.  *)
UniqueEmails == \A email \in Emails : \A i, j \in Accounts(email) : i = j

(* The same as long as signups come one after the other and can read the   *)
(* file, on any thread, with whatever line breaks are posted and wherever  *)
(* the process ends.                                                       *)
EmailsUnique == incidents \cap {"overlap", "unread"} = {} => UniqueEmails

(* "creates a corresponding user id with each new user"                    *)
(* (profile_manager.h): under the same conditions no two accounts have the *)
(* same id.                                                                *)
IdsUnique ==
  incidents \cap {"overlap", "unread"} = {} =>
    \A i, j \in 1..Len(db) :
      db[i].fields = 4 /\ db[j].fields = 4 /\ db[i].id = db[j].id => i = j

(* As long as signups come one after the other and the file can be opened: *)
(* whoever signed up, with no line break in email or name, can log in with *)
(* that password from then on, whatever is signed up before or after; the  *)
(* first line login stops at is the account of that signup.                *)
AckedCanLogin ==
  incidents = {} =>
    \A c \in acked :
      \E i \in Accounts(c.email) :
        First(i, c.email) /\ db[i].password = c.password

(* No step takes away or changes what login finds for an email: the line   *)
(* it stops at stays the one.                                              *)
StableStep ==
  \A email \in Emails : \A i \in 1..Len(db) :
    First(i, email) => First(i, email)' /\ db'[i] = db[i]

(* The same unless the file is created by one signup while another runs.   *)
AccountsStable == [][("creation" \notin incidents)' => StableStep]_vars

(* However signups overlap, an email gets at most one account per thread:  *)
(* those of the signups that looked for it before the first of them wrote  *)
(* its line; unless the file could not be read or was created meanwhile.   *)
DuplicatesBounded ==
  incidents \cap {"unread", "creation"} = {} =>
    \A email \in Emails : Cardinality(Accounts(email)) <= Cardinality(Threads)
=============================================================================
