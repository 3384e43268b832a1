--------------------------- MODULE Authentication ---------------------------
(***************************************************************************)
(* The authentication handler (request_authentication_handler.cc) between  *)
(* browsers and the user database: its sub-handlers, session::update_user, *)
(* which turns a cookie into the user_profile a handler is made with, the  *)
(* mail server, and the exceptions that end the process.                   *)
(*                                                                         *)
(* A browser keeps the crazyCode cookie of the last answer that set it; it *)
(* may have several requests under way, and their answers come in any      *)
(* order.  A cookie is the id and the email of an account; the name in it  *)
(* decides nothing.  Browsers send the cookies they were given, and emails *)
(* and names are taken to hold nothing a cookie does not carry (a quote, a *)
(* backslash, a semicolon).                                                *)
(***************************************************************************)
EXTENDS ProfileManager

CONSTANTS
  Browsers,
  MaxCrashes  \* bound: how often the process ends and is started again

ASSUME AuthAssumption == MaxCrashes \in Nat

VARIABLES
  at,       \* where handle_request of each thread is
  browser,  \* whose request it serves
  profile,  \* the user_profile its handler was created with
  reply,    \* the response: ok or bad_request, and the Set-Cookie if any
  cookie,   \* the cookie of each browser
  crashes

authVars == <<at, browser, profile, reply, cookie, crashes>>
allVars == <<vars, authVars>>

(* Who a cookie says one is; NoOne is no cookie, and login_status false.   *)
NoOne == [id |-> 0, email |-> NoUser]
Identity == [id : Nat \ {0}, email : Emails]
Account(i) == [id |-> db[i].id, email |-> db[i].email]

NoReply == [ok |-> FALSE, set_cookie |-> {}]
Answered(t, ok, set) ==
  /\ at' = [at EXCEPT ![t] = "answer"]
  /\ reply' = [reply EXCEPT ![t] = [ok |-> ok, set_cookie |-> set]]
  /\ UNCHANGED <<browser, profile, cookie, crashes>>

AuthInit ==
  /\ Init
  /\ at = [t \in Threads |-> "idle"]
  /\ browser = [t \in Threads |-> NoUser]
  /\ profile = [t \in Threads |-> NoOne]
  /\ reply = [t \in Threads |-> NoReply]
  /\ cookie = [b \in Browsers |-> NoOne]
  /\ crashes = 0

-----------------------------------------------------------------------------
(* session::handle_read: update_user(request_[cookie], profile), and the   *)
(* handler is created with the profile.                                    *)
Receive(t, b, label) ==
  /\ at[t] = "idle" /\ pc[t] = "idle"
  /\ at' = [at EXCEPT ![t] = label]
  /\ browser' = [browser EXCEPT ![t] = b]
  /\ profile' = [profile EXCEPT ![t] = cookie[b]]
  /\ UNCHANGED <<cookie, crashes>>

(* The login page, the signup page, and no sub-handler of this name.       *)
Page(t, b, found) ==
  /\ Receive(t, b, "answer")
  /\ reply' = [reply EXCEPT ![t] = [ok |-> found, set_cookie |-> {}]]
  /\ UNCHANGED vars

Logout(t, b) ==
  /\ Receive(t, b, "answer")
  /\ reply' = [reply EXCEPT ![t] = [ok |-> TRUE, set_cookie |-> {NoOne}]]
  /\ UNCHANGED vars

(* login-submit and signup-submit call the profile manager.                *)
Submit(t, b, c) ==
  /\ c.op \in {"login", "signup"}
  /\ Receive(t, b, "manager")
  /\ Start(t, c)
  /\ UNCHANGED reply

(* signup-send-verification connects and logs in to the mail server ...    *)
SendVerification(t, b) ==
  /\ Receive(t, b, "smtp")
  /\ UNCHANGED <<vars, reply>>

(* ... and only then looks at the posted data and the database.            *)
SmtpLogin(t, c) ==
  /\ at[t] = "smtp" /\ c.op = "email_exists"
  /\ at' = [at EXCEPT ![t] = "manager"]
  /\ Start(t, c)
  /\ UNCHANGED <<browser, profile, reply, cookie, crashes>>

(* The manager at work; what login finds goes into the cookie string.      *)
Manager(t) ==
  /\ \/ SignupRead(t) \/ SignupUnread(t) \/ SignupAppend(t) \/ SignupLost(t)
     \/ CreateOpen(t) \/ CreateWrite(t)
     \/ Malformed(t) \/ MalformedCookie(t) \/ EmailExists(t)
  /\ UNCHANGED authVars

(* Mutant of ManagerLogin: the cookie is made of the last account.         *)
ManagerLoginLast(t) ==
  /\ Login(t)
  /\ LET last == {i \in Accounts(call[t].email) :
                    \A j \in Accounts(call[t].email) : i >= j}
     IN  reply' = [reply EXCEPT ![t] =
                     [ok |-> result'[t],
                      set_cookie |-> IF result'[t] THEN {Account(i) : i \in last}
                                                   ELSE {}]]
  /\ UNCHANGED <<at, browser, profile, cookie, crashes>>

(* update_cookie: login, and the cookie of the line it found.              *)
ManagerLogin(t) ==
  /\ Login(t)
  /\ reply' = [reply EXCEPT ![t] =
       [ok |-> result'[t],
        set_cookie |-> {Account(i) : i \in {j \in Found(call[t]) : result'[t]}}]]
  /\ UNCHANGED <<at, browser, profile, cookie, crashes>>

(* The sub-handler goes on with what the manager returned.                 *)
LoginDone(t) ==
  /\ at[t] = "manager" /\ call[t].op = "login"
  /\ Done(t)
  /\ Answered(t, reply[t].ok, reply[t].set_cookie)

SignupDone(t) ==
  /\ at[t] = "manager" /\ call[t].op = "signup"
  /\ Done(t)
  /\ Answered(t, result[t], {})

(* Malformed data: bad_request, and the mail session goes out of scope.    *)
VerificationRefused(t) ==
  /\ at[t] = "manager" /\ call[t].op = "email_exists" /\ ~call[t].wellformed
  /\ Done(t)
  /\ Answered(t, FALSE, {})

(* The email is taken, or the mail is sent, or sending fails (caught).     *)
Mail(t, sent) ==
  /\ at[t] = "manager" /\ call[t].op = "email_exists" /\ call[t].wellformed
  /\ Done(t)
  /\ at' = [at EXCEPT ![t] = "close"]
  /\ reply' = [reply EXCEPT ![t] =
                 [ok |-> sent /\ ~result[t], set_cookie |-> {}]]
  /\ UNCHANGED <<browser, profile, cookie, crashes>>

(* session.close() of the mail session.                                    *)
SmtpClose(t) ==
  /\ at[t] = "close"
  /\ Answered(t, reply[t].ok, {})
  /\ UNCHANGED vars

(* bhttp::write, and the browser takes the answer.                         *)
Answer(t) ==
  /\ at[t] = "answer"
  /\ cookie' = [cookie EXCEPT ![browser[t]] =
                  IF reply[t].set_cookie = {} THEN @
                  ELSE CHOOSE c \in reply[t].set_cookie : TRUE]
  /\ at' = [at EXCEPT ![t] = "idle"]
  /\ profile' = [profile EXCEPT ![t] = NoOne]
  /\ reply' = [reply EXCEPT ![t] = NoReply]
  /\ browser' = [browser EXCEPT ![t] = NoUser]
  /\ UNCHANGED <<vars, crashes>>

(* The process ends with every thread, wherever they are, and is started   *)
(* again: by a signal, or by an exception nothing catches on a thread of   *)
(* this or another handler (the mail server's at connecting, logging in or *)
(* closing, the socket's at writing, stoi's).                              *)
ProcessEnds ==
  /\ crashes < MaxCrashes
  /\ crashes' = crashes + 1
  /\ at' = [u \in Threads |-> "idle"]
  /\ pc' = [u \in Threads |-> "idle"]
  /\ call' = [u \in Threads |-> NoCall]
  /\ uid' = [u \in Threads |-> 0]
  /\ result' = [u \in Threads |-> FALSE]
  /\ profile' = [u \in Threads |-> NoOne]
  /\ reply' = [u \in Threads |-> NoReply]
  /\ browser' = [u \in Threads |-> NoUser]
  /\ UNCHANGED <<exists, db, acked, incidents, cookie>>

-----------------------------------------------------------------------------
Handle(t) ==
  \/ Manager(t) \/ ManagerLogin(t) \/ LoginDone(t) \/ SignupDone(t)
  \/ VerificationRefused(t) \/ SmtpClose(t) \/ Answer(t)
  \/ \E sent \in BOOLEAN : Mail(t, sent)
  \/ \E c \in Calls : SmtpLogin(t, c)
  \/ \E b \in Browsers :
       \/ \E found \in BOOLEAN : Page(t, b, found)
       \/ Logout(t, b) \/ SendVerification(t, b)
       \/ \E c \in Calls : Submit(t, b, c)

AuthNext == (\E t \in Threads : Handle(t)) \/ ProcessEnds

AuthSpec == AuthInit /\ [][AuthNext]_allVars

-----------------------------------------------------------------------------
AuthTypeOK ==
  /\ TypeOK
  /\ at \in [Threads -> {"idle", "smtp", "manager", "close", "answer"}]
  /\ browser \in [Threads -> Browsers \cup {NoUser}]
  /\ \A t \in Threads : at[t] # "idle" => browser[t] \in Browsers
  /\ profile \in [Threads -> Identity \cup {NoOne}]
  /\ reply \in [Threads -> [ok : BOOLEAN,
                            set_cookie : SUBSET (Identity \cup {NoOne})]]
  /\ cookie \in [Browsers -> Identity \cup {NoOne}]
  /\ crashes \in 0..MaxCrashes

(* An identity is the one login would find for its email now.              *)
Current(who) ==
  \E i \in Accounts(who.email) : First(i, who.email) /\ Account(i) = who

(* Whatever signups and logins run at the same time, whichever answer came *)
(* last, whatever opens failed and however often the process has ended: a  *)
(* browser that is logged in carries the id and email of the account its   *)
(* email logs in to, and so does the profile a handler was created with;   *)
(* unless the file was created by one signup while another one ran.        *)
CookieCurrent ==
  "creation" \notin incidents =>
    /\ \A b \in Browsers : cookie[b] # NoOne => Current(cookie[b])
    /\ \A t \in Threads : profile[t] # NoOne => Current(profile[t])
=============================================================================
