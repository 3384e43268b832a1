# A TLA+ verification of the Crazy Code web server

The repository is an HTTP server in C++ (boost::asio, boost::beast) with a CRUD
API that keeps its items as files, a user database in a text file, and a few
small handlers. This directory holds TLA+ modules that model its stateful parts,
TLC configurations that check them on small instances, and proofs for TLAPS.
Line numbers refer to `src/src/` unless a path says otherwise.

## The system

| Part | State it keeps | Operations | Interacts with |
|---|---|---|---|
| CRUD API (`request_api_handler.cc`, `api_handler_factory`) | files `root/<entity>/<id>` on disk; the factory's map `path_counts` from entities to id vectors, in memory | constructor (walks the directory at *every* request), POST, GET, LIST, PUT, DELETE | shared `path_counts`, no lock; file system |
| User database (`profile_manager.cc`) | `user_database.txt`, one line per user | `signup`, `login`, `email_exists` | called by the authentication handler on any thread |
| Authentication handler | none of its own (login state is in a cookie) | pages, `*-submit`, logout, verification mail | user database, SMTP server |
| Server and session (`server.cc`, `session.cc`, `server_main.cc`) | session objects, sockets, pending operations; thread pool | `start_accept`, `handle_accept`, `start`, `handle_read`, `write_to_socket`, `handle_write` | boost::asio completions, run by any thread |
| Routing (`config_parser.cc` 53-183, `init_server`, `match`, factories) | paths and routes, fixed after the start | `get_paths`, `get_root`, `get_auth_path_map`, `create` | built once, read by every session |
| Echo, health, sleep, static, 404, console | none | `handle_request` | file system (read only) |
| Configuration parser (`config_parser.cc`) | a stack of open blocks, the tree of statements | `ParseToken`, `Parse`, `ToString`, `get_listen_port` | called once by `main` |
| Request parser (`request_parser.cc`) | `state_`; the fields go into the caller's object | `parse`, `consume`, `reset` | not used by `session`, which reads with boost::beast; its tests use it |
| Log rotation (`server_main.cc` 38-102) | log files, named by the minute | `log_init`, `check_log_files` once a minute, `signal_logger` | timer on the same pool; every thread logs |

What is hard to test: `hardware_concurrency()` threads run handlers at the same
time on one unlocked map, one database file and one storage directory; the index
in memory and the files are updated in separate steps, and the process may end
between them; nothing catches an exception on a worker thread, so it ends the
process; an answer is written synchronously, so a client that does not read it
holds a thread; sessions are raw pointers that delete themselves in some paths; the
parsers keep state from one call to the next and ask containers for a last
element that an earlier state must have put there.
`PROJECT.json` lists each hazard at its line with the properties aimed at it.

## The modules

| Module | What it is |
|---|---|
| `IdList` | the list operations of the API as pure operators: insertion by the constructor (`ScanInsert`), `getNextID` (`NextId`, `TakeId`), removal, and the order they rely on (`InOrder`) |
| `ApiTypes` | requests, responses and the checks of `handle_request`'s switch |
| `ApiHandler` | the API on a pool of threads: one action per access to the file system or to `path_counts` |
| `ApiProperties` | its properties, and the mapping to `KvStore` |
| `KvStore` | what the API promises a client: an abstract store of items with atomic requests |
| `ProfileManager` | the user database on a pool of threads, with its properties |
| `Server` | sessions, the acceptor and the thread pool, with their properties |
| `Routing` | configuration to paths to routes to handlers, with its properties |
| `Authentication` | extends `ProfileManager`: browsers, cookies, the handler's sub-handlers, the mail server, the end of the process at any step |
| `ConfigParser` | tokenizer, parser, printer and port query of the configuration, on classes of characters |
| `ConfigGrammar` | what a configuration is: the reference, and the properties that compare with it |
| `RequestParser` | the HTTP automaton, with inputs in pieces and `reset` |
| `RequestGrammar` | what a request is, line by line: the reference and its properties |
| `LogRotation` | the log directory, the sink, the clock and `check_log_files` |
| `MC...` | instances for TLC: workloads, inputs, symmetry |
| `IdListProofs` | lemmas: least and greatest positions, induction and recursion over numbers, the id lists |
| `ApiProofs`, `AuthProofs` (user database and authentication), `ServerProofs`, `RoutingProofs`, `ConfigProofs`, `RequestProofs`, `LogProofs` | the proofs |

Operators named "mutant of ..." in a comment are wrong variants of the definition
they precede. They are no part of the models; `PROJECT.json` pairs each property
with one of them, and TLC finds the property violated when it is put in.

### ApiHandler

A thread's `pc` follows the code. `Accept` is `session` calling the factory's
`create`. `ScanEnter`, `ScanEntry`, `ScanCopy` and `ScanStore` are the
constructor's loop: a directory is read when it is entered, its files are visited
in any order, `ids = path_counts[entity]` (36) and `path_counts[entity] = ids`
(66) are two steps. `PostDir` creates the directory, `PostRead` and `PostTake`
are the two ends of `getNextID`, `PostOpen` and `PostFill` the stream: opening
truncates, writing goes to offset 0 of the file that was opened, even if its name
is gone (`linked`) or another stream wrote to it (`Torn`). GET, LIST, PUT and
DELETE are split in the same way at each check and each effect.

- With `Faults`, directories cannot be created, files cannot be opened (POST and
  PUT do not notice) or cannot be removed (which throws).
- `Terminate` is an uncaught exception. `RaceCrash` is the data race: two threads
  at `path_counts`, one of them changing it, may also end the process; the other
  outcomes of the race are the interleavings.
- `Restart` starts the process again, from any point: files stay, memory is lost.
- Data: an entity, a body, a malformed target are members of small sets; an id is
  a number up to `MaxId`. A target `"alias"` is another spelling of an item's path
  (`e1//1`, `e2/../e1/1`): the file system finds the file, so PUT, which asks
  nothing else, works as for the item, while `path_counts` has no such key
  (`HasKey`), so GET and DELETE refuse it. A POST is only accepted while an id is
  left (`HasRoom`); this is the one bound on behaviours beside `MaxRestarts`.
- `Work` is what a thread does by itself; `Respond` waits for the client and is
  not part of it.
- `solo[t]` is a history variable: no other request was in progress since `t`'s
  request came in.

### ProfileManager

`SignupRead` is the pass over the file that looks for the email and counts users,
`SignupAppend` the append, `CreateOpen` and `CreateWrite` the branch for a
missing file (truncation, then a write at offset 0 that may leave a piece of
another line behind, `Rests`). `login` and `email_exists` read once. The file
exists at the start or not.

- The text. A record is written as one text and read back as lines (`Written`):
  nothing keeps a line break out of a posted email or name, and one of them cuts
  the record into lines of two or three fields. `signup` counts every line with a
  `|` and compares its second field, `login` skips lines of two fields and stops
  at the first other one with the email (`First`), and only a line of four fields
  is an account.
- The streams. With `Faults` the file may not open, for reading (`SignupUnread`:
  it looks empty, and a record with id 1 is appended; `Got` for the other two) or
  for writing (`SignupLost`: nothing is written and signup returns true).
- `acked` is a history variable: the signups without a line break that returned
  true. `incidents` is another: what has happened that the code makes no provision
  for, `overlap` (two signups at a time), `creation` (the same where the file may
  be about to be created), `unread` and `unwritten`. The properties say which
  incidents they exclude, and hold up to the first of these. The hash is taken to
  be injective.

### Server

`queue` holds completions; `Dispatch` is a thread in `io_service::run` taking
one. `handle_accept` is two steps, because another thread may run the read of the
session it has started before it calls `start_accept`. Clients connect, send and
leave at any time (external actions). A thread may stay in a handler (the mail
server) or in the synchronous write to a client that is there and does not read
(`Held`). A write to a client that is gone throws and ends the process; a failing `remote_endpoint` leaves the session as it is;
`handle_write` shuts the socket down and does not delete the session.
`Sessions` bounds the number of session objects.

### Routing

A URL is a sequence of segments, so that "/a/" and "/a" differ by an empty last
segment and the empty string is the empty sequence. Targets start with "/". The
loops of `get_paths` and `init_server` are steps; `match`, `get_root` and
`get_auth_path_map` are operators, checked against what the statements of the
configuration say (`Below`, `First`). `Parse` accepts location statements that
`get_paths` cannot deal with. A statement whose block is missing (`lacks` is
`"block"`) ends the process (`ReadLacking`); one without its handler's name, or
with a `root` that has no value (`"token"`), makes it read behind the tokens, which
ends the process or gives whatever is there, so such a statement may have any
handler or value and its step is a choice.

### Authentication

`at` follows `handle_request`, next to the `pc` of the profile manager it calls.
`Receive` is `session::handle_read` with `update_user`: the handler gets the
profile the browser's cookie names. `Page`, `Submit`, `Logout` and
`SendVerification` are the sub-handlers; `Manager` and `ManagerLogin` are the
steps of `ProfileManager`, `ManagerLogin` with the cookie `update_cookie` makes
of the line `login` found. The mail server is connected to and logged in to
before the posted data is looked at (134-139), so both may throw for any input;
`Mail` catches what sending throws. `ProcessEnds` is everything that ends the
process with all its threads wherever they are, inside a signup too - the mail
server's other exceptions, a write to a client that is gone, `stoi` on a line
without a number, a signal - and its start after that; the file keeps what was
written. A browser may have several requests under way, and `Answer` delivers
their answers in any order. Browsers send cookies they were given; cookies made
up by a client are not modelled (the code does not tell them apart).

### ConfigParser

One step reads one character or the end of the file; a step that completes a
token is also `Parse`'s step for it (`GotNormal`, ..., `GotEof`). Blocks are
indices into a heap (`blocks`), so that the stack of pointers, the child
pointers and sharing are explicit. A surplus `}` pops the caller's own block;
what the code does with the empty stack afterwards is undefined and is modelled
as the outcome `"undefined"`. `Main` calls `get_listen_port`, `Reparse` prints
the tree and parses what was printed. `seen` and `printed` are history variables.

### RequestParser

`Parse(n)` is a call of `parse` with the next `n` characters, `Consume(c)` one
turn of its loop, an action per group of `consume`'s cases. `Reset` calls `reset`
and hands over a new object or the used one (`fresh` remembers which). Where
`consume` only looks at a class (`is_char`, `is_ctl`, `is_tspecial`,
`is_digit`), one character stands for the class.

### LogRotation

A file is its minute; `files` maps the files to their last write times.
`check_log_files` is four steps - listing, sort (write times are asked for anew),
the record that counts, the removal with its record - and other threads log
between them. A record goes to the current file or, at midnight or 10 MB, to one
named after the current minute, which may be a file that exists. `Start(FALSE)`
is a start that ends before any check: every such run may leave a file.

## The runs

Passing runs (TLC):

| Run | Instance | Shows |
|---|---|---|
| `api_serial` | 1 thread, 2 entities, `MaxId` 3, every shape of request; 770 k states | `IndexExact`: at every request the index lists exactly the files. `ImplementsKvStore`: the API refines `KvStore`. `AuthorisedWrites`: a file changes only for the logged-in user whose request names it, in whichever spelling |
| `api_restart` | 1 thread, `MaxId` 5, failing opens and removals, 2 crashes; 3.7 M states | `IndexRecovered`: no file is missing from the index after a restart. `PostIdFresh`: until the first restart no POST is handed the id of a stored item |
| `api_race` | 2 threads, 2 entities, `MaxId` 2, fair; 680 k states | `SoloScanRecovers`: an undisturbed request repairs what races did to the index. `AuthorisedWrites` under races and over entities. `EveryRequestDecided`: the walk ends and an answer is decided though files come and go |
| `auth` | 2 threads, 1 browser with a request on each, 2 emails, a file that may not exist and may not open, line breaks, 1 end of the process; 1.3 M states | `CookieCurrent`: cookies and profiles name the account their email logs in to. `AccountsStable`: what login finds stays. `EmailsUnique`, `IdsUnique`, `AckedCanLogin` until signups overlap or an open fails; `DuplicatesBounded` when they overlap |
| `routing` | all configurations of at most 3 of 19 statements, all 39 targets of at most 3 segments; 380 k states | `LongestLocationServes`, `UnmatchedNotFound`, `OwnRoot` |
| `server` | 2 threads, 3 sessions, failing accepts, fair; 150 k states | `SingleOwner`, `NoUseAfterDelete`, `AcceptorArmed`, `SentIsServed` |
| `config_parser` | all texts of at most 4 of 8 characters, all one-character edits of 6 configurations; 83 k states | `VerdictExact`, `LexExact`, `TreeExact` against the grammar; `RoundTrip` of the printer; `ListenDecides`; `BackDefined` |
| `request_parser` | all one-character edits of 3 requests, in pieces of 1, 4 or 40, then a second request; 530 k states | `VerdictExact`, `FieldsExact` against the grammar; `HeadersBacked` |
| `log_rotation` | 2 files to keep, 6 minutes, 4 starts; 281 k states | `CurrentKept`, `EnoughKept`, `Converges` |

Runs that end in a violation, each of something a comment or header says:

| Run | What happens |
|---|---|
| `api_restart_ids` | after a restart, directory order puts a list out of order; `getNextID` returns an id that is not "available" (`request_api_handler.cc:70`) and the POST overwrites a stored item |
| `profile_emails` | two concurrent signups with one email both succeed ("emails must be unique", `profile_manager.cc:119`) |
| `config_verdict` | `Parse` returns true for `a`, as for `a;b`, dropping the last word, where the header says it "Returns true iff the input config file is valid" (`include/config_parser.h:65`). The same property excludes the undefined behaviour at a surplus `}`, for which a test expects false (`tests/config_parser_test.cc`, `ExtraClosingBraceConfig`) |

The models show more that no run asks about.

- `getNextID` does not always return the lowest free id: with the ids 2 and 3 it
  returns 4. Two concurrent POSTs that read the same list are handed one id, and
  two signups one user id. A LIST of an entity whose items were all deleted
  answers `]`, and after two POSTs a LIST answers `[2,1]`.
- A file in the storage whose name ends in a digit and is no number, like
  `getTest2`, ends the process at the next request (`BadNames`).
- Two first signups that both find no database: the second truncates the file,
  and the first user, whose signup returned true, is lost (`CreateOpen`); the rest
  of a longer record may be left as a line whose id `stoi` cannot read, so that a
  login with the right password ends the process.
- If the database cannot be read for a moment, each signup in that time appends a
  line with id 1, for an email that is there too (`SignupUnread`). A user whose
  email or name has a line break signs up and can never log in.
- `get_auth_path_map` skips a path only if its endpoint differs *and* it is no auth
  path (63): the second of two auth locations works with the settings of the
  first, where each was evidently meant to have its own. In `get_root` the second
  half of the condition (55) is always true. No document says what several auth
  locations should do, so no property states it.
- A PUT under another spelling of a path changes the item; GET and DELETE refuse it.
- A carriage return does not end a word, and
  behind a closing quote it is an error. A `listen` statement behind a block that
  has none does not help: `get_listen_port` throws.
- The loop over `listen` statements at a closing brace (410-416) has no effect.
- A request parsed into a used object keeps the old fields in front of the new
  ones; only the version is reset.
- A failing login at the mail server ends the whole process.

The bounds. The cases of the list code are lists of 0, 1, and 2 or more ids, gaps
at the front, inside and at the end; five ids have all of them, and the races need
two: the list a thread copied and the one another has stored since. Two threads
show every pairwise race, and the code has no construct that involves three; the
proofs cover any number. Two restarts allow a crash of a process that had itself
recovered. Three segments give locations inside each other with a trailing slash.
Three sessions are one being accepted, one being served and one being deleted.
Two emails and a browser with two requests under way give one that changes
accounts with answers in either order, and three lines an account in front of
another and a cut record between; a second browser adds a cookie that no step
relates to the first, and the proof has any number of them. `auth` does not follow
a state further once the incident `creation` has happened (`CONSTRAINT Settled`):
all its properties but the types exclude that incident, and the proofs of the
types go on. An edit of a valid text reaches every state of both automata with
every class of character, and short texts reach what no edit does (several
surplus braces, open quotes); pieces of 1 and 4 cut everywhere, 40 not at all.
Four starts leave two files more than may be kept, and six minutes let a start
fall into the minute of another. Symmetry is used on the threads and browsers of
`auth`, which checks safety only. `CHECK_DEADLOCK FALSE` stands where the process
may die and not be started again, an input has been read, or the run's sessions,
ids, minutes or starts are used up.

Fairness. `WF` on `Work` of each thread in `api_race` and `server`: a worker that
has something to do by itself is scheduled. What waits for someone else is not
fair: the write of an answer, unless the client is gone, in which case it returns
or throws; and in `server` a handler, which may wait for the mail server. Hence
`EveryRequestDecided` ends at the decision and not at the client, and
`SentIsServed` at the handler, with the case that all threads are held as one of
its outcomes: the code gives no more. `server` also assumes that a read with data
or a closed connection completes. `log_rotation` assumes `WF` of the check: the
timer is set again on every path, and a thread of the pool is free at some time to
run it (with all of them held by writes there is no rotation). Nothing is assumed
about clients, restarts, faults or the clock.

## What is proved

TLAPS proves these for every value of the constants (any number of threads,
entities, ids, users, sessions, inputs) from the `ASSUME`s of the modules.

- `ApiProofs!TypeCorrect` and `WritesAreAuthorised`: the type invariant, and that
  under every interleaving, crash and failure a file is only changed by a request
  of a logged-in user that names it, in whichever spelling, and a directory only
  made by the POST to it. The inductive invariant `Inv`
  adds to the types what a label says about the request (`ThreadInv`): a thread
  at `put_open` passed the checks for PUT, and so on.
- `ApiProofs!SerialPostIds`: with one thread and until the first restart
  (`PostIdFresh`, `IndexOrdered`), a POST never gets the id of a stored item, with
  any failing opens and removals. `PostIdFresh` is not inductive: one needs that
  every file is listed (`Covered`), that the lists are in order (`IndexInOrder`),
  and that what a thread copied is still current (`SerialThread`). The step is
  `IdListProofs`: in a list in order, the number behind the first run is not in
  the list (`NextIdFree`), and taking or erasing an id keeps the order
  (`TakeIdKeepsOrder`, `EraseIdKeepsOrder`). The two hypotheses are needed:
  `api_restart_ids` shows the failure after a restart, and two threads that are
  both at `post_read` take one id.
- `ApiProofs!SoloRecovery`: whatever races, crashes and failing writes have done,
  a request that ran alone since it came in finds every file listed when its
  constructor is done. `SoloInv` says what such a request's walk has covered at
  each label: the directories it has left are listed, the one it is in is listed
  but for the entries still to come, and nobody else touches either.
  `SerialRecovery` follows with one thread, whose requests are all alone
  (`OneSolo`), with faults, crashes and restarts: `IndexRecovered`.
- `ApiProofs!SerialIndex`, `ImplementsStore`: with one thread and without faults and
  restarts (`Undisturbed`), the index is exact at every request, and the API
  implements `KvStore`. `ExactInv` says by how much index and files differ at each
  label (`Extra`: the id a POST has taken and not yet stored, or a DELETE has
  removed and not yet erased). The simulation is one lemma per handler: the step
  with the handler's effect is the store's request, every other step leaves the
  mapped state (`StoreView`) as it is. The hypotheses are needed: with faults a
  POST is answered that stored nothing, and two threads race for the index.
- `AuthProofs`, for any number of threads, browsers and users, any posted data and
  the process ending at any step: `AuthTypeCorrect`, `CookiesCurrent`,
  `LoginStable`, `DuplicatesPerThread`, `EmailsStayUnique`, `IdsStayUnique`,
  `SignedUpCanLogin`. There is no hypothesis beside the incidents that the
  properties name. `Inv` adds to the types what the incidents say of the file
  (`FileInv`: without `overlap` one signup runs at a time; without `creation` who
  creates the file is alone with it and it is still empty) and of a thread what
  its label implies (`ThreadInv`). It gives that lines are only appended
  (`FileIsStable`), hence what login found for an email is what it finds later;
  for the cookies that is applied to those in pending answers too (`Held`,
  `Backed`). `Bounded` counts, per email, the accounts together with the threads
  that have found none and are about to append. `SerialInv` holds until signups
  overlap or a read fails: the id of a line is its number, or none where a line
  break cut the record, and the signup under way still has a current view of the
  file.
- `ServerProofs!TypeCorrect`, `SessionsOwned`, `DeletedUnused`: `SingleOwner` and
  `NoUseAfterDelete` are inductive together with the types and `Called`.
  `AcceptorKept`: the accept is a token (`Token`) that is in one place, and the
  three cardinalities follow from that.
- `RoutingProofs!TypeCorrect`, `LongestServes`, `UnmatchedServes`, `RootsOwn`:
  for configurations and targets of any length. The invariant
  says that the paths stand in the order of the statements they come from
  (`Loaded`: a source map exists), that an endpoint's route is the type of the
  first path with it (`Installed`), and what a served request was matched against
  (`Matched`). `MatchLongest` gives the recursion of `match` its closed form, and
  `FirstPathSource` leads from the first path of an endpoint back to the first
  complete statement for it.
- `ConfigProofs!BackIsDefined`, `TreeHasNoCycle`: for every file, `Parse` asks only
  non-empty blocks for their last statement and builds no cycle. The invariant is
  their conjunction with the types of the heap and the stack (`HeapType`).
- `ConfigProofs!ListenIsDecided`: `get_listen_port`'s recursion has a solution over
  a tree without cycles (`PortsExist`, from the last block to the first), the port
  it gives is a listen statement's (`PortIsListen`), and the first listen statement
  of a level decides (`PortOfFirst`). `TypeCorrect` adds that what `ToString`
  prints is a text (`ToStringType`, the same recursion).
- `ConfigProofs!VerdictIsExact`: for every file, `Parse` accepts its tokens only if
  the grammar calls them a configuration, and rejects only what no configuration
  begins with. It is about the tokens `ParseToken` delivers; `config_verdict` shows
  what that one drops. The invariant `Latest`, `Standing` and `Nest` says which token came last
  and how the open blocks lie in the tokens seen; `Deep` and `Level` give the
  grammar's count of braces, and `Plausible` is what every beginning of a
  configuration satisfies. A token out of place (`Misplaced`) or a surplus brace
  (`Surplus`) contradicts it, and so does every continuation.
- `ConfigProofs!TreeIsExact`: the invariant `Built` says that the open blocks are
  linked through their last statements (`Chain`) and that the closed blocks, and
  the part of each open block that is there, spell their stretch of the tokens
  (`Spells`). `TokensOf` is the only solution of its recursion (`TokensSolved`).
- `ConfigProofs!LexIsExact`: at each state of `ParseToken`, the tokens so far are
  those of the text up to the word under way (`Upto`, `Lexed`).
- `ConfigProofs!RoundTripHolds`: for configurations nested to any depth. `Parse` is a
  deterministic machine over tokens (`Takes`), so a sequence of tokens leads to one
  stack and tree, and the run that accepted is such a way (`WayInv`). A word
  `ParseToken` returns is either unquoted or quoted as a whole (`ShapeInv`). Hence
  what `ToString` prints lays out the tokens of the tree with blanks between them
  (`Laid`, `TreeLaid`), `ParseToken` reads such a text as it is laid out
  (`Tracks`), and the second `Parse` retraces the first (`RoundInv`). The
  hypothesis of `RoundTrip`, no escape taken out of a quoted word, is needed: the
  printer does not put the backslash back.
- `RequestProofs!TypeCorrect`, `BackHasHeader`: for every input and every way of
  cutting it, by one lemma per group of cases.
- `RequestProofs!VerdictIsExact`, `FieldsAreExact`: for every input and every cut,
  `parse` says good exactly at the end of a request of the grammar, bad only where
  no request begins, and the object then holds the parts the grammar names. The
  invariant `Reading` says for each label of the automaton which part of the
  request line (`OnFirstLine`), of a header line (`OnHeaderLine`) or of the line
  behind one (`BehindHeaderLine`) has been read, and what the fields hold by then.
  A rejected character leaves no request with that beginning (`FirstLineStop`,
  `HeaderStop`, `NewlineStop`), and no request ended earlier (`NotYet`).
- `LogProofs!TypeCorrect`, `CurrentIsKept`, `EnoughIsKept`: for every maximum of at
  least two files. `CurrentKept` is not inductive: one needs that a file was
  last written before the next one was opened (`Ages`), that the current file is
  the last, and what a check under way knows (`Checking`): the front of more than
  two sorted files is older than the current one, and stays so.

Every safety invariant and action property that a passing run checks is the
statement of one of these theorems, some of them under the hypotheses named
above. The recursions over tokens, trees and texts are recursive functions. No
induction theorem of the library is used for them: what holds for all numbers is
proved from a least or greatest counterexample (`UptoInduction`, `DownInduction`
of `IdListProofs`), and a recursion has a solution by the same argument
(`RecursionExists`, `BackwardExists`).

Only model-checked: liveness (`EveryRequestDecided`, `SentIsServed`,
`Converges`), which is out of this prover's reach under fairness, and what
the three runs with a violation refute, where the counterexample is the result.

## What is not modelled, and the plan

Not modelled: the text of pages, replies, mails and logs; MIME types and the stock
replies (fixed tables without state); cookies a client makes up, and
emails with a character that has a meaning in a cookie; paths that leave the
storage directory, and entities named `.` or `..`; records longer than a stream's
buffer, which are written in several pieces, and disks that fill up within one; a
read of the database while another thread appends, which is one step; version
numbers
beyond the width of `int`; a clock that is set back while the server runs; a
target without a leading "/"; entries that appear in a directory while the
constructor reads it; changes of the storage from outside beside the foreign files
of `BadNames`.

Next: `KvStore` with failing opens, where an answered POST may have stored
nothing; the largest number of threads for which one id can be handed out twice.
