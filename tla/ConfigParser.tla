---------------------------- MODULE ConfigParser ----------------------------
(***************************************************************************)
(* The configuration parser: NginxConfigParser::ParseToken and Parse, the  *)
(* printer ToString and get_listen_port (config_parser.cc), as main calls  *)
(* them.                                                                   *)
(*                                                                         *)
(* A character stands for its class: "SP" for blank and tab, "a" for every *)
(* character that is special nowhere, "dq" and "sq" for the quotes, "bs"   *)
(* for the backslash, "listen" for the letters of that word.  The tree is  *)
(* a heap: blocks[1] is the caller's NginxConfig, and a statement's child  *)
(* is the index of its block, 0 for none.                                  *)
(***************************************************************************)
EXTENDS Integers, Sequences, SequencesExt

Chars ==
  {"{", "}", ";", "#", "dq", "sq", "bs", "SP", "LF", "CR", "listen", "a",
   "0", "7"}

CONSTANTS
  Texts,      \* the configuration files
  MaxReparses \* bound: how often a parsed configuration is printed and read

ASSUME ConfigAssumption ==
  /\ Texts \subseteq Seq(Chars)
  /\ MaxReparses \in Nat

VARIABLES
  text,             \* the file
  pos,              \* how much of it is read
  state,            \* ParseToken's state
  value,            \* the token it is reading
  last_token_type,
  stack,            \* config_stack: indices of blocks, the top last
  blocks,           \* the blocks allocated so far
  outcome,          \* what Parse returned; "not_opened" is returned as false
  port,             \* what main got from get_listen_port
  seen,             \* history: the tokens Parse was given, without comments
  reparses,         \* how often the tree was printed and read again
  printed           \* history: the tree that was printed last

vars == <<text, pos, state, value, last_token_type, stack, blocks, outcome,
          port, seen, reparses, printed>>

None == 0
Throws == -1

NewFile(t) ==
  /\ text' = t /\ pos' = 0
  /\ state' = "initial" /\ value' = <<>>
  /\ last_token_type' = "START"
  /\ stack' = <<1>>
  /\ blocks' = << <<>> >>
  /\ outcome' = "running"
  /\ port' = None
  /\ seen' = <<>>

Init ==
  /\ text \in Texts /\ pos = 0
  /\ state = "initial" /\ value = <<>>
  /\ last_token_type = "START"
  /\ stack = <<1>>
  /\ blocks = << <<>> >>
  /\ outcome \in {"running", "not_opened"}
  /\ port = None
  /\ seen = <<>>
  /\ reparses = 0 /\ printed = << <<>> >>

-----------------------------------------------------------------------------
(* Parse: what it does with a token.                                       *)

Top == stack[Len(stack)]
Pop == SubSeq(stack, 1, Len(stack) - 1)

(* "false" is Parse's break; "undefined" is top() or pop() of a stack that *)
(* a surplus "}" has emptied, from where the code promises nothing.        *)
Stop(verdict) ==
  /\ outcome' = verdict
  /\ UNCHANGED <<last_token_type, stack, blocks>>

Continue(type) == outcome' = outcome /\ last_token_type' = type

(* Mutant of GotNormal: a word behind a block joins the block's statement. *)
GotNormalJoins(token) ==
  \/ stack = <<>> /\ Stop("undefined")
  \/ /\ stack # <<>> /\ last_token_type \in {"NORMAL", "END_BLOCK"}
     /\ blocks' = [blocks EXCEPT ![Top][Len(blocks[Top])].tokens =
                                   Append(@, token)]
     /\ stack' = stack /\ Continue("NORMAL")
  \/ /\ stack # <<>> /\ last_token_type \notin {"NORMAL", "END_BLOCK"}
     /\ blocks' = [blocks EXCEPT ![Top] =
                     Append(@, [tokens |-> <<token>>, child |-> None])]
     /\ stack' = stack /\ Continue("NORMAL")

(* A word opens a statement unless it follows another word.                *)
GotNormal(token) ==
  \/ stack = <<>> /\ Stop("undefined")
  \/ /\ stack # <<>> /\ last_token_type = "NORMAL"
     /\ blocks' = [blocks EXCEPT ![Top][Len(blocks[Top])].tokens =
                                   Append(@, token)]
     /\ stack' = stack /\ Continue("NORMAL")
  \/ /\ stack # <<>> /\ last_token_type # "NORMAL"
     /\ blocks' = [blocks EXCEPT ![Top] =
                     Append(@, [tokens |-> <<token>>, child |-> None])]
     /\ stack' = stack /\ Continue("NORMAL")

GotStatementEnd ==
  \/ last_token_type # "NORMAL" /\ Stop("false")
  \/ /\ last_token_type = "NORMAL"
     /\ UNCHANGED <<stack, blocks>>
     /\ Continue("STATEMENT_END")

(* Mutant of GotStartBlock: the new block is pushed and not allocated.     *)
GotStartBlockUnallocated ==
  LET new == Len(blocks) + 1
  IN  \/ last_token_type # "NORMAL" /\ Stop("false")
      \/ /\ last_token_type = "NORMAL"
         /\ blocks' = [blocks EXCEPT ![Top][Len(blocks[Top])].child = new]
         /\ stack' = Append(stack, new)
         /\ Continue("START_BLOCK")

(* Mutant of GotStartBlock: the first statement gets the block.            *)
GotStartBlockFront ==
  LET new == Len(blocks) + 1
  IN  \/ last_token_type # "NORMAL" /\ Stop("false")
      \/ /\ last_token_type = "NORMAL"
         /\ blocks' = Append([blocks EXCEPT ![Top][1].child = new], <<>>)
         /\ stack' = Append(stack, new)
         /\ Continue("START_BLOCK")

GotStartBlock ==
  LET new == Len(blocks) + 1
  IN  \/ last_token_type # "NORMAL" /\ Stop("false")
      \/ /\ last_token_type = "NORMAL"
         /\ blocks' = Append([blocks EXCEPT ![Top][Len(blocks[Top])].child =
                                              new],
                             <<>>)
         /\ stack' = Append(stack, new)
         /\ Continue("START_BLOCK")

(* The loop over the block's listen statements leaves only itself.         *)
GotEndBlock ==
  LET follows == {"START_BLOCK", "STATEMENT_END", "END_BLOCK"}
  IN  \/ last_token_type \notin follows /\ Stop("false")
      \/ /\ last_token_type \in follows /\ stack = <<>>
         /\ Stop("undefined")
      \/ /\ last_token_type \in follows /\ stack # <<>>
         /\ stack' = Pop /\ blocks' = blocks
         /\ Continue("END_BLOCK")

(* Mutant of GotEof: what is left on the stack does not matter.            *)
GotEofAnyDepth ==
  \/ /\ last_token_type \notin {"STATEMENT_END", "END_BLOCK", "START"}
     /\ Stop("false")
  \/ /\ last_token_type \in {"STATEMENT_END", "END_BLOCK", "START"}
     /\ Stop(IF stack = <<>> THEN "undefined" ELSE "true")

GotEof ==
  \/ /\ last_token_type \notin {"STATEMENT_END", "END_BLOCK", "START"}
     /\ Stop("false")
  \/ /\ last_token_type \in {"STATEMENT_END", "END_BLOCK", "START"}
     /\ Stop(IF stack = <<>> THEN "undefined"
             ELSE IF Len(stack) > 1 THEN "false" ELSE "true")

-----------------------------------------------------------------------------
(* ParseToken, one character (or the end of the file) at a time; a step    *)
(* that completes a token is also Parse's step for it.                     *)

Same == UNCHANGED <<text, port, reparses, printed>>

Reads(c) ==
  /\ outcome = "running" /\ pos < Len(text) /\ c = text[pos + 1]
  /\ Same

(* The token is not complete yet.                                          *)
Go(new_state, new_value) ==
  /\ pos' = pos + 1
  /\ state' = new_state /\ value' = new_value
  /\ UNCHANGED <<last_token_type, stack, blocks, outcome, seen>>

(* A complete token, and the position after it.                            *)
Token(token, next_pos) ==
  /\ pos' = next_pos
  /\ state' = "initial" /\ value' = <<>>
  /\ seen' = Append(seen, token)

(* TOKEN_TYPE_ERROR.                                                       *)
Error == Stop("false") /\ UNCHANGED <<pos, state, value, seen>>

Separators == {"SP", "LF", ";", "{", "}"}

InitialWhitespace(c) ==
  /\ Reads(c) /\ state = "initial"
  /\ \/ c \in {"SP", "LF", "CR"} /\ Go("initial", <<>>)
     \/ c = "#" /\ Go("comment", <<c>>)
     \/ c \in {"dq", "sq"} /\ Go(c, <<c>>)
     \/ c = ";" /\ Token(<<c>>, pos + 1) /\ GotStatementEnd
     \/ c = "{" /\ Token(<<c>>, pos + 1) /\ GotStartBlock
     \/ c = "}" /\ Token(<<c>>, pos + 1) /\ GotEndBlock
     \/ c \in {"bs", "listen", "a", "0", "7"} /\ Go("normal", <<c>>)

(* Within quotes; the character behind the closing one must separate.      *)
Quoted(c) ==
  LET next_c == IF pos + 1 < Len(text) THEN text[pos + 2] ELSE "EOF"
  IN  /\ Reads(c) /\ state \in {"dq", "sq"}
      /\ \/ /\ c = state /\ next_c \in Separators
            /\ Token(Append(value, c), pos + 1)
            /\ GotNormal(Append(value, c))
         \/ c = state /\ next_c \notin Separators /\ Error
         \/ c = "bs" /\ state = "dq" /\ Go("escape_dq", value)
         \/ c = "bs" /\ state = "sq" /\ Go("escape_sq", value)
         \/ c \notin {state, "bs"} /\ Go(state, Append(value, c))

Escape(c) ==
  /\ Reads(c)
  /\ \/ state = "escape_dq" /\ Go("dq", Append(value, c))
     \/ state = "escape_sq" /\ Go("sq", Append(value, c))

(* A comment is skipped; last_token_type stays.                            *)
Comment(c) ==
  /\ Reads(c) /\ state = "comment"
  /\ \/ c \in {"LF", "CR"} /\ Go("initial", <<>>)
     \/ c \notin {"LF", "CR"} /\ Go("comment", Append(value, c))

(* Mutant of Normal: the separator that ends the word is used up.          *)
NormalSwallows(c) ==
  /\ Reads(c) /\ state = "normal"
  /\ \/ c \in Separators /\ Token(value, pos + 1) /\ GotNormal(value)
     \/ c \notin Separators /\ Go("normal", Append(value, c))

(* The separator that ends a word is put back (unget).                     *)
Normal(c) ==
  /\ Reads(c) /\ state = "normal"
  /\ \/ c \in Separators /\ Token(value, pos) /\ GotNormal(value)
     \/ c \notin Separators /\ Go("normal", Append(value, c))

(* An open quote is an error; a word, a comment or an escape that the file *)
(* cuts off is dropped.                                                    *)
EndOfFile ==
  /\ outcome = "running" /\ pos = Len(text)
  /\ Same
  /\ UNCHANGED <<pos, state, value, seen>>
  /\ \/ state \in {"dq", "sq"} /\ Stop("false")
     \/ state \notin {"dq", "sq"} /\ GotEof

ParseToken(c) ==
  \/ InitialWhitespace(c) \/ Quoted(c) \/ Escape(c) \/ Comment(c) \/ Normal(c)

-----------------------------------------------------------------------------
(* What callers do with the tree.                                          *)

IsListen(s) ==
  s.child = None /\ Len(s.tokens) = 2 /\ s.tokens[1] = <<"listen">>

(* stoi: the leading digits; Throws if there are none.                     *)
Digits == {"0", "7"}
Value(c) == IF c = "7" THEN 7 ELSE 0
stoi(token) ==
  LET digits == {n \in 1..Len(token) : \A i \in 1..n : token[i] \in Digits}
      number[n \in 0..Len(token)] ==
        IF n = 0 THEN 0 ELSE 10 * number[n - 1] + Value(token[n])
  IN  IF digits = {} THEN Throws ELSE number[Max(digits)]

Ports == 1..65535

(* Mutant of PortOf: the loop goes on after a listen statement.            *)
PortOfNoBreak(b, child_port) ==
  LET listens == {i \in DOMAIN b : IsListen(b[i])}
      kids == {i \in DOMAIN b : b[i].child # None}
  IN  IF \E i \in kids : child_port[b[i].child] = Throws THEN Throws
      ELSE IF listens \cup kids = {} THEN Throws
      ELSE LET i == Max(listens \cup kids)
               p == IF i \in kids THEN child_port[b[i].child]
                    ELSE stoi(b[i].tokens[2])
           IN  IF p \in Ports THEN p ELSE Throws

(* One block's loop: it ends at the first listen statement, every block it *)
(* met before it must have a port of its own, and the last one counts.     *)
PortOf(b, child_port) ==
  LET listens == {i \in DOMAIN b : IsListen(b[i])}
      before == {i \in DOMAIN b : \A l \in listens : i < l}
      kids == {i \in before : b[i].child # None}
      p == IF listens # {} THEN stoi(b[Min(listens)].tokens[2])
           ELSE IF kids # {} THEN child_port[b[Max(kids)].child]
           ELSE Throws
  IN  IF (\A i \in kids : child_port[b[i].child] # Throws) /\ p \in Ports
      THEN p ELSE Throws

get_listen_port(tree) ==
  LET below[n \in DOMAIN tree] == PortOf(tree[n], below)
  IN  below[1]

(* main: "Invalid config file", the exception of get_listen_port that ends *)
(* the program, or the port the server is made with.                       *)
Main ==
  /\ outcome = "true" /\ port = None
  /\ port' = get_listen_port(blocks)
  /\ UNCHANGED <<text, pos, state, value, last_token_type, stack, blocks,
                 outcome, seen, reparses, printed>>

(* ToString(depth) of a block and of a statement.                          *)
Indent(depth) == [n \in 1..(2 * depth) |-> "SP"]

(* Mutant of Spaced: nothing between the tokens.                           *)
SpacedNot(tokens) == FlattenSeq(tokens)

Spaced(tokens) ==
  FlattenSeq([i \in 1..Len(tokens) |->
                IF i = 1 THEN tokens[i] ELSE <<"SP">> \o tokens[i]])

ConfigToString(tree) ==
  LET block[n \in DOMAIN tree] == [depth \in Nat |->
        LET statement(s) ==
              Indent(depth) \o Spaced(s.tokens)
              \o (IF s.child = None THEN <<";">>
                  ELSE <<"SP", "{", "LF">> \o block[s.child][depth + 1]
                       \o Indent(depth) \o <<"}">>)
              \o <<"LF">>
        IN  FlattenSeq([i \in 1..Len(tree[n]) |-> statement(tree[n][i])])]
  IN  block[1][0]

(* The tree is printed, and what was printed is parsed.                    *)
Reparse ==
  /\ outcome = "true" /\ port # None /\ reparses < MaxReparses
  /\ NewFile(ConfigToString(blocks))
  /\ reparses' = reparses + 1
  /\ printed' = blocks

Next ==
  \/ \E c \in Chars : ParseToken(c)
  \/ EndOfFile
  \/ Main
  \/ Reparse

Spec == Init /\ [][Next]_vars

-----------------------------------------------------------------------------
Statement == [tokens : Seq(Seq(Chars)), child : Nat]

(* A statement's block was allocated behind the statement's own: following *)
(* child_block_ never comes back, so the recursions of get_listen_port and *)
(* ToString end.                                                           *)
ChildrenBelow ==
  \A n \in 1..Len(blocks) : \A i \in 1..Len(blocks[n]) :
    blocks[n][i].child # None => blocks[n][i].child \in (n + 1)..Len(blocks)

(* The variables stay in their types, and the blocks form a tree.          *)
TypeOK ==
  /\ text \in Seq(Chars) /\ pos \in 0..Len(text)
  /\ state \in {"initial", "dq", "sq", "escape_dq", "escape_sq", "comment",
                "normal"}
  /\ value \in Seq(Chars)
  /\ last_token_type \in {"START", "NORMAL", "START_BLOCK", "END_BLOCK",
                          "STATEMENT_END"}
  /\ blocks \in Seq(Seq(Statement)) /\ ChildrenBelow
  /\ stack \in Seq(1..Len(blocks))
  /\ outcome \in {"running", "true", "false", "not_opened", "undefined"}
  /\ port \in {None, Throws} \cup Ports
  /\ seen \in Seq(Seq(Chars))
  /\ reparses \in 0..MaxReparses
  /\ printed \in Seq(Seq(Statement))

(* statements_.back() is asked for a statement that exists: after a word   *)
(* the stack is not empty and its top block has a statement, which has no  *)
(* block yet, so that a "{" replaces none.                                 *)
BackDefined ==
  last_token_type = "NORMAL" =>
    /\ stack # <<>>
    /\ blocks[Top] # <<>>
    /\ blocks[Top][Len(blocks[Top])].child = None

(* The server's port is a listen statement's, and a listen statement of    *)
(* the file itself that no block precedes decides.                         *)
ListenDecides ==
  port # None =>
    /\ port # Throws =>
         \E b \in DOMAIN blocks : \E i \in DOMAIN blocks[b] :
           /\ IsListen(blocks[b][i])
           /\ stoi(blocks[b][i].tokens[2]) = port
    /\ \A i \in DOMAIN blocks[1] :
         /\ IsListen(blocks[1][i])
         /\ \A k \in 1..(i - 1) : /\ blocks[1][k].child = None
                                  /\ ~IsListen(blocks[1][k])
         => LET p == stoi(blocks[1][i].tokens[2])
            IN  port = IF p \in Ports THEN p ELSE Throws
=============================================================================
