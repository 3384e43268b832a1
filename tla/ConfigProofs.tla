---------------------------- MODULE ConfigProofs ----------------------------
(***************************************************************************)
(* Proofs about the tree Parse builds, for any file and any number of      *)
(* reparses of what ToString prints.                                       *)
(***************************************************************************)
EXTENDS ConfigGrammar, IdListProofs

Types == {"START", "NORMAL", "START_BLOCK", "END_BLOCK", "STATEMENT_END"}

HeapType ==
  /\ value \in Seq(Chars)
  /\ last_token_type \in Types
  /\ blocks \in Seq(Seq(Statement)) /\ blocks # <<>>
  /\ stack \in Seq(1..Len(blocks))

Inv == HeapType /\ BackDefined /\ ChildrenBelow

LEMMA InvInit == Init => Inv
<1> SUFFICES ASSUME Init PROVE Inv
  OBVIOUS
<1>1. /\ value = <<>> /\ last_token_type = "START" /\ stack = <<1>>
      /\ blocks = << <<>> >>
  BY DEF Init
<1>2. blocks \in Seq(Seq(Statement)) /\ Len(blocks) = 1 /\ blocks[1] = <<>>
  BY <1>1
<1>3. stack \in Seq(1..Len(blocks)) /\ value \in Seq(Chars)
  BY <1>1, <1>2
<1> QED BY <1>1, <1>2, <1>3 DEF Inv, HeapType, Types, BackDefined, ChildrenBelow

LEMMA NewFileInv == ASSUME NEW t, NewFile(t) PROVE Inv'
<1>1. /\ value' = <<>> /\ last_token_type' = "START" /\ stack' = <<1>>
      /\ blocks' = << <<>> >>
  BY DEF NewFile
<1>2. blocks' \in Seq(Seq(Statement)) /\ Len(blocks') = 1 /\ blocks'[1] = <<>>
  BY <1>1
<1>3. stack' \in Seq(1..Len(blocks')) /\ value' \in Seq(Chars)
  BY <1>1, <1>2
<1> QED BY <1>1, <1>2, <1>3 DEF Inv, HeapType, Types, BackDefined, ChildrenBelow

(* A step that changes neither the stack nor a block.                      *)
LEMMA SameHeap ==
  ASSUME Inv, value' \in Seq(Chars), UNCHANGED <<stack, blocks>>,
         last_token_type' = last_token_type
           \/ last_token_type' \in Types \ {"NORMAL"}
  PROVE  Inv'
BY DEF Inv, HeapType, Types, BackDefined, ChildrenBelow, Top

LEMMA StopInv ==
  ASSUME Inv, value' \in Seq(Chars), NEW v, Stop(v)
  PROVE  Inv'
BY SameHeap DEF Stop

LEMMA TopType ==
  ASSUME HeapType, stack # <<>>
  PROVE  Top \in 1..Len(blocks) /\ blocks[Top] \in Seq(Statement)
<1>1. Len(stack) \in 1..Len(stack)
  BY EmptySeq DEF HeapType
<1> QED BY <1>1 DEF HeapType, Top

(* Block t is replaced by b, whose last statement has no block.            *)
LEMMA ReplaceTop ==
  ASSUME Inv, value' \in Seq(Chars), stack # <<>>, stack' = stack,
         last_token_type' = "NORMAL",
         NEW b \in Seq(Statement), b # <<>>, b[Len(b)].child = None,
         \A i \in 1..Len(b) : b[i].child # None =>
           i \in 1..Len(blocks[Top]) /\ b[i].child = blocks[Top][i].child,
         blocks' = [blocks EXCEPT ![Top] = b]
  PROVE  Inv'
<1>1. Top \in 1..Len(blocks) /\ blocks[Top] \in Seq(Statement)
  BY TopType DEF Inv
<1>2. /\ blocks' \in Seq(Seq(Statement)) /\ Len(blocks') = Len(blocks)
      /\ blocks'[Top] = b
      /\ \A n \in 1..Len(blocks) : n # Top => blocks'[n] = blocks[n]
  BY <1>1 DEF Inv, HeapType
<1>3. Top' = Top
  BY DEF Top
<1>4. HeapType'
  BY <1>2, EmptySeq DEF Inv, HeapType, Types
<1>5. BackDefined'
  BY <1>2, <1>3 DEF BackDefined
<1>6. ChildrenBelow'
  <2> SUFFICES ASSUME NEW n \in 1..Len(blocks), NEW i \in 1..Len(blocks'[n]),
                      blocks'[n][i].child # None
               PROVE  blocks'[n][i].child \in (n + 1)..Len(blocks)
    BY <1>2 DEF ChildrenBelow
  <2>1. CASE n = Top
    BY <1>1, <1>2, <2>1 DEF Inv, ChildrenBelow
  <2>2. CASE n # Top
    BY <1>2, <2>2 DEF Inv, ChildrenBelow
  <2> QED BY <2>1, <2>2
<1> QED BY <1>4, <1>5, <1>6 DEF Inv

LEMMA NormalInv ==
  ASSUME Inv, value' \in Seq(Chars), NEW token \in Seq(Chars), GotNormal(token)
  PROVE  Inv'
<1>1. CASE stack = <<>>
  BY <1>1, StopInv DEF GotNormal
<1> DEFINE b == blocks[Top]
           n == Len(b)
<1>2. CASE stack # <<>> /\ last_token_type = "NORMAL"
  <2>1. b \in Seq(Statement) /\ Top \in 1..Len(blocks)
    BY <1>2, TopType DEF Inv
  <2>2. b # <<>> /\ b[n].child = None
    BY <1>2 DEF Inv, BackDefined
  <2>3. n \in 1..Len(b) /\ b[n] \in Statement
    BY <2>1, <2>2, EmptySeq
  <2> DEFINE tokens == Append(b[n].tokens, token)
             s == [b[n] EXCEPT !.tokens = tokens]
             new == [b EXCEPT ![n] = s]
  <2>4. tokens \in Seq(Seq(Chars))
    BY <2>3 DEF Statement
  <2>5. s \in Statement /\ s.child = None
    <3> HIDE DEF tokens
    <3> QED BY <2>2, <2>3, <2>4 DEF Statement
  <2>6. blocks' = [blocks EXCEPT ![Top] = new]
    BY <1>2 DEF GotNormal
  <2>7. /\ new \in Seq(Statement) /\ Len(new) = n /\ new[n] = s
        /\ \A i \in 1..n : i # n => new[i] = b[i]
    <3> HIDE DEF s
    <3> QED BY <2>1, <2>3, <2>5
  <2>8. stack' = stack /\ last_token_type' = "NORMAL"
    BY <1>2 DEF GotNormal, Continue
  <2> HIDE DEF new, s
  <2>9. new # <<>> /\ new[Len(new)].child = None
    BY <2>3, <2>5, <2>7
  <2>10. \A i \in 1..Len(new) : new[i].child # None =>
           i \in 1..Len(blocks[Top]) /\ new[i].child = blocks[Top][i].child
    BY <2>5, <2>7
  <2> QED BY <1>2, <2>6, <2>7, <2>8, <2>9, <2>10, ReplaceTop
<1>3. CASE stack # <<>> /\ last_token_type # "NORMAL"
  <2>1. b \in Seq(Statement) /\ Top \in 1..Len(blocks)
    BY <1>3, TopType DEF Inv
  <2> DEFINE s == [tokens |-> <<token>>, child |-> None]
             new == Append(b, s)
  <2>2. s \in Statement /\ s.child = None
    BY DEF Statement, None
  <2>3. blocks' = [blocks EXCEPT ![Top] = new]
    BY <1>3 DEF GotNormal
  <2>4. stack' = stack /\ last_token_type' = "NORMAL"
    BY <1>3 DEF GotNormal, Continue
  <2> HIDE DEF s
  <2>5. /\ new \in Seq(Statement) /\ Len(new) = n + 1 /\ new[n + 1] = s
        /\ \A i \in 1..n : new[i] = b[i]
        /\ n \in Nat
    BY <2>1, <2>2
  <2> HIDE DEF new
  <2>6. new # <<>> /\ new[Len(new)].child = None
    BY <2>2, <2>5
  <2>7. \A i \in 1..Len(new) : new[i].child # None =>
          i \in 1..Len(blocks[Top]) /\ new[i].child = blocks[Top][i].child
    BY <2>2, <2>5
  <2> QED BY <1>3, <2>3, <2>4, <2>5, <2>6, <2>7, ReplaceTop
<1> QED BY <1>1, <1>2, <1>3

LEMMA StatementEndInv ==
  ASSUME Inv, value' \in Seq(Chars), GotStatementEnd
  PROVE  Inv'
BY StopInv, SameHeap DEF GotStatementEnd, Continue, Types

LEMMA StartBlockInv ==
  ASSUME Inv, value' \in Seq(Chars), GotStartBlock
  PROVE  Inv'
<1>1. CASE last_token_type # "NORMAL"
  BY <1>1, StopInv DEF GotStartBlock
<1>2. CASE last_token_type = "NORMAL"
  <2> DEFINE b == blocks[Top]
             n == Len(b)
             k == Len(blocks) + 1
             s == [b[n] EXCEPT !.child = k]
             new == [b EXCEPT ![n] = s]
             mid == [blocks EXCEPT ![Top] = new]
  <2>1. stack # <<>> /\ b # <<>>
    BY <1>2 DEF Inv, BackDefined
  <2>2. b \in Seq(Statement) /\ Top \in 1..Len(blocks)
    BY <2>1, TopType DEF Inv
  <2>3. n \in 1..Len(b) /\ b[n] \in Statement
    BY <2>1, <2>2, EmptySeq
  <2>4. k \in Nat /\ Len(blocks) \in Nat
    BY DEF Inv, HeapType
  <2>5. s \in Statement /\ s.child = k
    <3> HIDE DEF k
    <3> QED BY <2>3, <2>4 DEF Statement
  <2>6. /\ new \in Seq(Statement) /\ Len(new) = n /\ new[n] = s
        /\ \A i \in 1..n : i # n => new[i] = b[i]
    <3> HIDE DEF s
    <3> QED BY <2>2, <2>3, <2>5
  <2>7. /\ mid \in Seq(Seq(Statement)) /\ Len(mid) = Len(blocks)
        /\ mid[Top] = new
        /\ \A j \in 1..Len(blocks) : j # Top => mid[j] = blocks[j]
    <3> HIDE DEF new
    <3> QED BY <2>2, <2>6 DEF Inv, HeapType
  <2>8. /\ blocks' = Append(mid, <<>>) /\ stack' = Append(stack, k)
        /\ last_token_type' = "START_BLOCK"
    BY <1>2 DEF GotStartBlock, Continue
  <2> HIDE DEF mid, new, s
  <2>9. /\ blocks' \in Seq(Seq(Statement)) /\ Len(blocks') = k
        /\ blocks'[k] = <<>>
        /\ \A j \in 1..Len(blocks) : blocks'[j] = mid[j]
    BY <2>4, <2>7, <2>8
  <2>10. stack' \in Seq(1..Len(blocks'))
    <3>1. stack \in Seq(1..k)
      BY <2>4 DEF Inv, HeapType
    <3> QED BY <2>4, <2>8, <2>9, <3>1
  <2>11. HeapType'
    <3>1. blocks' # <<>>
      BY <2>4, <2>9
    <3>2. last_token_type' \in Types
      BY <2>8 DEF Types
    <3> QED BY <2>9, <2>10, <3>1, <3>2 DEF HeapType
  <2>12. ChildrenBelow'
    <3> SUFFICES ASSUME NEW j \in 1..k, NEW i \in 1..Len(blocks'[j]),
                        blocks'[j][i].child # None
                 PROVE  blocks'[j][i].child \in (j + 1)..k
      BY <2>9 DEF ChildrenBelow
    <3>1. j # k
      BY <2>9
    <3>2. j \in 1..Len(blocks) /\ blocks'[j] = mid[j]
      BY <2>4, <2>9, <3>1
    <3>3. CASE j # Top
      BY <2>4, <2>7, <3>2, <3>3 DEF Inv, ChildrenBelow
    <3>4. CASE j = Top /\ i = n
      BY <2>2, <2>4, <2>5, <2>6, <2>7, <3>2, <3>4
    <3>5. CASE j = Top /\ i # n
      <4>1. i \in 1..Len(b) /\ blocks'[j][i] = b[i]
        BY <2>3, <2>6, <2>7, <3>2, <3>5
      <4> QED BY <2>2, <2>4, <3>2, <3>5, <4>1 DEF Inv, ChildrenBelow
    <3> QED BY <3>3, <3>4, <3>5
  <2> QED BY <2>8, <2>11, <2>12 DEF Inv, BackDefined
<1> QED BY <1>1, <1>2

LEMMA EndBlockInv ==
  ASSUME Inv, value' \in Seq(Chars), GotEndBlock
  PROVE  Inv'
<1>1. CASE \E v : Stop(v)
  BY <1>1, StopInv
<1>2. CASE stack # <<>> /\ stack' = Pop /\ blocks' = blocks
           /\ Continue("END_BLOCK")
  <2>1. stack' \in Seq(1..Len(blocks))
    <3>1. stack \in Seq(1..Len(blocks)) /\ Len(stack) \in 1..Len(stack)
      BY <1>2, EmptySeq DEF Inv, HeapType
    <3>2. \A i \in 1..(Len(stack) - 1) : stack[i] \in 1..Len(blocks)
      BY <3>1
    <3> QED BY <1>2, <3>1, <3>2 DEF Pop
  <2> QED BY <1>2, <2>1
          DEF Inv, HeapType, Types, BackDefined, ChildrenBelow, Continue
<1> QED BY <1>1, <1>2 DEF GotEndBlock

LEMMA EofInv ==
  ASSUME Inv, value' \in Seq(Chars), GotEof
  PROVE  Inv'
BY StopInv DEF GotEof

LEMMA TokenInv ==
  ASSUME Inv, NEW c \in Chars, ParseToken(c)
  PROVE  Inv'
<1>0. /\ value \in Seq(Chars) /\ Append(value, c) \in Seq(Chars)
      /\ <<c>> \in Seq(Chars) /\ <<>> \in Seq(Chars)
  BY DEF Inv, HeapType
<1>1. ASSUME NEW st, NEW v \in Seq(Chars), Go(st, v) PROVE Inv'
  BY <1>1, SameHeap DEF Go
<1>2. ASSUME NEW t, NEW p, Token(t, p) PROVE value' \in Seq(Chars)
  BY <1>0, <1>2 DEF Token
<1>3. ASSUME Error PROVE Inv'
  BY <1>0, <1>3, StopInv DEF Error
<1>4. CASE InitialWhitespace(c)
  BY <1>0, <1>1, <1>2, <1>4, StatementEndInv, StartBlockInv, EndBlockInv
  DEF InitialWhitespace
<1>5. CASE Quoted(c)
  BY <1>0, <1>1, <1>2, <1>3, <1>5, NormalInv DEF Quoted
<1>6. CASE Escape(c)
  BY <1>0, <1>1, <1>6 DEF Escape
<1>7. CASE Comment(c)
  BY <1>0, <1>1, <1>7 DEF Comment
<1>8. CASE Normal(c)
  BY <1>0, <1>1, <1>2, <1>8, NormalInv DEF Normal
<1> QED BY <1>4, <1>5, <1>6, <1>7, <1>8 DEF ParseToken

LEMMA InvStep == Inv /\ [Next]_vars => Inv'
<1> SUFFICES ASSUME Inv, [Next]_vars PROVE Inv'
  OBVIOUS
<1>0. value \in Seq(Chars)
  BY DEF Inv, HeapType
<1>1. CASE UNCHANGED vars
  BY <1>0, <1>1, SameHeap DEF vars
<1>2. ASSUME NEW c \in Chars, ParseToken(c) PROVE Inv'
  BY <1>2, TokenInv
<1>3. CASE EndOfFile
  BY <1>0, <1>3, StopInv, EofInv DEF EndOfFile
<1>4. CASE Main
  BY <1>0, <1>4, SameHeap DEF Main
<1>5. CASE Reparse
  BY <1>5, NewFileInv DEF Reparse
<1> QED BY <1>1, <1>2, <1>3, <1>4, <1>5 DEF Next

(* Parse asks statements_.back() only of a block that has a statement, and *)
(* a "{" never replaces a block, for every file.                           *)
THEOREM BackIsDefined == Spec => []BackDefined
<1>1. Inv => BackDefined
  BY DEF Inv
<1> QED BY <1>1, InvInit, InvStep, PTL DEF Spec

(* What Parse builds has no cycle, whatever the file: get_listen_port and  *)
(* ToString, which recurse into every child_block_, end.                   *)
THEOREM TreeHasNoCycle == Spec => []ChildrenBelow
<1>1. Inv => ChildrenBelow
  BY DEF Inv
<1> QED BY <1>1, InvInit, InvStep, PTL DEF Spec

-----------------------------------------------------------------------------
(* get_listen_port.                                                        *)

Descends(tree) ==
  \A n \in 1..Len(tree) : \A i \in 1..Len(tree[n]) :
    tree[n][i].child # None => tree[n][i].child \in (n + 1)..Len(tree)

PortValues == Ports \cup {Throws}

LEMMA PortOfType ==
  ASSUME NEW b, NEW f
  PROVE  PortOf(b, f) \in PortValues
BY DEF PortOf, PortValues

(* A block's port depends on its own blocks' ports only.                   *)
LEMMA PortOfLocal ==
  ASSUME NEW b \in Seq(Statement), NEW f, NEW g,
         \A i \in 1..Len(b) : b[i].child # None => f[b[i].child] = g[b[i].child]
  PROVE  PortOf(b, f) = PortOf(b, g)
<1> DEFINE listens == {i \in DOMAIN b : IsListen(b[i])}
           before == {i \in DOMAIN b : \A l \in listens : i < l}
           kids == {i \in before : b[i].child # None}
           p(h) == IF listens # {} THEN stoi(b[Min(listens)].tokens[2])
                   ELSE IF kids # {} THEN h[b[Max(kids)].child]
                   ELSE Throws
           ok(h) == \A i \in kids : h[b[i].child] # Throws
<1>1. DOMAIN b = 1..Len(b) /\ Len(b) \in Nat
  OBVIOUS
<1>2. kids \subseteq 0..Len(b) /\ \A i \in kids : f[b[i].child] = g[b[i].child]
  BY <1>1
<1>3. /\ PortOf(b, f) = IF ok(f) /\ p(f) \in Ports THEN p(f) ELSE Throws
      /\ PortOf(b, g) = IF ok(g) /\ p(g) \in Ports THEN p(g) ELSE Throws
  BY DEF PortOf
<1> HIDE DEF kids, listens
<1>4. kids # {} => Max(kids) \in kids
  BY <1>1, <1>2, MaxExists
<1>5. p(f) = p(g) /\ (ok(f) <=> ok(g))
  BY <1>2, <1>4
<1> HIDE DEF p, ok
<1> QED BY <1>3, <1>5

(* The recursion over a tree without cycles has a solution: the ports of   *)
(* the last blocks are found first.                                        *)
LEMMA PortsExist ==
  ASSUME NEW tree \in Seq(Seq(Statement)), Descends(tree)
  PROVE  \E f : f = [n \in DOMAIN tree |-> PortOf(tree[n], f)]
<1> DEFINE N == Len(tree)
           Good(m) == \E f \in [m..N -> PortValues] :
                        \A n \in m..N : f[n] = PortOf(tree[n], f)
           Bad == {m \in 1..(N + 1) : ~Good(m)}
<1>1. N \in Nat /\ DOMAIN tree = 1..N /\ \A n \in 1..N : tree[n] \in Seq(Statement)
  OBVIOUS
<1>2. Good(N + 1)
  <2>1. (N + 1)..N = {}
    BY <1>1
  <2>2. [n \in {} |-> Throws] \in [{} -> PortValues]
    OBVIOUS
  <2> QED BY <2>1, <2>2
<1>3. ASSUME NEW m \in 1..N, Good(m + 1) PROVE Good(m)
  <2>1. PICK f \in [(m + 1)..N -> PortValues] :
          \A n \in (m + 1)..N : f[n] = PortOf(tree[n], f)
    BY <1>3
  <2> DEFINE v == PortOf(tree[m], f)
             g == [n \in m..N |-> IF n = m THEN v ELSE f[n]]
  <2>2. v \in PortValues
    BY PortOfType
  <2>3. \A n \in m..N : n = m \/ n \in (m + 1)..N
    BY <1>1
  <2>4. (m + 1)..N \subseteq m..N /\ m \notin (m + 1)..N /\ m \in m..N
    BY <1>1
  <2> HIDE DEF v
  <2>5. /\ g \in [m..N -> PortValues] /\ g[m] = v
        /\ \A n \in (m + 1)..N : g[n] = f[n]
    BY <2>1, <2>2, <2>3, <2>4
  <2> HIDE DEF g
  <2>6. ASSUME NEW n \in m..N PROVE PortOf(tree[n], g) = PortOf(tree[n], f)
    <3>1. n \in 1..N /\ n \in Nat /\ m \in Nat /\ m <= n
      BY <1>1
    <3>2. \A i \in 1..Len(tree[n]) : tree[n][i].child # None =>
            tree[n][i].child \in (n + 1)..N
      BY <3>1 DEF Descends
    <3>3. (n + 1)..N \subseteq (m + 1)..N
      BY <1>1, <3>1
    <3> QED BY <1>1, <2>5, <3>1, <3>2, <3>3, PortOfLocal
  <2>7. \A n \in m..N : g[n] = PortOf(tree[n], g)
    BY <2>1, <2>3, <2>5, <2>6 DEF v
  <2> QED BY <2>5, <2>7
<1> HIDE DEF Good
<1>4. Bad = {}
  <2> SUFFICES ASSUME Bad # {} PROVE FALSE
    OBVIOUS
  <2>1. Bad \subseteq 0..(N + 1) /\ N + 1 \in Nat
    BY <1>1
  <2>2. PICK m \in Bad : \A y \in Bad : y <= m
    <3> HIDE DEF Bad
    <3> QED BY <2>1, MaxExists
  <2>3. m \in 1..(N + 1) /\ m # N + 1 /\ m \in Nat
    BY <1>1, <1>2, <2>2
  <2>4. m \in 1..N /\ m + 1 \in 1..(N + 1) /\ m + 1 \notin Bad
    BY <1>1, <2>2, <2>3
  <2>5. Good(m + 1)
    BY <2>4
  <2> QED BY <1>3, <2>2, <2>4, <2>5
<1>5. Good(1)
  BY <1>1, <1>4
<1>6. PICK f \in [1..N -> PortValues] : \A n \in 1..N : f[n] = PortOf(tree[n], f)
  BY <1>5 DEF Good
<1> QED BY <1>1, <1>6

(* The ports of all blocks, as get_listen_port's recursion finds them.     *)
LEMMA PortsSolved ==
  ASSUME NEW tree \in Seq(Seq(Statement)), Descends(tree), tree # <<>>
  PROVE  \E f : /\ get_listen_port(tree) = f[1]
                /\ \A n \in 1..Len(tree) : f[n] = PortOf(tree[n], f)
<1> DEFINE Eq(f) == f = [n \in DOMAIN tree |-> PortOf(tree[n], f)]
           below == CHOOSE f : Eq(f)
<1>1. get_listen_port(tree) = below[1]
  BY DEF get_listen_port
<1>2. \E f : Eq(f)
  BY PortsExist
<1>3. Eq(below)
  <2> HIDE DEF Eq
  <2> QED BY <1>2
<1>4. \A n \in 1..Len(tree) : below[n] = PortOf(tree[n], below)
  <2>1. DOMAIN tree = 1..Len(tree)
    OBVIOUS
  <2> HIDE DEF below
  <2> QED BY <1>3, <2>1
<1> HIDE DEF below
<1> QED BY <1>1, <1>4

(* A block's port is a listen statement's of its own or a block's in it.   *)
LEMMA PortOfSource ==
  ASSUME NEW b \in Seq(Statement), NEW f, PortOf(b, f) # Throws
  PROVE  \E i \in 1..Len(b) :
           \/ IsListen(b[i]) /\ stoi(b[i].tokens[2]) = PortOf(b, f)
           \/ b[i].child # None /\ f[b[i].child] = PortOf(b, f)
<1> DEFINE listens == {i \in DOMAIN b : IsListen(b[i])}
           before == {i \in DOMAIN b : \A l \in listens : i < l}
           kids == {i \in before : b[i].child # None}
           p == IF listens # {} THEN stoi(b[Min(listens)].tokens[2])
                ELSE IF kids # {} THEN f[b[Max(kids)].child]
                ELSE Throws
<1>1. DOMAIN b = 1..Len(b) /\ Len(b) \in Nat
  OBVIOUS
<1>2. /\ kids \subseteq 0..Len(b) /\ listens \subseteq Nat
      /\ \A i \in listens : i \in 1..Len(b) /\ IsListen(b[i])
      /\ \A i \in kids : i \in 1..Len(b) /\ b[i].child # None
  BY <1>1
<1>3. PortOf(b, f) = p /\ p # Throws
  BY DEF PortOf
<1> HIDE DEF kids, listens
<1>4. CASE listens # {}
  <2>1. Min(listens) \in listens
    BY <1>2, <1>4, MinExists
  <2> QED BY <1>2, <1>3, <1>4, <2>1
<1>5. CASE listens = {} /\ kids # {}
  <2>1. Max(kids) \in kids
    BY <1>1, <1>2, <1>5, MaxExists
  <2> QED BY <1>2, <1>3, <1>5, <2>1
<1> QED BY <1>3, <1>4, <1>5

(* The first listen statement decides, if no block stands before it.       *)
LEMMA PortOfFirst ==
  ASSUME NEW b \in Seq(Statement), NEW f, NEW i \in 1..Len(b), IsListen(b[i]),
         \A k \in 1..(i - 1) : b[k].child = None /\ ~IsListen(b[k])
  PROVE  PortOf(b, f) = IF stoi(b[i].tokens[2]) \in Ports
                        THEN stoi(b[i].tokens[2]) ELSE Throws
<1> DEFINE listens == {k \in DOMAIN b : IsListen(b[k])}
           before == {k \in DOMAIN b : \A l \in listens : k < l}
           kids == {k \in before : b[k].child # None}
           p == IF listens # {} THEN stoi(b[Min(listens)].tokens[2])
                ELSE IF kids # {} THEN f[b[Max(kids)].child]
                ELSE Throws
<1>1. DOMAIN b = 1..Len(b) /\ Len(b) \in Nat
  OBVIOUS
<1>2. i \in listens /\ listens \subseteq Nat /\ \A k \in listens : i <= k
  <2>1. ASSUME NEW k \in listens PROVE i <= k
    <3>1. k \in 1..Len(b) /\ k \notin 1..(i - 1)
      BY <1>1
    <3> QED BY <3>1
  <2> QED BY <1>1, <2>1
<1>3. kids = {}
  <2> SUFFICES ASSUME NEW k \in kids PROVE FALSE
    OBVIOUS
  <2>1. k \in 1..Len(b) /\ k < i /\ b[k].child # None
    BY <1>1, <1>2
  <2>2. k \in 1..(i - 1)
    BY <2>1
  <2> QED BY <2>1, <2>2
<1>4. PortOf(b, f) = IF (\A k \in kids : f[b[k].child] # Throws) /\ p \in Ports
                     THEN p ELSE Throws
  BY DEF PortOf
<1> HIDE DEF kids, listens
<1>5. Min(listens) = i
  <2>1. Min(listens) \in listens /\ Min(listens) <= i
    BY <1>2, MinExists
  <2>2. i <= Min(listens) /\ Min(listens) \in Nat /\ i \in Nat
    BY <1>2, <2>1
  <2> QED BY <2>1, <2>2
<1>6. p = stoi(b[i].tokens[2])
  BY <1>2, <1>5
<1> HIDE DEF p
<1> QED BY <1>3, <1>4, <1>6

(* Every block's port is some listen statement's: a last block for which   *)
(* it were not would have a block behind it.                               *)
LEMMA PortIsListen ==
  ASSUME NEW tree \in Seq(Seq(Statement)), Descends(tree), NEW f,
         \A n \in 1..Len(tree) : f[n] = PortOf(tree[n], f)
  PROVE  \A n \in 1..Len(tree) : f[n] # Throws =>
           \E b \in 1..Len(tree) : \E i \in 1..Len(tree[b]) :
             IsListen(tree[b][i]) /\ stoi(tree[b][i].tokens[2]) = f[n]
<1> DEFINE N == Len(tree)
           Listed(n) == \E b \in 1..N : \E i \in 1..Len(tree[b]) :
                          IsListen(tree[b][i]) /\ stoi(tree[b][i].tokens[2]) = f[n]
           Bad == {n \in 1..N : f[n] # Throws /\ ~Listed(n)}
<1> SUFFICES ASSUME Bad # {} PROVE FALSE
  OBVIOUS
<1>1. N \in Nat /\ Bad \subseteq 0..N /\ \A n \in 1..N : tree[n] \in Seq(Statement)
  OBVIOUS
<1>2. PICK n \in Bad : \A y \in Bad : y <= n
  <2> HIDE DEF Bad
  <2> QED BY <1>1, MaxExists
<1>3. n \in 1..N /\ f[n] # Throws /\ ~Listed(n) /\ f[n] = PortOf(tree[n], f)
  OBVIOUS
<1>4. PICK i \in 1..Len(tree[n]) :
        \/ IsListen(tree[n][i]) /\ stoi(tree[n][i].tokens[2]) = f[n]
        \/ tree[n][i].child # None /\ f[tree[n][i].child] = f[n]
  BY <1>1, <1>3, PortOfSource
<1>5. PICK c : c = tree[n][i].child
  OBVIOUS
<1>6. tree[n][i].child # None /\ f[c] = f[n]
  BY <1>3, <1>4, <1>5
<1>7. c \in (n + 1)..N
  BY <1>3, <1>5, <1>6 DEF Descends
<1>8. c \in 1..N /\ ~(c <= n)
  BY <1>1, <1>3, <1>7
<1>9. ~Listed(c)
  BY <1>3, <1>6
<1>10. c \in Bad
  BY <1>3, <1>6, <1>8, <1>9
<1> QED BY <1>2, <1>8, <1>10

PortInv ==
  /\ port # None => outcome = "true"
  /\ port \in {None} \cup PortValues
  /\ ListenDecides

LEMMA MainPort ==
  ASSUME Inv, Main
  PROVE  PortInv'
<1>1. /\ outcome' = outcome /\ outcome = "true" /\ blocks' = blocks
      /\ port' = get_listen_port(blocks)
  BY DEF Main
<1>2. /\ blocks \in Seq(Seq(Statement)) /\ blocks # <<>> /\ Len(blocks) \in Nat
      /\ DOMAIN blocks = 1..Len(blocks) /\ Descends(blocks)
  BY DEF Inv, HeapType, ChildrenBelow, Descends
<1>3. PICK f : /\ get_listen_port(blocks) = f[1]
               /\ \A n \in 1..Len(blocks) : f[n] = PortOf(blocks[n], f)
  BY <1>2, PortsSolved
<1>4. 1 \in 1..Len(blocks) /\ \A n \in 1..Len(blocks) : blocks[n] \in Seq(Statement)
  BY <1>2
<1>5. \A n \in 1..Len(blocks) : DOMAIN blocks[n] = 1..Len(blocks[n])
  BY <1>4
<1>6. port' \in PortValues
  BY <1>1, <1>3, <1>4, PortOfType
<1>7. port' # Throws =>
        \E b \in DOMAIN blocks : \E i \in DOMAIN blocks[b] :
          IsListen(blocks[b][i]) /\ stoi(blocks[b][i].tokens[2]) = port'
  <2>1. f[1] # Throws =>
          \E b \in 1..Len(blocks) : \E i \in 1..Len(blocks[b]) :
            IsListen(blocks[b][i]) /\ stoi(blocks[b][i].tokens[2]) = f[1]
    BY <1>2, <1>3, <1>4, PortIsListen
  <2> QED BY <1>1, <1>2, <1>3, <1>5, <2>1
<1>8. ASSUME NEW i \in DOMAIN blocks[1], IsListen(blocks[1][i]),
             \A k \in 1..(i - 1) : blocks[1][k].child = None /\ ~IsListen(blocks[1][k])
      PROVE  port' = IF stoi(blocks[1][i].tokens[2]) \in Ports
                     THEN stoi(blocks[1][i].tokens[2]) ELSE Throws
  <2>1. i \in 1..Len(blocks[1]) /\ blocks[1] \in Seq(Statement)
    BY <1>4, <1>5
  <2>2. PortOf(blocks[1], f) = IF stoi(blocks[1][i].tokens[2]) \in Ports
                               THEN stoi(blocks[1][i].tokens[2]) ELSE Throws
    BY <1>8, <2>1, PortOfFirst
  <2> QED BY <1>1, <1>3, <1>4, <2>2
<1>9. ListenDecides'
  BY <1>1, <1>7, <1>8 DEF ListenDecides
<1> QED BY <1>1, <1>6, <1>9 DEF PortInv

LEMMA PortStep ==
  ASSUME Inv, PortInv, [Next]_vars
  PROVE  PortInv'
<1>1. CASE UNCHANGED vars
  BY <1>1 DEF vars, PortInv, ListenDecides
<1>2. ASSUME outcome = "running", port' = port PROVE PortInv'
  <2>1. port' = None
    BY <1>2 DEF PortInv
  <2> QED BY <2>1 DEF PortInv, ListenDecides
<1>3. ASSUME NEW c \in Chars, ParseToken(c) PROVE PortInv'
  BY <1>2, <1>3
  DEF ParseToken, InitialWhitespace, Quoted, Escape, Comment, Normal, Reads, Same
<1>4. CASE EndOfFile
  BY <1>2, <1>4 DEF EndOfFile, Same
<1>5. CASE Reparse
  BY <1>5 DEF Reparse, NewFile, PortInv, ListenDecides
<1> QED BY <1>1, <1>3, <1>4, <1>5, MainPort DEF Next

(* The port of the server is a listen statement's of the file, however     *)
(* deep its blocks are nested, and a listen statement of the file itself   *)
(* that neither a block nor another one precedes decides it.               *)
THEOREM ListenIsDecided == Spec => []ListenDecides
<1>1. Init => Inv /\ PortInv
  BY InvInit DEF Init, PortInv, ListenDecides
<1>2. Inv /\ PortInv /\ [Next]_vars => Inv' /\ PortInv'
  BY InvStep, PortStep
<1>3. PortInv => ListenDecides
  BY DEF PortInv
<1> QED BY <1>1, <1>2, <1>3, PTL DEF Spec

-----------------------------------------------------------------------------
(* ToString.                                                               *)

(* The pieces of a text put together are a text.                           *)
LEMMA FlattenType ==
  ASSUME NEW S, NEW seqs \in Seq(Seq(S))
  PROVE  FlattenSeq(seqs) \in Seq(S)
<1> DEFINE L == Len(seqs)
           Next1(f, i) == IF i = 1 THEN seqs[i] ELSE f[i - 1] \o seqs[i]
           Eq(f) == f = [i \in 1..L |-> Next1(f, i)]
           flatten == CHOOSE f : Eq(f)
           Good(m) == \E f \in [1..m -> Seq(S)] : \A i \in 1..m : f[i] = Next1(f, i)
           Bad == {m \in 0..L : ~Good(m)}
<1>1. L \in Nat /\ \A i \in 1..L : seqs[i] \in Seq(S)
  OBVIOUS
<1>2. Good(0)
  <2>1. 1..0 = {} /\ [i \in {} |-> <<>>] \in [{} -> Seq(S)]
    OBVIOUS
  <2> QED BY <2>1
<1>3. ASSUME NEW m \in Nat, m < L, Good(m) PROVE Good(m + 1)
  <2>1. PICK f \in [1..m -> Seq(S)] : \A i \in 1..m : f[i] = Next1(f, i)
    BY <1>3
  <2> DEFINE v == Next1(f, m + 1)
             g == [i \in 1..(m + 1) |-> IF i = m + 1 THEN v ELSE f[i]]
  <2>2. v \in Seq(S)
    <3>1. m + 1 \in 1..L /\ (m + 1 # 1 => m + 1 - 1 \in 1..m)
      BY <1>1, <1>3
    <3>2. CASE m + 1 = 1
      BY <1>1, <3>1, <3>2
    <3>3. CASE m + 1 # 1
      <4>1. f[m + 1 - 1] \in Seq(S) /\ seqs[m + 1] \in Seq(S)
        BY <1>1, <2>1, <3>1, <3>3
      <4> QED BY <3>3, <4>1, ConcatProperties
    <3> QED BY <3>2, <3>3
  <2>3. \A i \in 1..(m + 1) : i = m + 1 \/ i \in 1..m
    BY <1>3
  <2>4. \A i \in 1..m : i \in 1..(m + 1) /\ i # m + 1
    BY <1>3
  <2>5. m + 1 \in 1..(m + 1)
    BY <1>3
  <2> HIDE DEF v
  <2>6. /\ g \in [1..(m + 1) -> Seq(S)] /\ g[m + 1] = v
        /\ \A i \in 1..m : g[i] = f[i]
    BY <2>1, <2>2, <2>3, <2>4, <2>5
  <2> HIDE DEF g
  <2>7. ASSUME NEW i \in 1..(m + 1) PROVE g[i] = Next1(g, i)
    <3>1. i # 1 => i - 1 \in 1..m
      BY <1>3
    <3>2. Next1(g, i) = Next1(f, i)
      BY <2>6, <3>1
    <3>3. CASE i = m + 1
      BY <2>6, <3>2, <3>3 DEF v
    <3>4. CASE i \in 1..m
      BY <2>1, <2>6, <3>2, <3>4
    <3> QED BY <2>3, <3>3, <3>4
  <2> QED BY <2>6, <2>7
<1>4. Good(L)
  <2> HIDE DEF Good
  <2> SUFFICES ASSUME Bad # {} PROVE FALSE
    BY <1>1
  <2>1. Bad \subseteq Nat
    BY <1>1
  <2>2. PICK m \in Bad : \A y \in Bad : m <= y
    <3> HIDE DEF Bad
    <3> QED BY <2>1, MinExists
  <2>3. m \in 0..L /\ m # 0
    BY <1>2, <2>2
  <2>4. m - 1 \in Nat /\ m - 1 < L /\ m - 1 \in 0..L /\ (m - 1) + 1 = m /\ m - 1 \notin Bad
    BY <1>1, <2>2, <2>3
  <2>5. Good(m - 1)
    BY <2>4
  <2>6. Good((m - 1) + 1)
    BY <1>3, <2>4, <2>5
  <2> QED BY <2>2, <2>4, <2>6
<1>5. CASE L = 0
  <2>1. seqs = <<>>
    BY <1>5, EmptySeq
  <2> QED BY <1>5, <2>1 DEF FlattenSeq
<1>6. CASE L # 0
  <2>1. FlattenSeq(seqs) = flatten[L]
    BY <1>6 DEF FlattenSeq
  <2>2. \E f : Eq(f)
    <3>1. PICK f \in [1..L -> Seq(S)] : \A i \in 1..L : f[i] = Next1(f, i)
      BY <1>4
    <3> QED BY <3>1
  <2>3. Eq(flatten)
    <3> HIDE DEF Eq
    <3> QED BY <2>2
  <2> HIDE DEF flatten
  <2>4. \A i \in 1..L : flatten[i] = Next1(flatten, i)
    BY <2>3
  <2> DEFINE Odd == {i \in 1..L : flatten[i] \notin Seq(S)}
  <2>5. Odd = {}
    <3> SUFFICES ASSUME Odd # {} PROVE FALSE
      OBVIOUS
    <3>1. Odd \subseteq Nat
      OBVIOUS
    <3>2. PICK i \in Odd : \A y \in Odd : i <= y
      <4> HIDE DEF Odd
      <4> QED BY <3>1, MinExists
    <3>3. i \in 1..L /\ seqs[i] \in Seq(S) /\ flatten[i] \notin Seq(S)
      BY <1>1
    <3>4. i # 1 => i - 1 \in 1..L /\ i - 1 \notin Odd
      BY <1>1, <3>2, <3>3
    <3>5. i # 1 => flatten[i - 1] \in Seq(S)
      BY <3>4
    <3>6. CASE i = 1
      BY <2>4, <3>3, <3>6
    <3>7. CASE i # 1
      <4>1. flatten[i - 1] \o seqs[i] \in Seq(S)
        BY <3>3, <3>5, <3>7, ConcatProperties
      <4> QED BY <2>4, <3>3, <3>7, <4>1
    <3> QED BY <3>6, <3>7
  <2> QED BY <1>1, <1>6, <2>1, <2>5
<1> QED BY <1>5, <1>6

LEMMA CharTexts ==
  /\ \A c \in Chars : <<c>> \in Seq(Chars)
  /\ <<"SP">> \in Seq(Chars) /\ <<";">> \in Seq(Chars) /\ <<"}">> \in Seq(Chars)
  /\ <<"LF">> \in Seq(Chars) /\ <<"SP", "{", "LF">> \in Seq(Chars)
<1>1. "SP" \in Chars /\ ";" \in Chars /\ "}" \in Chars /\ "{" \in Chars /\ "LF" \in Chars
  BY DEF Chars
<1>2. ASSUME NEW S, NEW x \in S, NEW y \in S, NEW z \in S
      PROVE  <<x>> \in Seq(S) /\ <<x, y, z>> \in Seq(S)
  OBVIOUS
<1> HIDE DEF Chars
<1>3. \A c \in Chars : <<c>> \in Seq(Chars)
  BY <1>2
<1>4. <<"SP", "{", "LF">> \in Seq(Chars)
  BY <1>1, <1>2
<1> QED BY <1>1, <1>3, <1>4

LEMMA SpacedType ==
  ASSUME NEW tokens \in Seq(Seq(Chars))
  PROVE  Spaced(tokens) \in Seq(Chars)
<1> DEFINE piece(i) == IF i = 1 THEN tokens[i] ELSE <<"SP">> \o tokens[i]
           q == [i \in 1..Len(tokens) |-> piece(i)]
<1>1. <<"SP">> \in Seq(Chars)
  BY CharTexts
<1>2. ASSUME NEW i \in 1..Len(tokens) PROVE piece(i) \in Seq(Chars)
  <2>1. tokens[i] \in Seq(Chars)
    BY ElementOfSeq
  <2> HIDE DEF Chars
  <2>2. <<"SP">> \o tokens[i] \in Seq(Chars)
    BY <1>1, <2>1, ConcatProperties
  <2> QED BY <2>1, <2>2
<1> HIDE DEF piece
<1>3. q \in Seq(Seq(Chars))
  <2>1. Len(tokens) \in Nat
    OBVIOUS
  <2> QED BY <1>2, <2>1
<1>4. Spaced(tokens) = FlattenSeq(q)
  BY DEF Spaced, piece
<1> QED BY <1>3, <1>4, FlattenType

(* One turn of ToString over a block's statements, f giving the text of    *)
(* the blocks below.                                                       *)
Braces(f, st, depth) ==
  IF st.child = None THEN <<";">>
  ELSE <<"SP", "{", "LF">> \o f[st.child][depth + 1] \o Indent(depth) \o <<"}">>
StatementText(f, st, depth) ==
  Indent(depth) \o Spaced(st.tokens) \o Braces(f, st, depth) \o <<"LF">>
BlockText(tree, f, n, depth) ==
  FlattenSeq([i \in 1..Len(tree[n]) |-> StatementText(f, tree[n][i], depth)])

LEMMA StatementTextType ==
  ASSUME NEW f, NEW st \in Statement, NEW depth \in Nat,
         st.child # None => f[st.child][depth + 1] \in Seq(Chars)
  PROVE  StatementText(f, st, depth) \in Seq(Chars)
<1>1. Indent(depth) \in Seq(Chars)
  <2>1. "SP" \in Chars
    BY DEF Chars
  <2>2. 2 * depth \in Nat
    OBVIOUS
  <2>3. \A i \in 1..(2 * depth) : "SP" \in Chars
    BY <2>1
  <2>4. [i \in 1..(2 * depth) |-> "SP"] \in Seq(Chars)
    BY <2>2, <2>3, IsASeq
  <2> QED BY <2>4 DEF Indent
<1>2. Spaced(st.tokens) \in Seq(Chars)
  BY SpacedType DEF Statement
<1>3. Braces(f, st, depth) \in Seq(Chars)
  <2>1. CASE st.child = None
    BY <2>1, CharTexts DEF Braces
  <2>2. CASE st.child # None
    <3> DEFINE open == <<"SP", "{", "LF">>
               body == f[st.child][depth + 1]
    <3>1. open \in Seq(Chars) /\ body \in Seq(Chars) /\ <<"}">> \in Seq(Chars)
      BY <2>2, CharTexts
    <3>2. Braces(f, st, depth) = open \o body \o Indent(depth) \o <<"}">>
      BY <2>2 DEF Braces
    <3> HIDE DEF open, body
    <3>3. open \o body \in Seq(Chars)
      BY <3>1, ConcatProperties
    <3>4. open \o body \o Indent(depth) \in Seq(Chars)
      BY <1>1, <3>3, ConcatProperties
    <3> QED BY <3>1, <3>2, <3>4, ConcatProperties
  <2> QED BY <2>1, <2>2
<1>4. Indent(depth) \o Spaced(st.tokens) \in Seq(Chars)
  BY <1>1, <1>2, ConcatProperties
<1>5. Indent(depth) \o Spaced(st.tokens) \o Braces(f, st, depth) \in Seq(Chars)
  BY <1>3, <1>4, ConcatProperties
<1> QED BY <1>5, CharTexts, ConcatProperties DEF StatementText

LEMMA BlockTextType ==
  ASSUME NEW tree \in Seq(Seq(Statement)), NEW f, NEW n \in 1..Len(tree),
         NEW depth \in Nat,
         \A i \in 1..Len(tree[n]) : tree[n][i].child # None =>
           f[tree[n][i].child][depth + 1] \in Seq(Chars)
  PROVE  BlockText(tree, f, n, depth) \in Seq(Chars)
<1> DEFINE q == [i \in 1..Len(tree[n]) |-> StatementText(f, tree[n][i], depth)]
<1>1. tree[n] \in Seq(Statement) /\ Len(tree[n]) \in Nat
  <2>1. tree[n] \in Seq(Statement)
    BY ElementOfSeq
  <2> QED BY <2>1
<1>2. \A i \in 1..Len(tree[n]) : StatementText(f, tree[n][i], depth) \in Seq(Chars)
  BY <1>1, ElementOfSeq, StatementTextType
<1>3. q \in Seq(Seq(Chars))
  BY <1>1, <1>2
<1> QED BY <1>3, FlattenType DEF BlockText

(* f and g give the same text to the blocks below block n.                 *)
Agree(tree, f, g, n, depth) ==
  \A i \in 1..Len(tree[n]) : tree[n][i].child # None =>
    f[tree[n][i].child][depth + 1] = g[tree[n][i].child][depth + 1]

LEMMA BlockTextLocal ==
  ASSUME NEW tree, NEW f, NEW g, NEW n, NEW depth, Agree(tree, f, g, n, depth)
  PROVE  BlockText(tree, f, n, depth) = BlockText(tree, g, n, depth)
<1>1. \A i \in 1..Len(tree[n]) :
        StatementText(f, tree[n][i], depth) = StatementText(g, tree[n][i], depth)
  BY DEF Agree, StatementText, Braces
<1>2. [i \in 1..Len(tree[n]) |-> StatementText(f, tree[n][i], depth)]
        = [i \in 1..Len(tree[n]) |-> StatementText(g, tree[n][i], depth)]
  BY <1>1
<1> QED BY <1>2 DEF BlockText

(* The texts of all blocks at every depth, the last blocks first.          *)
LEMMA TextsExist ==
  ASSUME NEW tree \in Seq(Seq(Statement)), Descends(tree)
  PROVE  \E f \in [1..Len(tree) -> [Nat -> Seq(Chars)]] :
           \A n \in 1..Len(tree) : f[n] = [d \in Nat |-> BlockText(tree, f, n, d)]
<1> DEFINE N == Len(tree)
           T == [Nat -> Seq(Chars)]
           Text(f, n) == [d \in Nat |-> BlockText(tree, f, n, d)]
           Good(m) == \E f \in [m..N -> T] : \A n \in m..N : f[n] = Text(f, n)
           Bad == {m \in 1..(N + 1) : ~Good(m)}
<1>1. N \in Nat
  OBVIOUS
<1>2. Good(N + 1)
  <2>1. (N + 1)..N = {}
    BY <1>1
  <2>2. [x \in {} |-> <<>>] \in [{} -> T]
    OBVIOUS
  <2> QED BY <2>1, <2>2
<1>3. ASSUME NEW m \in 1..N, Good(m + 1) PROVE Good(m)
  <2>1. PICK f \in [(m + 1)..N -> T] : \A n \in (m + 1)..N : f[n] = Text(f, n)
    BY <1>3
  <2> DEFINE v == Text(f, m)
             g == [n \in m..N |-> IF n = m THEN v ELSE f[n]]
  <2>2. ASSUME NEW n \in m..N
        PROVE  /\ n \in 1..N
               /\ \A i \in 1..Len(tree[n]) : tree[n][i].child # None =>
                    tree[n][i].child \in (m + 1)..N
    <3>1. n \in 1..N /\ n \in Nat /\ m \in Nat /\ m <= n
      BY <1>1
    <3>2. \A i \in 1..Len(tree[n]) : tree[n][i].child # None =>
            tree[n][i].child \in (n + 1)..N
      BY <3>1 DEF Descends
    <3>3. (n + 1)..N \subseteq (m + 1)..N
      BY <1>1, <3>1
    <3> QED BY <3>1, <3>2, <3>3
  <2>3. m \in m..N /\ (m + 1)..N \subseteq m..N /\ m \notin (m + 1)..N
    BY <1>1
  <2>4. \A n \in m..N : n = m \/ n \in (m + 1)..N
    BY <1>1
  <2>5. v \in T
    <3>1. ASSUME NEW d \in Nat PROVE BlockText(tree, f, m, d) \in Seq(Chars)
      <4>1. d + 1 \in Nat
        OBVIOUS
      <4>2. \A i \in 1..Len(tree[m]) : tree[m][i].child # None =>
              f[tree[m][i].child][d + 1] \in Seq(Chars)
        BY <2>1, <2>2, <2>3, <4>1
      <4> QED BY <4>2, BlockTextType
    <3> QED BY <3>1
  <2> HIDE DEF v, T
  <2>6. /\ g \in [m..N -> T] /\ g[m] = v
        /\ \A n \in (m + 1)..N : g[n] = f[n]
    BY <2>1, <2>3, <2>4, <2>5
  <2> HIDE DEF g
  <2>7. ASSUME NEW n \in m..N PROVE Text(g, n) = Text(f, n)
    <3>1. ASSUME NEW d \in Nat
          PROVE  BlockText(tree, g, n, d) = BlockText(tree, f, n, d)
      <4>1. Agree(tree, g, f, n, d)
        BY <2>2, <2>6 DEF Agree
      <4> QED BY <4>1, BlockTextLocal
    <3> QED BY <3>1
  <2> HIDE DEF Text
  <2>8. \A n \in m..N : g[n] = Text(g, n)
    BY <2>1, <2>4, <2>6, <2>7 DEF v
  <2> QED BY <2>6, <2>8
<1> HIDE DEF Good
<1>4. Bad = {}
  <2> SUFFICES ASSUME Bad # {} PROVE FALSE
    OBVIOUS
  <2>1. Bad \subseteq 0..(N + 1) /\ N + 1 \in Nat
    BY <1>1
  <2>2. PICK m \in Bad : \A y \in Bad : y <= m
    <3> HIDE DEF Bad
    <3> QED BY <2>1, MaxExists
  <2>3. m \in 1..(N + 1) /\ m # N + 1 /\ m \in Nat
    BY <1>1, <1>2, <2>2
  <2>4. m \in 1..N /\ m + 1 \in 1..(N + 1) /\ m + 1 \notin Bad
    BY <1>1, <2>2, <2>3
  <2>5. Good(m + 1)
    BY <2>4
  <2> QED BY <1>3, <2>2, <2>4, <2>5
<1>5. Good(1)
  BY <1>1, <1>4
<1> QED BY <1>5 DEF Good

(* ToString's recursion.                                                   *)
LEMMA TextsSolved ==
  ASSUME NEW tree \in Seq(Seq(Statement)), Descends(tree), tree # <<>>
  PROVE  \E f : /\ \A n \in 1..Len(tree), d \in Nat : f[n][d] = BlockText(tree, f, n, d)
                /\ ConfigToString(tree) = f[1][0]
<1> DEFINE N == Len(tree)
           Text(f, n) == [d \in Nat |-> BlockText(tree, f, n, d)]
           Eq(f) == f = [n \in DOMAIN tree |-> Text(f, n)]
           block == CHOOSE f : Eq(f)
<1>1. N \in Nat /\ N # 0 /\ DOMAIN tree = 1..N
  BY EmptySeq
<1>2. ConfigToString(tree) = block[1][0]
  BY DEF ConfigToString, BlockText, StatementText, Braces
<1>3. Eq(block)
  <2>1. PICK f \in [1..N -> [Nat -> Seq(Chars)]] : \A n \in 1..N : f[n] = Text(f, n)
    BY TextsExist
  <2>2. Eq(f)
    <3> HIDE DEF Text
    <3> QED BY <1>1, <2>1
  <2> HIDE DEF Eq
  <2> QED BY <2>2
<1> HIDE DEF block
<1>4. ASSUME NEW n \in 1..N, NEW d \in Nat
      PROVE  block[n][d] = BlockText(tree, block, n, d)
  <2>1. block[n] = Text(block, n)
    <3> HIDE DEF Text
    <3> QED BY <1>1, <1>3
  <2>2. Text(block, n)[d] = BlockText(tree, block, n, d)
    OBVIOUS
  <2> HIDE DEF Text
  <2> QED BY <2>1, <2>2
<1> QED BY <1>2, <1>4, Zenon

(* What ToString prints of a tree without cycles is a text.                *)
LEMMA ToStringType ==
  ASSUME NEW tree \in Seq(Seq(Statement)), Descends(tree), tree # <<>>
  PROVE  ConfigToString(tree) \in Seq(Chars)
<1> DEFINE N == Len(tree)
<1>1. N \in Nat /\ N # 0
  BY EmptySeq
<1>2. PICK block : /\ \A n \in 1..N, d \in Nat : block[n][d] = BlockText(tree, block, n, d)
                   /\ ConfigToString(tree) = block[1][0]
  BY TextsSolved
<1> DEFINE Fine(n) == \A d \in Nat : block[n][d] \in Seq(Chars)
           Bad == {n \in 1..N : ~Fine(n)}
<1>5. Bad = {}
  <2> SUFFICES ASSUME Bad # {} PROVE FALSE
    OBVIOUS
  <2>1. Bad \subseteq 0..N
    BY <1>1
  <2>2. PICK n \in Bad : \A y \in Bad : y <= n
    <3> HIDE DEF Bad
    <3> QED BY <1>1, <2>1, MaxExists
  <2>3. PICK d \in Nat : block[n][d] \notin Seq(Chars)
    OBVIOUS
  <2>4. n \in 1..N /\ n \in Nat /\ d + 1 \in Nat
    BY <1>1
  <2>5. ASSUME NEW i \in 1..Len(tree[n]), tree[n][i].child # None
        PROVE  block[tree[n][i].child][d + 1] \in Seq(Chars)
    <3>1. PICK c \in (n + 1)..N : c = tree[n][i].child
      BY <2>4, <2>5 DEF Descends
    <3>2. c \in 1..N /\ ~(c <= n)
      BY <1>1, <2>4
    <3>3. Fine(c)
      BY <2>2, <3>2
    <3> QED BY <2>4, <3>1, <3>3
  <2>6. BlockText(tree, block, n, d) \in Seq(Chars)
    BY <2>4, <2>5, BlockTextType
  <2> QED BY <1>2, <2>3, <2>4, <2>6
<1>6. 1 \in 1..N /\ 0 \in Nat /\ Fine(1)
  BY <1>1, <1>5
<1> QED BY <1>2, <1>6

-----------------------------------------------------------------------------
(* Types.                                                                  *)

States ==
  {"initial", "dq", "sq", "escape_dq", "escape_sq", "comment", "normal"}
Outcomes == {"running", "true", "false", "not_opened", "undefined"}

(* What ParseToken reads and has read, and what Parse returned.            *)
ReadType ==
  /\ text \in Seq(Chars) /\ pos \in 0..Len(text)
  /\ state \in States
  /\ seen \in Seq(Seq(Chars))
  /\ outcome \in Outcomes

(* The reparses.                                                           *)
PrintType ==
  /\ reparses \in 0..MaxReparses
  /\ printed \in Seq(Seq(Statement))

LEMMA GotOutcome ==
  ASSUME outcome \in Outcomes, NEW token,
         \/ GotNormal(token) \/ GotStatementEnd \/ GotStartBlock \/ GotEndBlock
         \/ GotEof \/ Stop("false")
  PROVE  outcome' \in Outcomes
<1>1. ASSUME NEW v \in Outcomes, Stop(v) PROVE outcome' \in Outcomes
  BY <1>1 DEF Stop
<1>2. ASSUME NEW type, Continue(type) PROVE outcome' \in Outcomes
  BY <1>2 DEF Continue
<1>3. "false" \in Outcomes /\ "undefined" \in Outcomes /\ "true" \in Outcomes
  BY DEF Outcomes
<1>4. CASE GotNormal(token)
  BY <1>1, <1>2, <1>3, <1>4 DEF GotNormal
<1>5. CASE GotStatementEnd
  BY <1>1, <1>2, <1>3, <1>5 DEF GotStatementEnd
<1>6. CASE GotStartBlock
  BY <1>1, <1>2, <1>3, <1>6 DEF GotStartBlock
<1>7. CASE GotEndBlock
  BY <1>1, <1>2, <1>3, <1>7 DEF GotEndBlock
<1>8. CASE GotEof
  BY <1>1, <1>3, <1>8 DEF GotEof
<1> QED BY <1>1, <1>3, <1>4, <1>5, <1>6, <1>7, <1>8

LEMMA TokenReads ==
  ASSUME value \in Seq(Chars), ReadType, NEW c \in Chars, ParseToken(c)
  PROVE  ReadType'
<1>1. text' = text /\ pos \in Nat /\ pos < Len(text) /\ Len(text) \in Nat
  <2>1. Reads(c)
    BY DEF ParseToken, InitialWhitespace, Quoted, Escape, Comment, Normal
  <2>2. text' = text /\ pos < Len(text)
    BY <2>1 DEF Reads, Same
  <2>3. Len(text) \in Nat /\ pos \in Nat
    BY DEF ReadType
  <2> QED BY <2>2, <2>3
<1>2. pos + 1 \in 0..Len(text) /\ pos \in 0..Len(text)
  BY <1>1
<1>3. "initial" \in States /\ \A st \in States : \A v : Go(st, v) => ReadType'
  <2>1. "initial" \in States
    BY DEF States
  <2>2. ASSUME NEW st \in States, NEW v, Go(st, v) PROVE ReadType'
    BY <1>1, <1>2, <2>2 DEF Go, ReadType
  <2> QED BY <2>1, <2>2
<1>4. ASSUME NEW t \in Seq(Chars), NEW p \in 0..Len(text), Token(t, p),
             outcome' \in Outcomes
      PROVE  ReadType'
  <2>1. seen' \in Seq(Seq(Chars))
    BY <1>4 DEF Token, ReadType
  <2> QED BY <1>1, <1>3, <1>4, <2>1 DEF Token, ReadType
<1>5. outcome \in Outcomes
  BY DEF ReadType
<1>6. Append(value, c) \in Seq(Chars) /\ <<c>> \in Seq(Chars)
  <2>1. Append(value, c) \in Seq(Chars)
    OBVIOUS
  <2> QED BY <2>1, CharTexts
<1>7. CASE InitialWhitespace(c)
  <2>1. "comment" \in States /\ "normal" \in States /\ "dq" \in States /\ "sq" \in States
    BY DEF States
  <2> QED BY <1>2, <1>3, <1>4, <1>5, <1>6, <1>7, <2>1, GotOutcome DEF InitialWhitespace
<1>8. CASE Quoted(c)
  <2>1. /\ "dq" \in States /\ "sq" \in States
        /\ "escape_dq" \in States /\ "escape_sq" \in States
    BY DEF States
  <2>2. state \in States
    BY DEF ReadType
  <2>3. Error => ReadType'
    BY <1>1, <1>5, GotOutcome DEF Error, ReadType
  <2> QED BY <1>2, <1>3, <1>4, <1>5, <1>6, <1>8, <2>1, <2>2, <2>3, GotOutcome DEF Quoted
<1>9. CASE Escape(c)
  <2>1. "dq" \in States /\ "sq" \in States
    BY DEF States
  <2> QED BY <1>3, <1>9, <2>1 DEF Escape
<1>10. CASE Comment(c)
  <2>1. "comment" \in States
    BY DEF States
  <2> QED BY <1>3, <1>10, <2>1 DEF Comment
<1>11. CASE Normal(c)
  <2>1. "normal" \in States
    BY DEF States
  <2> QED BY <1>2, <1>3, <1>4, <1>5, <1>11, <2>1, GotOutcome DEF Normal
<1> QED BY <1>7, <1>8, <1>9, <1>10, <1>11 DEF ParseToken

LEMMA TypesStep ==
  ASSUME Inv, ReadType, PrintType, [Next]_vars
  PROVE  ReadType' /\ PrintType'
<1>1. CASE UNCHANGED vars
  BY <1>1 DEF vars, ReadType, PrintType
<1>2. ASSUME NEW c \in Chars, ParseToken(c) PROVE ReadType' /\ PrintType'
  <2>1. ReadType'
    BY <1>2, TokenReads DEF Inv, HeapType
  <2>2. PrintType'
    BY <1>2 DEF ParseToken, InitialWhitespace, Quoted, Escape, Comment, Normal, Reads,
                Same, PrintType
  <2> QED BY <2>1, <2>2
<1>3. CASE EndOfFile
  <2>1. outcome' \in Outcomes
    BY <1>3, GotOutcome DEF EndOfFile, ReadType
  <2> QED BY <1>3, <2>1 DEF EndOfFile, Same, ReadType, PrintType
<1>4. CASE Main
  BY <1>4 DEF Main, ReadType, PrintType
<1>5. CASE Reparse
  <2>1. blocks \in Seq(Seq(Statement)) /\ blocks # <<>> /\ Descends(blocks)
    BY DEF Inv, HeapType, ChildrenBelow, Descends
  <2>2. text' \in Seq(Chars)
    BY <1>5, <2>1, ToStringType DEF Reparse, NewFile
  <2>3. 0 \in 0..Len(text') /\ <<>> \in Seq(Seq(Chars))
    BY <2>2
  <2>4. "initial" \in States /\ "running" \in Outcomes
    BY DEF States, Outcomes
  <2>5. ReadType'
    BY <1>5, <2>2, <2>3, <2>4 DEF Reparse, NewFile, ReadType
  <2>6. reparses' \in 0..MaxReparses
    BY <1>5, ConfigAssumption DEF Reparse, PrintType
  <2>7. PrintType'
    BY <1>5, <2>1, <2>6 DEF Reparse, PrintType
  <2> QED BY <2>5, <2>7
<1> QED BY <1>1, <1>2, <1>3, <1>4, <1>5 DEF Next

LEMMA TypesInit == Init => ReadType /\ PrintType
<1> SUFFICES ASSUME Init PROVE ReadType /\ PrintType
  OBVIOUS
<1>1. text \in Seq(Chars)
  BY ConfigAssumption DEF Init
<1>2. pos \in 0..Len(text) /\ seen \in Seq(Seq(Chars))
  BY <1>1 DEF Init
<1>3. state \in States /\ outcome \in Outcomes
  BY DEF Init, States, Outcomes
<1>4. reparses \in 0..MaxReparses /\ printed \in Seq(Seq(Statement))
  BY ConfigAssumption DEF Init
<1> QED BY <1>1, <1>2, <1>3, <1>4 DEF ReadType, PrintType

(* Types for every file and every number of reparses: Parse's tree, the    *)
(* port get_listen_port makes of it and the text ToString makes of it.     *)
THEOREM TypeCorrect == Spec => []TypeOK
<1>1. Init => Inv /\ PortInv /\ ReadType /\ PrintType
  BY InvInit, TypesInit DEF Init, PortInv, ListenDecides
<1>2. Inv /\ PortInv /\ ReadType /\ PrintType /\ [Next]_vars
        => Inv' /\ PortInv' /\ ReadType' /\ PrintType'
  BY InvStep, PortStep, TypesStep
<1>3. Inv /\ PortInv /\ ReadType /\ PrintType => TypeOK
  BY DEF Inv, HeapType, Types, PortInv, PortValues, ReadType, States, Outcomes,
         PrintType, TypeOK
<1> QED BY <1>1, <1>2, <1>3, PTL DEF Spec

(* The last token of a statement whose words end at b, with ends from f.   *)
LastOf(s, f, b) ==
  IF s[b + 1] = <<";">> THEN {b + 1}
  ELSE IF s[b + 1] = <<"{">>
  THEN {c \in f[b + 2] : c \in (b + 2)..Len(s) /\ s[c] = <<"}">>}
  ELSE {}

EndsOf(s, f, a) ==
  {a} \cup UNION {f[c + 1] : c \in
    UNION {LastOf(s, f, b) : b \in {i \in a..(Len(s) - 1) : Words(s, a, i)}}}

LEMMA LastPlace ==
  ASSUME NEW s, Len(s) \in Nat, NEW a \in 1..(Len(s) + 1), NEW f,
         NEW b \in a..(Len(s) - 1), NEW c \in LastOf(s, f, b)
  PROVE  c \in (b + 1)..Len(s) /\ c + 1 \in (a + 1)..(Len(s) + 1)
<1>1. c = b + 1 \/ c \in (b + 2)..Len(s)
  BY DEF LastOf
<1> QED BY <1>1

LEMMA EndsLocal ==
  ASSUME NEW s, Len(s) \in Nat, NEW a \in 1..(Len(s) + 1), NEW f, NEW g,
         SameBehind(Len(s) + 1, a, f, g)
  PROVE  EndsOf(s, f, a) = EndsOf(s, g, a)
<1> DEFINE B == {i \in a..(Len(s) - 1) : Words(s, a, i)}
<1>1. ASSUME NEW b \in B PROVE LastOf(s, f, b) = LastOf(s, g, b)
  <2>1. b + 2 \in (a + 1)..(Len(s) + 1)
    OBVIOUS
  <2> QED BY <2>1 DEF LastOf, SameBehind
<1>2. ASSUME NEW c \in UNION {LastOf(s, f, b) : b \in B} PROVE f[c + 1] = g[c + 1]
  <2>1. PICK b \in B : c \in LastOf(s, f, b)
    OBVIOUS
  <2>2. c + 1 \in (a + 1)..(Len(s) + 1)
    BY <2>1, LastPlace
  <2> QED BY <2>2 DEF SameBehind
<1>3. UNION {LastOf(s, f, b) : b \in B} = UNION {LastOf(s, g, b) : b \in B}
  BY <1>1
<1> HIDE DEF B
<1>4. UNION {f[c + 1] : c \in UNION {LastOf(s, f, b) : b \in B}}
        = UNION {g[c + 1] : c \in UNION {LastOf(s, g, b) : b \in B}}
  BY <1>2, <1>3
<1> QED BY <1>4 DEF EndsOf, B

LEMMA EndsSolved ==
  ASSUME NEW s, Len(s) \in Nat
  PROVE  \A a \in 1..(Len(s) + 1) : Ends(s)[a] = EndsOf(s, Ends(s), a)
<1> DEFINE n == Len(s) + 1
           S == SUBSET Nat
           F == [1..n -> S]
           step == [x \in (1..n) \X F |-> EndsOf(s, x[2], x[1])]
           Eq(f) == f = [a \in 1..n |-> EndsOf(s, f, a)]
<1>1. n \in Nat /\ {} \in S
  OBVIOUS
<1>2. ASSUME NEW a \in 1..n, NEW f \in F PROVE EndsOf(s, f, a) \in S
  <2>1. ASSUME NEW b \in {i \in a..(Len(s) - 1) : Words(s, a, i)},
               NEW c \in LastOf(s, f, b)
        PROVE  f[c + 1] \subseteq Nat
    <3>1. c + 1 \in (a + 1)..n
      BY LastPlace
    <3> QED BY <3>1
  <2>2. a \in Nat
    OBVIOUS
  <2> QED BY <2>1, <2>2 DEF EndsOf
<1>3. step \in [(1..n) \X F -> S]
  BY <1>2
<1>4. ASSUME NEW a \in 1..n, NEW f \in F, NEW g \in F, SameBehind(n, a, f, g)
      PROVE  step[<<a, f>>] = step[<<a, g>>]
  <2>1. EndsOf(s, f, a) = EndsOf(s, g, a)
    BY <1>4, EndsLocal
  <2> HIDE DEF F, S, n
  <2> QED BY <2>1
<1>5. PICK f : Backward(S, n, step, f)
  <2> HIDE DEF step, n, S
  <2>1. \A a \in 1..n : \A f, g \in [1..n -> S] :
           SameBehind(n, a, f, g) => step[<<a, f>>] = step[<<a, g>>]
    BY <1>4
  <2>2. step \in [(1..n) \X [1..n -> S] -> S]
    BY <1>3
  <2> QED BY <1>1, <2>1, <2>2, BackwardExists
<1>6. Eq(f)
  <2>1. f \in F /\ \A a \in 1..n : f[a] = step[<<a, f>>]
    BY <1>5 DEF Backward
  <2>2. ASSUME NEW a \in 1..n PROVE f[a] = EndsOf(s, f, a)
    <3> HIDE DEF F, S, n
    <3> QED BY <2>1
  <2> HIDE DEF S, n
  <2> QED BY <2>1, <2>2
<1>7. Ends(s) = CHOOSE g : Eq(g)
  BY DEF Ends, EndsOf, LastOf
<1>8. Eq(Ends(s))
  <2> HIDE DEF Eq
  <2> QED BY <1>6, <1>7
<1> QED BY <1>8

(* The tokens from a up to e, without e, are a configuration.              *)
Config(s, a, e) == e \in Ends(s)[a]

IsSemi(x) == x = <<";">>
IsOpen(x) == x = <<"{">>
IsClose(x) == x = <<"}">>

LEMMA Punctuated ==
  ASSUME NEW x
  PROVE  /\ Word(x) <=> ~IsSemi(x) /\ ~IsOpen(x) /\ ~IsClose(x)
         /\ ~(IsSemi(x) /\ IsOpen(x)) /\ ~(IsSemi(x) /\ IsClose(x))
         /\ ~(IsOpen(x) /\ IsClose(x))
<1>1. Word(x) <=> ~IsSemi(x) /\ ~IsOpen(x) /\ ~IsClose(x)
  BY Zenon DEF Word, Punctuation, IsSemi, IsOpen, IsClose
<1>2. /\ IsSemi(x) => x[1] = ";"
      /\ IsOpen(x) => x[1] = "{"
      /\ IsClose(x) => x[1] = "}"
  <2>1. <<";">>[1] = ";" /\ <<"{">>[1] = "{" /\ <<"}">>[1] = "}"
    OBVIOUS
  <2> QED BY <2>1, Zenon DEF IsSemi, IsOpen, IsClose
<1>3. ";" # "{" /\ ";" # "}" /\ "{" # "}"
  OBVIOUS
<1> QED BY <1>1, <1>2, <1>3

(* They begin with a statement whose words end at b and which ends at c.   *)
Begins(s, a, b, c) ==
  /\ Words(s, a, b) /\ b < Len(s)
  /\ \/ IsSemi(s[b + 1]) /\ c = b + 1
     \/ IsOpen(s[b + 1]) /\ c > b + 1 /\ Config(s, b + 2, c) /\ IsClose(s[c])

LEMMA ConfigSplits ==
  ASSUME NEW s, Len(s) \in Nat, NEW a \in 1..(Len(s) + 1), NEW e
  PROVE  Config(s, a, e) <=>
           \/ e = a
           \/ \E b \in a..Len(s), c \in a..Len(s) :
                Begins(s, a, b, c) /\ Config(s, c + 1, e)
<1> DEFINE f == Ends(s)
<1>1. f[a] = EndsOf(s, f, a)
  BY EndsSolved
<1>2. ASSUME NEW b \in {i \in a..(Len(s) - 1) : Words(s, a, i)},
             NEW c \in LastOf(s, f, b), e \in f[c + 1]
      PROVE  \E x \in a..Len(s), y \in a..Len(s) :
               Begins(s, a, x, y) /\ Config(s, y + 1, e)
  <2>1. c \in (b + 1)..Len(s)
    BY LastPlace
  <2>2. b \in a..Len(s) /\ c \in a..Len(s) /\ b < Len(s) /\ (c \in (b + 2)..Len(s) => c > b + 1)
    BY <2>1
  <2>3. Begins(s, a, b, c)
    <3>1. CASE s[b + 1] = <<";">>
      BY <1>2, <2>2, <3>1 DEF Begins, LastOf, IsSemi
    <3>2. CASE s[b + 1] # <<";">>
      BY <1>2, <2>2, <3>2 DEF Begins, LastOf, Config, IsOpen, IsClose
    <3> QED BY <3>1, <3>2
  <2>4. Config(s, c + 1, e)
    BY <1>2 DEF Config
  <2> QED BY <2>2, <2>3, <2>4
<1>3. ASSUME NEW b \in a..Len(s), NEW c \in a..Len(s), Begins(s, a, b, c)
      PROVE  b \in {i \in a..(Len(s) - 1) : Words(s, a, i)} /\ c \in LastOf(s, f, b)
  <2>1. b \in a..(Len(s) - 1) /\ (c > b + 1 => c \in (b + 2)..Len(s))
    <3>1. b < Len(s)
      BY <1>3 DEF Begins
    <3> QED BY <3>1
  <2>2. <<";">> # <<"{">>
    OBVIOUS
  <2> QED BY <1>3, <2>1, <2>2 DEF Begins, LastOf, Config, IsSemi, IsOpen, IsClose
<1> HIDE DEF f
<1>4. e \in EndsOf(s, f, a) <=>
        \/ e = a
        \/ \E b \in {i \in a..(Len(s) - 1) : Words(s, a, i)} :
             \E c \in LastOf(s, f, b) : e \in f[c + 1]
  BY DEF EndsOf
<1> QED BY <1>1, <1>2, <1>3, <1>4 DEF Config, f

LEMMA ConfigRange ==
  ASSUME NEW s, Len(s) \in Nat, NEW a \in 1..(Len(s) + 1), NEW e, Config(s, a, e)
  PROVE  e \in a..(Len(s) + 1)
<1> DEFINE n == Len(s) + 1
           T == {x \in 1..n : \A y : Config(s, x, y) => y \in x..n}
<1>1. ASSUME NEW x \in 1..n, \A k \in (x + 1)..n : k \in T PROVE x \in T
  <2> SUFFICES ASSUME NEW y, Config(s, x, y), y # x PROVE y \in x..n
    OBVIOUS
  <2>1. PICK c \in x..Len(s) : Config(s, c + 1, y)
    BY ConfigSplits
  <2>2. c + 1 \in (x + 1)..n
    OBVIOUS
  <2>3. y \in (c + 1)..n
    BY <1>1, <2>1, <2>2
  <2> QED BY <2>3
<1>2. n \in Nat
  OBVIOUS
<1>3. \A x \in 1..n : x \in T
  <2> HIDE DEF T, n
  <2> QED BY <1>1, <1>2, DownInduction
<1> QED BY <1>3

LEMMA ConfigConcat ==
  ASSUME NEW s, Len(s) \in Nat, NEW a \in 1..(Len(s) + 1), NEW b, NEW c,
         Config(s, a, b), Config(s, b, c)
  PROVE  Config(s, a, c)
<1> DEFINE n == Len(s) + 1
           T == {x \in 1..n : \A y, z : Config(s, x, y) /\ Config(s, y, z)
                                        => Config(s, x, z)}
<1>1. ASSUME NEW x \in 1..n, \A k \in (x + 1)..n : k \in T PROVE x \in T
  <2> SUFFICES ASSUME NEW y, NEW z, Config(s, x, y), Config(s, y, z), y # x
               PROVE  Config(s, x, z)
    OBVIOUS
  <2>1. PICK i \in x..Len(s), j \in x..Len(s) :
          Begins(s, x, i, j) /\ Config(s, j + 1, y)
    BY ConfigSplits
  <2>2. j + 1 \in (x + 1)..n
    OBVIOUS
  <2>3. Config(s, j + 1, z)
    BY <1>1, <2>1, <2>2
  <2> QED BY <2>1, <2>3, ConfigSplits
<1>2. n \in Nat
  OBVIOUS
<1>3. \A x \in 1..n : x \in T
  <2> HIDE DEF T, n
  <2> QED BY <1>1, <1>2, DownInduction
<1> QED BY <1>3

(* t is s, or s with something behind it.                                  *)
Extends(t, s) ==
  /\ Len(s) \in Nat /\ Len(t) \in Nat /\ Len(s) <= Len(t)
  /\ \A i \in 1..Len(s) : t[i] = s[i]

LEMMA ConfigExtends ==
  ASSUME NEW s, NEW t, Extends(t, s), NEW a \in 1..(Len(s) + 1), NEW e,
         Config(s, a, e)
  PROVE  Config(t, a, e)
<1> DEFINE n == Len(s) + 1
           T == {x \in 1..n : \A y : Config(s, x, y) => Config(t, x, y)}
<1>0. /\ Len(s) \in Nat /\ Len(t) \in Nat /\ Len(s) <= Len(t)
      /\ \A i \in 1..Len(s) : t[i] = s[i]
  BY DEF Extends
<1>1. ASSUME NEW x \in 1..n, \A k \in (x + 1)..n : k \in T PROVE x \in T
  <2> SUFFICES ASSUME NEW y, Config(s, x, y) PROVE Config(t, x, y)
    OBVIOUS
  <2>0. x \in 1..(Len(t) + 1)
    BY <1>0
  <2>1. CASE y = x
    BY <1>0, <2>0, <2>1, ConfigSplits
  <2>2. CASE y # x
    <3>1. PICK b \in x..Len(s), c \in x..Len(s) :
            Begins(s, x, b, c) /\ Config(s, c + 1, y)
      BY <1>0, <2>2, ConfigSplits
    <3>2. /\ b \in x..Len(t) /\ c \in x..Len(t) /\ c + 1 \in (x + 1)..n
          /\ b < Len(t) /\ c \in 1..Len(s)
      <4>1. b < Len(s)
        BY <3>1 DEF Begins
      <4> QED BY <1>0, <4>1
    <3>3. b + 1 \in 1..Len(s) /\ \A i \in x..b : i \in 1..Len(s)
      <4>1. b < Len(s)
        BY <3>1 DEF Begins
      <4> QED BY <1>0, <4>1
    <3>4. c > b + 1 => b + 2 \in (x + 1)..n
      BY <1>0, <3>2
    <3>5. Words(t, x, b) /\ t[b + 1] = s[b + 1] /\ t[c] = s[c]
      BY <1>0, <3>1, <3>2, <3>3 DEF Words, Begins
    <3>6. c > b + 1 /\ Config(s, b + 2, c) => Config(t, b + 2, c)
      BY <1>1, <3>4
    <3>7. Begins(t, x, b, c)
      BY <3>1, <3>2, <3>5, <3>6 DEF Begins
    <3>8. Config(t, c + 1, y)
      BY <1>1, <3>1, <3>2
    <3> QED BY <1>0, <2>0, <3>2, <3>7, <3>8, ConfigSplits
  <2> QED BY <2>1, <2>2
<1>2. n \in Nat
  BY <1>0
<1>3. \A x \in 1..n : x \in T
  <2> HIDE DEF T, n
  <2> QED BY <1>1, <1>2, DownInduction
<1> QED BY <1>3

-----------------------------------------------------------------------------
(* What may follow what.                                                   *)
Follows(t, i) ==
  /\ IsSemi(t[i]) \/ IsOpen(t[i]) => Word(t[i - 1])
  /\ IsClose(t[i]) => ~Word(t[i - 1])

Ending(x) == IsSemi(x) \/ IsClose(x)

Orderly(t, a, e) ==
  /\ e > a => Word(t[a]) /\ Ending(t[e - 1])
  /\ \A i \in (a + 1)..(e - 1) : Follows(t, i)

LEMMA StatementOrderly ==
  ASSUME NEW t, NEW a \in Nat \ {0}, NEW b \in Nat, NEW c \in Nat, NEW e \in Nat,
         c < e, Words(t, a, b), Orderly(t, c + 1, e),
         \/ IsSemi(t[b + 1]) /\ c = b + 1
         \/ /\ IsOpen(t[b + 1]) /\ c > b + 1 /\ IsClose(t[c])
            /\ Orderly(t, b + 2, c)
  PROVE  Orderly(t, a, e)
<1>0. a <= b /\ b < c /\ Word(t[a]) /\ Word(t[b]) /\ \A i \in a..b : Word(t[i])
  BY DEF Words
<1>1. Ending(t[e - 1])
  <2>1. CASE e = c + 1
    <3>1. e - 1 = c
      BY <2>1
    <3> QED BY <3>1 DEF Ending
  <2>2. CASE e > c + 1
    BY <2>2 DEF Orderly
  <2> QED BY <2>1, <2>2
<1>2. ASSUME NEW i \in (a + 1)..(e - 1) PROVE Follows(t, i)
  <2>1. CASE i <= b
    <3>1. Word(t[i])
      BY <1>0, <2>1
    <3> QED BY <3>1, Punctuated DEF Follows
  <2>2. CASE i = b + 1
    <3>1. t[i - 1] = t[b]
      BY <2>2
    <3> QED BY <1>0, <2>2, <3>1, Punctuated DEF Follows
  <2>3. CASE i = b + 2 /\ i <= c
    <3>1. IsOpen(t[b + 1]) /\ IsClose(t[c]) /\ Orderly(t, b + 2, c) /\ i - 1 = b + 1
      BY <1>0, <2>3
    <3>2. CASE i = c
      BY <3>1, <3>2, Punctuated DEF Follows
    <3>3. CASE i < c
      <4>1. Word(t[i])
        BY <2>3, <3>1, <3>3 DEF Orderly
      <4> QED BY <4>1, Punctuated DEF Follows
    <3> QED BY <2>3, <3>2, <3>3
  <2>4. CASE i > b + 2 /\ i <= c
    <3>1. IsClose(t[c]) /\ Orderly(t, b + 2, c)
      BY <2>4
    <3>2. CASE i = c
      <4>1. Ending(t[i - 1])
        BY <2>4, <3>1, <3>2 DEF Orderly
      <4> QED BY <3>1, <3>2, <4>1, Punctuated DEF Follows, Ending
    <3>3. CASE i < c
      <4>1. i \in (b + 2 + 1)..(c - 1)
        BY <2>4, <3>3
      <4> QED BY <3>1, <4>1 DEF Orderly
    <3> QED BY <2>4, <3>2, <3>3
  <2>5. CASE i = c + 1
    <3>1. Word(t[i])
      BY <2>5 DEF Orderly
    <3> QED BY <3>1, Punctuated DEF Follows
  <2>6. CASE i > c + 1
    <3>1. i \in (c + 1 + 1)..(e - 1)
      BY <2>6
    <3> QED BY <3>1 DEF Orderly
  <2> QED BY <1>0, <2>1, <2>2, <2>3, <2>4, <2>5, <2>6
<1> QED BY <1>0, <1>1, <1>2 DEF Orderly

LEMMA ConfigOrderly ==
  ASSUME NEW s, Len(s) \in Nat, NEW a \in 1..(Len(s) + 1), NEW e, Config(s, a, e)
  PROVE  Orderly(s, a, e)
<1> DEFINE n == Len(s) + 1
           T == {x \in 1..n : \A y : Config(s, x, y) => Orderly(s, x, y)}
<1>1. ASSUME NEW x \in 1..n, \A k \in (x + 1)..n : k \in T PROVE x \in T
  <2> SUFFICES ASSUME NEW y, Config(s, x, y) PROVE Orderly(s, x, y)
    OBVIOUS
  <2>1. CASE y = x
    BY <2>1 DEF Orderly
  <2>2. CASE y # x
    <3>1. PICK b \in x..Len(s), c \in x..Len(s) :
            Begins(s, x, b, c) /\ Config(s, c + 1, y)
      BY <2>2, ConfigSplits
    <3>2. c + 1 \in (x + 1)..n /\ c + 1 \in 1..n /\ (c > b + 1 => b + 2 \in (x + 1)..n)
          /\ x \in Nat \ {0} /\ b \in Nat /\ c \in Nat
      OBVIOUS
    <3>3. y \in (c + 1)..n
      BY <3>1, <3>2, ConfigRange
    <3>4. Orderly(s, c + 1, y)
      BY <1>1, <3>1, <3>2
    <3>5. c > b + 1 /\ Config(s, b + 2, c) => Orderly(s, b + 2, c)
      BY <1>1, <3>2
    <3>6. y \in Nat /\ c < y
      BY <3>3
    <3> QED BY <3>1, <3>2, <3>4, <3>5, <3>6, StatementOrderly DEF Begins
  <2> QED BY <2>1, <2>2
<1>2. n \in Nat
  OBVIOUS
<1>3. \A x \in 1..n : x \in T
  <2> HIDE DEF T, n
  <2> QED BY <1>1, <1>2, DownInduction
<1> QED BY <1>3

-----------------------------------------------------------------------------
(* How many blocks are open behind each of the first L tokens.             *)
Weight(x) == IF IsOpen(x) THEN 1 ELSE IF IsClose(x) THEN -1 ELSE 0

Deep(t, L, d) ==
  /\ L \in Nat /\ d \in [0..L -> Int] /\ d[0] = 0
  /\ \A n \in 1..L : d[n] = d[n - 1] + Weight(t[n])

LEMMA WordsDeep ==
  ASSUME NEW t, NEW L, NEW d, Deep(t, L, d), NEW a \in Nat \ {0}, NEW b \in Nat,
         Words(t, a, b), NEW i \in a..b, i <= L
  PROVE  d[i] = d[a - 1]
<1>0. L \in Nat /\ d \in [0..L -> Int]
  BY DEF Deep
<1> DEFINE T == {m \in 0..b : a - 1 + m <= i => d[a - 1 + m] = d[a - 1]}
<1>1. 0 \in T
  <2>1. a - 1 + 0 = a - 1
    OBVIOUS
  <2> QED BY <2>1
<1>2. ASSUME NEW m \in 0..(b - 1), m \in T PROVE m + 1 \in T
  <2>1. m + 1 \in 0..b
    OBVIOUS
  <2> SUFFICES ASSUME a - 1 + (m + 1) <= i
               PROVE  d[a - 1 + (m + 1)] = d[a - 1]
    BY <2>1
  <2>2. PICK k \in Nat : k = a - 1 + (m + 1)
    OBVIOUS
  <2>3. k \in 1..L /\ k - 1 = a - 1 + m /\ k - 1 <= i /\ k \in a..b /\ k - 1 \in 0..L
        /\ a - 1 \in 0..L
    BY <1>0, <2>2
  <2>4. d[k] = d[k - 1] + Weight(t[k])
    BY <2>3 DEF Deep
  <2>5. Weight(t[k]) = 0
    BY <2>3, Punctuated DEF Words, Weight
  <2>6. d[k - 1] = d[a - 1]
    BY <1>2, <2>3
  <2>7. d[a - 1] \in Int
    BY <1>0, <2>3
  <2> QED BY <2>2, <2>4, <2>5, <2>6, <2>7
<1>3. \A m \in 0..b : m \in T
  <2> HIDE DEF T
  <2> QED BY <1>1, <1>2, UptoInduction
<1>4. i - a + 1 \in 0..b /\ a - 1 + (i - a + 1) = i
  OBVIOUS
<1> QED BY <1>3, <1>4

Level(L, d, a, e) ==
  /\ \A i \in a..(e - 1) : i <= L => d[i] >= d[a - 1]
  /\ e - 1 <= L => d[e - 1] = d[a - 1]

LEMMA StatementLevel ==
  ASSUME NEW t, NEW L, NEW d, Deep(t, L, d), NEW a \in Nat \ {0}, NEW b \in Nat,
         NEW c \in Nat, NEW e \in Nat, c < e, Words(t, a, b), Level(L, d, c + 1, e),
         \/ IsSemi(t[b + 1]) /\ c = b + 1
         \/ /\ IsOpen(t[b + 1]) /\ c > b + 1 /\ IsClose(t[c])
            /\ Level(L, d, b + 2, c)
  PROVE  Level(L, d, a, e)
<1>0. L \in Nat /\ d \in [0..L -> Int] /\ a <= b /\ b < c
  BY DEF Deep, Words
<1>1. CASE a - 1 > L
  BY <1>0, <1>1 DEF Level
<1>2. CASE a - 1 <= L
  <2>0. a - 1 \in 0..L /\ d[a - 1] \in Int
    BY <1>0, <1>2
  <2>1. ASSUME NEW i \in a..b, i <= L PROVE d[i] = d[a - 1]
    BY <2>1, WordsDeep
  <2>2. ASSUME b + 1 <= L PROVE d[b + 1] = d[a - 1] + Weight(t[b + 1])
    <3>1. b \in a..b /\ b <= L /\ b + 1 \in 1..L /\ (b + 1) - 1 = b
      BY <1>0, <2>2
    <3> QED BY <2>1, <3>1 DEF Deep
  <2>3. ASSUME c <= L PROVE d[c] = d[a - 1]
    <3>1. CASE IsSemi(t[b + 1]) /\ c = b + 1
      <4>1. Weight(t[b + 1]) = 0
        BY <3>1, Punctuated DEF Weight
      <4> QED BY <2>0, <2>2, <2>3, <3>1, <4>1
    <3>2. CASE /\ IsOpen(t[b + 1]) /\ c > b + 1 /\ IsClose(t[c])
               /\ Level(L, d, b + 2, c)
      <4>1. Weight(t[b + 1]) = 1 /\ Weight(t[c]) = -1
        BY <3>2, Punctuated DEF Weight
      <4>2. b + 1 <= L /\ c - 1 <= L /\ c \in 1..L /\ (b + 2) - 1 = b + 1
        BY <1>0, <2>3, <3>2
      <4>3. d[c - 1] = d[b + 1]
        BY <3>2, <4>2 DEF Level
      <4>4. d[c] = d[c - 1] + Weight(t[c])
        BY <4>2 DEF Deep
      <4>5. d[b + 1] = d[a - 1] + 1
        BY <2>2, <4>1, <4>2
      <4> QED BY <2>0, <4>1, <4>3, <4>4, <4>5
    <3> QED BY <3>1, <3>2
  <2>4. ASSUME NEW i \in a..(e - 1), i <= L PROVE d[i] >= d[a - 1]
    <3>0. i \in 0..L /\ d[i] \in Int
      BY <1>0, <2>4
    <3>1. CASE i <= b
      BY <2>0, <2>1, <2>4, <3>1
    <3>2. CASE i = b + 1
      <4>1. Weight(t[b + 1]) \in {0, 1}
        BY Punctuated DEF Weight
      <4> QED BY <2>0, <2>2, <2>4, <3>2, <4>1
    <3>3. CASE b + 1 < i /\ i < c
      <4>1. IsOpen(t[b + 1]) /\ Level(L, d, b + 2, c)
        BY <3>3
      <4>2. i \in (b + 2)..(c - 1) /\ (b + 2) - 1 = b + 1 /\ b + 1 <= L
        BY <1>0, <2>4, <3>3
      <4>3. d[i] >= d[b + 1]
        BY <2>4, <4>1, <4>2 DEF Level
      <4>4. d[b + 1] = d[a - 1] + 1
        BY <2>2, <4>1, <4>2 DEF Weight
      <4> QED BY <2>0, <3>0, <4>3, <4>4
    <3>4. CASE i = c
      BY <2>0, <2>3, <2>4, <3>4
    <3>5. CASE i > c
      <4>1. i \in (c + 1)..(e - 1) /\ (c + 1) - 1 = c /\ c <= L
        BY <1>0, <2>4, <3>5
      <4>2. d[i] >= d[c]
        BY <2>4, <4>1 DEF Level
      <4> QED BY <2>3, <4>1, <4>2
    <3> QED BY <1>0, <3>1, <3>2, <3>3, <3>4, <3>5
  <2>5. ASSUME e - 1 <= L PROVE d[e - 1] = d[a - 1]
    <3>1. (c + 1) - 1 = c /\ c <= L
      BY <1>0, <2>5
    <3> QED BY <2>3, <2>5, <3>1 DEF Level
  <2> QED BY <2>4, <2>5 DEF Level
<1> QED BY <1>0, <1>1, <1>2

LEMMA ConfigLevel ==
  ASSUME NEW s, Len(s) \in Nat, NEW L, NEW d, Deep(s, L, d),
         NEW a \in 1..(Len(s) + 1), NEW e, Config(s, a, e)
  PROVE  Level(L, d, a, e)
<1> DEFINE n == Len(s) + 1
           T == {x \in 1..n : \A y : Config(s, x, y) => Level(L, d, x, y)}
<1>1. ASSUME NEW x \in 1..n, \A k \in (x + 1)..n : k \in T PROVE x \in T
  <2> SUFFICES ASSUME NEW y, Config(s, x, y) PROVE Level(L, d, x, y)
    OBVIOUS
  <2>1. CASE y = x
    BY <2>1 DEF Level
  <2>2. CASE y # x
    <3>1. PICK b \in x..Len(s), c \in x..Len(s) :
            Begins(s, x, b, c) /\ Config(s, c + 1, y)
      BY <2>2, ConfigSplits
    <3>2. c + 1 \in (x + 1)..n /\ c + 1 \in 1..n /\ (c > b + 1 => b + 2 \in (x + 1)..n)
          /\ x \in Nat \ {0} /\ b \in Nat /\ c \in Nat
      OBVIOUS
    <3>3. y \in (c + 1)..n
      BY <3>1, <3>2, ConfigRange
    <3>4. Level(L, d, c + 1, y)
      BY <1>1, <3>1, <3>2
    <3>5. c > b + 1 /\ Config(s, b + 2, c) => Level(L, d, b + 2, c)
      BY <1>1, <3>2
    <3>6. y \in Nat /\ c < y
      BY <3>3
    <3> QED BY <3>1, <3>2, <3>4, <3>5, <3>6, StatementLevel DEF Begins
  <2> QED BY <2>1, <2>2
<1>2. n \in Nat
  OBVIOUS
<1>3. \A x \in 1..n : x \in T
  <2> HIDE DEF T, n
  <2> QED BY <1>1, <1>2, DownInduction
<1> QED BY <1>3

-----------------------------------------------------------------------------
(* What every beginning of a configuration is like.                        *)
Tokens == Seq(Seq(Chars))

Plausible(s) ==
  /\ Len(s) > 0 => Word(s[1])
  /\ \A i \in 2..Len(s) : Follows(s, i)
  /\ \A d : Deep(s, Len(s), d) => \A i \in 1..Len(s) : d[i] >= 0

LEMMA PlausibleStart ==
  ASSUME NEW s, NEW t, Extends(t, s), IsConfig(t)
  PROVE  Plausible(s)
<1>0. /\ Len(s) \in Nat /\ Len(t) \in Nat /\ Len(s) <= Len(t)
      /\ \A i \in 1..Len(s) : t[i] = s[i]
  BY DEF Extends
<1>1. 1 \in 1..(Len(t) + 1) /\ Config(t, 1, Len(t) + 1)
  BY <1>0 DEF IsConfig, Config
<1>2. Orderly(t, 1, Len(t) + 1)
  BY <1>0, <1>1, ConfigOrderly
<1>3. Len(s) > 0 => Word(s[1])
  <2>1. Len(s) > 0 => Len(t) + 1 > 1 /\ 1 \in 1..Len(s)
    BY <1>0
  <2> QED BY <1>0, <1>2, <2>1 DEF Orderly
<1>4. ASSUME NEW i \in 2..Len(s) PROVE Follows(s, i)
  <2>1. /\ i \in (1 + 1)..((Len(t) + 1) - 1)
        /\ i \in 1..Len(s) /\ i - 1 \in 1..Len(s)
    BY <1>0
  <2>2. Follows(t, i) /\ t[i] = s[i] /\ t[i - 1] = s[i - 1]
    BY <1>0, <1>2, <2>1 DEF Orderly
  <2> QED BY <2>2 DEF Follows
<1>5. ASSUME NEW d, Deep(s, Len(s), d), NEW i \in 1..Len(s) PROVE d[i] >= 0
  <2>1. Deep(t, Len(s), d)
    BY <1>0, <1>5 DEF Deep
  <2>2. Level(Len(s), d, 1, Len(t) + 1)
    BY <1>0, <1>1, <2>1, ConfigLevel
  <2>3. i \in 1..((Len(t) + 1) - 1) /\ i <= Len(s) /\ 1 - 1 = 0
    BY <1>0
  <2>4. d[i] >= d[1 - 1]
    BY <2>2, <2>3 DEF Level
  <2> QED BY <1>5, <2>3, <2>4 DEF Deep
<1> QED BY <1>3, <1>4, <1>5 DEF Plausible

LEMMA ConcatExtends ==
  ASSUME NEW s \in Tokens, NEW e \in Tokens, NEW z \in Tokens
  PROVE  Extends(s \o e \o z, s)
<1>1. ASSUME NEW u \in Tokens, NEW v \in Tokens
      PROVE  u \o v \in Tokens /\ Extends(u \o v, u)
  <2>1. /\ u \o v \in Tokens /\ Len(u \o v) = Len(u) + Len(v)
        /\ Len(u) \in Nat /\ Len(v) \in Nat
    BY ConcatProperties DEF Tokens
  <2>2. \A i \in 1..Len(u) : (u \o v)[i] = u[i]
    BY <2>1, ConcatProperties DEF Tokens
  <2> QED BY <2>1, <2>2 DEF Extends
<1>2. PICK w : w = s \o e
  OBVIOUS
<1>3. w \in Tokens /\ Extends(w, s)
  BY <1>1, <1>2
<1>4. Extends(w \o z, w)
  BY <1>1, <1>3
<1>5. Extends(w \o z, s)
  BY <1>3, <1>4 DEF Extends
<1> QED BY <1>2, <1>5

LEMMA Closing ==
  ASSUME NEW k \in Nat
  PROVE  [n \in 1..k |-> <<"}">>] \in Tokens
<1>1. <<"}">> \in Seq(Chars)
  BY CharTexts
<1>2. ASSUME NEW x \in Seq(Chars) PROVE [n \in 1..k |-> x] \in Seq(Seq(Chars))
  OBVIOUS
<1> QED BY <1>1, <1>2 DEF Tokens

LEMMA EndTokens ==
  {<<>>, << <<";">> >>, << <<"{">>, <<"}">> >>} \subseteq Tokens
<1>0. "{" \in Chars
  BY DEF Chars
<1>1. <<";">> \in Seq(Chars) /\ <<"{">> \in Seq(Chars) /\ <<"}">> \in Seq(Chars)
  BY <1>0, CharTexts, Zenon
<1>2. ASSUME NEW x \in Seq(Chars), NEW y \in Seq(Chars), NEW z \in Seq(Chars)
      PROVE  {<<>>, <<x>>, <<y, z>>} \subseteq Tokens
  BY DEF Tokens
<1> QED BY <1>1, <1>2

LEMMA PlausibleBegin ==
  ASSUME NEW s \in Tokens, BeginsConfig(s)
  PROVE  Plausible(s)
<1>1. \E k \in 0..Len(s), e \in Tokens :
        IsConfig(s \o e \o [n \in 1..k |-> <<"}">>])
  BY EndTokens, Zenon DEF BeginsConfig
<1>2. 0..Len(s) \subseteq Nat
  OBVIOUS
<1>3. \E e \in Tokens, z \in Tokens : IsConfig(s \o e \o z)
  BY <1>1, <1>2, Closing, Zenon
<1> QED BY <1>3, ConcatExtends, PlausibleStart

LEMMA PlausibleConfig ==
  ASSUME NEW s \in Tokens, IsConfig(s)
  PROVE  /\ Plausible(s)
         /\ Len(s) > 0 => Ending(s[Len(s)])
         /\ \A d : Deep(s, Len(s), d) => d[Len(s)] = 0
<1>0. Len(s) \in Nat
  BY DEF Tokens
<1>1. Extends(s, s)
  BY <1>0 DEF Extends
<1>2. 1 \in 1..(Len(s) + 1) /\ Config(s, 1, Len(s) + 1) /\ (Len(s) + 1) - 1 = Len(s)
  BY <1>0 DEF IsConfig, Config
<1>3. Orderly(s, 1, Len(s) + 1)
  BY <1>0, <1>2, ConfigOrderly
<1>4. Len(s) > 0 => Ending(s[Len(s)])
  BY <1>0, <1>2, <1>3 DEF Orderly
<1>5. ASSUME NEW d, Deep(s, Len(s), d) PROVE d[Len(s)] = 0
  <2>1. Level(Len(s), d, 1, Len(s) + 1)
    BY <1>0, <1>2, <1>5, ConfigLevel
  <2>2. d[Len(s)] = d[1 - 1] /\ 1 - 1 = 0
    BY <1>0, <1>2, <2>1 DEF Level
  <2> QED BY <1>5, <2>2 DEF Deep
<1> QED BY <1>1, <1>4, <1>5, PlausibleStart

-----------------------------------------------------------------------------
(* What Parse knows of the tokens so far.                                  *)

(* b opens a block of the block that begins behind a.                      *)
Opened(s, a, b) ==
  /\ IsOpen(s[b])
  /\ \E m \in (a + 1)..(b - 1) : Config(s, a + 1, m) /\ Words(s, m, b - 1)

(* The k blocks that are open begin behind o[1], ..., o[k].                *)
Nest(s, k, o) ==
  /\ k \in Nat /\ o \in [0..k -> 0..Len(s)] /\ o[0] = 0
  /\ \A i \in 1..k : Opened(s, o[i - 1], o[i])

(* The innermost one, with or without the words of a statement.            *)
InWords(s, a) ==
  \E m \in (a + 1)..Len(s) : Config(s, a + 1, m) /\ Words(s, m, Len(s))
AtStatement(s, a) == Config(s, a + 1, Len(s) + 1)

LEMMA AppendExtends ==
  ASSUME NEW s \in Tokens, NEW x \in Seq(Chars)
  PROVE  /\ Append(s, x) \in Tokens /\ Extends(Append(s, x), s)
         /\ Len(s) \in Nat /\ Len(Append(s, x)) = Len(s) + 1
         /\ Append(s, x)[Len(s) + 1] = x
         /\ \A i \in 1..Len(s) : Append(s, x)[i] = s[i]
<1>1. /\ Append(s, x) \in Seq(Seq(Chars)) /\ Len(Append(s, x)) = Len(s) + 1
      /\ Append(s, x)[Len(s) + 1] = x /\ Len(s) \in Nat
      /\ \A i \in 1..Len(s) : Append(s, x)[i] = s[i]
  BY AppendProperties DEF Tokens
<1>2. Extends(Append(s, x), s)
  BY <1>1 DEF Extends
<1> QED BY <1>1, <1>2 DEF Tokens

LEMMA DeepMore ==
  ASSUME NEW s \in Tokens, NEW x \in Seq(Chars), NEW d, Deep(s, Len(s), d)
  PROVE  \E e : /\ Deep(Append(s, x), Len(s) + 1, e)
                /\ e[Len(s)] = d[Len(s)]
                /\ e[Len(s) + 1] = d[Len(s)] + Weight(x)
<1> DEFINE L == Len(s)
           w == d[L] + Weight(x)
           e == [i \in 0..(L + 1) |-> IF i = L + 1 THEN w ELSE d[i]]
<1>1. L \in Nat /\ d \in [0..L -> Int] /\ d[0] = 0
  BY DEF Deep
<1>2. w \in Int
  BY <1>1 DEF Weight
<1> HIDE DEF w
<1>3. e \in [0..(L + 1) -> Int] /\ e[L + 1] = w /\ \A i \in 0..L : e[i] = d[i]
  <2>1. \A i \in 0..(L + 1) : i = L + 1 \/ i \in 0..L
    BY <1>1
  <2>2. L + 1 \in 0..(L + 1) /\ \A i \in 0..L : i \in 0..(L + 1) /\ i # L + 1
    BY <1>1
  <2> HIDE DEF L
  <2> QED BY <1>1, <1>2, <2>1, <2>2
<1> HIDE DEF e, L
<1>4. ASSUME NEW n \in 1..(L + 1) PROVE e[n] = e[n - 1] + Weight(Append(s, x)[n])
  <2>1. CASE n = L + 1
    <3>1. n - 1 = L /\ L \in 0..L
      BY <1>1, <2>1
    <3>2. Append(s, x)[n] = x
      BY <2>1, AppendExtends DEF L
    <3> QED BY <1>3, <2>1, <3>1, <3>2 DEF w
  <2>2. CASE n # L + 1
    <3>1. n \in 1..L /\ n \in 0..L /\ n - 1 \in 0..L
      BY <1>1, <2>2
    <3>2. Append(s, x)[n] = s[n]
      BY <3>1, AppendExtends DEF L
    <3>3. d[n] = d[n - 1] + Weight(s[n])
      BY <3>1 DEF Deep, L
    <3> QED BY <1>3, <3>1, <3>2, <3>3
  <2> QED BY <2>1, <2>2
<1>5. 0 \in 0..L /\ L + 1 \in Nat /\ L \in 0..L
  BY <1>1
<1>6. Deep(Append(s, x), L + 1, e)
  BY <1>1, <1>3, <1>4, <1>5 DEF Deep
<1> QED BY <1>3, <1>5, <1>6 DEF L, w

LEMMA OpenedMore ==
  ASSUME NEW s, NEW t, Extends(t, s), NEW a \in 0..Len(s), NEW b \in 0..Len(s),
         Opened(s, a, b)
  PROVE  Opened(t, a, b)
<1>0. /\ Len(s) \in Nat /\ Len(t) \in Nat /\ Len(s) <= Len(t)
      /\ \A i \in 1..Len(s) : t[i] = s[i]
  BY DEF Extends
<1>1. PICK m \in (a + 1)..(b - 1) : Config(s, a + 1, m) /\ Words(s, m, b - 1)
  BY DEF Opened
<1>2. a + 1 \in 1..(Len(s) + 1) /\ b \in 1..Len(s) /\ \A i \in m..(b - 1) : i \in 1..Len(s)
  BY <1>0
<1>3. Config(t, a + 1, m)
  BY <1>1, <1>2, ConfigExtends
<1>4. Words(t, m, b - 1) /\ t[b] = s[b]
  BY <1>0, <1>1, <1>2 DEF Words
<1> QED BY <1>1, <1>3, <1>4 DEF Opened

LEMMA NestMore ==
  ASSUME NEW s, NEW t, Extends(t, s), NEW k, NEW o, Nest(s, k, o)
  PROVE  Nest(t, k, o)
<1>0. Len(s) \in Nat /\ Len(t) \in Nat /\ Len(s) <= Len(t)
  BY DEF Extends
<1>1. k \in Nat /\ o \in [0..k -> 0..Len(s)] /\ o[0] = 0
  BY DEF Nest
<1>2. o \in [0..k -> 0..Len(t)]
  BY <1>0, <1>1
<1>3. ASSUME NEW i \in 1..k PROVE Opened(t, o[i - 1], o[i])
  <2>1. i - 1 \in 0..k /\ i \in 0..k
    BY <1>1
  <2>2. o[i - 1] \in 0..Len(s) /\ o[i] \in 0..Len(s)
    BY <1>1, <2>1
  <2>3. Opened(s, o[i - 1], o[i])
    BY DEF Nest
  <2> QED BY <2>2, <2>3, OpenedMore
<1> QED BY <1>1, <1>2, <1>3 DEF Nest

-----------------------------------------------------------------------------
(* Parse's last_token_type is the kind of the last token it was given.     *)
Latest(s, type) ==
  /\ type = "START" => Len(s) = 0
  /\ type # "START" => Len(s) > 0
  /\ type = "NORMAL" => Word(s[Len(s)])
  /\ type = "STATEMENT_END" => IsSemi(s[Len(s)])
  /\ type = "START_BLOCK" => IsOpen(s[Len(s)])
  /\ type = "END_BLOCK" => IsClose(s[Len(s)])

(* A stack of k: that many blocks but one are open, and where they begin.  *)
(* An empty stack is a surplus "}".                                        *)
Standing(s, type, k) ==
  /\ \E d : Deep(s, Len(s), d) /\ d[Len(s)] = k - 1
  /\ k > 0 => \E o : /\ Nest(s, k - 1, o)
                     /\ type = "NORMAL" => InWords(s, o[k - 1])
                     /\ type # "NORMAL" => AtStatement(s, o[k - 1])

LEMMA StandingStart ==
  /\ Latest(<<>>, "START")
  /\ Standing(<<>>, "START", 1)
<1>1. <<>> \in Tokens /\ Len(<<>>) = 0
  BY DEF Tokens
<1> DEFINE z == [i \in 0..0 |-> 0]
<1>2. z[0] = 0 /\ 0 \in 0..0 /\ z \in [0..0 -> Int] /\ z \in [0..0 -> 0..0]
  OBVIOUS
<1> HIDE DEF z
<1>3. Deep(<<>>, 0, z) /\ Nest(<<>>, 0, z)
  BY <1>1, <1>2 DEF Deep, Nest
<1>4. Config(<<>>, 1, 1)
  <2>1. 1 \in 1..(Len(<<>>) + 1)
    BY <1>1
  <2> QED BY <1>1, <2>1, ConfigSplits
<1>5. AtStatement(<<>>, z[0])
  BY <1>1, <1>2, <1>4 DEF AtStatement
<1>6. Latest(<<>>, "START")
  BY <1>1 DEF Latest
<1>7. 1 - 1 = 0
  OBVIOUS
<1> QED BY <1>1, <1>2, <1>3, <1>5, <1>6, <1>7 DEF Standing

LEMMA WordStep ==
  ASSUME NEW s \in Tokens, NEW x \in Seq(Chars), Word(x), NEW type, NEW k \in Nat,
         k > 0, Standing(s, type, k)
  PROVE  Latest(Append(s, x), "NORMAL") /\ Standing(Append(s, x), "NORMAL", k)
<1> DEFINE t == Append(s, x)
           L == Len(s)
<1>0. /\ t \in Tokens /\ Extends(t, s) /\ L \in Nat /\ Len(t) = L + 1
      /\ t[L + 1] = x /\ \A i \in 1..L : t[i] = s[i]
  BY AppendExtends
<1>1. PICK d : Deep(s, L, d) /\ d[L] = k - 1
  BY DEF Standing
<1>2. PICK e : Deep(t, L + 1, e) /\ e[L + 1] = d[L] + Weight(x)
  BY <1>1, DeepMore
<1>3. Weight(x) = 0
  BY Punctuated DEF Weight
<1>4. e[Len(t)] = k - 1
  BY <1>0, <1>1, <1>2, <1>3
<1>5. PICK o : /\ Nest(s, k - 1, o)
               /\ type = "NORMAL" => InWords(s, o[k - 1])
               /\ type # "NORMAL" => AtStatement(s, o[k - 1])
  BY DEF Standing
<1> DEFINE a == o[k - 1]
<1> HIDE DEF t, L
<1>6. Nest(t, k - 1, o)
  BY <1>0, <1>5, NestMore
<1>7. a \in 0..L
  BY <1>5 DEF Nest, L
<1>8. InWords(t, a)
  <2> HIDE DEF a
  <2>1. CASE type = "NORMAL"
    <3>1. PICK m \in (a + 1)..L : Config(s, a + 1, m) /\ Words(s, m, L)
      BY <1>5, <2>1 DEF InWords, L, a
    <3>2. Config(t, a + 1, m)
      <4>1. a + 1 \in 1..(Len(s) + 1)
        BY <1>0, <1>7 DEF L
      <4> QED BY <1>0, <3>1, <4>1, ConfigExtends
    <3>3. Words(t, m, L + 1)
      <4>1. ASSUME NEW i \in m..(L + 1) PROVE Word(t[i])
        <5>1. CASE i = L + 1
          BY <1>0, <5>1
        <5>2. CASE i # L + 1
          <6>1. i \in m..L /\ i \in 1..L
            BY <1>0, <1>7, <5>2
          <6> QED BY <1>0, <3>1, <6>1 DEF Words
        <5> QED BY <5>1, <5>2
      <4>2. m <= L + 1
        BY <1>0, <1>7
      <4> QED BY <4>1, <4>2 DEF Words
    <3>4. m \in (a + 1)..(L + 1)
      BY <1>0, <1>7
    <3> QED BY <1>0, <3>2, <3>3, <3>4 DEF InWords
  <2>2. CASE type # "NORMAL"
    <3>1. Config(s, a + 1, L + 1)
      BY <1>5, <2>2 DEF AtStatement, L, a
    <3>2. Config(t, a + 1, L + 1)
      <4>1. a + 1 \in 1..(Len(s) + 1)
        BY <1>0, <1>7 DEF L
      <4> QED BY <1>0, <3>1, <4>1, ConfigExtends
    <3>3. Words(t, L + 1, L + 1)
      <4>1. \A i \in (L + 1)..(L + 1) : i = L + 1
        BY <1>0
      <4>2. L + 1 <= L + 1
        BY <1>0
      <4> QED BY <1>0, <4>1, <4>2 DEF Words
    <3>4. L + 1 \in (a + 1)..(L + 1)
      BY <1>0, <1>7
    <3> QED BY <1>0, <3>2, <3>3, <3>4 DEF InWords
  <2> QED BY <2>1, <2>2
<1>9. Latest(t, "NORMAL")
  BY <1>0 DEF Latest
<1>10. Standing(t, "NORMAL", k)
  BY <1>0, <1>2, <1>4, <1>6, <1>8 DEF Standing
<1> QED BY <1>9, <1>10 DEF t

LEMMA SemiStep ==
  ASSUME NEW s \in Tokens, NEW x \in Seq(Chars), IsSemi(x), NEW k \in Nat,
         k > 0, Standing(s, "NORMAL", k)
  PROVE  /\ Latest(Append(s, x), "STATEMENT_END")
         /\ Standing(Append(s, x), "STATEMENT_END", k)
<1> DEFINE t == Append(s, x)
           L == Len(s)
<1>0. /\ t \in Tokens /\ Extends(t, s) /\ L \in Nat /\ Len(t) = L + 1
      /\ t[L + 1] = x /\ \A i \in 1..L : t[i] = s[i]
  BY AppendExtends
<1>1. PICK d : Deep(s, L, d) /\ d[L] = k - 1
  BY DEF Standing
<1>2. PICK e : Deep(t, L + 1, e) /\ e[L + 1] = d[L] + Weight(x)
  BY <1>1, DeepMore
<1>3. Weight(x) = 0
  BY Punctuated DEF Weight
<1>4. e[Len(t)] = k - 1
  BY <1>0, <1>1, <1>2, <1>3
<1>5. PICK o : Nest(s, k - 1, o) /\ InWords(s, o[k - 1])
  BY DEF Standing
<1> DEFINE a == o[k - 1]
<1> HIDE DEF t, L
<1>6. Nest(t, k - 1, o)
  BY <1>0, <1>5, NestMore
<1>7. a \in 0..L
  BY <1>5 DEF Nest, L
<1>8. AtStatement(t, a)
  <2> HIDE DEF a
  <2>1. PICK m \in (a + 1)..L : Config(s, a + 1, m) /\ Words(s, m, L)
    BY <1>5 DEF InWords, L, a
  <2>2. Config(t, a + 1, m)
    <3>1. a + 1 \in 1..(Len(s) + 1)
      BY <1>0, <1>7 DEF L
    <3> QED BY <1>0, <2>1, <3>1, ConfigExtends
  <2>3. Words(t, m, L)
    <3>1. \A i \in m..L : i \in 1..L
      BY <1>0, <1>7
    <3> QED BY <1>0, <2>1, <3>1 DEF Words
  <2>4. Begins(t, m, L, L + 1)
    BY <1>0, <2>3 DEF Begins
  <2>5. Config(t, L + 1 + 1, L + 1 + 1)
    <3>1. L + 1 + 1 \in 1..(Len(t) + 1) /\ Len(t) \in Nat
      BY <1>0
    <3> QED BY <3>1, ConfigSplits
  <2>6. Config(t, m, L + 1 + 1)
    <3>1. m \in 1..(Len(t) + 1) /\ L \in m..Len(t) /\ L + 1 \in m..Len(t) /\ Len(t) \in Nat
      BY <1>0, <1>7
    <3> QED BY <2>4, <2>5, <3>1, ConfigSplits
  <2>7. Config(t, a + 1, Len(t) + 1)
    <3>1. a + 1 \in 1..(Len(t) + 1) /\ Len(t) \in Nat
      BY <1>0, <1>7
    <3> QED BY <1>0, <2>2, <2>6, <3>1, ConfigConcat
  <2> QED BY <2>7 DEF AtStatement
<1>9. Latest(t, "STATEMENT_END")
  BY <1>0 DEF Latest
<1>10. Standing(t, "STATEMENT_END", k)
  BY <1>0, <1>2, <1>4, <1>6, <1>8 DEF Standing
<1> QED BY <1>9, <1>10 DEF t

LEMMA OpenStep ==
  ASSUME NEW s \in Tokens, NEW x \in Seq(Chars), IsOpen(x), NEW k \in Nat,
         k > 0, Standing(s, "NORMAL", k)
  PROVE  /\ Latest(Append(s, x), "START_BLOCK")
         /\ Standing(Append(s, x), "START_BLOCK", k + 1)
<1> DEFINE t == Append(s, x)
           L == Len(s)
<1>0. /\ t \in Tokens /\ Extends(t, s) /\ L \in Nat /\ Len(t) = L + 1
      /\ t[L + 1] = x /\ \A i \in 1..L : t[i] = s[i]
  BY AppendExtends
<1>1. PICK d : Deep(s, L, d) /\ d[L] = k - 1
  BY DEF Standing
<1>2. PICK e : Deep(t, L + 1, e) /\ e[L + 1] = d[L] + Weight(x)
  BY <1>1, DeepMore
<1>3. Weight(x) = 1
  BY DEF Weight
<1>4. e[Len(t)] = (k + 1) - 1
  BY <1>0, <1>1, <1>2, <1>3
<1>5. PICK o : Nest(s, k - 1, o) /\ InWords(s, o[k - 1])
  BY DEF Standing
<1> DEFINE a == o[k - 1]
           p == [i \in 0..k |-> IF i = k THEN L + 1 ELSE o[i]]
<1> HIDE DEF t, L
<1>6. Nest(t, k - 1, o)
  BY <1>0, <1>5, NestMore
<1>7. /\ o \in [0..(k - 1) -> 0..L] /\ o[0] = 0 /\ a \in 0..L
      /\ o \in [0..(k - 1) -> 0..(L + 1)]
  BY <1>0, <1>5 DEF Nest, L
<1>8. /\ p \in [0..k -> 0..(L + 1)] /\ p[k] = L + 1 /\ p[0] = 0
      /\ \A i \in 0..(k - 1) : p[i] = o[i]
  <2>1. /\ \A i \in 0..k : i = k \/ i \in 0..(k - 1)
        /\ \A i \in 0..(k - 1) : i \in 0..k /\ i # k
        /\ k \in 0..k /\ 0 \in 0..(k - 1) /\ L + 1 \in 0..(L + 1)
    BY <1>0
  <2> QED BY <1>7, <2>1
<1> HIDE DEF p
<1>9. Opened(t, a, L + 1)
  <2> HIDE DEF a
  <2>1. PICK m \in (a + 1)..L : Config(s, a + 1, m) /\ Words(s, m, L)
    BY <1>5 DEF InWords, L, a
  <2>2. Config(t, a + 1, m)
    <3>1. a + 1 \in 1..(Len(s) + 1)
      BY <1>0, <1>7 DEF L
    <3> QED BY <1>0, <2>1, <3>1, ConfigExtends
  <2>3. Words(t, m, L)
    <3>1. \A i \in m..L : i \in 1..L
      BY <1>0, <1>7
    <3> QED BY <1>0, <2>1, <3>1 DEF Words
  <2>4. (L + 1) - 1 = L
    BY <1>0
  <2> QED BY <1>0, <2>2, <2>3, <2>4 DEF Opened
<1>10. Nest(t, k, p)
  <2>1. ASSUME NEW i \in 1..k PROVE Opened(t, p[i - 1], p[i])
    <3>1. CASE i = k
      <4>1. i - 1 \in 0..(k - 1) /\ i - 1 = k - 1
        BY <3>1
      <4> QED BY <1>8, <1>9, <3>1, <4>1
    <3>2. CASE i # k
      <4>1. i \in 1..(k - 1) /\ i \in 0..(k - 1) /\ i - 1 \in 0..(k - 1)
        BY <3>2
      <4> QED BY <1>6, <1>8, <4>1 DEF Nest
    <3> QED BY <3>1, <3>2
  <2> QED BY <1>0, <1>8, <2>1 DEF Nest
<1>11. AtStatement(t, p[k])
  <2>1. L + 1 + 1 \in 1..(Len(t) + 1) /\ Len(t) \in Nat
    BY <1>0
  <2>2. Config(t, L + 1 + 1, L + 1 + 1)
    BY <2>1, ConfigSplits
  <2> QED BY <1>0, <1>8, <2>2 DEF AtStatement
<1>12. Latest(t, "START_BLOCK")
  BY <1>0 DEF Latest
<1>13. (k + 1) - 1 = k /\ "START_BLOCK" # "NORMAL"
  OBVIOUS
<1>14. Standing(t, "START_BLOCK", k + 1)
  BY <1>0, <1>2, <1>4, <1>10, <1>11, <1>13 DEF Standing
<1> QED BY <1>12, <1>14 DEF t

LEMMA CloseStep ==
  ASSUME NEW s \in Tokens, NEW x \in Seq(Chars), IsClose(x), NEW k \in Nat,
         k > 0, NEW type, type # "NORMAL", Standing(s, type, k)
  PROVE  /\ Latest(Append(s, x), "END_BLOCK")
         /\ Standing(Append(s, x), "END_BLOCK", k - 1)
<1> DEFINE t == Append(s, x)
           L == Len(s)
<1>0. /\ t \in Tokens /\ Extends(t, s) /\ L \in Nat /\ Len(t) = L + 1
      /\ t[L + 1] = x /\ \A i \in 1..L : t[i] = s[i]
  BY AppendExtends
<1>1. PICK d : Deep(s, L, d) /\ d[L] = k - 1
  BY DEF Standing
<1>2. PICK e : Deep(t, L + 1, e) /\ e[L + 1] = d[L] + Weight(x)
  BY <1>1, DeepMore
<1>3. Weight(x) = -1
  BY Punctuated DEF Weight
<1>4. e[Len(t)] = (k - 1) - 1
  BY <1>0, <1>1, <1>2, <1>3
<1>5. PICK o : Nest(s, k - 1, o) /\ AtStatement(s, o[k - 1])
  BY DEF Standing
<1> HIDE DEF t, L
<1>6. Nest(t, k - 1, o)
  BY <1>0, <1>5, NestMore
<1>7. ASSUME k - 1 > 0
      PROVE  \E p : Nest(t, (k - 1) - 1, p) /\ AtStatement(t, p[(k - 1) - 1])
  <2> DEFINE j == k - 2
             p == [i \in 0..j |-> o[i]]
             a == o[j]
             b == o[k - 1]
  <2>0. /\ j \in Nat /\ (k - 1) - 1 = j /\ k - 1 \in 1..(k - 1) /\ j \in 0..(k - 1)
        /\ k - 1 \in 0..(k - 1) /\ 0 \in 0..j /\ j \in 0..j
        /\ \A i \in 0..j : i \in 0..(k - 1)
        /\ \A i \in 1..j : i \in 1..(k - 1) /\ i \in 0..j /\ i - 1 \in 0..j
    BY <1>7
  <2>1. /\ o \in [0..(k - 1) -> 0..L] /\ o[0] = 0 /\ a \in 0..L /\ b \in 0..L
        /\ o \in [0..(k - 1) -> 0..(L + 1)]
    BY <1>0, <1>5, <2>0 DEF Nest, L
  <2> HIDE DEF j
  <2>2. p \in [0..j -> 0..(L + 1)] /\ \A i \in 0..j : p[i] = o[i]
    BY <2>0, <2>1
  <2> HIDE DEF p
  <2>3. Nest(t, j, p)
    <3>1. ASSUME NEW i \in 1..j PROVE Opened(t, p[i - 1], p[i])
      BY <1>6, <2>0, <2>2 DEF Nest
    <3> QED BY <1>0, <2>0, <2>1, <2>2, <3>1 DEF Nest
  <2>4. Opened(s, a, b)
    <3>1. Opened(s, o[(k - 1) - 1], o[k - 1])
      BY <1>5, <2>0 DEF Nest
    <3> QED BY <2>0, <3>1
  <2>5. Config(s, b + 1, L + 1)
    BY <1>5 DEF AtStatement, L
  <2> HIDE DEF a, b
  <2>6. PICK m \in (a + 1)..(b - 1) : Config(s, a + 1, m) /\ Words(s, m, b - 1)
    BY <2>4 DEF Opened
  <2>7. IsOpen(s[b])
    BY <2>4 DEF Opened
  <2>8. Config(t, a + 1, m) /\ Config(t, b + 1, L + 1)
    <3>1. a + 1 \in 1..(Len(s) + 1) /\ b + 1 \in 1..(Len(s) + 1)
      BY <1>0, <2>1 DEF L
    <3> QED BY <1>0, <2>5, <2>6, <3>1, ConfigExtends
  <2>9. Words(t, m, b - 1) /\ t[b] = s[b]
    <3>1. (\A i \in m..(b - 1) : i \in 1..L) /\ b \in 1..L
      BY <1>0, <2>1
    <3> QED BY <1>0, <2>6, <3>1 DEF Words
  <2>10. Begins(t, m, b - 1, L + 1)
    <3>1. (b - 1) + 1 = b /\ (b - 1) + 2 = b + 1 /\ b - 1 < Len(t) /\ L + 1 > (b - 1) + 1
      BY <1>0, <2>1
    <3> QED BY <1>0, <2>7, <2>8, <2>9, <3>1 DEF Begins
  <2>11. Config(t, L + 1 + 1, L + 1 + 1)
    <3>1. L + 1 + 1 \in 1..(Len(t) + 1) /\ Len(t) \in Nat
      BY <1>0
    <3> QED BY <3>1, ConfigSplits
  <2>12. Config(t, m, L + 1 + 1)
    <3>1. /\ m \in 1..(Len(t) + 1) /\ b - 1 \in m..Len(t) /\ L + 1 \in m..Len(t)
          /\ Len(t) \in Nat
      BY <1>0, <2>1
    <3> QED BY <2>10, <2>11, <3>1, ConfigSplits
  <2>13. Config(t, a + 1, Len(t) + 1)
    <3>1. a + 1 \in 1..(Len(t) + 1) /\ Len(t) \in Nat
      BY <1>0, <2>1
    <3> QED BY <1>0, <2>8, <2>12, <3>1, ConfigConcat
  <2>14. AtStatement(t, p[j])
    BY <2>0, <2>2, <2>13 DEF AtStatement, a
  <2> QED BY <2>0, <2>3, <2>14
<1>8. Latest(t, "END_BLOCK")
  BY <1>0 DEF Latest
<1>9. "END_BLOCK" # "NORMAL"
  OBVIOUS
<1>10. Standing(t, "END_BLOCK", k - 1)
  BY <1>0, <1>2, <1>4, <1>7, <1>9 DEF Standing
<1> QED BY <1>8, <1>10 DEF t

-----------------------------------------------------------------------------
(* Where Parse gives up.                                                   *)

LEMMA Misplaced ==
  ASSUME NEW s \in Tokens, NEW x \in Seq(Chars), NEW type, Latest(s, type),
         \/ (IsSemi(x) \/ IsOpen(x)) /\ type # "NORMAL"
         \/ IsClose(x) /\ type \in {"NORMAL", "START"},
         type \in {"START", "NORMAL", "START_BLOCK", "END_BLOCK", "STATEMENT_END"}
  PROVE  ~Plausible(Append(s, x))
<1> DEFINE t == Append(s, x)
           L == Len(s)
<1>0. /\ L \in Nat /\ Len(t) = L + 1 /\ t[L + 1] = x /\ \A i \in 1..L : t[i] = s[i]
  BY AppendExtends
<1> HIDE DEF t
<1>1. CASE type = "START"
  <2>1. L = 0
    BY <1>1 DEF Latest
  <2>2. ~Word(t[1]) /\ Len(t) > 0
    BY <1>0, <1>1, <2>1, Punctuated
  <2> QED BY <2>2 DEF Plausible, t
<1>2. CASE type # "START"
  <2>1. L > 0 /\ L + 1 \in 2..Len(t) /\ (L + 1) - 1 = L /\ L \in 1..L
    BY <1>0, <1>2 DEF Latest
  <2>2. t[(L + 1) - 1] = s[L]
    BY <1>0, <2>1
  <2>3. type = "NORMAL" <=> Word(s[L])
    BY <1>2, Punctuated DEF Latest
  <2>4. ~Follows(t, L + 1)
    BY <1>0, <1>2, <2>2, <2>3 DEF Follows
  <2> QED BY <2>1, <2>4 DEF Plausible, t
<1> QED BY <1>1, <1>2

LEMMA Surplus ==
  ASSUME NEW s \in Tokens, NEW type, Latest(s, type), type # "START",
         Standing(s, type, 0)
  PROVE  ~Plausible(s) /\ \A x \in Seq(Chars) : ~Plausible(Append(s, x))
<1>1. PICK d : Deep(s, Len(s), d) /\ d[Len(s)] = 0 - 1
  BY DEF Standing
<1>2. Len(s) \in 1..Len(s)
  BY DEF Latest, Tokens
<1>3. ~Plausible(s)
  BY <1>1, <1>2 DEF Plausible
<1>4. ASSUME NEW x \in Seq(Chars) PROVE ~Plausible(Append(s, x))
  <2>1. PICK e : Deep(Append(s, x), Len(s) + 1, e) /\ e[Len(s)] = d[Len(s)]
    BY <1>1, DeepMore
  <2>2. Len(Append(s, x)) = Len(s) + 1 /\ Len(s) \in 1..(Len(s) + 1)
    BY <1>2, AppendExtends
  <2> QED BY <1>1, <2>1, <2>2 DEF Plausible
<1> QED BY <1>3, <1>4

-----------------------------------------------------------------------------
(* The parser's steps.                                                     *)

(* What a word begins with, and no punctuation does.                       *)
BeginsWord(v) == Len(v) > 0 /\ v[1] \notin {"{", "}", ";"}

LEMMA WordBegun ==
  ASSUME NEW v, BeginsWord(v)
  PROVE  Word(v)
<1>1. <<";">>[1] = ";" /\ <<"{">>[1] = "{" /\ <<"}">>[1] = "}"
  OBVIOUS
<1> QED BY <1>1, Zenon DEF Word, Punctuation, BeginsWord

LEMMA BegunMore ==
  ASSUME NEW v \in Seq(Chars), NEW c \in Chars, BeginsWord(v)
  PROVE  BeginsWord(Append(v, c))
<1>1. /\ Len(Append(v, c)) = Len(v) + 1 /\ Len(v) \in Nat
      /\ \A i \in 1..Len(v) : Append(v, c)[i] = v[i]
  BY AppendProperties
<1>2. Len(v) > 0
  BY DEF BeginsWord
<1>3. 1 \in 1..Len(v) /\ Len(Append(v, c)) > 0
  BY <1>1, <1>2
<1> QED BY <1>1, <1>3 DEF BeginsWord

(* What ParseToken has of a token, and Parse of the tokens.                *)
Reading ==
  outcome = "running" /\ state \in {"normal", "dq", "sq", "escape_dq", "escape_sq"} =>
    BeginsWord(value)
Parsing ==
  outcome = "running" =>
    Latest(seen, last_token_type) /\ Standing(seen, last_token_type, Len(stack))

(* What Parse makes of a token.                                            *)
Settled ==
  \/ /\ outcome' = "running"
     /\ Latest(seen', last_token_type')
     /\ Standing(seen', last_token_type', Len(stack'))
  \/ outcome' \in {"false", "undefined"} /\ ~Plausible(seen')

LEMMA NormalSettles ==
  ASSUME Inv, ReadType, Parsing, outcome = "running", NEW token \in Seq(Chars),
         Word(token), seen' = Append(seen, token), GotNormal(token)
  PROVE  Settled
<1>0. seen \in Tokens /\ Len(stack) \in Nat
  BY DEF ReadType, Tokens, Inv, HeapType
<1>1. Latest(seen, last_token_type) /\ Standing(seen, last_token_type, Len(stack))
  BY DEF Parsing
<1>2. CASE stack = <<>>
  <2>1. Len(stack) = 0
    BY <1>2
  <2>2. last_token_type # "START"
    <3>1. ASSUME last_token_type = "START" PROVE FALSE
      <4>1. PICK d : Deep(seen, Len(seen), d) /\ d[Len(seen)] = 0 - 1
        BY <1>1, <2>1 DEF Standing
      <4>2. Len(seen) = 0
        BY <1>1, <3>1 DEF Latest
      <4> QED BY <4>1, <4>2 DEF Deep
    <3> QED BY <3>1
  <2>3. outcome' = "undefined"
    BY <1>2 DEF GotNormal, Stop
  <2>4. ~Plausible(seen')
    BY <1>0, <1>1, <2>1, <2>2, Surplus
  <2> QED BY <2>3, <2>4 DEF Settled
<1>3. CASE stack # <<>>
  <2>1. Len(stack) > 0
    BY <1>0, <1>3, EmptySeq DEF Inv, HeapType
  <2>2. stack' = stack /\ last_token_type' = "NORMAL" /\ outcome' = outcome
    BY <1>3 DEF GotNormal, Continue
  <2> QED BY <1>0, <1>1, <2>1, <2>2, WordStep DEF Settled
<1> QED BY <1>2, <1>3

(* A stack is empty only behind a surplus "}".                             *)
LEMMA EmptyStack ==
  ASSUME NEW s, NEW type, Latest(s, type), Standing(s, type, 0)
  PROVE  type # "START"
<1>1. PICK d : Deep(s, Len(s), d) /\ d[Len(s)] = 0 - 1
  BY DEF Standing
<1>2. type = "START" => Len(s) = 0
  BY DEF Latest
<1> QED BY <1>1, <1>2 DEF Deep

LEMMA PunctuationSettles ==
  ASSUME Inv, ReadType, Parsing, outcome = "running", NEW token \in Seq(Chars),
         seen' = Append(seen, token),
         \/ IsSemi(token) /\ GotStatementEnd
         \/ IsOpen(token) /\ GotStartBlock
         \/ IsClose(token) /\ GotEndBlock
  PROVE  Settled
<1>0. /\ seen \in Tokens /\ Len(stack) \in Nat /\ last_token_type \in Types
  BY DEF ReadType, Tokens, Inv, HeapType, Types
<1>1. Latest(seen, last_token_type) /\ Standing(seen, last_token_type, Len(stack))
  BY DEF Parsing
<1>2. last_token_type = "NORMAL" => Len(stack) > 0
  BY <1>0, EmptySeq DEF Inv, HeapType, BackDefined
<1>3. ASSUME \/ (IsSemi(token) \/ IsOpen(token)) /\ last_token_type # "NORMAL"
             \/ IsClose(token) /\ last_token_type \in {"NORMAL", "START"}
      PROVE  ~Plausible(seen')
  BY <1>0, <1>1, <1>3, Misplaced DEF Types
<1>4. CASE IsSemi(token) /\ GotStatementEnd
  <2>1. CASE last_token_type # "NORMAL"
    <3>1. outcome' = "false"
      BY <1>4, <2>1 DEF GotStatementEnd, Stop
    <3> QED BY <1>3, <1>4, <2>1, <3>1 DEF Settled
  <2>2. CASE last_token_type = "NORMAL"
    <3>1. outcome' = "running" /\ stack' = stack /\ last_token_type' = "STATEMENT_END"
      BY <1>4, <2>2 DEF GotStatementEnd, Continue
    <3> QED BY <1>0, <1>1, <1>2, <1>4, <2>2, <3>1, SemiStep DEF Settled
  <2> QED BY <2>1, <2>2
<1>5. CASE IsOpen(token) /\ GotStartBlock
  <2>1. CASE last_token_type # "NORMAL"
    <3>1. outcome' = "false"
      BY <1>5, <2>1 DEF GotStartBlock, Stop
    <3> QED BY <1>3, <1>5, <2>1, <3>1 DEF Settled
  <2>2. CASE last_token_type = "NORMAL"
    <3>1. /\ outcome' = "running" /\ stack' = Append(stack, Len(blocks) + 1)
          /\ last_token_type' = "START_BLOCK"
      BY <1>5, <2>2 DEF GotStartBlock, Continue
    <3>2. Len(stack') = Len(stack) + 1
      BY <3>1 DEF Inv, HeapType
    <3> QED BY <1>0, <1>1, <1>2, <1>5, <2>2, <3>1, <3>2, OpenStep DEF Settled
  <2> QED BY <2>1, <2>2
<1>6. CASE IsClose(token) /\ GotEndBlock
  <2> DEFINE follows == {"START_BLOCK", "STATEMENT_END", "END_BLOCK"}
  <2>1. CASE last_token_type \notin follows
    <3>1. outcome' = "false"
      BY <1>6, <2>1 DEF GotEndBlock, Stop
    <3>2. last_token_type \in {"NORMAL", "START"}
      BY <1>0, <2>1 DEF Types
    <3> QED BY <1>3, <1>6, <3>1, <3>2 DEF Settled
  <2>2. CASE last_token_type \in follows /\ stack = <<>>
    <3>1. outcome' = "undefined"
      BY <1>6, <2>2 DEF GotEndBlock, Stop
    <3>2. Len(stack) = 0 /\ last_token_type # "START"
      BY <2>2
    <3>3. ~Plausible(seen')
      BY <1>0, <1>1, <3>2, Surplus
    <3> QED BY <3>1, <3>3 DEF Settled
  <2>3. CASE last_token_type \in follows /\ stack # <<>>
    <3>1. outcome' = "running" /\ stack' = Pop /\ last_token_type' = "END_BLOCK"
      BY <1>6, <2>3 DEF GotEndBlock, Continue
    <3>2. Len(stack) > 0 /\ Len(stack') = Len(stack) - 1
      <4>1. stack \in Seq(1..Len(blocks)) /\ Len(stack) \in 1..Len(stack)
        BY <2>3, EmptySeq DEF Inv, HeapType
      <4>2. ASSUME NEW S, NEW u \in Seq(S), Len(u) \in 1..Len(u)
            PROVE  Len(SubSeq(u, 1, Len(u) - 1)) = Len(u) - 1
        <5>1. Len(u) \in Nat /\ Len(u) - 1 \in Int /\ \A i \in 1..(Len(u) - 1) : u[i] \in S
          BY <4>2
        <5>2. Len(SubSeq(u, 1, Len(u) - 1))
                = IF 1 <= Len(u) - 1 THEN (Len(u) - 1) - 1 + 1 ELSE 0
          BY <5>1, SubSeqProperties
        <5>3. ASSUME NEW n \in Nat, n >= 1
              PROVE  (IF 1 <= n - 1 THEN (n - 1) - 1 + 1 ELSE 0) = n - 1
          BY <5>3
        <5>4. Len(u) >= 1
          BY <4>2, <5>1
        <5> QED BY <5>1, <5>2, <5>3, <5>4, Zenon
      <4> QED BY <3>1, <4>1, <4>2 DEF Pop
    <3>3. last_token_type # "NORMAL"
      BY <2>3
    <3> QED BY <1>0, <1>1, <1>6, <3>1, <3>2, <3>3, CloseStep DEF Settled
  <2> QED BY <2>1, <2>2, <2>3
<1> QED BY <1>4, <1>5, <1>6

LEMMA EofVerdict ==
  ASSUME Inv, ReadType, Parsing, outcome = "running", GotEof, UNCHANGED seen
  PROVE  /\ outcome' \in {"true", "false", "undefined"}
         /\ outcome' = "true" <=> IsConfig(seen')
<1>0. /\ seen \in Tokens /\ Len(stack) \in Nat /\ last_token_type \in Types
      /\ Len(seen) \in Nat
  BY DEF ReadType, Tokens, Inv, HeapType
<1>1. Latest(seen, last_token_type) /\ Standing(seen, last_token_type, Len(stack))
  BY DEF Parsing
<1> DEFINE ends == {"STATEMENT_END", "END_BLOCK", "START"}
<1>2. CASE last_token_type \notin ends
  <2>1. outcome' = "false"
    BY <1>2 DEF GotEof, Stop
  <2>2. Len(seen) > 0 /\ ~Ending(seen[Len(seen)])
    BY <1>0, <1>1, <1>2, Punctuated DEF Latest, Ending, Types
  <2>3. ~IsConfig(seen)
    BY <1>0, <2>2, PlausibleConfig
  <2> QED BY <2>1, <2>3
<1>3. CASE last_token_type \in ends /\ stack = <<>>
  <2>1. outcome' = "undefined"
    BY <1>3 DEF GotEof, Stop
  <2>2. Len(stack) = 0
    BY <1>3
  <2>3. ~Plausible(seen)
    BY <1>0, <1>1, <2>2, EmptyStack, Surplus
  <2> QED BY <1>0, <2>1, <2>3, PlausibleConfig
<1>4. CASE last_token_type \in ends /\ stack # <<>> /\ Len(stack) > 1
  <2>1. outcome' = "false"
    BY <1>4 DEF GotEof, Stop
  <2>2. PICK d : Deep(seen, Len(seen), d) /\ d[Len(seen)] = Len(stack) - 1
    BY <1>1 DEF Standing
  <2>3. ~IsConfig(seen)
    BY <1>0, <1>4, <2>2, PlausibleConfig
  <2> QED BY <2>1, <2>3
<1>5. CASE last_token_type \in ends /\ stack # <<>> /\ ~(Len(stack) > 1)
  <2>1. outcome' = "true"
    BY <1>5 DEF GotEof, Stop
  <2>2. Len(stack) = 1
    <3>1. Len(stack) # 0
      BY <1>5, EmptySeq DEF Inv, HeapType
    <3> QED BY <1>0, <1>5, <3>1
  <2>3. PICK o : Nest(seen, 1 - 1, o) /\ AtStatement(seen, o[1 - 1])
    BY <1>1, <1>5, <2>2 DEF Standing
  <2>4. o[1 - 1] = 0
    <3>1. 1 - 1 = 0
      OBVIOUS
    <3> QED BY <2>3, <3>1 DEF Nest
  <2>5. Config(seen, 0 + 1, Len(seen) + 1)
    BY <2>3, <2>4 DEF AtStatement
  <2>6. IsConfig(seen)
    BY <2>5 DEF Config, IsConfig
  <2> QED BY <2>1, <2>6
<1> QED BY <1>2, <1>3, <1>4, <1>5

GrammarInv == Reading /\ Parsing /\ VerdictExact

LEMMA SettledVerdict ==
  ASSUME seen' \in Tokens, state' = "initial", Settled
  PROVE  GrammarInv'
<1>1. Reading'
  BY DEF Reading
<1>2. CASE outcome' = "running" /\ Latest(seen', last_token_type')
           /\ Standing(seen', last_token_type', Len(stack'))
  BY <1>1, <1>2 DEF GrammarInv, Parsing, VerdictExact
<1>3. CASE outcome' \in {"false", "undefined"} /\ ~Plausible(seen')
  <2>1. ~IsConfig(seen') /\ ~BeginsConfig(seen')
    BY <1>3, PlausibleConfig, PlausibleBegin
  <2>2. outcome' # "running" /\ outcome' # "true"
    BY <1>3
  <2> QED BY <1>1, <2>1, <2>2 DEF GrammarInv, Parsing, VerdictExact
<1> QED BY <1>2, <1>3 DEF Settled

LEMMA TokenVerdict ==
  ASSUME Inv, ReadType, ReadType', GrammarInv, NEW c \in Chars, ParseToken(c)
  PROVE  GrammarInv'
<1>0. /\ value \in Seq(Chars) /\ Append(value, c) \in Seq(Chars)
      /\ <<c>> \in Seq(Chars) /\ seen' \in Tokens
  BY CharTexts, AppendProperties DEF Inv, HeapType, ReadType, Tokens
<1>1. outcome = "running" /\ Reading /\ Parsing
  BY DEF ParseToken, InitialWhitespace, Quoted, Escape, Comment, Normal, Reads, GrammarInv
<1>2. ASSUME NEW st, NEW v, Go(st, v),
             st \in {"normal", "dq", "sq", "escape_dq", "escape_sq"} => BeginsWord(v)
      PROVE  GrammarInv'
  <2>1. /\ outcome' = "running" /\ state' = st /\ value' = v
        /\ UNCHANGED <<last_token_type, stack, seen>>
    BY <1>1, <1>2 DEF Go
  <2>2. Reading'
    BY <1>2, <2>1 DEF Reading
  <2>3. Parsing'
    BY <1>1, <2>1 DEF Parsing
  <2>4. VerdictExact'
    BY <2>1 DEF VerdictExact
  <2> QED BY <2>2, <2>3, <2>4 DEF GrammarInv
<1>3. ASSUME NEW token \in Seq(Chars), NEW p, Token(token, p), GotNormal(token),
             BeginsWord(token)
      PROVE  GrammarInv'
  <2>1. state' = "initial" /\ seen' = Append(seen, token)
    BY <1>3 DEF Token
  <2>2. Settled
    BY <1>1, <1>3, <2>1, WordBegun, NormalSettles
  <2> QED BY <1>0, <2>1, <2>2, SettledVerdict
<1>4. ASSUME NEW token \in Seq(Chars), NEW p, Token(token, p),
             \/ IsSemi(token) /\ GotStatementEnd
             \/ IsOpen(token) /\ GotStartBlock
             \/ IsClose(token) /\ GotEndBlock
      PROVE  GrammarInv'
  <2>1. state' = "initial" /\ seen' = Append(seen, token)
    BY <1>4 DEF Token
  <2>2. Settled
    BY <1>1, <1>4, <2>1, PunctuationSettles
  <2> QED BY <1>0, <2>1, <2>2, SettledVerdict
<1>5. state \in {"normal", "dq", "sq", "escape_dq", "escape_sq"} =>
        BeginsWord(value) /\ BeginsWord(Append(value, c))
  BY <1>0, <1>1, BegunMore DEF Reading
<1>6. CASE InitialWhitespace(c)
  <2>1. Len(<<c>>) = 1 /\ <<c>>[1] = c
    OBVIOUS
  <2>2. ASSUME c \in {"dq", "sq", "bs", "listen", "a", "0", "7"} PROVE BeginsWord(<<c>>)
    <3>1. c \notin {"{", "}", ";"}
      BY <2>2
    <3>2. Len(<<c>>) > 0
      BY <2>1
    <3> QED BY <2>1, <3>1, <3>2, Zenon DEF BeginsWord
  <2>3. CASE c \in {"SP", "LF", "CR"} /\ Go("initial", <<>>)
    BY <1>2, <2>3
  <2>4. CASE c = "#" /\ Go("comment", <<c>>)
    BY <1>2, <2>4
  <2>5. CASE c \in {"dq", "sq"} /\ Go(c, <<c>>)
    BY <1>2, <2>2, <2>5
  <2>6. CASE c = ";" /\ Token(<<c>>, pos + 1) /\ GotStatementEnd
    <3>1. IsSemi(<<c>>)
      BY <2>6, Zenon DEF IsSemi
    <3> QED BY <1>0, <1>4, <2>6, <3>1
  <2>7. CASE c = "{" /\ Token(<<c>>, pos + 1) /\ GotStartBlock
    <3>1. IsOpen(<<c>>)
      BY <2>7, Zenon DEF IsOpen
    <3> QED BY <1>0, <1>4, <2>7, <3>1
  <2>8. CASE c = "}" /\ Token(<<c>>, pos + 1) /\ GotEndBlock
    <3>1. IsClose(<<c>>)
      BY <2>8, Zenon DEF IsClose
    <3> QED BY <1>0, <1>4, <2>8, <3>1
  <2>9. CASE c \in {"bs", "listen", "a", "0", "7"} /\ Go("normal", <<c>>)
    BY <1>2, <2>2, <2>9
  <2> QED BY <1>6, <2>3, <2>4, <2>5, <2>6, <2>7, <2>8, <2>9 DEF InitialWhitespace
<1>7. CASE Quoted(c)
  <2>0. state \in {"dq", "sq"}
    BY <1>7 DEF Quoted
  <2>1. CASE Error
    <3>1. outcome' = "false" /\ state' = state
      BY <2>1 DEF Error, Stop
    <3> QED BY <2>0, <3>1 DEF GrammarInv, Reading, Parsing, VerdictExact
  <2>2. CASE Token(Append(value, c), pos + 1) /\ GotNormal(Append(value, c))
    BY <1>0, <1>3, <1>5, <2>0, <2>2
  <2>3. CASE Go("escape_dq", value) \/ Go("escape_sq", value)
             \/ Go(state, Append(value, c))
    BY <1>2, <1>5, <2>0, <2>3
  <2> QED BY <1>7, <2>1, <2>2, <2>3 DEF Quoted
<1>8. CASE Escape(c)
  BY <1>2, <1>5, <1>8 DEF Escape
<1>9. CASE Comment(c)
  <2>1. Go("initial", <<>>) \/ Go("comment", Append(value, c))
    BY <1>9 DEF Comment
  <2> QED BY <1>2, <2>1
<1>10. CASE Normal(c)
  <2>0. state = "normal"
    BY <1>10 DEF Normal
  <2>1. \/ Token(value, pos) /\ GotNormal(value)
        \/ Go("normal", Append(value, c))
    BY <1>10 DEF Normal
  <2> QED BY <1>0, <1>2, <1>3, <1>5, <2>0, <2>1
<1> QED BY <1>6, <1>7, <1>8, <1>9, <1>10 DEF ParseToken

LEMMA GrammarStart ==
  ASSUME NEW o \in {"running", "not_opened"},
         outcome' = o, state' = "initial", seen' = <<>>, last_token_type' = "START",
         stack' = << 1 >>
  PROVE  GrammarInv'
<1>1. Len(stack') = 1
  OBVIOUS
<1>2. Latest(seen', last_token_type') /\ Standing(seen', last_token_type', Len(stack'))
  BY <1>1, StandingStart
<1> QED BY <1>2 DEF GrammarInv, Reading, Parsing, VerdictExact

LEMMA GrammarInit == Init => GrammarInv
<1> SUFFICES ASSUME Init PROVE GrammarInv
  OBVIOUS
<1>1. /\ outcome \in {"running", "not_opened"} /\ state = "initial" /\ seen = <<>>
      /\ last_token_type = "START" /\ stack = <<1>>
  BY DEF Init
<1>2. Len(stack) = 1
  BY <1>1
<1>3. Latest(seen, last_token_type) /\ Standing(seen, last_token_type, Len(stack))
  BY <1>1, <1>2, StandingStart
<1> QED BY <1>1, <1>3 DEF GrammarInv, Reading, Parsing, VerdictExact

LEMMA GrammarStep ==
  ASSUME Inv, ReadType, ReadType', GrammarInv, [Next]_vars
  PROVE  GrammarInv'
<1>1. CASE UNCHANGED vars
  BY <1>1 DEF vars, GrammarInv, Reading, Parsing, VerdictExact
<1>2. ASSUME NEW c \in Chars, ParseToken(c) PROVE GrammarInv'
  BY <1>2, TokenVerdict
<1>3. CASE EndOfFile
  <2>0. /\ outcome = "running" /\ pos = Len(text) /\ Parsing
        /\ UNCHANGED <<pos, text, state, seen>>
    BY <1>3 DEF EndOfFile, Same, GrammarInv
  <2>1. CASE state \in {"dq", "sq"}
    <3>1. outcome' = "false"
      BY <1>3, <2>1 DEF EndOfFile, Stop
    <3> QED BY <2>0, <2>1, <3>1 DEF GrammarInv, Reading, Parsing, VerdictExact
  <2>2. CASE state \notin {"dq", "sq"}
    <3>1. GotEof
      BY <1>3, <2>2 DEF EndOfFile
    <3>2. /\ outcome' \in {"true", "false", "undefined"}
          /\ outcome' = "true" <=> IsConfig(seen')
      BY <2>0, <3>1, EofVerdict
    <3>3. ~(pos' < Len(text'))
      BY <2>0 DEF ReadType
    <3>4. VerdictExact'
      BY <3>2, <3>3 DEF VerdictExact
    <3> QED BY <3>2, <3>4 DEF GrammarInv, Reading, Parsing
  <2> QED BY <2>1, <2>2
<1>4. CASE Main
  BY <1>4 DEF Main, GrammarInv, Reading, Parsing, VerdictExact
<1>5. CASE Reparse
  <2>1. /\ outcome' = "running" /\ state' = "initial" /\ seen' = <<>>
        /\ last_token_type' = "START" /\ stack' = <<1>>
    BY <1>5 DEF Reparse, NewFile
  <2> QED BY <2>1, GrammarStart
<1> QED BY <1>1, <1>2, <1>3, <1>4, <1>5 DEF Next

(* Parse is right about the tokens ParseToken finds in any file: it        *)
(* returns true only if they are a configuration, and it returns false, or *)
(* calls top() or pop() of an empty stack, only at a quote that does not   *)
(* end properly, at a token that no configuration has there or at an end   *)
(* no configuration has.                                                   *)
THEOREM VerdictIsExact == Spec => []VerdictExact
<1>1. Init => Inv /\ ReadType /\ PrintType /\ GrammarInv
  BY InvInit, TypesInit, GrammarInit
<1>2. Inv /\ ReadType /\ PrintType /\ GrammarInv /\ [Next]_vars
        => Inv' /\ ReadType' /\ PrintType' /\ GrammarInv'
  BY InvStep, TypesStep, GrammarStep
<1>3. GrammarInv => VerdictExact
  BY DEF GrammarInv
<1> QED BY <1>1, <1>2, <1>3, PTL DEF Spec

-----------------------------------------------------------------------------
(* The pieces of a text, joined one by one.                                *)
Joins(S, seqs, P) ==
  /\ P \in [0..Len(seqs) -> Seq(S)] /\ P[0] = <<>>
  /\ \A i \in 1..Len(seqs) : P[i] = P[i - 1] \o seqs[i]

LEMMA JoinsExist ==
  ASSUME NEW S, NEW seqs \in Seq(Seq(S))
  PROVE  \E P : Joins(S, seqs, P)
<1> DEFINE L == Len(seqs)
           Q == Seq(S)
           step == [x \in (1..L) \X Q |-> x[2] \o seqs[x[1]]]
<1>1. L \in Nat /\ <<>> \in Q /\ \A i \in 1..L : seqs[i] \in Q
  OBVIOUS
<1>2. ASSUME NEW i \in 1..L, NEW u \in Q PROVE u \o seqs[i] \in Q
  BY <1>1, ConcatProperties
<1> HIDE DEF L, Q
<1>3. step \in [(1..L) \X Q -> Q]
  BY <1>2
<1>4. \A i \in 1..L, u \in Q : step[<<i, u>>] = u \o seqs[i]
  OBVIOUS
<1> HIDE DEF step
<1>5. PICK P : Recursion(Q, L, <<>>, step, P)
  BY <1>1, <1>3, RecursionExists
<1>6. P \in [0..L -> Q] /\ P[0] = <<>> /\ \A i \in 1..L : P[i] = step[<<i, P[i - 1]>>]
  BY <1>5 DEF Recursion
<1>7. ASSUME NEW i \in 1..L PROVE P[i] = P[i - 1] \o seqs[i]
  <2>1. i - 1 \in 0..L
    BY <1>1
  <2> QED BY <1>4, <1>6, <2>1
<1> QED BY <1>6, <1>7 DEF Joins, L, Q

LEMMA FlattenJoins ==
  ASSUME NEW S, NEW seqs \in Seq(Seq(S)), NEW P, Joins(S, seqs, P)
  PROVE  FlattenSeq(seqs) = P[Len(seqs)]
<1> DEFINE L == Len(seqs)
           Next1(f, i) == IF i = 1 THEN seqs[i] ELSE f[i - 1] \o seqs[i]
           Eq(f) == f = [i \in 1..L |-> Next1(f, i)]
           flatten == CHOOSE f : Eq(f)
           g == [i \in 1..L |-> P[i]]
<1>1. L \in Nat /\ \A i \in 1..L : seqs[i] \in Seq(S)
  OBVIOUS
<1>2. P[0] = <<>> /\ \A i \in 1..L : P[i] = P[i - 1] \o seqs[i]
  BY DEF Joins
<1>3. CASE L = 0
  <2>1. seqs = <<>>
    BY <1>3, EmptySeq
  <2> QED BY <1>2, <1>3, <2>1 DEF FlattenSeq
<1>4. CASE L # 0
  <2>1. FlattenSeq(seqs) = flatten[L]
    BY <1>4 DEF FlattenSeq
  <2>2. 1 \in 1..L /\ 1 - 1 = 0
    BY <1>1, <1>4
  <2>3. P[1] = seqs[1]
    <3>1. <<>> \o seqs[1] = seqs[1]
      BY <1>1, <2>2, ConcatEmptySeq
    <3> QED BY <1>2, <2>2, <3>1
  <2>4. ASSUME NEW i \in 1..L PROVE g[i] = Next1(g, i)
    <3>1. CASE i = 1
      BY <2>3, <3>1
    <3>2. CASE i # 1
      <4>1. i - 1 \in 1..L
        BY <1>1, <3>2
      <4>2. g[i] = P[i] /\ g[i - 1] = P[i - 1]
        BY <4>1
      <4> QED BY <1>2, <3>2, <4>2
    <3> QED BY <3>1, <3>2
  <2>5. Eq(g)
    <3> HIDE DEF Next1
    <3> QED BY <2>4
  <2>6. Eq(flatten)
    <3> HIDE DEF Eq
    <3> QED BY <2>5
  <2> HIDE DEF flatten
  <2>7. \A i \in 1..L : flatten[i] = Next1(flatten, i)
    BY <2>6
  <2> DEFINE T == {m \in 0..L : m > 0 => flatten[m] = P[m]}
  <2>8. 0 \in T
    BY <1>1
  <2>9. ASSUME NEW m \in 0..(L - 1), m \in T PROVE m + 1 \in T
    <3>1. m + 1 \in 1..L /\ (m + 1) - 1 = m /\ m + 1 \in 0..L
      BY <1>1
    <3>2. CASE m = 0
      BY <2>3, <2>7, <3>1, <3>2
    <3>3. CASE m # 0
      <4>1. flatten[m] = P[m] /\ m + 1 # 1
        BY <2>9, <3>3
      <4>2. flatten[m + 1] = flatten[m] \o seqs[m + 1]
        BY <2>7, <3>1, <4>1
      <4> QED BY <1>2, <3>1, <4>1, <4>2
    <3> QED BY <3>2, <3>3
  <2>10. \A m \in 0..L : m \in T
    <3> HIDE DEF T
    <3> QED BY <1>1, <2>8, <2>9, UptoInduction
  <2>11. flatten[L] = P[L]
    BY <1>1, <1>4, <2>10
  <2> QED BY <2>1, <2>11
<1> QED BY <1>3, <1>4

LEMMA FlattenMore ==
  ASSUME NEW S, NEW u \in Seq(Seq(S)), NEW v \in Seq(Seq(S)),
         Len(v) = Len(u) + 1, \A i \in 1..Len(u) : v[i] = u[i]
  PROVE  FlattenSeq(v) = FlattenSeq(u) \o v[Len(v)]
<1> DEFINE L == Len(u)
<1>1. L \in Nat /\ L \in 0..L
  OBVIOUS
<1>2. PICK P : Joins(S, v, P)
  BY JoinsExist
<1> DEFINE R == [i \in 0..L |-> P[i]]
<1>3. /\ P \in [0..(L + 1) -> Seq(S)] /\ P[0] = <<>>
      /\ \A i \in 1..(L + 1) : P[i] = P[i - 1] \o v[i]
  BY <1>2 DEF Joins
<1>4. /\ \A i \in 0..L : i \in 0..(L + 1)
      /\ \A i \in 1..L : i \in 1..(L + 1) /\ i \in 0..L /\ i - 1 \in 0..L
      /\ L + 1 \in 1..(L + 1) /\ (L + 1) - 1 = L /\ 0 \in 0..L
  BY <1>1
<1>5. R \in [0..L -> Seq(S)] /\ \A i \in 0..L : R[i] = P[i]
  BY <1>3, <1>4
<1> HIDE DEF R, L
<1>6. Joins(S, u, R)
  <2>1. ASSUME NEW i \in 1..L PROVE R[i] = R[i - 1] \o u[i]
    <3>1. v[i] = u[i]
      BY DEF L
    <3> QED BY <1>3, <1>4, <1>5, <3>1
  <2> QED BY <1>3, <1>4, <1>5, <2>1 DEF Joins, L
<1>7. FlattenSeq(u) = P[L]
  BY <1>1, <1>5, <1>6, FlattenJoins DEF L
<1>8. FlattenSeq(v) = P[L + 1]
  BY <1>2, FlattenJoins DEF L
<1>9. P[L + 1] = P[L] \o v[L + 1]
  BY <1>3, <1>4
<1> QED BY <1>7, <1>8, <1>9 DEF L

-----------------------------------------------------------------------------
(* The tokens of a block's first m statements, with those of its blocks    *)
(* from f.                                                                 *)
Semi == << <<";">> >>
OpenBrace == << <<"{">> >>
CloseBrace == << <<"}">> >>

StatementTokens(f, st) ==
  st.tokens \o (IF st.child = None THEN Semi
                ELSE OpenBrace \o f[st.child] \o CloseBrace)
PartTokens(f, b, m) == FlattenSeq([i \in 1..m |-> StatementTokens(f, b[i])])

LEMMA BraceTokens == Semi \in Tokens /\ OpenBrace \in Tokens /\ CloseBrace \in Tokens
<1>0. "{" \in Chars
  BY DEF Chars
<1>1. <<";">> \in Seq(Chars) /\ <<"{">> \in Seq(Chars) /\ <<"}">> \in Seq(Chars)
  BY <1>0, CharTexts, Zenon
<1>2. \A x \in Seq(Chars) : <<x>> \in Tokens
  BY DEF Tokens
<1> QED BY <1>1, <1>2, Zenon DEF Semi, OpenBrace, CloseBrace

LEMMA TokensConcat ==
  /\ <<>> \in Tokens
  /\ \A u, v \in Tokens : u \o v \in Tokens
  /\ \A u, v, w \in Tokens : (u \o v) \o w = u \o (v \o w)
  /\ \A u \in Tokens : u \o <<>> = u /\ <<>> \o u = u
  /\ \A u \in Tokens, x \in Seq(Chars) : <<x>> \in Tokens /\ Append(u, x) = u \o <<x>>
<1>1. <<>> \in Tokens
  BY DEF Tokens
<1>2. \A u, v \in Tokens : u \o v \in Tokens
  BY ConcatProperties DEF Tokens
<1>3. \A u, v, w \in Tokens : (u \o v) \o w = u \o (v \o w)
  <2> DEFINE S == Seq(Chars)
  <2>1. Tokens = Seq(S)
    BY DEF Tokens
  <2> HIDE DEF S
  <2> QED BY <2>1, ConcatAssociative
<1>4. \A u \in Tokens : u \o <<>> = u /\ <<>> \o u = u
  BY ConcatEmptySeq DEF Tokens
<1>5. \A u \in Tokens, x \in Seq(Chars) : <<x>> \in Tokens /\ Append(u, x) = u \o <<x>>
  BY AppendIsConcat DEF Tokens
<1> QED BY <1>1, <1>2, <1>3, <1>4, <1>5

LEMMA TokensAssoc ==
  ASSUME NEW u \in Tokens, NEW v \in Tokens, NEW w \in Tokens
  PROVE  (u \o v) \o w = u \o (v \o w)
BY TokensConcat

LEMMA StatementTokensType ==
  ASSUME NEW f, NEW st \in Statement, st.child # None => f[st.child] \in Tokens
  PROVE  StatementTokens(f, st) \in Tokens
<1>1. st.tokens \in Tokens
  BY DEF Statement, Tokens
<1> QED BY <1>1, BraceTokens, TokensConcat DEF StatementTokens

(* The blocks of b's first m statements are in A.                          *)
Within(b, m, A) == \A i \in 1..m : b[i].child # None => b[i].child \in A

LEMMA PartPieces ==
  ASSUME NEW A, NEW f \in [A -> Tokens], NEW b \in Seq(Statement), NEW m \in 0..Len(b),
         Within(b, m, A)
  PROVE  [i \in 1..m |-> StatementTokens(f, b[i])] \in Seq(Tokens)
<1>1. ASSUME NEW i \in 1..m PROVE StatementTokens(f, b[i]) \in Tokens
  <2>1. i \in 1..Len(b)
    OBVIOUS
  <2>2. b[i] \in Statement
    BY <2>1, ElementOfSeq
  <2> QED BY <2>2, StatementTokensType DEF Within
<1>2. m \in Nat
  OBVIOUS
<1> QED BY <1>1, <1>2, IsASeq

LEMMA PartType ==
  ASSUME NEW A, NEW f \in [A -> Tokens], NEW b \in Seq(Statement), NEW m \in 0..Len(b),
         Within(b, m, A)
  PROVE  PartTokens(f, b, m) \in Tokens
BY PartPieces, FlattenType DEF PartTokens, Tokens

LEMMA PartNone ==
  ASSUME NEW f, NEW b
  PROVE  PartTokens(f, b, 0) = <<>>
<1>1. [i \in 1..0 |-> StatementTokens(f, b[i])] = <<>>
  OBVIOUS
<1>2. FlattenSeq(<<>>) = <<>>
  BY DEF FlattenSeq
<1> QED BY <1>1, <1>2 DEF PartTokens

LEMMA PartMore ==
  ASSUME NEW A, NEW f \in [A -> Tokens], NEW b \in Seq(Statement),
         NEW m \in 1..Len(b), Within(b, m, A)
  PROVE  PartTokens(f, b, m) = PartTokens(f, b, m - 1) \o StatementTokens(f, b[m])
<1> DEFINE piece(i) == StatementTokens(f, b[i])
           u == [i \in 1..(m - 1) |-> piece(i)]
           v == [i \in 1..m |-> piece(i)]
<1>1. m - 1 \in 0..Len(b) /\ m \in 0..Len(b) /\ m \in 1..m /\ m \in Nat /\ m - 1 \in Nat
      /\ \A i \in 1..(m - 1) : i \in 1..m
  OBVIOUS
<1>2. Within(b, m - 1, A)
  BY <1>1 DEF Within
<1>3. u \in Seq(Seq(Seq(Chars))) /\ v \in Seq(Seq(Seq(Chars)))
  BY <1>1, <1>2, PartPieces DEF Tokens
<1> HIDE DEF piece
<1>4. Len(u) = m - 1 /\ Len(v) = m /\ v[m] = piece(m) /\ \A i \in 1..(m - 1) : v[i] = u[i]
  BY <1>1
<1> HIDE DEF u, v
<1>5. Len(v) = Len(u) + 1 /\ \A i \in 1..Len(u) : v[i] = u[i]
  BY <1>1, <1>4
<1>6. FlattenSeq(v) = FlattenSeq(u) \o v[Len(v)]
  BY <1>3, <1>5, FlattenMore
<1> QED BY <1>4, <1>6 DEF PartTokens, u, v, piece

LEMMA PartSame ==
  ASSUME NEW f, NEW g, NEW b, NEW c, NEW m,
         \A i \in 1..m : /\ b[i] = c[i]
                         /\ b[i].child # None => f[b[i].child] = g[b[i].child]
  PROVE  PartTokens(f, b, m) = PartTokens(g, c, m)
<1>1. ASSUME NEW i \in 1..m PROVE StatementTokens(f, b[i]) = StatementTokens(g, c[i])
  BY DEF StatementTokens
<1>2. [i \in 1..m |-> StatementTokens(f, b[i])] = [i \in 1..m |-> StatementTokens(g, c[i])]
  BY <1>1
<1> QED BY <1>2 DEF PartTokens

LEMMA PartCopy ==
  ASSUME NEW f, NEW b, NEW c, NEW m, \A i \in 1..m : c[i] = b[i]
  PROVE  PartTokens(f, c, m) = PartTokens(f, b, m)
<1>1. [i \in 1..m |-> StatementTokens(f, c[i])] = [i \in 1..m |-> StatementTokens(f, b[i])]
  OBVIOUS
<1> QED BY <1>1 DEF PartTokens

Solves(f, tree, n) == f[n] = PartTokens(f, tree[n], Len(tree[n]))

(* TokensOf is the recursion's only solution.                              *)
LEMMA TokensSolved ==
  ASSUME NEW tree \in Seq(Seq(Statement)), tree # <<>>, Descends(tree),
         NEW f \in [1..Len(tree) -> Tokens],
         \A n \in 1..Len(tree) : Solves(f, tree, n)
  PROVE  TokensOf(tree) = f[1]
<1> DEFINE N == Len(tree)
           Part(g, n) == PartTokens(g, tree[n], Len(tree[n]))
           Eq(g) == g = [n \in DOMAIN tree |-> Part(g, n)]
           block == CHOOSE g : Eq(g)
<1>1. N \in Nat /\ N # 0 /\ DOMAIN tree = 1..N
  BY EmptySeq
<1>2. TokensOf(tree) = block[1]
  BY DEF TokensOf, PartTokens, StatementTokens, Semi, OpenBrace, CloseBrace
<1>3. Eq(f)
  <2>1. \A n \in 1..N : f[n] = Part(f, n)
    BY DEF Solves
  <2> HIDE DEF Part
  <2> QED BY <1>1, <2>1
<1>4. Eq(block)
  <2> HIDE DEF Eq
  <2> QED BY <1>3
<1> HIDE DEF block
<1>5. \A n \in 1..N : block[n] = Part(block, n)
  <2> HIDE DEF Part
  <2> QED BY <1>1, <1>4
<1> DEFINE T == {n \in 1..N : block[n] = f[n]}
<1>6. ASSUME NEW n \in 1..N, \A k \in (n + 1)..N : k \in T PROVE n \in T
  <2>1. ASSUME NEW i \in 1..Len(tree[n]), tree[n][i].child # None
        PROVE  block[tree[n][i].child] = f[tree[n][i].child]
    <3>1. tree[n][i].child \in (n + 1)..N
      BY <2>1 DEF Descends
    <3> QED BY <1>6, <3>1
  <2>2. Part(block, n) = Part(f, n)
    BY <2>1, PartSame
  <2> QED BY <1>5, <2>2 DEF Solves
<1>7. \A n \in 1..N : n \in T
  <2> HIDE DEF T, N
  <2> QED BY <1>1, <1>6, DownInduction
<1> QED BY <1>1, <1>2, <1>7

-----------------------------------------------------------------------------
(* The heap while Parse builds the tree.                                   *)

Heap(bs, st) ==
  /\ bs \in Seq(Seq(Statement))
  /\ st \in Seq(1..Len(bs)) /\ Len(st) > 0

(* The blocks that are not open.                                           *)
Off(bs, st) == {n \in 1..Len(bs) : \A i \in 1..Len(st) : st[i] # n}

(* An open block's last statement owns the next open one; the blocks of    *)
(* all other statements are closed.                                        *)
Chain(bs, st) ==
  /\ st[1] = 1
  /\ \A i, j \in 1..Len(st) : st[i] = st[j] => i = j
  /\ \A n \in Off(bs, st) : Within(bs[n], Len(bs[n]), Off(bs, st))
  /\ \A i \in 1..(Len(st) - 1) :
       /\ Len(bs[st[i]]) > 0
       /\ Within(bs[st[i]], Len(bs[st[i]]) - 1, Off(bs, st))
       /\ bs[st[i]][Len(bs[st[i]])].child = st[i + 1]
  /\ Within(bs[st[Len(st)]], Len(bs[st[Len(st)]]), Off(bs, st))

(* All of a block but what ends its last statement.                        *)
Words1(f, b) == PartTokens(f, b, Len(b) - 1) \o b[Len(b)].tokens

(* f has the tokens of the closed blocks, P those before the i-th open     *)
(* one.                                                                    *)
Spells(bs, st, f, P) ==
  /\ f \in [1..Len(bs) -> Tokens]
  /\ \A n \in Off(bs, st) : Solves(f, bs, n)
  /\ P \in [0..(Len(st) - 1) -> Tokens] /\ P[0] = <<>>
  /\ \A i \in 1..(Len(st) - 1) : P[i] = P[i - 1] \o (Words1(f, bs[st[i]]) \o OpenBrace)

Innermost(f, b, type) ==
  IF type = "NORMAL" THEN Words1(f, b) ELSE PartTokens(f, b, Len(b))

Built(bs, st, type, s) ==
  /\ Chain(bs, st)
  /\ \E f, P : /\ Spells(bs, st, f, P)
               /\ s = P[Len(st) - 1] \o Innermost(f, bs[st[Len(st)]], type)

LEMMA HeapTop ==
  ASSUME NEW bs, NEW st, Heap(bs, st)
  PROVE  /\ Len(st) \in Nat /\ Len(st) \in 1..Len(st) /\ Len(st) - 1 \in 0..(Len(st) - 1)
         /\ Len(bs) \in Nat
         /\ st[Len(st)] \in 1..Len(bs)
         /\ \A i \in 1..Len(st) : st[i] \in 1..Len(bs) /\ bs[st[i]] \in Seq(Statement)
         /\ \A n \in 1..Len(bs) : bs[n] \in Seq(Statement) /\ Len(bs[n]) \in Nat
<1>1. Len(st) \in Nat /\ Len(bs) \in Nat
  BY DEF Heap
<1>2. \A n \in 1..Len(bs) : bs[n] \in Seq(Statement)
  BY ElementOfSeq DEF Heap
<1>3. \A i \in 1..Len(st) : st[i] \in 1..Len(bs)
  BY ElementOfSeq DEF Heap
<1>4. Len(st) \in 1..Len(st) /\ Len(st) - 1 \in 0..(Len(st) - 1)
  BY <1>1 DEF Heap
<1>5. \A n \in 1..Len(bs) : Len(bs[n]) \in Nat
  BY <1>2, LenProperties
<1> QED BY <1>1, <1>2, <1>3, <1>4, <1>5

(* Only the innermost open block changes.                                  *)
LEMMA Retop ==
  ASSUME NEW bs, NEW st, Heap(bs, st), Chain(bs, st), NEW cs, Len(cs) = Len(bs),
         \A n \in 1..Len(bs) : n # st[Len(st)] => cs[n] = bs[n],
         Within(cs[st[Len(st)]], Len(cs[st[Len(st)]]), Off(bs, st))
  PROVE  /\ Chain(cs, st)
         /\ \A f, P : Spells(bs, st, f, P) => Spells(cs, st, f, P)
<1> DEFINE k == Len(st)
           O == Off(bs, st)
<1>0. /\ k \in Nat /\ k \in 1..k /\ Len(bs) \in Nat
      /\ \A i \in 1..k : st[i] \in 1..Len(bs)
  BY HeapTop
<1>1. Off(cs, st) = O
  BY DEF Off
<1>2. \A n \in O : cs[n] = bs[n]
  BY <1>0 DEF Off
<1>3. ASSUME NEW i \in 1..(k - 1) PROVE i \in 1..k /\ i + 1 \in 1..k /\ cs[st[i]] = bs[st[i]]
  <2>1. i \in 1..k /\ i # k /\ i + 1 \in 1..k
    BY <1>0
  <2>2. st[i] # st[k]
    BY <1>0, <2>1 DEF Chain
  <2> QED BY <1>0, <2>1, <2>2
<1>4. Chain(cs, st)
  BY <1>1, <1>2, <1>3 DEF Chain
<1>5. ASSUME NEW f, NEW P, Spells(bs, st, f, P) PROVE Spells(cs, st, f, P)
  BY <1>1, <1>2, <1>3, <1>5 DEF Spells, Solves
<1> QED BY <1>4, <1>5

LEMMA SameStatement ==
  ASSUME NEW bs, NEW st, Heap(bs, st), NEW s, NEW x \in Seq(Chars), IsSemi(x),
         Built(bs, st, "NORMAL", s), Len(bs[st[Len(st)]]) > 0,
         bs[st[Len(st)]][Len(bs[st[Len(st)]])].child = None
  PROVE  Built(bs, st, "STATEMENT_END", Append(s, x))
<1> DEFINE k == Len(st)
           b == bs[st[k]]
           n == Len(b)
<1>0. k \in Nat /\ k \in 1..k /\ k - 1 \in 0..(k - 1) /\ st[k] \in 1..Len(bs)
      /\ b \in Seq(Statement) /\ n \in Nat
  BY HeapTop
<1>1. PICK f, P : Spells(bs, st, f, P) /\ s = P[k - 1] \o Innermost(f, b, "NORMAL")
  BY DEF Built
<1>2. Chain(bs, st)
  BY DEF Built
<1> HIDE DEF k, b, n
<1>3. f \in [1..Len(bs) -> Tokens] /\ P[k - 1] \in Tokens
  BY <1>0, <1>1 DEF Spells, k
<1>4. Within(b, n, 1..Len(bs)) /\ Within(b, n - 1, 1..Len(bs))
  <2>1. \A i \in 1..(n - 1) : i \in 1..n
    BY <1>0
  <2>2. Within(b, n, Off(bs, st))
    BY <1>2 DEF Chain, b, k, n
  <2> QED BY <2>1, <2>2 DEF Within, Off
<1>5. n \in 1..n /\ n \in 0..n /\ n - 1 \in 0..n
  BY <1>0 DEF n, b, k
<1>6. PartTokens(f, b, n) = PartTokens(f, b, n - 1) \o StatementTokens(f, b[n])
  BY <1>0, <1>3, <1>4, <1>5, PartMore DEF n
<1>7. StatementTokens(f, b[n]) = b[n].tokens \o Semi
  BY DEF StatementTokens, n, b, k
<1>8. PartTokens(f, b, n - 1) \in Tokens /\ b[n].tokens \in Tokens
  <2>1. b[n] \in Statement
    BY <1>0, <1>5, ElementOfSeq DEF n
  <2>2. b[n].tokens \in Tokens
    BY <2>1 DEF Statement, Tokens
  <2>3. PartTokens(f, b, n - 1) \in Tokens
    BY <1>0, <1>3, <1>4, <1>5, PartType DEF n
  <2> QED BY <2>2, <2>3
<1>9. s = P[k - 1] \o (PartTokens(f, b, n - 1) \o b[n].tokens)
  BY <1>1 DEF Innermost, Words1, n
<1>10. s \in Tokens /\ Append(s, x) = s \o Semi
  <2>1. s \in Tokens
    BY <1>3, <1>8, <1>9, TokensConcat
  <2>2. Append(s, x) = s \o <<x>>
    BY <2>1, TokensConcat
  <2>3. <<x>> = Semi
    BY Zenon DEF Semi, IsSemi
  <2> QED BY <2>1, <2>2, <2>3
<1>11. Append(s, x) = P[k - 1] \o PartTokens(f, b, n)
  <2> DEFINE p == P[k - 1]
             q == PartTokens(f, b, n - 1)
             r == b[n].tokens
  <2>1. p \in Tokens /\ q \in Tokens /\ r \in Tokens /\ Semi \in Tokens
    BY <1>3, <1>8, BraceTokens
  <2>2. s \o Semi = (p \o (q \o r)) \o Semi
    BY <1>9
  <2>3. PartTokens(f, b, n) = q \o (r \o Semi)
    BY <1>6, <1>7
  <2> HIDE DEF p, q, r
  <2>4. (p \o (q \o r)) \o Semi = p \o ((q \o r) \o Semi)
    <3>1. q \o r \in Tokens
      BY <2>1, TokensConcat
    <3> QED BY <2>1, <3>1, TokensConcat
  <2>5. (q \o r) \o Semi = q \o (r \o Semi)
    BY <2>1, TokensConcat
  <2> QED BY <1>10, <2>2, <2>3, <2>4, <2>5 DEF p
<1>12. Innermost(f, b, "STATEMENT_END") = PartTokens(f, b, n)
  BY DEF Innermost, n
<1> QED BY <1>1, <1>2, <1>11, <1>12 DEF Built, k, b

(* What is known of the i-th open block.                                   *)
LEMMA OpenBlock ==
  ASSUME NEW bs, NEW st, Heap(bs, st), Chain(bs, st), NEW f, NEW P,
         Spells(bs, st, f, P), NEW i \in 1..Len(st), NEW b, b = bs[st[i]]
  PROVE  /\ b \in Seq(Statement) /\ Len(b) \in Nat
         /\ f \in [1..Len(bs) -> Tokens] /\ P[i - 1] \in Tokens
         /\ Off(bs, st) \subseteq 1..Len(bs)
         /\ Len(b) > 0 => /\ Within(b, Len(b) - 1, Off(bs, st))
                          /\ PartTokens(f, b, Len(b) - 1) \in Tokens
                          /\ b[Len(b)] \in Statement /\ b[Len(b)].tokens \in Tokens
         /\ i = Len(st) => /\ Within(b, Len(b), Off(bs, st))
                           /\ PartTokens(f, b, Len(b)) \in Tokens
<1> DEFINE n == Len(b)
           O == Off(bs, st)
<1>1. b \in Seq(Statement) /\ n \in Nat /\ Len(st) \in Nat
  BY HeapTop
<1>2. f \in [1..Len(bs) -> Tokens] /\ P[i - 1] \in Tokens
  <2>1. i - 1 \in 0..(Len(st) - 1)
    BY <1>1
  <2> QED BY <2>1 DEF Spells
<1>3. O \subseteq 1..Len(bs)
  BY DEF Off
<1> HIDE DEF n, O
<1>4. i = Len(st) => Within(b, n, O)
  BY DEF Chain, n, O
<1>5. n > 0 => Within(b, n - 1, O)
  <2>1. CASE i = Len(st)
    <3>1. \A j \in 1..(n - 1) : j \in 1..n
      BY <1>1
    <3> QED BY <1>4, <2>1, <3>1 DEF Within
  <2>2. CASE i # Len(st)
    <3>1. i \in 1..(Len(st) - 1)
      BY <1>1, <2>2
    <3> QED BY <3>1 DEF Chain, n, O
  <2> QED BY <2>1, <2>2
<1>6. \A m : Within(b, m, O) => Within(b, m, 1..Len(bs))
  BY <1>3 DEF Within
<1>7. ASSUME n > 0
      PROVE  PartTokens(f, b, n - 1) \in Tokens /\ b[n] \in Statement /\ b[n].tokens \in Tokens
  <2>1. n \in 1..n /\ n - 1 \in 0..n
    BY <1>1, <1>7
  <2>2. b[n] \in Statement
    BY <1>1, <2>1, ElementOfSeq DEF n
  <2>3. b[n].tokens \in Tokens
    BY <2>2 DEF Statement, Tokens
  <2>4. PartTokens(f, b, n - 1) \in Tokens
    BY <1>1, <1>2, <1>5, <1>6, <1>7, <2>1, PartType DEF n
  <2> QED BY <2>2, <2>3, <2>4
<1>8. ASSUME i = Len(st) PROVE PartTokens(f, b, n) \in Tokens
  <2>1. n \in 0..n
    BY <1>1
  <2> QED BY <1>1, <1>2, <1>4, <1>6, <1>8, <2>1, PartType DEF n
<1> QED BY <1>1, <1>2, <1>3, <1>4, <1>5, <1>7, <1>8 DEF n, O

(* b, the top block of bs, becomes c in cs.                                *)
Replaces(bs, st, b, c, cs) ==
  /\ b = bs[st[Len(st)]] /\ c = cs[st[Len(st)]] /\ Len(cs) = Len(bs)
  /\ \A n \in 1..Len(bs) : n # st[Len(st)] => cs[n] = bs[n]

(* c is b with x in its last statement.                                    *)
JoinsLast(b, c, x) ==
  /\ Len(b) > 0 /\ Len(c) = Len(b)
  /\ \A i \in 1..(Len(b) - 1) : c[i] = b[i]
  /\ c[Len(b)].tokens = Append(b[Len(b)].tokens, x) /\ c[Len(b)].child = None

(* c is b and a statement x behind it.                                     *)
AddsOne(b, c, x) ==
  /\ Len(c) = Len(b) + 1
  /\ \A i \in 1..Len(b) : c[i] = b[i]
  /\ c[Len(b) + 1].tokens = <<x>> /\ c[Len(b) + 1].child = None

LEMMA LastOrBefore == \A n \in Nat : \A i \in 1..n : i = n \/ i \in 1..(n - 1)
OBVIOUS

LEMMA JoinWord ==
  ASSUME NEW bs, NEW st, Heap(bs, st), NEW s, NEW x \in Seq(Chars),
         Built(bs, st, "NORMAL", s),
         NEW b, NEW c, NEW cs, Replaces(bs, st, b, c, cs), JoinsLast(b, c, x)
  PROVE  Built(cs, st, "NORMAL", Append(s, x))
<1> DEFINE k == Len(st)
           n == Len(b)
<1>r. /\ b = bs[st[k]] /\ c = cs[st[k]] /\ Len(cs) = Len(bs)
      /\ \A i \in 1..Len(bs) : i # st[k] => cs[i] = bs[i]
  BY DEF Replaces
<1>j. /\ n > 0 /\ Len(c) = n /\ \A i \in 1..(n - 1) : c[i] = b[i]
      /\ c[n].tokens = Append(b[n].tokens, x) /\ c[n].child = None
  BY DEF JoinsLast
<1>0. k \in Nat /\ k \in 1..k
  BY HeapTop
<1>1. PICK f, P : Spells(bs, st, f, P) /\ s = P[k - 1] \o Innermost(f, b, "NORMAL")
  BY <1>r DEF Built
<1>2. Chain(bs, st)
  BY DEF Built
<1>3. /\ b \in Seq(Statement) /\ n \in Nat /\ P[k - 1] \in Tokens
      /\ Within(b, n - 1, Off(bs, st))
      /\ PartTokens(f, b, n - 1) \in Tokens /\ b[n].tokens \in Tokens
  BY <1>0, <1>1, <1>2, <1>r, <1>j, OpenBlock
<1>4. Within(c, n, Off(bs, st))
  <2>1. \A i \in 1..n : i = n \/ i \in 1..(n - 1)
    BY <1>3, LastOrBefore
  <2> QED BY <1>3, <1>j, <2>1 DEF Within
<1>5. Chain(cs, st) /\ Spells(cs, st, f, P)
  BY <1>1, <1>2, <1>4, <1>r, <1>j, Retop
<1>6. PartTokens(f, c, n - 1) = PartTokens(f, b, n - 1)
  <2>1. PICK m : m = n - 1
    OBVIOUS
  <2>2. \A i \in 1..m : c[i] = b[i]
    BY <1>j, <2>1
  <2> QED BY <2>1, <2>2, PartCopy
<1>7. Append(s, x) = P[k - 1] \o Words1(f, c)
  <2> DEFINE p == P[k - 1]
             q == PartTokens(f, b, n - 1)
             r == b[n].tokens
  <2>1. p \in Tokens /\ q \in Tokens /\ r \in Tokens /\ <<x>> \in Tokens
    BY <1>3, TokensConcat
  <2>2. s = p \o (q \o r)
    BY <1>1 DEF Innermost, Words1
  <2>3. Words1(f, c) = q \o Append(r, x)
    BY <1>6, <1>j DEF Words1
  <2> HIDE DEF p, q, r
  <2>4. q \o r \in Tokens /\ s \in Tokens
    BY <2>1, <2>2, TokensConcat
  <2>5. Append(s, x) = s \o <<x>> /\ Append(r, x) = r \o <<x>>
    BY <2>1, <2>4, TokensConcat
  <2>6. (p \o (q \o r)) \o <<x>> = p \o ((q \o r) \o <<x>>)
    BY <2>1, <2>4, TokensConcat
  <2>7. (q \o r) \o <<x>> = q \o (r \o <<x>>)
    BY <2>1, TokensConcat
  <2> QED BY <2>2, <2>3, <2>5, <2>6, <2>7 DEF p
<1> QED BY <1>5, <1>7, <1>r DEF Built, Innermost

LEMMA NewWord ==
  ASSUME NEW bs, NEW st, Heap(bs, st), NEW s, NEW x \in Seq(Chars),
         NEW type, type # "NORMAL", Built(bs, st, type, s),
         NEW b, NEW c, NEW cs, Replaces(bs, st, b, c, cs), AddsOne(b, c, x)
  PROVE  Built(cs, st, "NORMAL", Append(s, x))
<1> DEFINE k == Len(st)
           n == Len(b)
<1>r. /\ b = bs[st[k]] /\ c = cs[st[k]] /\ Len(cs) = Len(bs)
      /\ \A i \in 1..Len(bs) : i # st[k] => cs[i] = bs[i]
  BY DEF Replaces
<1>j. /\ Len(c) = n + 1 /\ \A i \in 1..n : c[i] = b[i]
      /\ c[n + 1].tokens = <<x>> /\ c[n + 1].child = None
  BY DEF AddsOne
<1>0. k \in Nat /\ k \in 1..k
  BY HeapTop
<1>1. PICK f, P : Spells(bs, st, f, P) /\ s = P[k - 1] \o Innermost(f, b, type)
  BY <1>r DEF Built
<1>2. Chain(bs, st)
  BY DEF Built
<1>3. /\ b \in Seq(Statement) /\ n \in Nat /\ P[k - 1] \in Tokens
      /\ Within(b, n, Off(bs, st)) /\ PartTokens(f, b, n) \in Tokens
  BY <1>0, <1>1, <1>2, <1>r, <1>j, OpenBlock
<1>4. Within(c, n + 1, Off(bs, st))
  <2>1. \A i \in 1..(n + 1) : i = n + 1 \/ i \in 1..n
    BY <1>3
  <2> QED BY <1>3, <1>j, <2>1 DEF Within
<1>5. Chain(cs, st) /\ Spells(cs, st, f, P)
  BY <1>1, <1>2, <1>4, <1>r, <1>j, Retop
<1>6. PartTokens(f, c, n) = PartTokens(f, b, n)
  BY <1>j, PartCopy
<1>7. Append(s, x) = P[k - 1] \o Words1(f, c)
  <2> DEFINE p == P[k - 1]
             q == PartTokens(f, b, n)
  <2>1. p \in Tokens /\ q \in Tokens /\ <<x>> \in Tokens
    BY <1>3, TokensConcat
  <2>2. s = p \o q
    BY <1>1 DEF Innermost
  <2>3. (n + 1) - 1 = n
    BY <1>3
  <2>4. Words1(f, c) = q \o <<x>>
    BY <1>6, <1>j, <2>3 DEF Words1
  <2> HIDE DEF p, q
  <2>5. s \in Tokens
    BY <2>1, <2>2, TokensConcat
  <2>6. Append(s, x) = s \o <<x>>
    BY <2>5, TokensConcat
  <2>7. (p \o q) \o <<x>> = p \o (q \o <<x>>)
    BY <2>1, TokensConcat
  <2> QED BY <2>2, <2>4, <2>6, <2>7 DEF p
<1> QED BY <1>5, <1>7, <1>r DEF Built, Innermost

LEMMA PartAgree ==
  ASSUME NEW f, NEW g, NEW b, NEW m, NEW A, Within(b, m, A), \A a \in A : f[a] = g[a]
  PROVE  PartTokens(f, b, m) = PartTokens(g, b, m)
<1>1. \A i \in 1..m : b[i].child # None => f[b[i].child] = g[b[i].child]
  BY DEF Within
<1> QED BY <1>1, PartSame

(* From the heap and stack bs, st to cs, ts: b, the top, becomes c, and    *)
(* new is opened.                                                          *)
Opens(bs, st, b, c, new, cs, ts) ==
  /\ b = bs[st[Len(st)]] /\ Len(b) > 0
  /\ new = Len(bs) + 1 /\ Len(cs) = new /\ cs[new] = <<>>
  /\ \A n \in 1..Len(bs) : n # st[Len(st)] => cs[n] = bs[n]
  /\ c = cs[st[Len(st)]] /\ Len(c) = Len(b)
  /\ \A i \in 1..(Len(b) - 1) : c[i] = b[i]
  /\ c[Len(b)].tokens = b[Len(b)].tokens /\ c[Len(b)].child = new
  /\ Len(ts) = Len(st) + 1 /\ ts[Len(st) + 1] = new
  /\ \A i \in 1..Len(st) : ts[i] = st[i]

LEMMA OpenBuilt ==
  ASSUME NEW bs, NEW st, Heap(bs, st), NEW s, NEW x \in Seq(Chars), IsOpen(x),
         Built(bs, st, "NORMAL", s),
         NEW b, NEW c, NEW new, NEW cs, NEW ts, Opens(bs, st, b, c, new, cs, ts)
  PROVE  Built(cs, ts, "START_BLOCK", Append(s, x))
<1> SUFFICES ASSUME b = bs[st[Len(st)]], Len(b) > 0,
                    new = Len(bs) + 1, Len(cs) = new, cs[new] = <<>>,
                    \A n \in 1..Len(bs) : n # st[Len(st)] => cs[n] = bs[n],
                    c = cs[st[Len(st)]], Len(c) = Len(b),
                    \A i \in 1..(Len(b) - 1) : c[i] = b[i],
                    c[Len(b)].tokens = b[Len(b)].tokens, c[Len(b)].child = new,
                    Len(ts) = Len(st) + 1, ts[Len(st) + 1] = new,
                    \A i \in 1..Len(st) : ts[i] = st[i]
             PROVE  Built(cs, ts, "START_BLOCK", Append(s, x))
  BY DEF Opens
<1> DEFINE k == Len(st)
           n == Len(b)
           N == Len(bs)
           O == Off(bs, st)
<1>0. /\ k \in Nat /\ k \in 1..k /\ N \in Nat /\ new \in Nat /\ new \notin 1..N
      /\ \A i \in 1..k : st[i] \in 1..N
  BY HeapTop
<1>1. PICK f, P : Spells(bs, st, f, P) /\ s = P[k - 1] \o Innermost(f, b, "NORMAL")
  BY DEF Built
<1>2. Chain(bs, st)
  BY DEF Built
<1>3. /\ b \in Seq(Statement) /\ n \in Nat /\ P[k - 1] \in Tokens
      /\ Within(b, n - 1, O) /\ O \subseteq 1..N
      /\ PartTokens(f, b, n - 1) \in Tokens /\ b[n].tokens \in Tokens
  BY <1>0, <1>1, <1>2, OpenBlock
<1>4. Off(cs, ts) = O
  <2>1. ASSUME NEW m \in Off(cs, ts) PROVE m \in O
    <3>1. m \in 1..new /\ \A i \in 1..(k + 1) : ts[i] # m
      BY DEF Off
    <3>2. m # new
      <4>1. k + 1 \in 1..(k + 1)
        BY <1>0
      <4> QED BY <3>1, <4>1
    <3>3. m \in 1..N
      BY <1>0, <3>1, <3>2
    <3>4. \A i \in 1..k : st[i] # m
      <4>1. \A i \in 1..k : i \in 1..(k + 1)
        BY <1>0
      <4> QED BY <3>1, <4>1
    <3> QED BY <3>3, <3>4 DEF Off
  <2>2. ASSUME NEW m \in O PROVE m \in Off(cs, ts)
    <3>1. m \in 1..N /\ \A i \in 1..k : st[i] # m
      BY DEF Off
    <3>2. m \in 1..new /\ m # new
      BY <1>0, <3>1
    <3>3. ASSUME NEW i \in 1..(k + 1) PROVE ts[i] # m
      <4>1. i = k + 1 \/ i \in 1..k
        BY <1>0
      <4> QED BY <3>1, <3>2, <4>1
    <3> QED BY <3>2, <3>3 DEF Off
  <2> QED BY <2>1, <2>2
<1>5. \A m \in O : cs[m] = bs[m] /\ m \in 1..N
  BY <1>0 DEF Off
<1>6. ASSUME NEW i \in 1..(k - 1)
      PROVE  /\ i \in 1..k /\ ts[i] = st[i] /\ ts[i + 1] = st[i + 1]
             /\ cs[st[i]] = bs[st[i]]
  <2>1. i \in 1..k /\ i # k /\ i + 1 \in 1..k
    BY <1>0
  <2>2. st[i] # st[k]
    BY <1>0, <1>2, <2>1 DEF Chain
  <2> QED BY <1>0, <2>1, <2>2
<1>7. Chain(cs, ts)
  <2>1. ts[1] = 1
    <3>1. 1 \in 1..k
      BY <1>0
    <3> QED BY <1>2, <3>1 DEF Chain
  <2>2. ASSUME NEW i \in 1..(k + 1), NEW j \in 1..(k + 1), ts[i] = ts[j] PROVE i = j
    <3>1. (i = k + 1 \/ i \in 1..k) /\ (j = k + 1 \/ j \in 1..k)
      BY <1>0
    <3>2. \A m \in 1..k : ts[m] = st[m] /\ ts[m] # new
      BY <1>0
    <3> QED BY <1>2, <2>2, <3>1, <3>2 DEF Chain
  <2>3. ASSUME NEW m \in O PROVE Within(cs[m], Len(cs[m]), O)
    BY <1>2, <1>5 DEF Chain
  <2>4. ASSUME NEW i \in 1..k
        PROVE  /\ Len(cs[ts[i]]) > 0
               /\ Within(cs[ts[i]], Len(cs[ts[i]]) - 1, O)
               /\ cs[ts[i]][Len(cs[ts[i]])].child = ts[i + 1]
    <3>1. CASE i \in 1..(k - 1)
      <4>1. /\ Len(bs[st[i]]) > 0 /\ Within(bs[st[i]], Len(bs[st[i]]) - 1, O)
            /\ bs[st[i]][Len(bs[st[i]])].child = st[i + 1]
        BY <1>2, <3>1 DEF Chain
      <4>2. cs[ts[i]] = bs[st[i]] /\ ts[i + 1] = st[i + 1]
        BY <1>6, <3>1
      <4> QED BY <4>1, <4>2
    <3>2. CASE i = k
      <4>1. cs[ts[i]] = c /\ ts[i + 1] = new
        BY <1>0, <3>2
      <4>2. Within(c, n - 1, O)
        BY <1>3 DEF Within
      <4> QED BY <4>1, <4>2
    <3> QED BY <1>0, <3>1, <3>2
  <2>5. Within(cs[ts[k + 1]], Len(cs[ts[k + 1]]), O)
    <3>1. cs[ts[k + 1]] = <<>>
      OBVIOUS
    <3>2. Len(<<>>) = 0 /\ 1..0 = {}
      OBVIOUS
    <3> QED BY <3>1, <3>2 DEF Within
  <2>6. (k + 1) - 1 = k
    BY <1>0
  <2> HIDE DEF k, O
  <2> QED BY <1>4, <2>1, <2>2, <2>3, <2>4, <2>5, <2>6 DEF Chain, k
<1> DEFINE g == [m \in 1..new |-> IF m = new THEN <<>> ELSE f[m]]
           Z == P[k - 1] \o (Words1(f, b) \o OpenBrace)
           R == [i \in 0..k |-> IF i = k THEN Z ELSE P[i]]
<1>8. /\ f \in [1..N -> Tokens] /\ P \in [0..(k - 1) -> Tokens] /\ P[0] = <<>>
      /\ \A i \in 1..(k - 1) : P[i] = P[i - 1] \o (Words1(f, bs[st[i]]) \o OpenBrace)
      /\ \A m \in O : Solves(f, bs, m)
  BY <1>1 DEF Spells
<1>9. g \in [1..new -> Tokens] /\ \A m \in 1..N : g[m] = f[m]
  <2>1. /\ \A m \in 1..new : m = new \/ m \in 1..N
        /\ \A m \in 1..N : m \in 1..new /\ m # new
    BY <1>0
  <2>2. <<>> \in Tokens
    BY TokensConcat
  <2> HIDE DEF N
  <2> QED BY <1>8, <2>1, <2>2
<1>10. Z \in Tokens
  BY <1>3, BraceTokens, TokensConcat DEF Words1
<1> HIDE DEF Z
<1>11. R \in [0..k -> Tokens] /\ R[k] = Z /\ \A i \in 0..(k - 1) : R[i] = P[i]
  <2>1. /\ \A i \in 0..k : i = k \/ i \in 0..(k - 1)
        /\ \A i \in 0..(k - 1) : i \in 0..k /\ i # k
        /\ k \in 0..k
    BY <1>0
  <2> HIDE DEF k
  <2> QED BY <1>8, <1>10, <2>1
<1> HIDE DEF g, R
<1>12. \A m \in O : g[m] = f[m]
  BY <1>5, <1>9
<1>13. ASSUME NEW i \in 1..k PROVE Words1(g, cs[ts[i]]) = Words1(f, bs[st[i]])
  <2>1. CASE i \in 1..(k - 1)
    <3>1. Within(bs[st[i]], Len(bs[st[i]]) - 1, O)
      BY <1>2, <2>1 DEF Chain
    <3>2. PartTokens(g, bs[st[i]], Len(bs[st[i]]) - 1)
            = PartTokens(f, bs[st[i]], Len(bs[st[i]]) - 1)
      BY <1>12, <3>1, PartAgree
    <3> QED BY <1>6, <2>1, <3>2 DEF Words1
  <2>2. CASE i = k
    <3>1. cs[ts[i]] = c /\ bs[st[i]] = b
      BY <1>0, <2>2
    <3>2. PartTokens(g, c, n - 1) = PartTokens(g, b, n - 1)
      <4>1. PICK m : m = n - 1
        OBVIOUS
      <4>2. \A j \in 1..m : c[j] = b[j]
        BY <4>1
      <4>3. PartTokens(g, c, m) = PartTokens(g, b, m)
        BY <4>2, PartCopy
      <4> QED BY <4>1, <4>3
    <3>3. PartTokens(g, b, n - 1) = PartTokens(f, b, n - 1)
      BY <1>3, <1>12, PartAgree
    <3> QED BY <3>1, <3>2, <3>3 DEF Words1
  <2> QED BY <1>0, <2>1, <2>2
<1>14. Spells(cs, ts, g, R)
  <2>1. ASSUME NEW m \in O PROVE Solves(g, cs, m)
    <3>1. Within(bs[m], Len(bs[m]), O)
      BY <1>2 DEF Chain
    <3>2. PartTokens(g, bs[m], Len(bs[m])) = PartTokens(f, bs[m], Len(bs[m]))
      BY <1>12, <3>1, PartAgree
    <3> QED BY <1>5, <1>8, <1>12, <3>2 DEF Solves
  <2>2. ASSUME NEW i \in 1..k
        PROVE  R[i] = R[i - 1] \o (Words1(g, cs[ts[i]]) \o OpenBrace)
    <3>1. i - 1 \in 0..(k - 1) /\ (i = k \/ i \in 1..(k - 1))
      BY <1>0
    <3>2. i \in 1..(k - 1) => i \in 0..(k - 1)
      BY <1>0
    <3>3. CASE i = k
      <4>1. bs[st[i]] = b
        BY <3>3
      <4> QED BY <1>11, <1>13, <3>1, <3>3, <4>1 DEF Z
    <3>4. CASE i \in 1..(k - 1)
      BY <1>8, <1>11, <1>13, <3>1, <3>2, <3>4
    <3> QED BY <3>1, <3>3, <3>4
  <2>3. (k + 1) - 1 = k /\ 0 \in 0..(k - 1)
    BY <1>0
  <2> HIDE DEF k, O
  <2> QED BY <1>4, <1>8, <1>9, <1>11, <2>1, <2>2, <2>3 DEF Spells, k
<1>15. Append(s, x) = Z
  <2> DEFINE p == P[k - 1]
             w == Words1(f, b)
  <2>1. p \in Tokens /\ w \in Tokens /\ OpenBrace \in Tokens
    BY <1>3, BraceTokens, TokensConcat DEF Words1
  <2>2. s = p \o w
    BY <1>1 DEF Innermost
  <2> HIDE DEF p, w
  <2>3. s \in Tokens
    BY <2>1, <2>2, TokensConcat
  <2>4. Append(s, x) = s \o <<x>>
    BY <2>3, TokensConcat
  <2>5. <<x>> = OpenBrace
    BY Zenon DEF OpenBrace, IsOpen
  <2>6. (p \o w) \o OpenBrace = p \o (w \o OpenBrace)
    BY <2>1, TokensConcat
  <2> QED BY <2>2, <2>4, <2>5, <2>6 DEF Z, p, w
<1>16. Append(s, x) = R[Len(ts) - 1] \o Innermost(g, cs[ts[Len(ts)]], "START_BLOCK")
  <2>1. Len(ts) - 1 = k /\ cs[ts[Len(ts)]] = <<>> /\ Len(<<>>) = 0
    BY <1>0
  <2>2. Innermost(g, <<>>, "START_BLOCK") = <<>>
    BY <2>1, PartNone DEF Innermost
  <2>3. Z \o <<>> = Z
    BY <1>10, TokensConcat
  <2> QED BY <1>11, <1>15, <2>1, <2>2, <2>3
<1> QED BY <1>7, <1>14, <1>16 DEF Built

(* The innermost block is complete.                                        *)
Completed(f, bs, t) == [f EXCEPT ![t] = PartTokens(f, bs[t], Len(bs[t]))]

LEMMA CloseTop ==
  ASSUME NEW bs, NEW st, Heap(bs, st), Chain(bs, st), NEW f, NEW P,
         Spells(bs, st, f, P), NEW t, t = st[Len(st)],
         NEW g, g = Completed(f, bs, t)
  PROVE  /\ g \in [1..Len(bs) -> Tokens]
         /\ g[t] = PartTokens(f, bs[t], Len(bs[t]))
         /\ \A m \in Off(bs, st) : g[m] = f[m]
         /\ \A m \in Off(bs, st) \cup {t} : Solves(g, bs, m)
<1> DEFINE O == Off(bs, st)
           v == PartTokens(f, bs[t], Len(bs[t]))
<1>0. Len(st) \in 1..Len(st) /\ t \in 1..Len(bs)
  BY HeapTop
<1>1. /\ f \in [1..Len(bs) -> Tokens] /\ v \in Tokens /\ O \subseteq 1..Len(bs)
      /\ Within(bs[t], Len(bs[t]), O)
  BY <1>0, OpenBlock
<1>2. \A m \in O : m \in 1..Len(bs) /\ m # t
  BY <1>0, <1>1 DEF Off
<1> HIDE DEF O, v
<1>3. /\ g \in [1..Len(bs) -> Tokens] /\ g[t] = v /\ \A m \in O : g[m] = f[m]
  <2>1. g = [f EXCEPT ![t] = v]
    BY DEF v, Completed
  <2> QED BY <1>0, <1>1, <1>2, <2>1
<1>4. \A m \in O : f[m] = g[m]
  BY <1>3
<1>5. ASSUME NEW m \in O PROVE Solves(g, bs, m)
  <2>1. Within(bs[m], Len(bs[m]), O)
    BY DEF Chain, O
  <2>2. PartTokens(f, bs[m], Len(bs[m])) = PartTokens(g, bs[m], Len(bs[m]))
    BY <1>4, <2>1, PartAgree
  <2>3. f[m] = PartTokens(f, bs[m], Len(bs[m]))
    BY DEF Spells, Solves, O
  <2> QED BY <1>3, <2>2, <2>3 DEF Solves
<1>6. Solves(g, bs, t)
  <2>1. PartTokens(f, bs[t], Len(bs[t])) = PartTokens(g, bs[t], Len(bs[t]))
    <3>1. Within(bs[t], Len(bs[t]), O)
      BY <1>1
    <3> QED BY <1>4, <3>1, PartAgree
  <2> QED BY <1>3, <2>1 DEF Solves, v
<1> QED BY <1>3, <1>5, <1>6 DEF O, v

Assoc(u, v, w) == (u \o v) \o w = u \o (v \o w)

LEMMA TokensJoin ==
  ASSUME NEW u \in Tokens, NEW v \in Tokens, NEW w \in Tokens
  PROVE  Assoc(u, v, w)
BY TokensAssoc DEF Assoc

AllTokens(p, q, r, u) == p \in Tokens /\ q \in Tokens /\ r \in Tokens /\ u \in Tokens

(* A statement and its block, behind p.                                    *)
Regroups(p, q, r, u) ==
  ((p \o ((q \o r) \o OpenBrace)) \o u) \o CloseBrace
    = p \o (q \o (r \o ((OpenBrace \o u) \o CloseBrace)))

LEMMA FiveJoin ==
  ASSUME NEW p, NEW q, NEW r, NEW u, AllTokens(p, q, r, u)
  PROVE  Regroups(p, q, r, u)
<1>p. p \in Tokens /\ u \in Tokens
  BY DEF AllTokens
<1>q. q \in Tokens /\ r \in Tokens
  BY DEF AllTokens
<1>o. OpenBrace \in Tokens /\ CloseBrace \in Tokens
  BY BraceTokens
<1>1. PICK w : w = q \o r
  OBVIOUS
<1>2. PICK d : d = w \o OpenBrace
  OBVIOUS
<1>3. PICK y : y = u \o CloseBrace
  OBVIOUS
<1>4. PICK z : z = OpenBrace \o y
  OBVIOUS
<1>5. PICK e : e = p \o d
  OBVIOUS
<1>6. w \in Tokens
  BY <1>1, <1>q, TokensConcat
<1>7. d \in Tokens
  BY <1>2, <1>6, <1>o, TokensConcat
<1>8. y \in Tokens
  BY <1>3, <1>p, <1>o, TokensConcat
<1>9. z \in Tokens
  BY <1>4, <1>8, <1>o, TokensConcat
<1>10. e \in Tokens
  BY <1>5, <1>7, <1>p, TokensConcat
<1>11. (e \o u) \o CloseBrace = e \o y
  <2>1. Assoc(e, u, CloseBrace)
    BY <1>10, <1>p, <1>o, TokensJoin
  <2> QED BY <1>3, <2>1 DEF Assoc
<1>12. e \o y = p \o (d \o y)
  <2>1. Assoc(p, d, y)
    BY <1>7, <1>8, <1>p, TokensJoin
  <2> QED BY <1>5, <2>1 DEF Assoc
<1>13. d \o y = w \o z
  <2>1. Assoc(w, OpenBrace, y)
    BY <1>6, <1>8, <1>o, TokensJoin
  <2> QED BY <1>2, <1>4, <2>1 DEF Assoc
<1>14. w \o z = q \o (r \o z)
  <2>1. Assoc(q, r, z)
    BY <1>9, <1>q, TokensJoin
  <2> QED BY <1>1, <2>1 DEF Assoc
<1>15. (OpenBrace \o u) \o CloseBrace = z
  <2>1. Assoc(OpenBrace, u, CloseBrace)
    BY <1>p, <1>o, TokensJoin
  <2> QED BY <1>3, <1>4, <2>1 DEF Assoc
<1> QED BY <1>1, <1>2, <1>5, <1>11, <1>12, <1>13, <1>14, <1>15 DEF Regroups

LEMMA CloseBuilt ==
  ASSUME NEW bs, NEW st, Heap(bs, st), NEW s, NEW x \in Seq(Chars), IsClose(x),
         NEW type, type # "NORMAL", Built(bs, st, type, s), Len(st) > 1,
         NEW ts, Len(ts) = Len(st) - 1, \A i \in 1..(Len(st) - 1) : ts[i] = st[i]
  PROVE  Built(bs, ts, "END_BLOCK", Append(s, x))
<1> DEFINE k == Len(st)
           N == Len(bs)
           O == Off(bs, st)
           t == st[k]
           b == bs[st[k - 1]]
           n == Len(b)
           A == Off(bs, ts)
<1>0. /\ k \in Nat /\ k \in 1..k /\ k - 1 \in 1..k /\ N \in Nat /\ t \in 1..N
      /\ \A i \in 1..k : st[i] \in 1..N
      /\ \A i \in 1..k : i = k \/ i \in 1..(k - 1)
      /\ \A i \in 1..(k - 1) : i \in 1..k /\ i # k
  BY HeapTop
<1>1. PICK f, P : Spells(bs, st, f, P) /\ s = P[k - 1] \o Innermost(f, bs[t], type)
  BY DEF Built
<1>2. Chain(bs, st)
  BY DEF Built
<1>3. \A i, j \in 1..k : st[i] = st[j] => i = j
  BY <1>2 DEF Chain
<1>4. A = O \cup {t}
  <2>1. \A m \in 1..N : (\A i \in 1..(k - 1) : ts[i] # m) <=>
                        (\A i \in 1..k : st[i] # m) \/ m = t
    BY <1>0, <1>3
  <2>2. \A m : m \in A <=> m \in 1..N /\ \A i \in 1..(k - 1) : ts[i] # m
    BY DEF Off
  <2>3. \A m : m \in O <=> m \in 1..N /\ \A i \in 1..k : st[i] # m
    BY DEF Off
  <2> HIDE DEF A, O, k, t, N
  <2>4. \A m : m \in A <=> m \in O \/ m = t
    BY <1>0, <2>1, <2>2, <2>3
  <2> QED BY <2>4
<1>5. /\ b \in Seq(Statement) /\ n \in Nat /\ f \in [1..N -> Tokens]
      /\ P[(k - 1) - 1] \in Tokens /\ O \subseteq 1..N
      /\ n > 0 => /\ Within(b, n - 1, O)
                  /\ PartTokens(f, b, n - 1) \in Tokens
                  /\ b[n] \in Statement /\ b[n].tokens \in Tokens
  BY <1>0, <1>1, <1>2, OpenBlock
<1>6. n > 0 /\ b[n].child = t
  <2>1. k - 1 \in 1..(k - 1) /\ (k - 1) + 1 = k
    BY <1>0
  <2> QED BY <1>2, <2>1 DEF Chain
<1>7. Within(bs[t], Len(bs[t]), O) /\ PartTokens(f, bs[t], Len(bs[t])) \in Tokens
  BY <1>0, <1>1, <1>2, OpenBlock
<1> DEFINE g == Completed(f, bs, t)
           R == [i \in 0..(k - 2) |-> P[i]]
<1>8. /\ g \in [1..N -> Tokens] /\ g[t] = PartTokens(f, bs[t], Len(bs[t]))
      /\ \A m \in O : g[m] = f[m]
      /\ \A m \in A : Solves(g, bs, m)
  <2>1. PICK h : h = g
    OBVIOUS
  <2>2. /\ h \in [1..Len(bs) -> Tokens]
        /\ h[t] = PartTokens(f, bs[t], Len(bs[t]))
        /\ \A m \in Off(bs, st) : h[m] = f[m]
        /\ \A m \in Off(bs, st) \cup {t} : Solves(h, bs, m)
    <3>1. t = st[Len(st)]
      OBVIOUS
    <3> HIDE DEF t
    <3> QED BY <1>1, <1>2, <2>1, <3>1, CloseTop
  <2> HIDE DEF A, g
  <2> QED BY <1>4, <2>1, <2>2
<1>9. Chain(bs, ts)
  <2>0. /\ Len(ts) = k - 1 /\ 1 \in 1..(k - 1) /\ k - 1 \in 1..(k - 1)
        /\ \A i \in 1..((k - 1) - 1) : i \in 1..(k - 1) /\ i + 1 \in 1..(k - 1)
    BY <1>0
  <2>1. ts[1] = 1
    BY <1>2, <2>0 DEF Chain
  <2>2. \A i, j \in 1..(k - 1) : ts[i] = ts[j] => i = j
    BY <1>0, <1>3
  <2>3. \A c, m : Within(c, m, O) => Within(c, m, A)
    BY <1>4 DEF Within
  <2>4. ASSUME NEW m \in A PROVE Within(bs[m], Len(bs[m]), A)
    <3>1. m \in O => Within(bs[m], Len(bs[m]), O)
      BY <1>2 DEF Chain
    <3> QED BY <1>4, <1>7, <2>3, <3>1
  <2>5. ASSUME NEW i \in 1..((k - 1) - 1)
        PROVE  /\ Len(bs[ts[i]]) > 0
               /\ Within(bs[ts[i]], Len(bs[ts[i]]) - 1, A)
               /\ bs[ts[i]][Len(bs[ts[i]])].child = ts[i + 1]
    <3>1. i \in 1..(k - 1) /\ ts[i] = st[i] /\ ts[i + 1] = st[i + 1]
      BY <2>0
    <3>2. /\ Len(bs[st[i]]) > 0
          /\ Within(bs[st[i]], Len(bs[st[i]]) - 1, O)
          /\ bs[st[i]][Len(bs[st[i]])].child = st[i + 1]
      BY <1>2, <3>1 DEF Chain
    <3> QED BY <2>3, <3>1, <3>2
  <2>6. Within(b, n, A)
    <3>1. \A i \in 1..n : i = n \/ i \in 1..(n - 1)
      BY <1>5
    <3> QED BY <1>4, <1>5, <1>6, <3>1 DEF Within
  <2>7. Within(bs[ts[k - 1]], Len(bs[ts[k - 1]]), A)
    BY <2>0, <2>6
  <2> HIDE DEF k, A
  <2> QED BY <2>0, <2>1, <2>2, <2>4, <2>5, <2>7 DEF Chain, A
<1>10. /\ P \in [0..(k - 1) -> Tokens] /\ P[0] = <<>>
       /\ \A i \in 1..(k - 1) : P[i] = P[i - 1] \o (Words1(f, bs[st[i]]) \o OpenBrace)
  BY <1>1 DEF Spells
<1>11. R \in [0..(k - 2) -> Tokens] /\ \A i \in 0..(k - 2) : R[i] = P[i]
  <2>1. \A i \in 0..(k - 2) : i \in 0..(k - 1)
    BY <1>0
  <2> QED BY <1>10, <2>1
<1> HIDE DEF R, g
<1>12. \A m \in O : f[m] = g[m]
  BY <1>8
<1>13. Spells(bs, ts, g, R)
  <2>0. /\ Len(ts) - 1 = k - 2 /\ 0 \in 0..(k - 2)
        /\ \A i \in 1..(k - 2) : i \in 1..(k - 1) /\ i \in 0..(k - 2) /\ i - 1 \in 0..(k - 2)
    BY <1>0
  <2>1. ASSUME NEW i \in 1..(k - 2)
        PROVE  R[i] = R[i - 1] \o (Words1(g, bs[ts[i]]) \o OpenBrace)
    <3>1. i \in 1..(k - 1) /\ ts[i] = st[i]
      BY <2>0
    <3>2. Within(bs[st[i]], Len(bs[st[i]]) - 1, O)
      BY <1>2, <3>1 DEF Chain
    <3>3. Words1(f, bs[st[i]]) = Words1(g, bs[st[i]])
      <4>1. PartTokens(f, bs[st[i]], Len(bs[st[i]]) - 1)
              = PartTokens(g, bs[st[i]], Len(bs[st[i]]) - 1)
        BY <1>12, <3>2, PartAgree
      <4> QED BY <4>1 DEF Words1
    <3> QED BY <1>10, <1>11, <2>0, <3>1, <3>3
  <2> HIDE DEF k, A
  <2> QED BY <1>8, <1>10, <1>11, <2>0, <2>1 DEF Spells, A
<1>14. Append(s, x) = R[k - 2] \o PartTokens(g, b, n)
  <2> DEFINE p == P[k - 2]
             q == PartTokens(f, b, n - 1)
             r == b[n].tokens
             u == PartTokens(f, bs[t], Len(bs[t]))
  <2>0. (k - 1) - 1 = k - 2 /\ k - 2 \in 0..(k - 2) /\ k - 1 \in 1..(k - 1)
    BY <1>0
  <2>1. /\ p \in Tokens /\ q \in Tokens /\ r \in Tokens /\ u \in Tokens
        /\ OpenBrace \in Tokens /\ CloseBrace \in Tokens
    BY <1>5, <1>6, <1>7, <2>0, BraceTokens
  <2>2. s = P[k - 1] \o u
    BY <1>1 DEF Innermost
  <2>3. P[k - 1] = p \o ((q \o r) \o OpenBrace)
    <3>1. P[k - 1] = P[(k - 1) - 1] \o (Words1(f, bs[st[k - 1]]) \o OpenBrace)
      BY <1>10, <2>0
    <3> QED BY <2>0, <3>1 DEF Words1
  <2>4. PartTokens(g, b, n) = q \o (r \o ((OpenBrace \o u) \o CloseBrace))
    <3>1. n \in 1..Len(b)
      BY <1>5, <1>6
    <3>2. Within(b, n, 1..N)
      <4>1. \A i \in 1..n : i = n \/ i \in 1..(n - 1)
        BY <1>5
      <4> QED BY <1>0, <1>5, <1>6, <4>1 DEF Within
    <3>3. PartTokens(g, b, n) = PartTokens(g, b, n - 1) \o StatementTokens(g, b[n])
      BY <1>5, <1>8, <3>1, <3>2, PartMore
    <3>4. PartTokens(f, b, n - 1) = PartTokens(g, b, n - 1)
      BY <1>5, <1>6, <1>12, PartAgree
    <3>5. t # None
      BY <1>0 DEF None
    <3>6. StatementTokens(g, b[n]) = r \o ((OpenBrace \o g[t]) \o CloseBrace)
      BY <1>6, <3>5 DEF StatementTokens
    <3> QED BY <1>8, <3>3, <3>4, <3>6
  <2>5. R[k - 2] = p
    BY <1>11, <2>0
  <2> HIDE DEF p, q, r, u
  <2>6. s = (p \o ((q \o r) \o OpenBrace)) \o u
    BY <2>2, <2>3
  <2>7. s \in Tokens
    <3>1. p \o ((q \o r) \o OpenBrace) \in Tokens
      BY <2>1, TokensConcat
    <3> QED BY <2>1, <2>6, <3>1, TokensConcat
  <2>8. Append(s, x) = s \o <<x>>
    BY <2>7, TokensConcat
  <2>9. <<x>> = CloseBrace
    BY Zenon DEF CloseBrace, IsClose
  <2>10. ((p \o ((q \o r) \o OpenBrace)) \o u) \o CloseBrace
           = p \o (q \o (r \o ((OpenBrace \o u) \o CloseBrace)))
    <3>1. AllTokens(p, q, r, u)
      BY <2>1 DEF AllTokens
    <3>2. Regroups(p, q, r, u)
      BY <3>1, FiveJoin
    <3> QED BY <3>2 DEF Regroups
  <2> QED BY <2>4, <2>5, <2>6, <2>8, <2>9, <2>10
<1>15. Append(s, x) = R[Len(ts) - 1] \o Innermost(g, bs[ts[Len(ts)]], "END_BLOCK")
  <2>1. Len(ts) - 1 = k - 2 /\ bs[ts[Len(ts)]] = b
    BY <1>0
  <2>2. Innermost(g, b, "END_BLOCK") = PartTokens(g, b, n)
    BY DEF Innermost
  <2> QED BY <1>14, <2>1, <2>2
<1> QED BY <1>9, <1>13, <1>15 DEF Built

(* The file's block is complete.                                           *)
LEMMA AllBuilt ==
  ASSUME NEW bs, NEW st, Heap(bs, st), Descends(bs), NEW s,
         NEW type, type # "NORMAL", Built(bs, st, type, s), Len(st) = 1
  PROVE  TokensOf(bs) = s
<1>0. 1 \in 1..Len(st) /\ 1 - 1 = 0
  OBVIOUS
<1>1. PICK f, P : /\ Spells(bs, st, f, P)
                  /\ s = P[Len(st) - 1] \o Innermost(f, bs[st[Len(st)]], type)
  BY DEF Built
<1>2. Chain(bs, st) /\ st[1] = 1
  BY DEF Built, Chain
<1> DEFINE v == PartTokens(f, bs[1], Len(bs[1]))
           g == Completed(f, bs, 1)
<1>3. v \in Tokens /\ P[0] = <<>> /\ 1 \in 1..Len(bs)
  <2>1. v \in Tokens
    BY <1>0, <1>1, <1>2, OpenBlock
  <2>2. P[0] = <<>>
    BY <1>1 DEF Spells
  <2>3. 1 \in 1..Len(bs)
    BY <1>0, <1>2, HeapTop
  <2> QED BY <2>1, <2>2, <2>3
<1>4. s = v
  <2>1. s = P[0] \o v
    BY <1>0, <1>1, <1>2 DEF Innermost
  <2> QED BY <1>3, <2>1, TokensConcat
<1>5. /\ g \in [1..Len(bs) -> Tokens] /\ g[1] = v
      /\ \A m \in Off(bs, st) \cup {1} : Solves(g, bs, m)
  BY <1>1, <1>2, CloseTop
<1>6. \A m \in 1..Len(bs) : m \in Off(bs, st) \cup {1}
  BY <1>2 DEF Off
<1>7. bs # <<>> /\ bs \in Seq(Seq(Statement))
  BY <1>3 DEF Heap
<1> QED BY <1>4, <1>5, <1>6, <1>7, TokensSolved

-----------------------------------------------------------------------------
(* The tree while Parse runs.                                              *)

Building ==
  outcome = "running" /\ stack # <<>> => Built(blocks, stack, last_token_type, seen)

LEMMA BuiltStart ==
  ASSUME NEW bs, NEW st, bs = << <<>> >>, st = << 1 >>
  PROVE  Built(bs, st, "START", <<>>)
<1>1. /\ Len(bs) = 1 /\ bs[1] = <<>> /\ Len(bs[1]) = 0
      /\ Len(st) = 1 /\ st[1] = 1
  OBVIOUS
<1>2. Off(bs, st) = {}
  BY <1>1 DEF Off
<1>3. Chain(bs, st)
  <2>1. Within(bs[st[Len(st)]], Len(bs[st[Len(st)]]), Off(bs, st))
    BY <1>1 DEF Within
  <2>2. \A i, j \in 1..Len(st) : st[i] = st[j] => i = j
    BY <1>1
  <2>3. \A i \in 1..(Len(st) - 1) : FALSE
    BY <1>1
  <2> QED BY <1>1, <1>2, <2>1, <2>2, <2>3 DEF Chain
<1> DEFINE f == [n \in 1..1 |-> <<>>]
           P == [i \in 0..0 |-> <<>>]
<1>4. <<>> \in Tokens
  BY DEF Tokens
<1>5. Len(st) - 1 = 0 /\ 0 \in 0..0 /\ \A i \in 1..(Len(st) - 1) : FALSE
  BY <1>1
<1>6. /\ f \in [1..Len(bs) -> Tokens] /\ P \in [0..(Len(st) - 1) -> Tokens]
      /\ P[0] = <<>>
  BY <1>1, <1>4, <1>5
<1> HIDE DEF f, P
<1>7. Spells(bs, st, f, P)
  BY <1>2, <1>5, <1>6 DEF Spells
<1>8. Innermost(f, bs[st[Len(st)]], "START") = <<>>
  <2>1. Innermost(f, bs[st[Len(st)]], "START") = PartTokens(f, bs[1], 0)
    BY <1>1 DEF Innermost
  <2> QED BY <2>1, PartNone
<1>9. <<>> = P[Len(st) - 1] \o Innermost(f, bs[st[Len(st)]], "START")
  BY <1>4, <1>5, <1>6, <1>8, TokensConcat
<1> QED BY <1>3, <1>7, <1>9 DEF Built

(* Parse has a stack whose top is a block.                                 *)
LEMMA HeapHolds ==
  ASSUME Inv, stack # <<>>
  PROVE  Heap(blocks, stack) /\ Top = stack[Len(stack)] /\ Descends(blocks)
<1>1. Len(stack) > 0
  BY EmptySeq DEF Inv, HeapType
<1> QED BY <1>1 DEF Inv, HeapType, Heap, Top, ChildrenBelow, Descends

LEMMA WordBuilds ==
  ASSUME Inv, ReadType, Building, outcome = "running", NEW token \in Seq(Chars),
         seen' = Append(seen, token), GotNormal(token)
  PROVE  Building'
<1> DEFINE b == blocks[Top]
           n == Len(b)
           c == blocks'[Top]
<1>1. CASE stack = <<>>
  BY <1>1 DEF GotNormal, Stop, Building
<1>2. CASE stack # <<>>
  <2>1. /\ Heap(blocks, stack) /\ Top = stack[Len(stack)]
        /\ Built(blocks, stack, last_token_type, seen)
    BY <1>2, HeapHolds DEF Building
  <2>2. /\ b \in Seq(Statement) /\ Top \in 1..Len(blocks) /\ n \in Nat
        /\ blocks \in Seq(Seq(Statement))
    BY <1>2, TopType DEF Inv, HeapType
  <2>3. stack' = stack /\ last_token_type' = "NORMAL"
    BY <1>2 DEF GotNormal, Continue
  <2>4. CASE last_token_type = "NORMAL"
    <3>1. b # <<>>
      BY <2>4 DEF Inv, BackDefined
    <3>2. n > 0 /\ n \in 1..Len(b) /\ b[n] \in Statement /\ b[n].child = None
      BY <2>2, <2>4, <3>1, EmptySeq DEF Inv, BackDefined
    <3> DEFINE tokens == Append(b[n].tokens, token)
               s == [b[n] EXCEPT !.tokens = tokens]
               new == [b EXCEPT ![n] = s]
    <3>3. s.tokens = tokens /\ s.child = None
      <4> HIDE DEF tokens
      <4> QED BY <3>2 DEF Statement
    <3>4. blocks' = [blocks EXCEPT ![Top] = new]
      BY <1>2, <2>4 DEF GotNormal
    <3> HIDE DEF s
    <3>5. Len(new) = n /\ new[n] = s /\ \A i \in 1..(n - 1) : new[i] = b[i]
      BY <2>2, <3>2
    <3> HIDE DEF new
    <3>6. /\ Len(blocks') = Len(blocks) /\ c = new
          /\ \A m \in 1..Len(blocks) : m # Top => blocks'[m] = blocks[m]
      BY <2>2, <3>4
    <3>7. c[n].tokens = tokens /\ c[n].child = None
      BY <3>3, <3>5, <3>6
    <3> HIDE DEF b, c
    <3>8. /\ b = blocks[stack[Len(stack)]] /\ c = blocks'[stack[Len(stack)]]
          /\ \A m \in 1..Len(blocks) : m # stack[Len(stack)] => blocks'[m] = blocks[m]
          /\ Built(blocks, stack, "NORMAL", seen)
      BY <2>1, <2>4, <3>6 DEF b, c
    <3>9. Replaces(blocks, stack, b, c, blocks') /\ JoinsLast(b, c, token)
      BY <3>2, <3>5, <3>6, <3>7, <3>8 DEF Replaces, JoinsLast
    <3>10. Built(blocks', stack, "NORMAL", Append(seen, token))
      BY <2>1, <3>8, <3>9, JoinWord
    <3> QED BY <2>3, <3>10 DEF Building
  <2>5. CASE last_token_type # "NORMAL"
    <3> DEFINE s == [tokens |-> <<token>>, child |-> None]
               new == Append(b, s)
    <3>1. s.tokens = <<token>> /\ s.child = None
      OBVIOUS
    <3>2. blocks' = [blocks EXCEPT ![Top] = new]
      BY <1>2, <2>5 DEF GotNormal
    <3> HIDE DEF s
    <3>3. Len(new) = n + 1 /\ new[n + 1] = s /\ \A i \in 1..n : new[i] = b[i]
      BY <2>2
    <3> HIDE DEF new
    <3>4. /\ Len(blocks') = Len(blocks) /\ c = new
          /\ \A m \in 1..Len(blocks) : m # Top => blocks'[m] = blocks[m]
      BY <2>2, <3>2
    <3>5. c[n + 1].tokens = <<token>> /\ c[n + 1].child = None
      BY <3>1, <3>3, <3>4
    <3> HIDE DEF b, c
    <3>6. /\ b = blocks[stack[Len(stack)]] /\ c = blocks'[stack[Len(stack)]]
          /\ \A m \in 1..Len(blocks) : m # stack[Len(stack)] => blocks'[m] = blocks[m]
          /\ Len(blocks') = Len(blocks)
      BY <2>1, <3>4 DEF b, c
    <3>7. Replaces(blocks, stack, b, c, blocks') /\ AddsOne(b, c, token)
      BY <3>3, <3>4, <3>5, <3>6 DEF Replaces, AddsOne
    <3>8. Built(blocks', stack, "NORMAL", Append(seen, token))
      BY <2>1, <2>5, <3>7, NewWord
    <3> QED BY <2>3, <3>8 DEF Building
  <2> QED BY <2>4, <2>5
<1> QED BY <1>1, <1>2

LEMMA SemiBuilds ==
  ASSUME Inv, ReadType, Building, outcome = "running", NEW token \in Seq(Chars),
         IsSemi(token), seen' = Append(seen, token), GotStatementEnd
  PROVE  Building'
<1>1. CASE last_token_type # "NORMAL"
  BY <1>1 DEF GotStatementEnd, Stop, Building
<1>2. CASE last_token_type = "NORMAL"
  <2>1. stack # <<>> /\ blocks[Top] # <<>> /\ blocks[Top][Len(blocks[Top])].child = None
    BY <1>2 DEF Inv, BackDefined
  <2>2. Heap(blocks, stack) /\ Top = stack[Len(stack)]
    BY <2>1, HeapHolds
  <2>3. Built(blocks, stack, "NORMAL", seen)
    BY <1>2, <2>1 DEF Building
  <2>4. Len(blocks[Top]) > 0
    <3>1. blocks[Top] \in Seq(Statement)
      BY <2>1, TopType DEF Inv
    <3> QED BY <2>1, <3>1, EmptySeq
  <2>5. Built(blocks, stack, "STATEMENT_END", Append(seen, token))
    BY <2>1, <2>2, <2>3, <2>4, SameStatement
  <2>6. blocks' = blocks /\ stack' = stack /\ last_token_type' = "STATEMENT_END"
    BY <1>2 DEF GotStatementEnd, Continue
  <2> QED BY <2>5, <2>6 DEF Building
<1> QED BY <1>1, <1>2

LEMMA OpenBuilds ==
  ASSUME Inv, ReadType, Building, outcome = "running", NEW token \in Seq(Chars),
         IsOpen(token), seen' = Append(seen, token), GotStartBlock
  PROVE  Building'
<1>1. CASE last_token_type # "NORMAL"
  BY <1>1 DEF GotStartBlock, Stop, Building
<1>2. CASE last_token_type = "NORMAL"
  <2> DEFINE b == blocks[Top]
             n == Len(b)
             k == Len(blocks) + 1
             s == [b[n] EXCEPT !.child = k]
             new == [b EXCEPT ![n] = s]
             mid == [blocks EXCEPT ![Top] = new]
             c == blocks'[Top]
  <2>1. stack # <<>> /\ b # <<>>
    BY <1>2 DEF Inv, BackDefined
  <2>2. /\ b \in Seq(Statement) /\ Top \in 1..Len(blocks) /\ n \in Nat
        /\ blocks \in Seq(Seq(Statement)) /\ stack \in Seq(1..Len(blocks))
    BY <2>1, TopType DEF Inv, HeapType
  <2>3. n > 0 /\ n \in 1..Len(b) /\ b[n] \in Statement
    BY <2>1, <2>2, EmptySeq
  <2>4. k \in Nat /\ Len(blocks) \in Nat /\ Len(stack) \in Nat
    BY <2>2
  <2>5. s.tokens = b[n].tokens /\ s.child = k
    <3> HIDE DEF k
    <3> QED BY <2>3 DEF Statement
  <2>6. s \in Statement
    <3> HIDE DEF k
    <3> QED BY <2>3, <2>4 DEF Statement
  <2> HIDE DEF s
  <2>7. /\ new \in Seq(Statement) /\ Len(new) = n /\ new[n] = s
        /\ \A i \in 1..(n - 1) : new[i] = b[i]
    BY <2>2, <2>3, <2>6
  <2> HIDE DEF new
  <2>8. /\ mid \in Seq(Seq(Statement)) /\ Len(mid) = Len(blocks) /\ mid[Top] = new
        /\ \A j \in 1..Len(blocks) : j # Top => mid[j] = blocks[j]
    BY <2>2, <2>7
  <2>9. /\ blocks' = Append(mid, <<>>) /\ stack' = Append(stack, k)
        /\ last_token_type' = "START_BLOCK"
    BY <1>2 DEF GotStartBlock, Continue, s, new
  <2> HIDE DEF mid
  <2>10. /\ Len(blocks') = k /\ blocks'[k] = <<>>
         /\ \A j \in 1..Len(blocks) : blocks'[j] = mid[j]
    BY <2>4, <2>8, <2>9
  <2>11. /\ Len(stack') = Len(stack) + 1 /\ stack'[Len(stack) + 1] = k
         /\ \A i \in 1..Len(stack) : stack'[i] = stack[i]
    BY <2>2, <2>4, <2>9
  <2>12. Heap(blocks, stack) /\ Top = stack[Len(stack)]
    BY <2>1, HeapHolds
  <2>13. Built(blocks, stack, "NORMAL", seen)
    BY <1>2, <2>1 DEF Building
  <2>14. c = new
    BY <2>2, <2>8, <2>10
  <2>15. /\ Len(c) = Len(b) /\ Len(b) > 0
         /\ \A i \in 1..(Len(b) - 1) : c[i] = b[i]
         /\ c[Len(b)].tokens = b[Len(b)].tokens /\ c[Len(b)].child = k
    BY <2>3, <2>5, <2>7, <2>14
  <2>16. \A m \in 1..Len(blocks) : m # Top => blocks'[m] = blocks[m]
    BY <2>8, <2>10
  <2> HIDE DEF b, c, n
  <2>17. /\ b = blocks[stack[Len(stack)]] /\ c = blocks'[stack[Len(stack)]]
         /\ \A m \in 1..Len(blocks) : m # stack[Len(stack)] => blocks'[m] = blocks[m]
    BY <2>12, <2>16 DEF b, c
  <2>18. k = Len(blocks) + 1
    OBVIOUS
  <2> HIDE DEF k
  <2>19. Opens(blocks, stack, b, c, k, blocks', stack')
    BY <2>10, <2>11, <2>15, <2>17, <2>18 DEF Opens
  <2>20. Built(blocks', stack', "START_BLOCK", Append(seen, token))
    BY <2>12, <2>13, <2>19, OpenBuilt
  <2> QED BY <2>9, <2>20 DEF Building
<1> QED BY <1>1, <1>2

LEMMA PopItems ==
  ASSUME NEW S, NEW s \in Seq(S), Len(s) > 0
  PROVE  /\ Len(SubSeq(s, 1, Len(s) - 1)) = Len(s) - 1
         /\ \A i \in 1..(Len(s) - 1) : SubSeq(s, 1, Len(s) - 1)[i] = s[i]
<1>1. /\ 1 \in 1..(Len(s) + 1) /\ Len(s) - 1 \in 0..Len(s)
      /\ (Len(s) - 1) - 1 + 1 = Len(s) - 1
      /\ \A i \in 1..(Len(s) - 1) : 1 + i - 1 = i
  OBVIOUS
<1> QED BY <1>1, SubSeqProperties

LEMMA CloseBuilds ==
  ASSUME Inv, ReadType, Building, outcome = "running", NEW token \in Seq(Chars),
         IsClose(token), seen' = Append(seen, token), GotEndBlock
  PROVE  Building'
<1> DEFINE follows == {"START_BLOCK", "STATEMENT_END", "END_BLOCK"}
<1>1. CASE last_token_type \notin follows \/ stack = <<>>
  BY <1>1 DEF GotEndBlock, Stop, Building
<1>2. CASE last_token_type \in follows /\ stack # <<>>
  <2>1. stack' = Pop /\ blocks' = blocks /\ last_token_type' = "END_BLOCK"
    BY <1>2 DEF GotEndBlock, Continue
  <2>2. Heap(blocks, stack) /\ Built(blocks, stack, last_token_type, seen)
    BY <1>2, HeapHolds DEF Building
  <2>s. stack \in Seq(1..Len(blocks))
    BY <2>2 DEF Heap
  <2>3. Len(stack) \in Nat /\ Len(stack) > 0
    BY <2>2, HeapTop DEF Heap
  <2>4. /\ Len(stack') = Len(stack) - 1
        /\ \A i \in 1..(Len(stack) - 1) : stack'[i] = stack[i]
    <3>1. /\ Len(Pop) = Len(stack) - 1
          /\ \A i \in 1..(Len(stack) - 1) : Pop[i] = stack[i]
      BY <2>s, <2>3, PopItems DEF Pop
    <3> QED BY <2>1, <3>1
  <2>5. CASE Len(stack) > 1
    <3>1. last_token_type # "NORMAL"
      BY <1>2
    <3>2. Built(blocks, stack', "END_BLOCK", Append(seen, token))
      BY <2>2, <2>4, <2>5, <3>1, CloseBuilt
    <3> QED BY <2>1, <3>2 DEF Building
  <2>6. CASE Len(stack) = 1
    <3>1. Pop = <<>>
      BY <2>s, <2>3, <2>6 DEF Pop
    <3>2. stack' = <<>>
      BY <2>1, <3>1
    <3> QED BY <3>2, Zenon DEF Building
  <2>7. Len(stack) > 1 \/ Len(stack) = 1
    <3>1. \A k \in Nat : k > 0 => k > 1 \/ k = 1
      OBVIOUS
    <3> QED BY <2>3, <3>1, Zenon
  <2> QED BY <2>5, <2>6, <2>7, Zenon
<1> QED BY <1>1, <1>2

TreeInv == Building /\ TreeExact

LEMMA EofBuilds ==
  ASSUME Inv, Building, outcome = "running", seen' = seen, GotEof
  PROVE  TreeInv'
<1>1. outcome' # "running" /\ blocks' = blocks
  BY DEF GotEof, Stop
<1>2. ASSUME outcome' = "true" PROVE TokensOf(blocks) = seen
  <2>1. stack # <<>> /\ ~(Len(stack) > 1) /\ last_token_type # "NORMAL"
    BY <1>2 DEF GotEof, Stop
  <2>2. Heap(blocks, stack) /\ Descends(blocks)
    BY <2>1, HeapHolds
  <2>3. Len(stack) = 1
    <3>1. Len(stack) \in Nat /\ Len(stack) > 0
      BY <2>2 DEF Heap
    <3> QED BY <2>1, <3>1
  <2>4. Built(blocks, stack, last_token_type, seen)
    BY <2>1 DEF Building
  <2> QED BY <2>1, <2>2, <2>3, <2>4, AllBuilt
<1> QED BY <1>1, <1>2 DEF TreeInv, Building, TreeExact

LEMMA TokenBuilds ==
  ASSUME Inv, ReadType, TreeInv, NEW c \in Chars, ParseToken(c)
  PROVE  TreeInv'
<1>0. /\ value \in Seq(Chars) /\ Append(value, c) \in Seq(Chars)
      /\ <<c>> \in Seq(Chars)
  BY CharTexts, AppendProperties DEF Inv, HeapType
<1>1. outcome = "running" /\ Building
  BY DEF ParseToken, InitialWhitespace, Quoted, Escape, Comment, Normal, Reads, TreeInv
<1>2. ASSUME NEW st, NEW v, Go(st, v) PROVE TreeInv'
  BY <1>1, <1>2 DEF Go, TreeInv, Building, TreeExact
<1>3. ASSUME outcome' # "true", Building' PROVE TreeInv'
  BY <1>3 DEF TreeInv, TreeExact
<1>4. ASSUME NEW token \in Seq(Chars), NEW p, Token(token, p), GotNormal(token)
      PROVE  TreeInv'
  <2>1. seen' = Append(seen, token)
    BY <1>4 DEF Token
  <2>2. outcome' # "true"
    BY <1>1, <1>4 DEF GotNormal, Stop, Continue
  <2> QED BY <1>1, <1>3, <1>4, <2>1, <2>2, WordBuilds
<1>5. ASSUME NEW token \in Seq(Chars), NEW p, Token(token, p),
             \/ IsSemi(token) /\ GotStatementEnd
             \/ IsOpen(token) /\ GotStartBlock
             \/ IsClose(token) /\ GotEndBlock
      PROVE  TreeInv'
  <2>1. seen' = Append(seen, token)
    BY <1>5 DEF Token
  <2>2. outcome' # "true"
    BY <1>1, <1>5 DEF GotStatementEnd, GotStartBlock, GotEndBlock, Stop, Continue
  <2> QED BY <1>1, <1>3, <1>5, <2>1, <2>2, SemiBuilds, OpenBuilds, CloseBuilds
<1>6. CASE InitialWhitespace(c)
  <2>1. CASE \E st, v : Go(st, v)
    BY <1>2, <2>1
  <2>2. CASE c = ";" /\ Token(<<c>>, pos + 1) /\ GotStatementEnd
    <3>1. IsSemi(<<c>>)
      BY <2>2, Zenon DEF IsSemi
    <3> QED BY <1>0, <1>5, <2>2, <3>1
  <2>3. CASE c = "{" /\ Token(<<c>>, pos + 1) /\ GotStartBlock
    <3>1. IsOpen(<<c>>)
      BY <2>3, Zenon DEF IsOpen
    <3> QED BY <1>0, <1>5, <2>3, <3>1
  <2>4. CASE c = "}" /\ Token(<<c>>, pos + 1) /\ GotEndBlock
    <3>1. IsClose(<<c>>)
      BY <2>4, Zenon DEF IsClose
    <3> QED BY <1>0, <1>5, <2>4, <3>1
  <2> QED BY <1>6, <2>1, <2>2, <2>3, <2>4 DEF InitialWhitespace
<1>7. CASE Quoted(c)
  <2>1. CASE Error
    BY <2>1 DEF Error, Stop, TreeInv, Building, TreeExact
  <2>2. CASE Token(Append(value, c), pos + 1) /\ GotNormal(Append(value, c))
    BY <1>0, <1>4, <2>2
  <2>3. CASE \E st, v : Go(st, v)
    BY <1>2, <2>3
  <2> QED BY <1>7, <2>1, <2>2, <2>3 DEF Quoted
<1>8. CASE Escape(c)
  BY <1>2, <1>8 DEF Escape
<1>9. CASE Comment(c)
  BY <1>2, <1>9 DEF Comment
<1>10. CASE Normal(c)
  BY <1>0, <1>2, <1>4, <1>10 DEF Normal
<1> QED BY <1>6, <1>7, <1>8, <1>9, <1>10 DEF ParseToken

LEMMA TreeStep ==
  ASSUME Inv, ReadType, TreeInv, [Next]_vars
  PROVE  TreeInv'
<1>1. CASE UNCHANGED vars
  BY <1>1 DEF vars, TreeInv, Building, TreeExact
<1>2. ASSUME NEW c \in Chars, ParseToken(c) PROVE TreeInv'
  BY <1>2, TokenBuilds
<1>3. CASE EndOfFile
  <2>1. outcome = "running" /\ Building /\ seen' = seen
    BY <1>3 DEF EndOfFile, TreeInv
  <2>2. CASE Stop("false")
    BY <2>2 DEF Stop, TreeInv, Building, TreeExact
  <2>3. CASE GotEof
    BY <2>1, <2>3, EofBuilds
  <2> QED BY <1>3, <2>2, <2>3 DEF EndOfFile
<1>4. CASE Main
  BY <1>4 DEF Main, TreeInv, Building, TreeExact
<1>5. CASE Reparse
  <2>1. /\ outcome' = "running" /\ seen' = <<>> /\ last_token_type' = "START"
        /\ stack' = <<1>> /\ blocks' = << <<>> >>
    BY <1>5 DEF Reparse, NewFile
  <2>2. Built(blocks', stack', "START", <<>>)
    BY <2>1, BuiltStart
  <2> QED BY <2>1, <2>2 DEF TreeInv, Building, TreeExact
<1> QED BY <1>1, <1>2, <1>3, <1>4, <1>5 DEF Next

LEMMA TreeInit == Init => TreeInv
<1> SUFFICES ASSUME Init PROVE TreeInv
  OBVIOUS
<1>1. /\ outcome # "true" /\ seen = <<>> /\ last_token_type = "START"
      /\ stack = <<1>> /\ blocks = << <<>> >>
  BY DEF Init
<1>2. Built(blocks, stack, "START", <<>>)
  BY <1>1, BuiltStart
<1> QED BY <1>1, <1>2 DEF TreeInv, Building, TreeExact

(* The tree Parse builds of any file it accepts holds the tokens it was    *)
(* given: every word in the statement it was written in, every block       *)
(* behind the statement that opened it, none lost, repeated or out of      *)
(* order.                                                                  *)
THEOREM TreeIsExact == Spec => []TreeExact
<1>1. Init => Inv /\ ReadType /\ PrintType /\ TreeInv
  BY InvInit, TypesInit, TreeInit
<1>2. Inv /\ ReadType /\ PrintType /\ TreeInv /\ [Next]_vars
        => Inv' /\ ReadType' /\ PrintType' /\ TreeInv'
  BY InvStep, TypesStep, TreeStep
<1>3. TreeInv => TreeExact
  BY DEF TreeInv
<1> QED BY <1>1, <1>2, <1>3, PTL DEF Spec

-----------------------------------------------------------------------------
(* The tokens of a text, read from its characters.                         *)

Upto(s, U) ==
  /\ U \in [0..Len(s) -> Tokens] /\ U[0] = <<>>
  /\ \A n \in 1..Len(s) : U[n] = U[n - 1] \o TokenAt(s, n)

(* A word ends in one place only.                                          *)
LEMMA WordUnique ==
  ASSUME NEW s \in Seq(Chars), NEW i \in 1..Len(s), NEW j \in i..Len(s),
         NEW k \in i..Len(s), IsWord(s, i, j), IsWord(s, i, k)
  PROVE  j = k
<1>1. Len(s) \in Nat /\ i \in Nat /\ j \in Nat /\ k \in Nat
  OBVIOUS
<1>2. ASSUME j < k PROVE FALSE
  <2>1. j + 1 \in i..k
    BY <1>1, <1>2
  <2> QED BY <2>1 DEF IsWord
<1>3. ASSUME k < j PROVE FALSE
  <2>1. k + 1 \in i..j
    BY <1>1, <1>3
  <2> QED BY <2>1 DEF IsWord
<1> QED BY <1>1, <1>2, <1>3

LEMMA WordHead ==
  ASSUME NEW s, NEW i \in Nat, NEW j \in i..Len(s), Len(s) \in Nat, IsWord(s, i, j)
  PROVE  s[i] \notin Separators /\ s[i] \notin {"{", "}", ";"}
<1>1. i \in i..j
  OBVIOUS
<1>2. s[i] \notin Separators
  BY <1>1 DEF IsWord
<1> QED BY <1>2 DEF Separators

LEMMA TokenWord ==
  ASSUME NEW s \in Seq(Chars), NEW i \in 1..Len(s), NEW j \in i..Len(s),
         IsWord(s, i, j)
  PROVE  TokenAt(s, i) = << SubSeq(s, i, j) >>
<1> DEFINE k == CHOOSE m \in i..Len(s) : IsWord(s, i, m)
<1>1. k \in i..Len(s) /\ IsWord(s, i, k)
  OBVIOUS
<1>2. s[i] \notin {"{", "}", ";"}
  <2>1. i \in Nat /\ Len(s) \in Nat
    OBVIOUS
  <2> QED BY <2>1, WordHead
<1>3. TokenAt(s, i) = << SubSeq(s, i, k) >>
  BY <1>2, Zenon DEF TokenAt
<1> HIDE DEF k
<1>4. j = k
  BY <1>1, WordUnique
<1> QED BY <1>3, <1>4

(* No token begins at a character that none begins a word at.              *)
LEMMA TokenNone ==
  ASSUME NEW s, NEW i, s[i] \notin {"{", "}", ";"},
         \A j \in i..Len(s) : ~IsWord(s, i, j)
  PROVE  TokenAt(s, i) = <<>>
BY Zenon DEF TokenAt

LEMMA TokenAtType ==
  ASSUME NEW s \in Seq(Chars), NEW i \in 1..Len(s)
  PROVE  TokenAt(s, i) \in Tokens
<1>0. s[i] \in Chars /\ Len(s) \in Nat /\ i \in Nat
  OBVIOUS
<1>1. CASE s[i] \in {"{", "}", ";"}
  <2>1. <<s[i]>> \in Seq(Chars)
    BY <1>0, CharTexts
  <2>2. << <<s[i]>> >> \in Tokens
    <3> DEFINE x == <<s[i]>>
    <3>1. x \in Seq(Chars)
      BY <2>1
    <3> HIDE DEF x
    <3>2. <<x>> \in Tokens
      BY <3>1 DEF Tokens
    <3> QED BY <3>2 DEF x
  <2>3. TokenAt(s, i) = << <<s[i]>> >>
    BY <1>1, Zenon DEF TokenAt
  <2> QED BY <2>2, <2>3, Zenon
<1>2. CASE s[i] \notin {"{", "}", ";"} /\ \E j \in i..Len(s) : IsWord(s, i, j)
  <2>1. PICK j \in i..Len(s) : IsWord(s, i, j)
    BY <1>2
  <2>2. j \in Int /\ i \in Int /\ \A m \in i..j : s[m] \in Chars
    BY <1>0
  <2>3. SubSeq(s, i, j) \in Seq(Chars)
    BY <2>2, SubSeqProperties
  <2>4. TokenAt(s, i) = << SubSeq(s, i, j) >>
    BY <2>1, TokenWord
  <2> QED BY <2>3, <2>4 DEF Tokens
<1>3. CASE s[i] \notin {"{", "}", ";"} /\ ~(\E j \in i..Len(s) : IsWord(s, i, j))
  <2>1. TokenAt(s, i) = <<>>
    BY <1>3, TokenNone
  <2> QED BY <2>1 DEF Tokens
<1> QED BY <1>1, <1>2, <1>3

(* Spelled has a value: what Upto gives at the end.                        *)
LEMMA SpelledUpto ==
  ASSUME NEW s \in Seq(Chars)
  PROVE  \E U : Upto(s, U) /\ Spelled(s) = U[Len(s)]
<1> DEFINE N == Len(s)
           Step(f, n) == IF n = 0 THEN <<>> ELSE f[n - 1] \o TokenAt(s, n)
           Eq(f) == f = [n \in 0..N |-> Step(f, n)]
           upto == CHOOSE f : Eq(f)
           step == [x \in (1..N) \X Tokens |-> x[2] \o TokenAt(s, x[1])]
<1>1. N \in Nat /\ <<>> \in Tokens
  BY DEF Tokens
<1>2. Spelled(s) = upto[N]
  BY DEF Spelled
<1> HIDE DEF N
<1>3. \A i \in 1..N : TokenAt(s, i) \in Tokens
  BY TokenAtType DEF N
<1>4. \A i \in 1..N, u \in Tokens : u \o TokenAt(s, i) \in Tokens
  BY <1>3, TokensConcat
<1>5. step \in [(1..N) \X Tokens -> Tokens]
  BY <1>4
<1>6. \A i \in 1..N, u \in Tokens : step[<<i, u>>] = u \o TokenAt(s, i)
  OBVIOUS
<1> HIDE DEF step
<1>7. PICK f : Recursion(Tokens, N, <<>>, step, f)
  BY <1>1, <1>5, RecursionExists
<1>8. f \in [0..N -> Tokens] /\ f[0] = <<>> /\ \A i \in 1..N : f[i] = step[<<i, f[i - 1]>>]
  BY <1>7 DEF Recursion
<1>9. ASSUME NEW i \in 1..N PROVE f[i] = f[i - 1] \o TokenAt(s, i)
  <2>1. i - 1 \in 0..N
    BY <1>1
  <2> QED BY <1>6, <1>8, <2>1
<1>10. Eq(f)
  <2>1. ASSUME NEW n \in 0..N PROVE f[n] = Step(f, n)
    <3>1. n = 0 \/ n \in 1..N
      BY <1>1
    <3> QED BY <1>1, <1>8, <1>9, <3>1
  <2> HIDE DEF Step
  <2> QED BY <1>8, <2>1
<1>11. Eq(upto)
  <2> HIDE DEF Eq
  <2> QED BY <1>10
<1> HIDE DEF upto
<1>12. \A n \in 0..N : upto[n] = Step(upto, n)
  BY <1>11
<1> DEFINE T == {m \in 0..N : upto[m] = f[m]}
<1>13. 0 \in T
  BY <1>1, <1>8, <1>12
<1>14. ASSUME NEW m \in 0..(N - 1), m \in T PROVE m + 1 \in T
  <2>1. m + 1 \in 1..N /\ (m + 1) - 1 = m /\ m + 1 \in 0..N /\ m + 1 # 0
    BY <1>1
  <2>2. upto[m + 1] = upto[m] \o TokenAt(s, m + 1)
    BY <1>12, <2>1
  <2>3. f[m + 1] = f[m] \o TokenAt(s, m + 1)
    BY <1>9, <2>1
  <2> QED BY <1>14, <2>1, <2>2, <2>3
<1>15. \A m \in 0..N : m \in T
  <2> HIDE DEF T
  <2> QED BY <1>1, <1>13, <1>14, UptoInduction
<1>16. upto[N] = f[N]
  BY <1>1, <1>15
<1>17. Upto(s, f)
  BY <1>8, <1>9 DEF Upto, N
<1> QED BY <1>2, <1>16, <1>17 DEF N

(* Characters at which no token begins add none.                           *)
LEMMA UptoFlat ==
  ASSUME NEW s \in Seq(Chars), NEW U, Upto(s, U), NEW a \in 0..Len(s),
         NEW b \in a..Len(s), \A i \in (a + 1)..b : TokenAt(s, i) = <<>>
  PROVE  U[b] = U[a]
<1> DEFINE n == b - a
           T == {m \in 0..n : U[a + m] = U[a]}
<1>1. Len(s) \in Nat /\ a \in Nat /\ b \in Nat /\ n \in Nat /\ a + 0 = a /\ a + n = b
  OBVIOUS
<1>2. 0 \in T
  BY <1>1
<1>3. ASSUME NEW m \in 0..(n - 1), m \in T PROVE m + 1 \in T
  <2>1. /\ m + 1 \in 0..n /\ a + (m + 1) \in (a + 1)..b /\ a + (m + 1) \in 1..Len(s)
        /\ (a + (m + 1)) - 1 = a + m /\ a + m \in 0..Len(s)
    BY <1>1
  <2>2. U[a + (m + 1)] = U[a + m] \o <<>>
    BY <2>1 DEF Upto
  <2>3. U[a + m] \in Tokens
    BY <2>1 DEF Upto
  <2>4. U[a + m] \o <<>> = U[a + m]
    BY <2>3, TokensConcat
  <2> QED BY <1>3, <2>1, <2>2, <2>4
<1>4. \A m \in 0..n : m \in T
  <2> HIDE DEF T, n
  <2> QED BY <1>1, <1>2, <1>3, UptoInduction
<1>5. n \in T
  <2> HIDE DEF T, n
  <2> QED BY <1>1, <1>4
<1> QED BY <1>1, <1>5

-----------------------------------------------------------------------------
(* ParseToken in a text without quotes, comments and carriage returns.     *)

(* Where the word that ends at p and has n characters begins: all of them  *)
(* are in it, and it does not begin within a longer one.                   *)
Clean(s, k, p) ==
  /\ \A i \in (k + 1)..p : s[i] \notin Separators
  /\ k > 0 => s[k] \in Separators

(* Between two words: what is before p or what is behind p separates.      *)
Between(s, p) ==
  \/ p = 0
  \/ p > 0 /\ s[p] \in Separators
  \/ p < Len(s) /\ s[p + 1] \in Separators

Scanned(s, p, st, v) ==
  \/ st = "initial" /\ v = <<>> /\ Between(s, p)
  \/ /\ st = "normal" /\ Len(v) \in 1..p
     /\ v = SubSeq(s, p - Len(v) + 1, p)
     /\ Clean(s, p - Len(v), p)

LEMMA CleanInside ==
  ASSUME NEW s \in Seq(Chars), NEW p \in 0..Len(s), NEW k \in 0..p, Clean(s, k, p)
  PROVE  \A i \in (k + 2)..p : TokenAt(s, i) = <<>>
<1> SUFFICES ASSUME NEW i \in (k + 2)..p PROVE TokenAt(s, i) = <<>>
  OBVIOUS
<1>1. /\ Len(s) \in Nat /\ k \in Nat /\ p \in Nat
  OBVIOUS
<1>2. i \in (k + 1)..p /\ i - 1 \in (k + 1)..p /\ i > 1
  BY <1>1
<1>3. s[i] \notin Separators /\ s[i - 1] \notin Separators
  BY <1>2 DEF Clean
<1>4. s[i] \notin {"{", "}", ";"}
  BY <1>3 DEF Separators
<1>5. \A j \in i..Len(s) : ~IsWord(s, i, j)
  BY <1>2, <1>3 DEF IsWord
<1> QED BY <1>4, <1>5, TokenNone

(* A separator ends the word that is being read.                           *)
LEMMA WordEnds ==
  ASSUME NEW s \in Seq(Chars), NEW p \in 0..Len(s), NEW k \in 0..(p - 1),
         Clean(s, k, p), p < Len(s), s[p + 1] \in Separators,
         NEW U, Upto(s, U)
  PROVE  U[p] = Append(U[k], SubSeq(s, k + 1, p))
<1>1. Len(s) \in Nat /\ k \in Nat /\ p \in Nat
  OBVIOUS
<1>2. /\ k + 1 \in 1..Len(s) /\ p \in (k + 1)..Len(s) /\ k + 1 \in 0..Len(s)
      /\ k \in 0..Len(s) /\ k \in 0..p /\ (k + 1) - 1 = k /\ (k + 1) + 1 = k + 2
  BY <1>1
<1>3. IsWord(s, k + 1, p)
  BY <1>1, <1>2 DEF Clean, IsWord
<1>4. TokenAt(s, k + 1) = << SubSeq(s, k + 1, p) >>
  BY <1>2, <1>3, TokenWord
<1>5. \A i \in ((k + 1) + 1)..p : TokenAt(s, i) = <<>>
  BY <1>2, CleanInside
<1>6. U[p] = U[k + 1]
  BY <1>2, <1>5, UptoFlat
<1>7. U[k] \in Tokens /\ U[k + 1] = U[k] \o TokenAt(s, k + 1)
  BY <1>2 DEF Upto
<1>8. SubSeq(s, k + 1, p) \in Seq(Chars)
  <2>1. k + 1 \in Int /\ p \in Int /\ \A i \in (k + 1)..p : s[i] \in Chars
    BY <1>1
  <2> QED BY <2>1, SubSeqProperties
<1>9. Append(U[k], SubSeq(s, k + 1, p)) = U[k] \o << SubSeq(s, k + 1, p) >>
  BY <1>7, <1>8, TokensConcat
<1> QED BY <1>4, <1>6, <1>7, <1>9

(* The end of the text does not.                                           *)
LEMMA WordCut ==
  ASSUME NEW s \in Seq(Chars), NEW k \in 0..Len(s), Clean(s, k, Len(s)),
         NEW U, Upto(s, U)
  PROVE  U[Len(s)] = U[k]
<1>1. Len(s) \in Nat /\ k \in Nat /\ Len(s) \in 0..Len(s) /\ Len(s) \in k..Len(s)
  OBVIOUS
<1>2. ASSUME NEW i \in (k + 1)..Len(s) PROVE TokenAt(s, i) = <<>>
  <2>1. s[i] \notin {"{", "}", ";"}
    BY <1>2 DEF Clean, Separators
  <2>2. ASSUME NEW j \in i..Len(s) PROVE ~IsWord(s, i, j)
    <3>1. j < Len(s) => j + 1 \in (k + 1)..Len(s)
      BY <1>1
    <3> QED BY <3>1 DEF Clean, IsWord
  <2> QED BY <2>1, <2>2, TokenNone
<1> QED BY <1>1, <1>2, UptoFlat

LEMMA BlankSkipped ==
  ASSUME NEW s \in Seq(Chars), NEW p \in 0..Len(s), p < Len(s),
         s[p + 1] \in {"SP", "LF"}, NEW U, Upto(s, U)
  PROVE  U[p + 1] = U[p]
<1>1. Len(s) \in Nat /\ p \in Nat /\ p + 1 \in p..Len(s)
  OBVIOUS
<1>2. s[p + 1] \notin {"{", "}", ";"} /\ s[p + 1] \in Separators
  BY DEF Separators
<1>3. ASSUME NEW j \in (p + 1)..Len(s) PROVE ~IsWord(s, p + 1, j)
  <2>1. p + 1 \in Nat
    BY <1>1
  <2> QED BY <1>1, <1>2, <2>1, WordHead
<1>4. TokenAt(s, p + 1) = <<>>
  BY <1>2, <1>3, TokenNone
<1>5. \A i \in (p + 1)..(p + 1) : TokenAt(s, i) = <<>>
  BY <1>1, <1>4
<1> QED BY <1>1, <1>5, UptoFlat

LEMMA NextPlace ==
  ASSUME NEW n \in Nat, NEW p \in 0..n, p < n
  PROVE  p + 1 \in 1..n /\ (p + 1) - 1 = p
OBVIOUS

IsPunctuation(c) == c \in {"{", "}", ";"}

LEMMA PunctuationRead ==
  ASSUME NEW s \in Seq(Chars), NEW p \in 0..Len(s), p < Len(s), NEW c,
         c = s[p + 1], IsPunctuation(c), NEW U, Upto(s, U)
  PROVE  U[p + 1] = Append(U[p], <<c>>)
<1>0. p + 1 \in 1..Len(s) /\ (p + 1) - 1 = p
  <2>1. Len(s) \in Nat
    BY LenProperties
  <2> QED BY <2>1, NextPlace, Zenon
<1>1. c \in Chars
  BY <1>0, ElementOfSeq
<1>2. TokenAt(s, p + 1) = << <<c>> >>
  <2>1. s[p + 1] \in {"{", "}", ";"}
    BY DEF IsPunctuation
  <2>2. TokenAt(s, p + 1) = << <<s[p + 1]>> >>
    BY <2>1, Zenon DEF TokenAt
  <2> QED BY <2>2, Zenon
<1>3. U[p] \in Tokens /\ U[p + 1] = U[p] \o TokenAt(s, p + 1)
  <2>1. p \in 0..Len(s)
    OBVIOUS
  <2> QED BY <1>0, <2>1 DEF Upto
<1> DEFINE x == <<c>>
<1>4. x \in Seq(Chars)
  BY <1>1, CharTexts
<1>5. TokenAt(s, p + 1) = <<x>>
  BY <1>2
<1> HIDE DEF x
<1>6. Append(U[p], x) = U[p] \o <<x>>
  BY <1>3, <1>4, TokensConcat
<1>7. U[p + 1] = Append(U[p], x)
  BY <1>3, <1>5, <1>6
<1> QED BY <1>7 DEF x

(* A word grows by the character behind it.                                *)
LEMMA WordGrows ==
  ASSUME NEW s \in Seq(Chars), NEW p \in 0..Len(s), p < Len(s), NEW c,
         c = s[p + 1], c \notin Separators,
         NEW v \in Seq(Chars), Scanned(s, p, "normal", v)
  PROVE  /\ Scanned(s, p + 1, "normal", Append(v, c))
         /\ (p + 1) - Len(Append(v, c)) = p - Len(v)
<1> DEFINE k == p - Len(v)
           w == Append(v, c)
<1>1. /\ Len(s) \in Nat /\ p \in Nat /\ p + 1 \in 1..Len(s) /\ c \in Chars
      /\ Len(v) \in Nat
  OBVIOUS
<1>2. Len(v) \in 1..p /\ v = SubSeq(s, k + 1, p) /\ Clean(s, k, p)
  BY DEF Scanned
<1>3. /\ w \in Seq(Chars) /\ Len(w) = Len(v) + 1 /\ w[Len(v) + 1] = c
      /\ \A i \in 1..Len(v) : w[i] = v[i]
  BY <1>1
<1>4. k \in Nat /\ (p + 1) - Len(w) = k /\ Len(w) \in 1..(p + 1) /\ k + 1 \in Int
  BY <1>1, <1>2, <1>3
<1> DEFINE z == SubSeq(s, k + 1, p + 1)
<1>5. /\ z \in Seq(Chars) /\ Len(z) = Len(v) + 1
      /\ \A i \in 1..(Len(v) + 1) : z[i] = s[k + i]
  <2>1. \A i \in (k + 1)..(p + 1) : s[i] \in Chars
    BY <1>1, <1>4
  <2>2. (p + 1) - (k + 1) + 1 = Len(v) + 1 /\ k + 1 <= p + 1
        /\ \A i \in 1..(Len(v) + 1) : (k + 1) + i - 1 = k + i
    BY <1>1, <1>2
  <2> HIDE DEF k
  <2> QED BY <1>1, <1>4, <2>1, <2>2, SubSeqProperties
<1>6. \A i \in 1..Len(v) : v[i] = s[k + i]
  <2>1. \A i \in (k + 1)..p : s[i] \in Chars
    BY <1>1, <1>4
  <2>2. p - (k + 1) + 1 = Len(v) /\ k + 1 <= p
        /\ \A i \in 1..Len(v) : (k + 1) + i - 1 = k + i
    BY <1>1, <1>2
  <2> HIDE DEF k
  <2> QED BY <1>1, <1>2, <1>4, <2>1, <2>2, SubSeqProperties
<1>7. k + (Len(v) + 1) = p + 1
  BY <1>1, <1>4
<1> HIDE DEF k, w, z
<1>8. \A i \in 1..(Len(v) + 1) : w[i] = z[i]
  <2> SUFFICES ASSUME NEW i \in 1..(Len(v) + 1) PROVE w[i] = z[i]
    OBVIOUS
  <2>1. CASE i = Len(v) + 1
    BY <1>3, <1>5, <1>7, <2>1
  <2>2. CASE i \in 1..Len(v)
    BY <1>3, <1>5, <1>6, <2>2
  <2> QED BY <1>1, <2>1, <2>2
<1>9. w = z
  BY <1>3, <1>5, <1>8, SeqEqual
<1>10. Clean(s, k, p + 1)
  <2>1. ASSUME NEW i \in (k + 1)..(p + 1) PROVE i = p + 1 \/ i \in (k + 1)..p
    BY <1>1, <1>4
  <2> QED BY <1>2, <2>1 DEF Clean
<1>11. Scanned(s, p + 1, "normal", w)
  BY <1>4, <1>9, <1>10 DEF Scanned, z
<1> QED BY <1>4, <1>11 DEF w, k

(* ParseToken has given the tokens t of the first p characters of s, but   *)
(* for the word v it is reading.                                           *)
Lexed(s, p, st, v, t) ==
  /\ Scanned(s, p, st, v)
  /\ \A U : Upto(s, U) => t = U[p - Len(v)]

LEMMA LexStart ==
  ASSUME NEW s
  PROVE  Lexed(s, 0, "initial", <<>>, <<>>)
<1>1. Scanned(s, 0, "initial", <<>>)
  BY DEF Scanned, Between
<1>2. 0 - Len(<<>>) = 0
  <2>1. Len(<<>>) = 0 /\ 0 - 0 = 0
    OBVIOUS
  <2> QED BY <2>1, Zenon
<1> QED BY <1>1, <1>2 DEF Lexed, Upto

LEMMA LexRead ==
  ASSUME NEW s \in Seq(Chars), NEW p \in 0..Len(s), NEW st, NEW v, NEW t,
         Lexed(s, p, st, v, t), NEW U, Upto(s, U)
  PROVE  /\ st = "initial" => t = U[p]
         /\ st = "normal" => t = U[p - Len(v)]
<1>1. t = U[p - Len(v)]
  BY DEF Lexed
<1>2. ASSUME st = "initial" PROVE p - Len(v) = p
  <2>1. v = <<>>
    BY <1>2 DEF Lexed, Scanned
  <2>2. Len(v) = 0
    BY <2>1
  <2> QED BY <2>2
<1> QED BY <1>1, <1>2

(* A separator is behind ParseToken, and no word begun.                    *)
LEMMA LexPassed ==
  ASSUME NEW s \in Seq(Chars), NEW p \in 0..Len(s), p < Len(s),
         s[p + 1] \in Separators, NEW t, \A U : Upto(s, U) => t = U[p + 1]
  PROVE  Lexed(s, p + 1, "initial", <<>>, t)
<1>1. Scanned(s, p + 1, "initial", <<>>)
  <2>1. p + 1 > 0
    OBVIOUS
  <2> QED BY <2>1 DEF Scanned, Between
<1>2. (p + 1) - Len(<<>>) = p + 1
  OBVIOUS
<1> QED BY <1>1, <1>2 DEF Lexed

LEMMA LexBlank ==
  ASSUME NEW s \in Seq(Chars), NEW p \in 0..Len(s), p < Len(s),
         s[p + 1] \in {"SP", "LF"}, NEW v, NEW t, Lexed(s, p, "initial", v, t)
  PROVE  Lexed(s, p + 1, "initial", <<>>, t)
<1>1. s[p + 1] \in Separators
  BY DEF Separators
<1>2. ASSUME NEW U, Upto(s, U) PROVE t = U[p + 1]
  <2>1. t = U[p]
    BY <1>2, LexRead
  <2>2. U[p + 1] = U[p]
    BY <1>2, BlankSkipped
  <2> QED BY <2>1, <2>2
<1> QED BY <1>1, <1>2, LexPassed

LEMMA LexPunctuation ==
  ASSUME NEW s \in Seq(Chars), NEW p \in 0..Len(s), p < Len(s), NEW c,
         c = s[p + 1], IsPunctuation(c), NEW v, NEW t,
         Lexed(s, p, "initial", v, t)
  PROVE  Lexed(s, p + 1, "initial", <<>>, Append(t, <<c>>))
<1>1. s[p + 1] \in Separators
  BY DEF Separators, IsPunctuation
<1>2. ASSUME NEW U, Upto(s, U) PROVE Append(t, <<c>>) = U[p + 1]
  <2>1. t = U[p]
    BY <1>2, LexRead
  <2>2. U[p + 1] = Append(U[p], <<c>>)
    BY <1>2, PunctuationRead
  <2> QED BY <2>1, <2>2
<1> QED BY <1>1, <1>2, LexPassed

LEMMA LexBegin ==
  ASSUME NEW s \in Seq(Chars), NEW p \in 0..Len(s), p < Len(s), NEW c,
         c = s[p + 1], c \notin Separators, NEW v, NEW t,
         Lexed(s, p, "initial", v, t)
  PROVE  Lexed(s, p + 1, "normal", <<c>>, t)
<1> DEFINE w == <<c>>
<1>1. /\ Len(s) \in Nat /\ p \in Nat /\ p + 1 \in 1..Len(s) /\ c \in Chars
      /\ p + 1 \in Int /\ p + 1 \in 1..(p + 1)
  OBVIOUS
<1>2. w \in Seq(Chars) /\ Len(w) = 1 /\ w[1] = c
  BY <1>1
<1>3. Clean(s, p, p + 1)
  <2>1. \A i \in (p + 1)..(p + 1) : i = p + 1
    BY <1>1
  <2>2. Between(s, p)
    BY DEF Lexed, Scanned
  <2>3. p > 0 => s[p] \in Separators
    BY <2>2 DEF Between
  <2> QED BY <2>1, <2>3 DEF Clean
<1> DEFINE z == SubSeq(s, p + 1, p + 1)
<1>4. z \in Seq(Chars) /\ Len(z) = 1 /\ z[1] = c
  <2>1. \A i \in (p + 1)..(p + 1) : s[i] \in Chars
    BY <1>1
  <2>2. (p + 1) - (p + 1) + 1 = 1 /\ p + 1 <= p + 1 /\ (p + 1) + 1 - 1 = p + 1
        /\ 1 \in 1..1
    BY <1>1
  <2> QED BY <1>1, <2>1, <2>2, SubSeqProperties
<1> HIDE DEF w, z
<1>5. w = z
  <2>1. \A i \in 1..Len(w) : w[i] = z[i]
    BY <1>2, <1>4
  <2> QED BY <1>2, <1>4, <2>1, SeqEqual
<1>6. (p + 1) - Len(w) = p /\ Len(w) \in 1..(p + 1)
  BY <1>1, <1>2
<1>7. Scanned(s, p + 1, "normal", w)
  BY <1>3, <1>5, <1>6 DEF Scanned, z
<1>8. ASSUME NEW U, Upto(s, U) PROVE t = U[(p + 1) - Len(w)]
  BY <1>6, <1>8, LexRead
<1>9. Lexed(s, p + 1, "normal", w, t)
  BY <1>7, <1>8 DEF Lexed
<1> QED BY <1>9 DEF w

LEMMA LexMore ==
  ASSUME NEW s \in Seq(Chars), NEW p \in 0..Len(s), p < Len(s), NEW c,
         c = s[p + 1], c \notin Separators, NEW v \in Seq(Chars), NEW t,
         Lexed(s, p, "normal", v, t)
  PROVE  Lexed(s, p + 1, "normal", Append(v, c), t)
<1>1. /\ Scanned(s, p + 1, "normal", Append(v, c))
      /\ (p + 1) - Len(Append(v, c)) = p - Len(v)
  BY WordGrows DEF Lexed
<1> QED BY <1>1 DEF Lexed

LEMMA LexWord ==
  ASSUME NEW s \in Seq(Chars), NEW p \in 0..Len(s), p < Len(s),
         s[p + 1] \in Separators, NEW v \in Seq(Chars), NEW t,
         Lexed(s, p, "normal", v, t)
  PROVE  Lexed(s, p, "initial", <<>>, Append(t, v))
<1>1. /\ Len(v) \in 1..p /\ v = SubSeq(s, (p - Len(v)) + 1, p)
      /\ Clean(s, p - Len(v), p)
  BY DEF Lexed, Scanned
<1>2. Scanned(s, p, "initial", <<>>)
  BY DEF Scanned, Between
<1>3. p - Len(<<>>) = p /\ p - Len(v) \in 0..(p - 1)
  BY <1>1
<1>4. ASSUME NEW U, Upto(s, U) PROVE Append(t, v) = U[p]
  <2>1. t = U[p - Len(v)]
    BY <1>4, LexRead
  <2>2. U[p] = Append(U[p - Len(v)], SubSeq(s, (p - Len(v)) + 1, p))
    BY <1>1, <1>3, <1>4, WordEnds
  <2> QED BY <1>1, <2>1, <2>2
<1> QED BY <1>2, <1>3, <1>4 DEF Lexed

LEMMA LexEnd ==
  ASSUME NEW s \in Seq(Chars), NEW st, NEW v, NEW t, Lexed(s, Len(s), st, v, t)
  PROVE  t = Spelled(s)
<1>1. PICK U : Upto(s, U) /\ Spelled(s) = U[Len(s)]
  BY SpelledUpto
<1>2. Len(s) \in Nat /\ Len(s) \in 0..Len(s)
  OBVIOUS
<1>3. CASE st = "initial"
  BY <1>1, <1>2, <1>3, LexRead
<1>4. CASE st = "normal"
  <2>1. Len(v) \in 1..Len(s) /\ Clean(s, Len(s) - Len(v), Len(s))
    BY <1>4 DEF Lexed, Scanned
  <2>2. Len(s) - Len(v) \in 0..Len(s)
    BY <1>2, <2>1
  <2>3. U[Len(s)] = U[Len(s) - Len(v)]
    BY <1>1, <2>1, <2>2, WordCut
  <2>4. t = U[Len(s) - Len(v)]
    BY <1>1, <1>2, <1>4, LexRead
  <2> QED BY <1>1, <2>3, <2>4
<1> QED BY <1>3, <1>4 DEF Lexed, Scanned

Lexing ==
  outcome = "running" /\ Simple(text) => Lexed(text, pos, state, value, seen)

LexInv == Lexing /\ LexExact

LEMMA TokenLexes ==
  ASSUME Inv, ReadType, LexInv, NEW c \in Chars, ParseToken(c)
  PROVE  LexInv'
<1>0. /\ text \in Seq(Chars) /\ pos \in 0..Len(text) /\ value \in Seq(Chars)
      /\ Len(text) \in Nat
  BY DEF Inv, HeapType, ReadType
<1>1. outcome = "running" /\ pos < Len(text) /\ c = text[pos + 1] /\ text' = text
  BY DEF ParseToken, InitialWhitespace, Quoted, Escape, Comment, Normal, Reads, Same
<1>2. outcome' # "true"
  BY <1>1 DEF ParseToken, InitialWhitespace, Quoted, Escape, Comment, Normal, Go, Error,
              GotNormal, GotStatementEnd, GotStartBlock, GotEndBlock, Stop, Continue
<1> SUFFICES ASSUME Simple(text), outcome' = "running"
             PROVE  Lexed(text, pos', state', value', seen')
  BY <1>1, <1>2 DEF LexInv, Lexing, LexExact
<1>3. Lexed(text, pos, state, value, seen)
  BY <1>1 DEF LexInv, Lexing
<1>4. state \in {"initial", "normal"}
  BY <1>3 DEF Lexed, Scanned
<1>5. c \notin {"dq", "sq", "#", "CR"}
  <2>1. pos + 1 \in DOMAIN text
    BY <1>0, <1>1
  <2> QED BY <1>1, <2>1 DEF Simple
<1>6. CASE state = "initial"
  <2>0. InitialWhitespace(c) /\ Lexed(text, pos, "initial", value, seen)
    BY <1>3, <1>6 DEF ParseToken, Quoted, Escape, Comment, Normal
  <2>1. CASE c \in {"SP", "LF"} /\ Go("initial", <<>>)
    <3>1. Lexed(text, pos + 1, "initial", <<>>, seen)
      BY <1>0, <1>1, <2>0, <2>1, LexBlank
    <3> QED BY <2>1, <3>1 DEF Go
  <2>2. CASE c \in {"{", "}", ";"} /\ Token(<<c>>, pos + 1)
    <3>1. Lexed(text, pos + 1, "initial", <<>>, Append(seen, <<c>>))
      <4>1. IsPunctuation(c)
        BY <2>2 DEF IsPunctuation
      <4> QED BY <1>0, <1>1, <2>0, <4>1, LexPunctuation
    <3> QED BY <2>2, <3>1 DEF Token
  <2>3. CASE c \in {"bs", "listen", "a", "0", "7"} /\ Go("normal", <<c>>)
    <3>1. c \notin Separators
      BY <2>3 DEF Separators
    <3>2. Lexed(text, pos + 1, "normal", <<c>>, seen)
      BY <1>0, <1>1, <2>0, <3>1, LexBegin
    <3> QED BY <2>3, <3>2 DEF Go
  <2> QED BY <1>5, <2>0, <2>1, <2>2, <2>3 DEF InitialWhitespace
<1>7. CASE state = "normal"
  <2>0. Normal(c) /\ Lexed(text, pos, "normal", value, seen)
    BY <1>3, <1>7 DEF ParseToken, InitialWhitespace, Quoted, Escape, Comment
  <2>1. CASE c \in Separators /\ Token(value, pos)
    <3>1. Lexed(text, pos, "initial", <<>>, Append(seen, value))
      BY <1>0, <1>1, <2>0, <2>1, LexWord
    <3> QED BY <2>1, <3>1 DEF Token
  <2>2. CASE c \notin Separators /\ Go("normal", Append(value, c))
    <3>1. Lexed(text, pos + 1, "normal", Append(value, c), seen)
      BY <1>0, <1>1, <2>0, <2>2, LexMore
    <3> QED BY <2>2, <3>1 DEF Go
  <2> QED BY <2>0, <2>1, <2>2 DEF Normal
<1> QED BY <1>4, <1>6, <1>7

LEMMA LexStep ==
  ASSUME Inv, ReadType, LexInv, [Next]_vars
  PROVE  LexInv'
<1>1. CASE UNCHANGED vars
  BY <1>1 DEF vars, LexInv, Lexing, LexExact
<1>2. ASSUME NEW c \in Chars, ParseToken(c) PROVE LexInv'
  BY <1>2, TokenLexes
<1>3. CASE EndOfFile
  <2>1. outcome = "running" /\ pos = Len(text) /\ text' = text /\ seen' = seen
    BY <1>3 DEF EndOfFile, Same
  <2>2. outcome' # "running"
    BY <1>3 DEF EndOfFile, GotEof, Stop
  <2>3. ASSUME Simple(text) PROVE seen = Spelled(text)
    <3>1. Lexed(text, Len(text), state, value, seen)
      BY <2>1, <2>3 DEF LexInv, Lexing
    <3> QED BY <3>1, LexEnd DEF ReadType
  <2> QED BY <2>1, <2>2, <2>3 DEF LexInv, Lexing, LexExact
<1>4. CASE Main
  BY <1>4 DEF Main, LexInv, Lexing, LexExact
<1>5. CASE Reparse
  <2>1. /\ outcome' = "running" /\ pos' = 0 /\ state' = "initial" /\ value' = <<>>
        /\ seen' = <<>>
    BY <1>5 DEF Reparse, NewFile
  <2>2. Lexed(text', 0, "initial", <<>>, <<>>)
    BY LexStart
  <2> QED BY <2>1, <2>2 DEF LexInv, Lexing, LexExact
<1> QED BY <1>1, <1>2, <1>3, <1>4, <1>5 DEF Next

LEMMA LexInit == Init => LexInv
<1> SUFFICES ASSUME Init PROVE LexInv
  OBVIOUS
<1>1. /\ outcome # "true" /\ pos = 0 /\ state = "initial" /\ value = <<>>
      /\ seen = <<>>
  BY DEF Init
<1>2. Lexed(text, 0, "initial", <<>>, <<>>)
  BY LexStart
<1> QED BY <1>1, <1>2 DEF LexInv, Lexing, LexExact

(* In any text without quotes, comments and carriage returns ParseToken    *)
(* finds exactly the tokens that are written there, however they are       *)
(* separated; only a word that the end of the file cuts off is dropped.    *)
THEOREM LexIsExact == Spec => []LexExact
<1>1. Init => Inv /\ ReadType /\ PrintType /\ LexInv
  BY InvInit, TypesInit, LexInit
<1>2. Inv /\ ReadType /\ PrintType /\ LexInv /\ [Next]_vars
        => Inv' /\ ReadType' /\ PrintType' /\ LexInv'
  BY InvStep, TypesStep, LexStep
<1>3. LexInv => LexExact
  BY DEF LexInv
<1> QED BY <1>1, <1>2, <1>3, PTL DEF Spec
-----------------------------------------------------------------------------
(* Parse as a machine over tokens: what it does with one depends on        *)
(* last_token_type, config_stack and the blocks alone.                     *)

Tops(st) == st[Len(st)]

(* From type, st, bs the token x leads to type2, st2, bs2.                 *)
TakesWord(type, st, bs, x, type2, st2, bs2) ==
  /\ st # <<>> /\ st2 = st /\ type2 = "NORMAL"
  /\ bs2 = IF type = "NORMAL"
           THEN [bs EXCEPT ![Tops(st)][Len(bs[Tops(st)])].tokens = Append(@, x)]
           ELSE [bs EXCEPT ![Tops(st)] = Append(@, [tokens |-> <<x>>, child |-> None])]

TakesSemi(type, st, bs, type2, st2, bs2) ==
  /\ type = "NORMAL"
  /\ type2 = "STATEMENT_END" /\ st2 = st /\ bs2 = bs

TakesOpen(type, st, bs, type2, st2, bs2) ==
  /\ type = "NORMAL" /\ type2 = "START_BLOCK"
  /\ st2 = Append(st, Len(bs) + 1)
  /\ bs2 = Append([bs EXCEPT ![Tops(st)][Len(bs[Tops(st)])].child = Len(bs) + 1], <<>>)

TakesClose(type, st, bs, type2, st2, bs2) ==
  /\ type \in {"START_BLOCK", "STATEMENT_END", "END_BLOCK"} /\ st # <<>>
  /\ type2 = "END_BLOCK" /\ st2 = SubSeq(st, 1, Len(st) - 1) /\ bs2 = bs

Takes(type, st, bs, x, type2, st2, bs2) ==
  \/ Word(x) /\ TakesWord(type, st, bs, x, type2, st2, bs2)
  \/ IsSemi(x) /\ TakesSemi(type, st, bs, type2, st2, bs2)
  \/ IsOpen(x) /\ TakesOpen(type, st, bs, type2, st2, bs2)
  \/ IsClose(x) /\ TakesClose(type, st, bs, type2, st2, bs2)

(* A token leads to one place only.                                        *)
LEMMA TakesOne ==
  ASSUME NEW a, NEW b, NEW c, NEW x,
         NEW a1, NEW b1, NEW c1, Takes(a, b, c, x, a1, b1, c1),
         NEW a2, NEW b2, NEW c2, Takes(a, b, c, x, a2, b2, c2)
  PROVE  a1 = a2 /\ b1 = b2 /\ c1 = c2
<1>0. /\ Word(x) <=> ~IsSemi(x) /\ ~IsOpen(x) /\ ~IsClose(x)
      /\ ~(IsSemi(x) /\ IsOpen(x)) /\ ~(IsSemi(x) /\ IsClose(x))
      /\ ~(IsOpen(x) /\ IsClose(x))
  BY Punctuated
<1>1. CASE Word(x)
  <2>1. TakesWord(a, b, c, x, a1, b1, c1) /\ TakesWord(a, b, c, x, a2, b2, c2)
    BY <1>0, <1>1 DEF Takes
  <2> QED BY <2>1, Zenon DEF TakesWord
<1>2. CASE IsSemi(x)
  <2>1. TakesSemi(a, b, c, a1, b1, c1) /\ TakesSemi(a, b, c, a2, b2, c2)
    BY <1>0, <1>2 DEF Takes
  <2> QED BY <2>1, Zenon DEF TakesSemi
<1>3. CASE IsOpen(x)
  <2>1. TakesOpen(a, b, c, a1, b1, c1) /\ TakesOpen(a, b, c, a2, b2, c2)
    BY <1>0, <1>3 DEF Takes
  <2> QED BY <2>1, Zenon DEF TakesOpen
<1>4. CASE IsClose(x)
  <2>1. TakesClose(a, b, c, a1, b1, c1) /\ TakesClose(a, b, c, a2, b2, c2)
    BY <1>0, <1>4 DEF Takes
  <2> QED BY <2>1, Zenon DEF TakesClose
<1> QED BY <1>1, <1>2, <1>3, <1>4 DEF Takes

(* Parse's way through the tokens s.                                       *)
Ran(s, a, b, c) ==
  /\ a[0] = "START" /\ b[0] = << 1 >> /\ c[0] = << <<>> >>
  /\ \A i \in 1..Len(s) : Takes(a[i - 1], b[i - 1], c[i - 1], s[i], a[i], b[i], c[i])

Way(s, type, st, bs) ==
  \E a, b, c : /\ Ran(s, a, b, c)
               /\ a[Len(s)] = type /\ b[Len(s)] = st /\ c[Len(s)] = bs

LEMMA WayStart == Way(<<>>, "START", << 1 >>, << <<>> >>)
<1> DEFINE a == [i \in 0..0 |-> "START"]
           b == [i \in 0..0 |-> << 1 >>]
           c == [i \in 0..0 |-> << <<>> >>]
<1>1. a[0] = "START" /\ b[0] = << 1 >> /\ c[0] = << <<>> >>
  OBVIOUS
<1>2. Len(<<>>) = 0 /\ \A i \in 1..Len(<<>>) : FALSE
  OBVIOUS
<1> HIDE DEF a, b, c
<1>3. Ran(<<>>, a, b, c)
  BY <1>1, <1>2, Zenon DEF Ran
<1> QED BY <1>1, <1>2, <1>3, Zenon DEF Way

LEMMA WayMore ==
  ASSUME NEW s \in Tokens, NEW x \in Seq(Chars), NEW type, NEW st, NEW bs,
         Way(s, type, st, bs), NEW type2, NEW st2, NEW bs2,
         Takes(type, st, bs, x, type2, st2, bs2)
  PROVE  Way(Append(s, x), type2, st2, bs2)
<1> DEFINE n == Len(s)
<1>1. PICK a, b, c : Ran(s, a, b, c) /\ a[n] = type /\ b[n] = st /\ c[n] = bs
  BY DEF Way
<1>2. /\ Len(Append(s, x)) = n + 1 /\ Append(s, x)[n + 1] = x /\ n \in Nat
      /\ \A i \in 1..n : Append(s, x)[i] = s[i]
  BY AppendProperties DEF Tokens
<1> DEFINE d == [i \in 0..(n + 1) |-> IF i = n + 1 THEN type2 ELSE a[i]]
           e == [i \in 0..(n + 1) |-> IF i = n + 1 THEN st2 ELSE b[i]]
           f == [i \in 0..(n + 1) |-> IF i = n + 1 THEN bs2 ELSE c[i]]
<1> HIDE DEF n
<1>3. /\ d[n + 1] = type2 /\ e[n + 1] = st2 /\ f[n + 1] = bs2
      /\ \A i \in 0..n : d[i] = a[i] /\ e[i] = b[i] /\ f[i] = c[i]
  BY <1>2
<1>4. /\ 0 \in 0..n /\ n \in 0..n /\ (n + 1) - 1 = n
      /\ \A i \in 1..n : i \in 0..n /\ i - 1 \in 0..n
      /\ \A i \in 1..(n + 1) : i = n + 1 \/ i \in 1..n
  BY <1>2
<1> HIDE DEF d, e, f
<1>5. /\ a[0] = "START" /\ b[0] = << 1 >> /\ c[0] = << <<>> >>
      /\ \A i \in 1..n : Takes(a[i - 1], b[i - 1], c[i - 1], s[i], a[i], b[i], c[i])
  BY <1>1 DEF Ran, n
<1>6. ASSUME NEW i \in 1..(n + 1)
      PROVE  Takes(d[i - 1], e[i - 1], f[i - 1], Append(s, x)[i], d[i], e[i], f[i])
  <2>1. CASE i = n + 1
    BY <1>1, <1>2, <1>3, <1>4, <2>1
  <2>2. CASE i \in 1..n
    BY <1>2, <1>3, <1>4, <1>5, <2>2
  <2>3. i = n + 1 \/ i \in 1..n
    BY <1>4
  <2> QED BY <2>1, <2>2, <2>3, Zenon
<1>7. d[0] = "START" /\ e[0] = << 1 >> /\ f[0] = << <<>> >>
  BY <1>3, <1>4, <1>5, Zenon
<1>8. Ran(Append(s, x), d, e, f)
  BY <1>2, <1>6, <1>7 DEF Ran
<1> QED BY <1>2, <1>3, <1>8 DEF Way

Leads(s, t) == Len(s) <= Len(t) /\ \A i \in 1..Len(s) : s[i] = t[i]

(* The way through a beginning of t is the beginning of the way through t. *)
LEMMA WayPrefix ==
  ASSUME NEW s \in Tokens, NEW t \in Tokens, Leads(s, t),
         NEW type, NEW st, NEW bs, Way(s, type, st, bs), NEW a, NEW b, NEW c,
         Ran(t, a, b, c)
  PROVE  type = a[Len(s)] /\ st = b[Len(s)] /\ bs = c[Len(s)]
<1> DEFINE n == Len(s)
<1>1. PICK d, e, f : Ran(s, d, e, f) /\ d[n] = type /\ e[n] = st /\ f[n] = bs
  BY DEF Way
<1> DEFINE T == {m \in 0..n : d[m] = a[m] /\ e[m] = b[m] /\ f[m] = c[m]}
<1>2. n \in Nat /\ Len(t) \in Nat
  BY DEF Tokens
<1>3. n <= Len(t) /\ \A i \in 1..n : s[i] = t[i]
  BY DEF Leads
<1> HIDE DEF n
<1>4. 0 \in T
  <2>1. d[0] = a[0] /\ e[0] = b[0] /\ f[0] = c[0]
    BY <1>1, Zenon DEF Ran
  <2> QED BY <1>2, <2>1
<1>5. ASSUME NEW m \in 0..(n - 1), m \in T PROVE m + 1 \in T
  <2>1. m + 1 \in 1..n /\ m + 1 \in 1..Len(t) /\ (m + 1) - 1 = m /\ m + 1 \in 0..n
    BY <1>2, <1>3
  <2>2. d[m] = a[m] /\ e[m] = b[m] /\ f[m] = c[m]
    BY <1>5
  <2>3. Takes(d[m], e[m], f[m], s[m + 1], d[m + 1], e[m + 1], f[m + 1])
    BY <1>1, <2>1 DEF Ran, n
  <2>4. Takes(a[m], b[m], c[m], t[m + 1], a[m + 1], b[m + 1], c[m + 1])
    BY <2>1 DEF Ran
  <2>5. s[m + 1] = t[m + 1]
    BY <1>3, <2>1
  <2>6. Takes(a[m], b[m], c[m], t[m + 1], d[m + 1], e[m + 1], f[m + 1])
    BY <2>2, <2>3, <2>5
  <2>7. d[m + 1] = a[m + 1] /\ e[m + 1] = b[m + 1] /\ f[m + 1] = c[m + 1]
    BY <2>4, <2>6, TakesOne
  <2> QED BY <2>1, <2>7
<1>6. n \in T
  <2> HIDE DEF T
  <2>1. \A m \in 0..n : m \in T
    BY <1>2, <1>4, <1>5, UptoInduction
  <2> QED BY <1>2, <2>1
<1> QED BY <1>1, <1>6 DEF n

-----------------------------------------------------------------------------
(* Parse takes a token or stops, and it takes every token it can.          *)

Stuck(x) == \A t, s, b : ~Takes(last_token_type, stack, blocks, x, t, s, b)

(* What Parse makes of a token x: it takes it, or nothing can.             *)
Taken(x) ==
  \/ outcome' = outcome /\ Takes(last_token_type, stack, blocks, x,
                                 last_token_type', stack', blocks')
  \/ outcome' \in {"false", "undefined"} /\ Stuck(x)

LEMMA WordTaken ==
  ASSUME NEW x, Word(x), GotNormal(x)
  PROVE  Taken(x)
<1>0. ~IsSemi(x) /\ ~IsOpen(x) /\ ~IsClose(x)
  BY Punctuated
<1>1. CASE stack = <<>>
  <2>1. outcome' = "undefined"
    BY <1>1 DEF GotNormal, Stop
  <2>2. Stuck(x)
    BY <1>0, <1>1, Zenon DEF Stuck, Takes, TakesWord
  <2> QED BY <2>1, <2>2 DEF Taken
<1>2. CASE stack # <<>>
  <2>1. outcome' = outcome /\ stack' = stack /\ last_token_type' = "NORMAL"
    BY <1>2 DEF GotNormal, Continue
  <2>2. blocks' = IF last_token_type = "NORMAL"
           THEN [blocks EXCEPT ![Tops(stack)][Len(blocks[Tops(stack)])].tokens = Append(@, x)]
           ELSE [blocks EXCEPT ![Tops(stack)] = Append(@, [tokens |-> <<x>>, child |-> None])]
    BY <1>2, Zenon DEF GotNormal, Top, Tops
  <2>3. TakesWord(last_token_type, stack, blocks, x, last_token_type', stack', blocks')
    BY <1>2, <2>1, <2>2, Zenon DEF TakesWord
  <2> QED BY <2>1, <2>3 DEF Taken, Takes
<1> QED BY <1>1, <1>2

LEMMA PunctuationTaken ==
  ASSUME NEW x,
         \/ IsSemi(x) /\ GotStatementEnd
         \/ IsOpen(x) /\ GotStartBlock
         \/ IsClose(x) /\ GotEndBlock
  PROVE  Taken(x)
<1>0. /\ Word(x) <=> ~IsSemi(x) /\ ~IsOpen(x) /\ ~IsClose(x)
      /\ ~(IsSemi(x) /\ IsOpen(x)) /\ ~(IsSemi(x) /\ IsClose(x))
      /\ ~(IsOpen(x) /\ IsClose(x))
  BY Punctuated
<1>1. CASE IsSemi(x) /\ GotStatementEnd
  <2>0. ~Word(x) /\ ~IsOpen(x) /\ ~IsClose(x)
    BY <1>0, <1>1
  <2>1. CASE last_token_type # "NORMAL"
    <3>1. outcome' = "false"
      BY <1>1, <2>1 DEF GotStatementEnd, Stop
    <3>2. Stuck(x)
      BY <2>0, <2>1, Zenon DEF Stuck, Takes, TakesSemi
    <3> QED BY <3>1, <3>2 DEF Taken
  <2>2. CASE last_token_type = "NORMAL"
    <3>1. outcome' = outcome
      BY <1>1, <2>2 DEF GotStatementEnd, Continue
    <3>2. TakesSemi(last_token_type, stack, blocks, last_token_type', stack', blocks')
      BY <1>1, <2>2 DEF GotStatementEnd, Continue, TakesSemi
    <3> QED BY <1>1, <3>1, <3>2 DEF Taken, Takes
  <2> QED BY <2>1, <2>2
<1>2. CASE IsOpen(x) /\ GotStartBlock
  <2>0. ~Word(x) /\ ~IsSemi(x) /\ ~IsClose(x)
    BY <1>0, <1>2
  <2>1. CASE last_token_type # "NORMAL"
    <3>1. outcome' = "false"
      BY <1>2, <2>1 DEF GotStartBlock, Stop
    <3>2. Stuck(x)
      BY <2>0, <2>1, Zenon DEF Stuck, Takes, TakesOpen
    <3> QED BY <3>1, <3>2 DEF Taken
  <2>2. CASE last_token_type = "NORMAL"
    <3>1. outcome' = outcome
      BY <1>2, <2>2 DEF GotStartBlock, Continue
    <3>2. TakesOpen(last_token_type, stack, blocks, last_token_type', stack', blocks')
      BY <1>2, <2>2, Zenon DEF GotStartBlock, Continue, TakesOpen, Top, Tops
    <3> QED BY <1>2, <3>1, <3>2 DEF Taken, Takes
  <2> QED BY <2>1, <2>2
<1>3. CASE IsClose(x) /\ GotEndBlock
  <2> DEFINE follows == {"START_BLOCK", "STATEMENT_END", "END_BLOCK"}
  <2>0. ~Word(x) /\ ~IsSemi(x) /\ ~IsOpen(x)
    BY <1>0, <1>3
  <2>1. CASE last_token_type \notin follows \/ stack = <<>>
    <3>1. outcome' \in {"false", "undefined"}
      BY <1>3, <2>1 DEF GotEndBlock, Stop
    <3>2. Stuck(x)
      BY <2>0, <2>1, Zenon DEF Stuck, Takes, TakesClose
    <3> QED BY <3>1, <3>2 DEF Taken
  <2>2. CASE last_token_type \in follows /\ stack # <<>>
    <3>1. outcome' = outcome
      BY <1>3, <2>2 DEF GotEndBlock, Continue
    <3>2. TakesClose(last_token_type, stack, blocks, last_token_type', stack', blocks')
      BY <1>3, <2>2 DEF GotEndBlock, Continue, TakesClose, Pop
    <3> QED BY <1>3, <3>1, <3>2 DEF Taken, Takes
  <2> QED BY <2>1, <2>2
<1> QED BY <1>1, <1>2, <1>3

-----------------------------------------------------------------------------
(* The words in the tree.                                                  *)

Starts == {"bs", "listen", "a", "0", "7"}
Quotes == {"dq", "sq"}
PlainWord(v) ==
  Len(v) > 0 /\ v[1] \in Starts /\ \A i \in 1..Len(v) : v[i] \notin Separators
QuotedWord(v) == Len(v) > 1 /\ v[1] \in Quotes /\ v[Len(v)] = v[1]
OpenQuote(v, q) == Len(v) > 0 /\ v[1] = q

Shapes == {v \in Seq(Chars) : PlainWord(v) \/ QuotedWord(v)}
ShapedStatement == [tokens : Seq(Shapes), child : Nat]

(* What ParseToken has of a word.                                          *)
ValueShape(st, v) ==
  /\ st = "normal" => PlainWord(v)
  /\ st \in {"dq", "escape_dq"} => OpenQuote(v, "dq")
  /\ st \in {"sq", "escape_sq"} => OpenQuote(v, "sq")

ShapeInv ==
  /\ blocks \in Seq(Seq(ShapedStatement))
  /\ outcome = "running" => ValueShape(state, value)

LEMMA ShapedTop ==
  ASSUME Inv, ShapeInv, stack # <<>>
  PROVE  Top \in 1..Len(blocks) /\ blocks[Top] \in Seq(ShapedStatement)
<1>1. Top \in 1..Len(blocks)
  BY TopType DEF Inv
<1> QED BY <1>1, ElementOfSeq DEF ShapeInv

LEMMA ShapedNormal ==
  ASSUME Inv, ShapeInv, NEW token \in Shapes, GotNormal(token)
  PROVE  blocks' \in Seq(Seq(ShapedStatement))
<1>0. blocks \in Seq(Seq(ShapedStatement))
  BY DEF ShapeInv
<1>1. CASE stack = <<>>
  BY <1>0, <1>1 DEF GotNormal, Stop
<1> DEFINE b == blocks[Top]
           n == Len(b)
<1>2. CASE stack # <<>> /\ last_token_type = "NORMAL"
  <2>1. b \in Seq(ShapedStatement) /\ Top \in 1..Len(blocks)
    BY <1>2, ShapedTop
  <2>2. b # <<>>
    BY <1>2 DEF Inv, BackDefined
  <2>3. n \in 1..Len(b) /\ b[n] \in ShapedStatement
    BY <2>1, <2>2, EmptySeq
  <2> DEFINE tokens == Append(b[n].tokens, token)
             s == [b[n] EXCEPT !.tokens = tokens]
             new == [b EXCEPT ![n] = s]
  <2>4. tokens \in Seq(Shapes)
    BY <2>3 DEF ShapedStatement
  <2>5. s \in ShapedStatement
    <3> HIDE DEF tokens
    <3> QED BY <2>3, <2>4 DEF ShapedStatement
  <2>6. blocks' = [blocks EXCEPT ![Top] = new]
    BY <1>2 DEF GotNormal
  <2> HIDE DEF s
  <2>7. new \in Seq(ShapedStatement)
    BY <2>1, <2>3, <2>5
  <2> HIDE DEF new
  <2> QED BY <1>0, <2>1, <2>6, <2>7
<1>3. CASE stack # <<>> /\ last_token_type # "NORMAL"
  <2>1. b \in Seq(ShapedStatement) /\ Top \in 1..Len(blocks)
    BY <1>3, ShapedTop
  <2> DEFINE s == [tokens |-> <<token>>, child |-> None]
             new == Append(b, s)
  <2>2. s \in ShapedStatement
    BY DEF ShapedStatement, None
  <2>3. blocks' = [blocks EXCEPT ![Top] = new]
    BY <1>3 DEF GotNormal
  <2> HIDE DEF s
  <2>4. new \in Seq(ShapedStatement)
    BY <2>1, <2>2
  <2> HIDE DEF new
  <2> QED BY <1>0, <2>1, <2>3, <2>4
<1> QED BY <1>1, <1>2, <1>3

LEMMA ShapedOpen ==
  ASSUME Inv, ShapeInv, GotStartBlock
  PROVE  blocks' \in Seq(Seq(ShapedStatement))
<1>0. blocks \in Seq(Seq(ShapedStatement))
  BY DEF ShapeInv
<1>1. CASE last_token_type # "NORMAL"
  BY <1>0, <1>1 DEF GotStartBlock, Stop
<1>2. CASE last_token_type = "NORMAL"
  <2> DEFINE b == blocks[Top]
             n == Len(b)
             k == Len(blocks) + 1
             s == [b[n] EXCEPT !.child = k]
             new == [b EXCEPT ![n] = s]
             mid == [blocks EXCEPT ![Top] = new]
  <2>1. stack # <<>> /\ b # <<>>
    BY <1>2 DEF Inv, BackDefined
  <2>2. b \in Seq(ShapedStatement) /\ Top \in 1..Len(blocks)
    BY <2>1, ShapedTop
  <2>3. n \in 1..Len(b) /\ b[n] \in ShapedStatement
    BY <2>1, <2>2, EmptySeq
  <2>4. k \in Nat
    BY <1>0
  <2>5. s \in ShapedStatement
    <3> HIDE DEF k
    <3> QED BY <2>3, <2>4 DEF ShapedStatement
  <2>6. new \in Seq(ShapedStatement)
    <3> HIDE DEF s
    <3> QED BY <2>2, <2>3, <2>5
  <2>7. mid \in Seq(Seq(ShapedStatement))
    <3> HIDE DEF new
    <3> QED BY <1>0, <2>2, <2>6
  <2>8. blocks' = Append(mid, <<>>)
    BY <1>2 DEF GotStartBlock
  <2> HIDE DEF mid
  <2>9. <<>> \in Seq(ShapedStatement)
    OBVIOUS
  <2> QED BY <2>7, <2>8, <2>9, AppendProperties
<1> QED BY <1>1, <1>2

(* A step within a token or with one, or the quote that does not end       *)
(* properly.                                                               *)
LEMMA ParseTokenKinds ==
  ASSUME Inv, NEW c \in Chars, ParseToken(c), Reading
  PROVE  \/ Error /\ state \in Quotes
         \/ \E st, v : Go(st, v)
         \/ \E token \in Seq(Chars) : \E p : Token(token, p) /\ Taken(token)
<1>0. /\ value \in Seq(Chars) /\ Append(value, c) \in Seq(Chars)
      /\ <<c>> \in Seq(Chars)
  BY CharTexts, AppendProperties DEF Inv, HeapType
<1>1. outcome = "running"
  BY DEF ParseToken, InitialWhitespace, Quoted, Escape, Comment, Normal, Reads
<1>2. state \in {"normal", "dq", "sq"} => BeginsWord(value) /\ BeginsWord(Append(value, c))
  BY <1>0, <1>1, BegunMore DEF Reading
<1>3. CASE InitialWhitespace(c)
  <2>1. CASE \E st, v : Go(st, v)
    BY <2>1
  <2>2. CASE c = ";" /\ Token(<<c>>, pos + 1) /\ GotStatementEnd
    <3>1. IsSemi(<<c>>)
      BY <2>2, Zenon DEF IsSemi
    <3> QED BY <1>0, <2>2, <3>1, PunctuationTaken
  <2>3. CASE c = "{" /\ Token(<<c>>, pos + 1) /\ GotStartBlock
    <3>1. IsOpen(<<c>>)
      BY <2>3, Zenon DEF IsOpen
    <3> QED BY <1>0, <2>3, <3>1, PunctuationTaken
  <2>4. CASE c = "}" /\ Token(<<c>>, pos + 1) /\ GotEndBlock
    <3>1. IsClose(<<c>>)
      BY <2>4, Zenon DEF IsClose
    <3> QED BY <1>0, <2>4, <3>1, PunctuationTaken
  <2> QED BY <1>3, <2>1, <2>2, <2>3, <2>4 DEF InitialWhitespace
<1>4. CASE Quoted(c)
  <2>0. state \in {"dq", "sq"}
    BY <1>4 DEF Quoted
  <2>1. CASE Token(Append(value, c), pos + 1) /\ GotNormal(Append(value, c))
    <3>1. Taken(Append(value, c))
      BY <1>2, <2>0, <2>1, WordBegun, WordTaken
    <3> QED BY <1>0, <2>1, <3>1
  <2> QED BY <1>4, <2>0, <2>1 DEF Quoted, Quotes
<1>5. CASE Escape(c)
  BY <1>5 DEF Escape
<1>6. CASE Comment(c)
  BY <1>6 DEF Comment
<1>7. CASE Normal(c)
  <2>0. state = "normal"
    BY <1>7 DEF Normal
  <2>1. CASE Token(value, pos) /\ GotNormal(value)
    <3>1. Taken(value)
      BY <1>2, <2>0, <2>1, WordBegun, WordTaken
    <3> QED BY <1>0, <2>1, <3>1
  <2> QED BY <1>7, <2>1 DEF Normal
<1> QED BY <1>3, <1>4, <1>5, <1>6, <1>7 DEF ParseToken

-----------------------------------------------------------------------------
(* Where Parse stands is the way through the tokens it was given.          *)

Finals == {"STATEMENT_END", "END_BLOCK", "START"}
Final(type, st) == type \in Finals /\ st # <<>> /\ ~(Len(st) > 1)

WayInv ==
  /\ outcome \in {"running", "true"} => Way(seen, last_token_type, stack, blocks)
  /\ outcome = "true" => Final(last_token_type, stack)

LEMMA WayInit == Init => WayInv
<1> SUFFICES ASSUME Init PROVE WayInv
  OBVIOUS
<1>1. /\ seen = <<>> /\ last_token_type = "START" /\ stack = << 1 >>
      /\ blocks = << <<>> >> /\ outcome # "true"
  BY DEF Init
<1> QED BY <1>1, WayStart, Zenon DEF WayInv

LEMMA TokenWay ==
  ASSUME Inv, ReadType, Reading, WayInv, NEW c \in Chars, ParseToken(c)
  PROVE  WayInv'
<1>1. outcome = "running"
  BY DEF ParseToken, InitialWhitespace, Quoted, Escape, Comment, Normal, Reads
<1>2. Way(seen, last_token_type, stack, blocks) /\ seen \in Tokens
  BY <1>1 DEF WayInv, ReadType, Tokens
<1>3. CASE Error
  BY <1>3 DEF Error, Stop, WayInv
<1>4. ASSUME NEW st, NEW v, Go(st, v) PROVE WayInv'
  BY <1>1, <1>2, <1>4 DEF Go, WayInv
<1>5. ASSUME NEW token \in Seq(Chars), NEW p, Token(token, p), Taken(token) PROVE WayInv'
  <2>1. seen' = Append(seen, token)
    BY <1>5 DEF Token
  <2>2. CASE outcome' \in {"false", "undefined"}
    BY <2>2 DEF WayInv
  <2>3. CASE outcome' = outcome /\ Takes(last_token_type, stack, blocks, token,
                                        last_token_type', stack', blocks')
    <3>1. Way(seen', last_token_type', stack', blocks')
      BY <1>2, <2>1, <2>3, WayMore
    <3> QED BY <1>1, <2>3, <3>1 DEF WayInv
  <2> QED BY <1>5, <2>2, <2>3 DEF Taken
<1> QED BY <1>3, <1>4, <1>5, ParseTokenKinds

LEMMA WayStep ==
  ASSUME Inv, ReadType, Reading, WayInv, [Next]_vars
  PROVE  WayInv'
<1>1. CASE UNCHANGED vars
  BY <1>1 DEF vars, WayInv
<1>2. ASSUME NEW c \in Chars, ParseToken(c) PROVE WayInv'
  BY <1>2, TokenWay
<1>3. CASE EndOfFile
  <2>1. outcome = "running" /\ seen' = seen /\ UNCHANGED <<last_token_type, stack, blocks>>
    BY <1>3 DEF EndOfFile, GotEof, Stop
  <2>2. outcome' # "running"
    BY <1>3 DEF EndOfFile, GotEof, Stop
  <2>3. ASSUME outcome' = "true" PROVE Final(last_token_type, stack)
    BY <1>3, <2>3 DEF EndOfFile, GotEof, Stop, Final, Finals
  <2> QED BY <2>1, <2>2, <2>3 DEF WayInv
<1>4. CASE Main
  BY <1>4 DEF Main, WayInv
<1>5. CASE Reparse
  <2>1. /\ seen' = <<>> /\ last_token_type' = "START" /\ stack' = << 1 >>
        /\ blocks' = << <<>> >> /\ outcome' = "running"
    BY <1>5 DEF Reparse, NewFile
  <2> QED BY <2>1, WayStart, Zenon DEF WayInv
<1> QED BY <1>1, <1>2, <1>3, <1>4, <1>5 DEF Next

-----------------------------------------------------------------------------
(* ParseToken gives Parse words of two shapes only.                        *)

LEMMA PlainMore ==
  ASSUME NEW v \in Seq(Chars), NEW c \in Chars, c \notin Separators, PlainWord(v)
  PROVE  PlainWord(Append(v, c))
<1>1. /\ Len(Append(v, c)) = Len(v) + 1 /\ Len(v) \in Nat
      /\ Append(v, c)[Len(v) + 1] = c
      /\ \A i \in 1..Len(v) : Append(v, c)[i] = v[i]
  BY AppendProperties
<1>2. Len(v) > 0 /\ v[1] \in Starts /\ \A i \in 1..Len(v) : v[i] \notin Separators
  BY DEF PlainWord
<1>3. 1 \in 1..Len(v) /\ Len(Append(v, c)) > 0
      /\ \A i \in 1..(Len(v) + 1) : i = Len(v) + 1 \/ i \in 1..Len(v)
  BY <1>1, <1>2
<1>4. ASSUME NEW i \in 1..Len(Append(v, c)) PROVE Append(v, c)[i] \notin Separators
  BY <1>1, <1>2, <1>3
<1>5. Append(v, c)[1] \in Starts
  BY <1>1, <1>2, <1>3
<1> QED BY <1>3, <1>4, <1>5 DEF PlainWord

LEMMA OpenMore ==
  ASSUME NEW v \in Seq(Chars), NEW c \in Chars, NEW q, OpenQuote(v, q)
  PROVE  OpenQuote(Append(v, c), q)
<1>1. /\ Len(Append(v, c)) = Len(v) + 1 /\ Len(v) \in Nat
      /\ \A i \in 1..Len(v) : Append(v, c)[i] = v[i]
  BY AppendProperties
<1>2. Len(v) > 0 /\ v[1] = q
  BY DEF OpenQuote
<1>3. 1 \in 1..Len(v) /\ Len(Append(v, c)) > 0
  BY <1>1, <1>2
<1> QED BY <1>1, <1>2, <1>3 DEF OpenQuote

LEMMA QuoteCloses ==
  ASSUME NEW v \in Seq(Chars), NEW q \in Chars, q \in Quotes, OpenQuote(v, q)
  PROVE  QuotedWord(Append(v, q))
<1>1. /\ Len(Append(v, q)) = Len(v) + 1 /\ Len(v) \in Nat
      /\ Append(v, q)[Len(v) + 1] = q
      /\ \A i \in 1..Len(v) : Append(v, q)[i] = v[i]
  BY AppendProperties
<1>2. Len(v) > 0 /\ v[1] = q
  BY DEF OpenQuote
<1>3. 1 \in 1..Len(v) /\ Len(Append(v, q)) > 1
  BY <1>1, <1>2
<1> QED BY <1>1, <1>2, <1>3 DEF QuotedWord

LEMMA FirstShape ==
  ASSUME NEW c
  PROVE  /\ c \in Starts => PlainWord(<<c>>)
         /\ OpenQuote(<<c>>, c)
<1>1. Len(<<c>>) = 1 /\ <<c>>[1] = c /\ 1 > 0 /\ \A i \in 1..1 : i = 1
  OBVIOUS
<1>2. c \in Starts => c \notin Separators
  BY DEF Starts, Separators
<1> HIDE DEF Starts, Separators
<1> QED BY <1>1, <1>2 DEF PlainWord, OpenQuote

LEMMA TokenShape ==
  ASSUME Inv, ReadType, ShapeInv, NEW c \in Chars, ParseToken(c)
  PROVE  ShapeInv'
<1>0. /\ value \in Seq(Chars) /\ Append(value, c) \in Seq(Chars)
  BY AppendProperties DEF Inv, HeapType
<1>1. outcome = "running" /\ ValueShape(state, value) /\ blocks \in Seq(Seq(ShapedStatement))
  BY DEF ParseToken, InitialWhitespace, Quoted, Escape, Comment, Normal, Reads, ShapeInv
<1>2. ASSUME NEW st, NEW v, Go(st, v), ValueShape(st, v) PROVE ShapeInv'
  BY <1>1, <1>2 DEF Go, ShapeInv
<1>3. ASSUME NEW token, NEW p, Token(token, p), blocks' \in Seq(Seq(ShapedStatement))
      PROVE ShapeInv'
  BY <1>3 DEF Token, ShapeInv, ValueShape
<1>4. ASSUME NEW token \in Shapes, NEW p, Token(token, p), GotNormal(token)
      PROVE  ShapeInv'
  BY <1>3, <1>4, ShapedNormal
<1>5. CASE InitialWhitespace(c)
  <2>1. CASE c \in {"SP", "LF", "CR"} /\ Go("initial", <<>>)
    BY <1>2, <2>1 DEF ValueShape
  <2>2. CASE c = "#" /\ Go("comment", <<c>>)
    BY <1>2, <2>2 DEF ValueShape
  <2>3. CASE c \in {"dq", "sq"} /\ Go(c, <<c>>)
    <3>1. ValueShape(c, <<c>>)
      BY <2>3, FirstShape DEF ValueShape
    <3> QED BY <1>2, <2>3, <3>1
  <2>4. CASE Token(<<c>>, pos + 1) /\ (GotStatementEnd \/ GotEndBlock)
    <3>1. blocks' = blocks
      BY <2>4 DEF GotStatementEnd, GotEndBlock, Stop
    <3> QED BY <1>1, <1>3, <2>4, <3>1
  <2>5. CASE Token(<<c>>, pos + 1) /\ GotStartBlock
    BY <1>3, <2>5, ShapedOpen
  <2>6. CASE c \in Starts /\ Go("normal", <<c>>)
    <3>1. ValueShape("normal", <<c>>)
      BY <2>6, FirstShape DEF ValueShape
    <3> QED BY <1>2, <2>6, <3>1
  <2> QED BY <1>5, <2>1, <2>2, <2>3, <2>4, <2>5, <2>6 DEF InitialWhitespace, Starts
<1>6. CASE Quoted(c)
  <2>0. state \in Quotes /\ OpenQuote(value, state)
    BY <1>1, <1>6 DEF Quoted, ValueShape, Quotes
  <2>1. CASE c = state /\ Token(Append(value, c), pos + 1) /\ GotNormal(Append(value, c))
    <3>1. Append(value, c) \in Shapes
      BY <1>0, <2>0, <2>1, QuoteCloses DEF Shapes
    <3> QED BY <1>4, <2>1, <3>1
  <2>2. CASE Error
    BY <1>1, <2>2 DEF Error, Stop, ShapeInv
  <2>3. CASE state = "dq" /\ Go("escape_dq", value)
    BY <1>2, <2>0, <2>3 DEF ValueShape
  <2>4. CASE state = "sq" /\ Go("escape_sq", value)
    BY <1>2, <2>0, <2>4 DEF ValueShape
  <2>5. CASE Go(state, Append(value, c))
    <3>1. OpenQuote(Append(value, c), state)
      BY <1>0, <2>0, OpenMore
    <3>2. ValueShape(state, Append(value, c))
      BY <2>0, <3>1 DEF ValueShape, Quotes
    <3> QED BY <1>2, <2>5, <3>2
  <2> QED BY <1>6, <2>1, <2>2, <2>3, <2>4, <2>5 DEF Quoted
<1>7. CASE Escape(c)
  <2>1. CASE state = "escape_dq" /\ Go("dq", Append(value, c))
    <3>1. OpenQuote(Append(value, c), "dq")
      BY <1>0, <1>1, <2>1, OpenMore DEF ValueShape
    <3> QED BY <1>2, <2>1, <3>1 DEF ValueShape
  <2>2. CASE state = "escape_sq" /\ Go("sq", Append(value, c))
    <3>1. OpenQuote(Append(value, c), "sq")
      BY <1>0, <1>1, <2>2, OpenMore DEF ValueShape
    <3> QED BY <1>2, <2>2, <3>1 DEF ValueShape
  <2> QED BY <1>7, <2>1, <2>2 DEF Escape
<1>8. CASE Comment(c)
  BY <1>2, <1>8 DEF Comment, ValueShape
<1>9. CASE Normal(c)
  <2>0. PlainWord(value)
    BY <1>1, <1>9 DEF Normal, ValueShape
  <2>1. CASE Token(value, pos) /\ GotNormal(value)
    BY <1>0, <1>4, <2>0, <2>1 DEF Shapes
  <2>2. CASE c \notin Separators /\ Go("normal", Append(value, c))
    <3>1. PlainWord(Append(value, c))
      BY <1>0, <2>0, <2>2, PlainMore
    <3> QED BY <1>2, <2>2, <3>1 DEF ValueShape
  <2> QED BY <1>9, <2>1, <2>2 DEF Normal
<1> QED BY <1>5, <1>6, <1>7, <1>8, <1>9 DEF ParseToken

LEMMA ShapeStart ==
  ASSUME NEW bs, bs = << <<>> >>
  PROVE  bs \in Seq(Seq(ShapedStatement)) /\ ValueShape("initial", <<>>)
<1>1. <<>> \in Seq(ShapedStatement)
  OBVIOUS
<1>2. \A S : \A x \in S : <<x>> \in Seq(S)
  OBVIOUS
<1>3. << <<>> >> \in Seq(Seq(ShapedStatement))
  BY <1>1, <1>2, Zenon
<1> QED BY <1>3, Zenon DEF ValueShape

LEMMA ShapeInit == Init => ShapeInv
<1> SUFFICES ASSUME Init PROVE ShapeInv
  OBVIOUS
<1>1. blocks = << <<>> >> /\ state = "initial" /\ value = <<>>
  BY DEF Init
<1> QED BY <1>1, ShapeStart, Zenon DEF ShapeInv

LEMMA ShapeStep ==
  ASSUME Inv, ReadType, ShapeInv, [Next]_vars
  PROVE  ShapeInv'
<1>1. CASE UNCHANGED vars
  BY <1>1 DEF vars, ShapeInv
<1>2. ASSUME NEW c \in Chars, ParseToken(c) PROVE ShapeInv'
  BY <1>2, TokenShape
<1>3. CASE EndOfFile
  BY <1>3 DEF EndOfFile, GotEof, Stop, ShapeInv
<1>4. CASE Main
  BY <1>4 DEF Main, ShapeInv
<1>5. CASE Reparse
  <2>1. blocks' = << <<>> >> /\ state' = "initial" /\ value' = <<>>
    BY <1>5 DEF Reparse, NewFile
  <2> QED BY <2>1, ShapeStart, Zenon DEF ShapeInv
<1> QED BY <1>1, <1>2, <1>3, <1>4, <1>5 DEF Next

-----------------------------------------------------------------------------
(* A text laid out for ParseToken: blanks, punctuation, and words with a   *)
(* separator behind them.                                                  *)

Blanks == {"SP", "LF"}

(* A word that ParseToken reads as it stands.                              *)
Clear(w) ==
  \/ PlainWord(w)
  \/ QuotedWord(w) /\ \A i \in 2..(Len(w) - 1) : w[i] \notin {w[1], "bs"}

Parted(v) == Len(v) > 0 /\ v[1] \in Separators

ByBlank(u, b, v) == b \in Blanks /\ u = <<b>> \o v
ByMark(u, t, c, v, r) ==
  IsPunctuation(c) /\ u = <<c>> \o v /\ t = << <<c>> >> \o r
ByWord(u, t, w, v, r) ==
  w \in Seq(Chars) /\ Clear(w) /\ Parted(v) /\ u = w \o v /\ t = <<w>> \o r

(* The text u has the tokens t, if R is right of what is behind.           *)
Stands(R, u, t) ==
  \/ u = <<>> /\ t = <<>>
  \/ \E b, v : ByBlank(u, b, v) /\ <<v, t>> \in R
  \/ \E c, v, r : ByMark(u, t, c, v, r) /\ <<v, r>> \in R
  \/ \E w, v, r : ByWord(u, t, w, v, r) /\ <<v, r>> \in R

Sound(R) ==
  \A u, t : <<u, t>> \in R => /\ u \in Seq(Chars) /\ t \in Tokens
                              /\ Stands(R, u, t)

Laid(u, t) == \E R : Sound(R) /\ <<u, t>> \in R

LEMMA LaidType ==
  ASSUME NEW u, NEW t, Laid(u, t)
  PROVE  u \in Seq(Chars) /\ t \in Tokens
BY DEF Laid, Sound

LEMMA LaidFrom ==
  ASSUME NEW R, Sound(R), NEW u \in Seq(Chars), NEW t \in Tokens, Stands(R, u, t)
  PROVE  Laid(u, t)
<1> DEFINE Q == R \cup {<<u, t>>}
<1>1. <<u, t>> \in Q /\ \A a, b : <<a, b>> \in R => <<a, b>> \in Q
  OBVIOUS
<1>2. \A a, b : <<a, b>> \in Q => <<a, b>> \in R \/ (a = u /\ b = t)
  OBVIOUS
<1> HIDE DEF Q
<1>3. \A a, b : Stands(R, a, b) => Stands(Q, a, b)
  BY <1>1, Zenon DEF Stands
<1>4. Sound(Q)
  BY <1>2, <1>3, Zenon DEF Sound
<1> QED BY <1>1, <1>4 DEF Laid

(* What a laid text begins with.                                           *)
LEMMA LaidBegins ==
  ASSUME NEW u, NEW t, Laid(u, t)
  PROVE  \/ u = <<>> /\ t = <<>>
         \/ \E b, v : ByBlank(u, b, v) /\ Laid(v, t)
         \/ \E c, v, r : ByMark(u, t, c, v, r) /\ Laid(v, r)
         \/ \E w, v, r : ByWord(u, t, w, v, r) /\ Laid(v, r)
<1>1. PICK R : Sound(R) /\ <<u, t>> \in R
  BY DEF Laid
<1>2. Stands(R, u, t)
  BY <1>1, Zenon DEF Sound
<1>3. \A v, r : <<v, r>> \in R => Laid(v, r)
  BY <1>1, Zenon DEF Laid
<1> QED BY <1>2, <1>3, Zenon DEF Stands

LEMMA LaidNone == Laid(<<>>, <<>>)
<1>1. Sound({})
  BY DEF Sound
<1>2. Stands({}, <<>>, <<>>) /\ <<>> \in Seq(Chars) /\ <<>> \in Tokens
  BY DEF Stands, Tokens
<1> QED BY <1>1, <1>2, LaidFrom

LEMMA TextConcat ==
  /\ <<>> \in Seq(Chars)
  /\ \A u, v \in Seq(Chars) : u \o v \in Seq(Chars)
  /\ \A u, v, w \in Seq(Chars) : (u \o v) \o w = u \o (v \o w)
  /\ \A u \in Seq(Chars) : u \o <<>> = u /\ <<>> \o u = u
BY ConcatProperties, ConcatAssociative, ConcatEmptySeq

LEMMA LaidBlank ==
  ASSUME NEW v, NEW t, Laid(v, t), NEW b \in Blanks
  PROVE  Laid(<<b>> \o v, t)
<1>1. PICK R : Sound(R) /\ <<v, t>> \in R
  BY DEF Laid
<1>2. ByBlank(<<b>> \o v, b, v)
  BY Zenon DEF ByBlank
<1>3. Stands(R, <<b>> \o v, t)
  BY <1>1, <1>2, Zenon DEF Stands
<1>4. b \in Chars
  BY DEF Blanks, Chars
<1>5. <<b>> \o v \in Seq(Chars)
  BY <1>4, LaidType, CharTexts, TextConcat, Zenon
<1>6. t \in Tokens
  BY LaidType
<1> QED BY <1>1, <1>3, <1>5, <1>6, LaidFrom

LEMMA LaidMark ==
  ASSUME NEW v, NEW r, Laid(v, r), NEW c, IsPunctuation(c)
  PROVE  Laid(<<c>> \o v, << <<c>> >> \o r)
<1>1. PICK R : Sound(R) /\ <<v, r>> \in R
  BY DEF Laid
<1>2. ByMark(<<c>> \o v, << <<c>> >> \o r, c, v, r)
  BY Zenon DEF ByMark
<1>3. Stands(R, <<c>> \o v, << <<c>> >> \o r)
  BY <1>1, <1>2, Zenon DEF Stands
<1>4. c \in Chars
  BY DEF IsPunctuation, Chars
<1>5. <<c>> \in Seq(Chars)
  BY <1>4, CharTexts, Zenon
<1>6. <<c>> \o v \in Seq(Chars)
  BY <1>5, LaidType, TextConcat, Zenon
<1>7. << <<c>> >> \o r \in Tokens
  BY <1>5, LaidType, TokensConcat, Zenon
<1> QED BY <1>1, <1>3, <1>6, <1>7, LaidFrom

LEMMA LaidWord ==
  ASSUME NEW v, NEW r, Laid(v, r), Parted(v), NEW w \in Seq(Chars), Clear(w)
  PROVE  Laid(w \o v, <<w>> \o r)
<1>1. PICK R : Sound(R) /\ <<v, r>> \in R
  BY DEF Laid
<1>2. ByWord(w \o v, <<w>> \o r, w, v, r)
  BY Zenon DEF ByWord
<1>3. Stands(R, w \o v, <<w>> \o r)
  BY <1>1, <1>2, Zenon DEF Stands
<1>6. w \o v \in Seq(Chars)
  BY LaidType, TextConcat, Zenon
<1>7. <<w>> \o r \in Tokens
  BY LaidType, TokensConcat, Zenon
<1> QED BY <1>1, <1>3, <1>6, <1>7, LaidFrom

LEMMA TextAssoc ==
  ASSUME NEW u \in Seq(Chars), NEW v \in Seq(Chars), NEW w \in Seq(Chars)
  PROVE  (u \o v) \o w = u \o (v \o w)
BY TextConcat

(* B put before any laid text adds the tokens F; before one that begins    *)
(* with a separator, if words end it.                                      *)
Lays(B, F) ==
  /\ B \in Seq(Chars) /\ F \in Tokens
  /\ \A u, t : Laid(u, t) => Laid(B \o u, F \o t)
LaysBefore(B, F) ==
  /\ B \in Seq(Chars) /\ F \in Tokens
  /\ \A u, t : Laid(u, t) /\ Parted(u) => Laid(B \o u, F \o t)

LEMMA PartedJoin ==
  ASSUME NEW u \in Seq(Chars), NEW v \in Seq(Chars), Parted(u)
  PROVE  Parted(u \o v)
<1>1. Len(u \o v) = Len(u) + Len(v) /\ Len(u) \in Nat /\ Len(v) \in Nat
      /\ \A i \in 1..Len(u) : (u \o v)[i] = u[i]
  BY ConcatProperties
<1>2. Len(u) > 0 /\ u[1] \in Separators
  BY DEF Parted
<1>3. 1 \in 1..Len(u) /\ Len(u \o v) > 0
  BY <1>1, <1>2
<1> QED BY <1>1, <1>2, <1>3 DEF Parted

LEMMA PartedOne ==
  ASSUME NEW c \in Separators
  PROVE  Parted(<<c>>)
<1>1. Len(<<c>>) > 0 /\ <<c>>[1] = c
  OBVIOUS
<1> HIDE DEF Separators
<1> QED BY <1>1 DEF Parted

LEMMA LaysNone == Lays(<<>>, <<>>)
<1>1. ASSUME NEW u, NEW t, Laid(u, t) PROVE Laid(<<>> \o u, <<>> \o t)
  <2>1. <<>> \o u = u /\ <<>> \o t = t
    BY <1>1, LaidType, TextConcat, TokensConcat, Zenon
  <2> QED BY <1>1, <2>1
<1> QED BY <1>1, TextConcat, TokensConcat, Zenon DEF Lays

LEMMA LaysBlank ==
  ASSUME NEW b \in Blanks
  PROVE  Lays(<<b>>, <<>>)
<1>1. ASSUME NEW u, NEW t, Laid(u, t) PROVE Laid(<<b>> \o u, <<>> \o t)
  <2>1. <<>> \o t = t
    BY <1>1, LaidType, TokensConcat, Zenon
  <2> QED BY <1>1, <2>1, LaidBlank
<1>2. b \in Chars
  BY DEF Blanks, Chars
<1>3. <<b>> \in Seq(Chars)
  BY <1>2, CharTexts, Zenon
<1> QED BY <1>1, <1>3, TokensConcat, Zenon DEF Lays

LEMMA LaysMark ==
  ASSUME NEW c, IsPunctuation(c)
  PROVE  Lays(<<c>>, << <<c>> >>)
<1>2. c \in Chars
  BY DEF IsPunctuation, Chars
<1>3. <<c>> \in Seq(Chars)
  BY <1>2, CharTexts, Zenon
<1>4. << <<c>> >> \in Tokens
  BY <1>3, TokensConcat, Zenon
<1>5. \A u, t : Laid(u, t) => Laid(<<c>> \o u, << <<c>> >> \o t)
  BY LaidMark, Zenon
<1> QED BY <1>3, <1>4, <1>5, Zenon DEF Lays

LEMMA LaysJoin ==
  ASSUME NEW B, NEW C, NEW F, NEW G, Lays(B, F), Lays(C, G)
  PROVE  Lays(B \o C, F \o G)
<1>1. B \in Seq(Chars) /\ C \in Seq(Chars) /\ F \in Tokens /\ G \in Tokens
  BY DEF Lays
<1>2. ASSUME NEW u, NEW t, Laid(u, t) PROVE Laid((B \o C) \o u, (F \o G) \o t)
  <2>1. Laid(C \o u, G \o t)
    BY <1>2, Zenon DEF Lays
  <2>2. Laid(B \o (C \o u), F \o (G \o t))
    BY <2>1, Zenon DEF Lays
  <2>3. (B \o C) \o u = B \o (C \o u) /\ (F \o G) \o t = F \o (G \o t)
    <3>1. u \in Seq(Chars) /\ t \in Tokens
      BY <1>2, LaidType
    <3> QED BY <1>1, <3>1, TextAssoc, TokensAssoc, Zenon
  <2> QED BY <2>2, <2>3
<1>3. B \o C \in Seq(Chars) /\ F \o G \in Tokens
  BY <1>1, TextConcat, TokensConcat, Zenon
<1> QED BY <1>2, <1>3, Zenon DEF Lays

(* Words, and then what begins with a separator.                           *)
LEMMA BeforeJoin ==
  ASSUME NEW B, NEW C, NEW F, NEW G, LaysBefore(B, F), Lays(C, G), Parted(C)
  PROVE  Lays(B \o C, F \o G)
<1>1. B \in Seq(Chars) /\ C \in Seq(Chars) /\ F \in Tokens /\ G \in Tokens
  BY DEF Lays, LaysBefore
<1>2. ASSUME NEW u, NEW t, Laid(u, t) PROVE Laid((B \o C) \o u, (F \o G) \o t)
  <2>1. Laid(C \o u, G \o t) /\ Parted(C \o u)
    <3>1. Laid(C \o u, G \o t)
      BY <1>2, Zenon DEF Lays
    <3>2. u \in Seq(Chars)
      BY <1>2, LaidType
    <3> QED BY <1>1, <3>1, <3>2, PartedJoin
  <2>2. Laid(B \o (C \o u), F \o (G \o t))
    BY <2>1, Zenon DEF LaysBefore
  <2>3. (B \o C) \o u = B \o (C \o u) /\ (F \o G) \o t = F \o (G \o t)
    <3>1. u \in Seq(Chars) /\ t \in Tokens
      BY <1>2, LaidType
    <3> QED BY <1>1, <3>1, TextAssoc, TokensAssoc, Zenon
  <2> QED BY <2>2, <2>3
<1>3. B \o C \in Seq(Chars) /\ F \o G \in Tokens
  BY <1>1, TextConcat, TokensConcat, Zenon
<1> QED BY <1>2, <1>3, Zenon DEF Lays

(* A word behind other words and a blank.                                  *)
LEMMA BeforeMore ==
  ASSUME NEW B, NEW F, LaysBefore(B, F), NEW w \in Seq(Chars), Clear(w)
  PROVE  LaysBefore(B \o (<<"SP">> \o w), F \o <<w>>)
<1>1. /\ B \in Seq(Chars) /\ F \in Tokens /\ <<w>> \in Tokens
      /\ <<"SP">> \in Seq(Chars) /\ <<"SP">> \o w \in Seq(Chars)
  BY CharTexts, TextConcat, TokensConcat, Zenon DEF LaysBefore
<1>2. "SP" \in Blanks /\ "SP" \in Separators
  BY DEF Blanks, Separators
<1> DEFINE C == <<"SP">> \o w
<1>3. Parted(C)
  BY <1>1, <1>2, PartedOne, PartedJoin, Zenon
<1>4. ASSUME NEW u, NEW t, Laid(u, t), Parted(u)
      PROVE  Laid((B \o C) \o u, (F \o <<w>>) \o t)
  <2>0. u \in Seq(Chars) /\ t \in Tokens
    BY <1>4, LaidType
  <2>1. Laid(w \o u, <<w>> \o t)
    BY <1>4, LaidWord
  <2>2. Laid(<<"SP">> \o (w \o u), <<w>> \o t)
    BY <1>2, <2>1, LaidBlank
  <2>3. <<"SP">> \o (w \o u) = C \o u
    BY <1>1, <2>0, TextAssoc, Zenon
  <2>4. Parted(C \o u)
    BY <1>1, <1>3, <2>0, PartedJoin
  <2>5. Laid(C \o u, <<w>> \o t)
    BY <2>2, <2>3
  <2> HIDE DEF C
  <2>6. Laid(B \o (C \o u), F \o (<<w>> \o t))
    BY <2>4, <2>5, Zenon DEF LaysBefore
  <2>7. (B \o C) \o u = B \o (C \o u)
    BY <1>1, <2>0, TextAssoc, Zenon DEF C
  <2>8. (F \o <<w>>) \o t = F \o (<<w>> \o t)
    BY <1>1, <2>0, TokensAssoc, Zenon
  <2> QED BY <2>6, <2>7, <2>8
<1>5. B \o C \in Seq(Chars) /\ F \o <<w>> \in Tokens
  BY <1>1, TextConcat, TokensConcat, Zenon
<1> QED BY <1>4, <1>5, Zenon DEF LaysBefore

LEMMA BeforeOne ==
  ASSUME NEW w \in Seq(Chars), Clear(w)
  PROVE  LaysBefore(w, <<w>>)
<1>1. <<w>> \in Tokens
  BY TokensConcat, Zenon
<1>2. \A u, t : Laid(u, t) /\ Parted(u) => Laid(w \o u, <<w>> \o t)
  BY LaidWord, Zenon
<1> QED BY <1>1, <1>2, Zenon DEF LaysBefore

LEMMA BeforeNone == LaysBefore(<<>>, <<>>)
BY LaysNone DEF Lays, LaysBefore

-----------------------------------------------------------------------------
(* What ToString prints is laid out for ParseToken.                        *)

Spaces(n) == [i \in 1..n |-> "SP"]

LEMMA SpacesMore ==
  ASSUME NEW n \in Nat
  PROVE  Spaces(n) \in Seq(Chars) /\ Spaces(n + 1) = Spaces(n) \o <<"SP">>
<1>0. "SP" \in Chars
  BY DEF Chars
<1> HIDE DEF Chars
<1>1. /\ Spaces(n) \in Seq(Chars) /\ Len(Spaces(n)) = n
      /\ \A i \in 1..n : Spaces(n)[i] = "SP"
  BY <1>0 DEF Spaces
<1>2. /\ Spaces(n + 1) \in Seq(Chars) /\ Len(Spaces(n + 1)) = n + 1
      /\ \A i \in 1..(n + 1) : Spaces(n + 1)[i] = "SP"
  BY <1>0 DEF Spaces
<1>3. /\ Append(Spaces(n), "SP") \in Seq(Chars)
      /\ Len(Append(Spaces(n), "SP")) = n + 1
      /\ Append(Spaces(n), "SP")[n + 1] = "SP"
      /\ \A i \in 1..n : Append(Spaces(n), "SP")[i] = "SP"
  BY <1>0, <1>1, AppendProperties
<1>4. \A i \in 1..(n + 1) : i = n + 1 \/ i \in 1..n
  OBVIOUS
<1>5. \A i \in 1..(n + 1) : Spaces(n + 1)[i] = Append(Spaces(n), "SP")[i]
  BY <1>2, <1>3, <1>4
<1>6. Spaces(n + 1) = Append(Spaces(n), "SP")
  BY <1>2, <1>3, <1>5, SeqEqual
<1>7. Append(Spaces(n), "SP") = Spaces(n) \o <<"SP">>
  BY <1>0, <1>1, AppendIsConcat
<1> QED BY <1>1, <1>6, <1>7

LEMMA LaysSpaces ==
  ASSUME NEW n \in Nat
  PROVE  Lays(Spaces(n), <<>>)
<1> DEFINE T == {m \in 0..n : Lays(Spaces(m), <<>>)}
<1>1. 0 \in T
  <2>1. Spaces(0) = <<>> /\ 0 \in 0..n
    BY DEF Spaces
  <2> QED BY <2>1, LaysNone
<1>2. ASSUME NEW m \in 0..(n - 1), m \in T PROVE m + 1 \in T
  <2>1. m \in Nat /\ m + 1 \in 0..n /\ Lays(Spaces(m), <<>>)
    BY <1>2
  <2>2. "SP" \in Blanks
    BY DEF Blanks
  <2>3. Lays(Spaces(m) \o <<"SP">>, <<>> \o <<>>)
    BY <2>1, <2>2, LaysBlank, LaysJoin
  <2>4. <<>> \o <<>> = <<>>
    BY TokensConcat, Zenon
  <2>5. Lays(Spaces(m + 1), <<>>)
    BY <2>1, <2>3, <2>4, SpacesMore
  <2> QED BY <2>1, <2>5
<1>3. \A m \in 0..n : m \in T
  <2> HIDE DEF T
  <2> QED BY <1>1, <1>2, UptoInduction
<1> QED BY <1>3

LEMMA LaysIndent ==
  ASSUME NEW depth \in Nat
  PROVE  Lays(Indent(depth), <<>>)
<1>1. 2 * depth \in Nat
  OBVIOUS
<1>2. Indent(depth) = Spaces(2 * depth)
  BY DEF Indent, Spaces
<1> QED BY <1>1, <1>2, LaysSpaces

(* Pieces in a row.                                                        *)
LEMMA LaysFlatten ==
  ASSUME NEW u \in Seq(Seq(Chars)), NEW v \in Seq(Tokens), Len(u) = Len(v),
         \A i \in 1..Len(u) : Lays(u[i], v[i])
  PROVE  Lays(FlattenSeq(u), FlattenSeq(v))
<1> DEFINE n == Len(u)
<1>0. n \in Nat /\ v \in Seq(Seq(Seq(Chars)))
  BY DEF Tokens
<1>1. PICK P : Joins(Chars, u, P)
  BY JoinsExist
<1>2. PICK Q : Joins(Seq(Chars), v, Q)
  BY <1>0, JoinsExist
<1>3. P[0] = <<>> /\ \A i \in 1..n : P[i] = P[i - 1] \o u[i]
  BY <1>1 DEF Joins
<1>4. Q[0] = <<>> /\ \A i \in 1..n : Q[i] = Q[i - 1] \o v[i]
  BY <1>2 DEF Joins
<1> DEFINE T == {m \in 0..n : Lays(P[m], Q[m])}
<1>5. 0 \in T
  BY <1>0, <1>3, <1>4, LaysNone
<1>6. ASSUME NEW m \in 0..(n - 1), m \in T PROVE m + 1 \in T
  <2>1. m + 1 \in 1..n /\ (m + 1) - 1 = m /\ m + 1 \in 0..n
    BY <1>0
  <2>2. P[m + 1] = P[m] \o u[m + 1] /\ Q[m + 1] = Q[m] \o v[m + 1]
    BY <1>3, <1>4, <2>1
  <2>3. Lays(P[m], Q[m]) /\ Lays(u[m + 1], v[m + 1])
    BY <1>6, <2>1
  <2>4. Lays(P[m] \o u[m + 1], Q[m] \o v[m + 1])
    BY <2>3, LaysJoin
  <2> QED BY <2>1, <2>2, <2>4
<1>7. n \in T
  <2>1. n \in 0..n
    BY <1>0
  <2> HIDE DEF T, n
  <2> QED BY <1>0, <1>5, <1>6, <2>1, UptoInduction
<1>8. FlattenSeq(u) = P[n] /\ FlattenSeq(v) = Q[n]
  BY <1>0, <1>1, <1>2, FlattenJoins
<1> QED BY <1>7, <1>8

LEMMA LaysWords ==
  ASSUME NEW tokens \in Tokens, \A i \in 1..Len(tokens) : Clear(tokens[i])
  PROVE  LaysBefore(Spaced(tokens), tokens)
<1> DEFINE n == Len(tokens)
           piece(i) == IF i = 1 THEN tokens[i] ELSE <<"SP">> \o tokens[i]
           q == [i \in 1..n |-> piece(i)]
           F(m) == SubSeq(tokens, 1, m)
<1>0. n \in Nat /\ \A i \in 1..n : tokens[i] \in Seq(Chars)
  BY DEF Tokens
<1>1. \A i \in 1..n : piece(i) \in Seq(Chars)
  BY <1>0, CharTexts, TextConcat, Zenon
<1>2. q \in Seq(Seq(Chars)) /\ Len(q) = n /\ \A i \in 1..n : q[i] = piece(i)
  <2> HIDE DEF piece, n
  <2> QED BY <1>0, <1>1
<1>3. Spaced(tokens) = FlattenSeq(q)
  BY DEF Spaced
<1>4. PICK P : Joins(Chars, q, P)
  BY <1>2, JoinsExist
<1>5. P[0] = <<>> /\ \A i \in 1..n : P[i] = P[i - 1] \o piece(i)
  BY <1>2, <1>4 DEF Joins
<1>6. F(0) = <<>> /\ F(n) = tokens
  <2>1. F(0) = <<>>
    BY <1>0 DEF Tokens
  <2>2. F(n) = tokens
    BY <1>0 DEF Tokens
  <2> QED BY <2>1, <2>2
<1>7. ASSUME NEW m \in 0..(n - 1)
      PROVE  F(m) \in Tokens /\ F(m + 1) = F(m) \o <<tokens[m + 1]>>
  <2>1. m + 1 \in 1..n /\ m \in Nat /\ tokens[m + 1] \in Seq(Chars)
    BY <1>0
  <2>2. /\ F(m) \in Tokens /\ Len(F(m)) = m /\ \A i \in 1..m : F(m)[i] = tokens[i]
    BY <1>0, <2>1 DEF Tokens
  <2>3. /\ F(m + 1) \in Tokens /\ Len(F(m + 1)) = m + 1
        /\ \A i \in 1..(m + 1) : F(m + 1)[i] = tokens[i]
    BY <1>0, <2>1 DEF Tokens
  <2> HIDE DEF F, n
  <2> DEFINE A == Append(F(m), tokens[m + 1])
  <2>4. /\ A \in Tokens /\ Len(A) = m + 1 /\ A[m + 1] = tokens[m + 1]
        /\ \A i \in 1..m : A[i] = tokens[i]
    BY <2>1, <2>2, AppendProperties DEF Tokens
  <2>5. \A i \in 1..(m + 1) : i = m + 1 \/ i \in 1..m
    BY <2>1
  <2> HIDE DEF A
  <2>6. \A i \in 1..(m + 1) : F(m + 1)[i] = A[i]
    BY <2>3, <2>4, <2>5
  <2>7. F(m + 1) = A
    BY <2>3, <2>4, <2>6, SeqEqual DEF Tokens
  <2>8. A = F(m) \o <<tokens[m + 1]>>
    BY <2>1, <2>2, TokensConcat, Zenon DEF A
  <2> QED BY <2>2, <2>7, <2>8
<1> DEFINE T == {m \in 0..n : LaysBefore(P[m], F(m))}
<1>8. 0 \in T
  <2> HIDE DEF F
  <2> QED BY <1>0, <1>5, <1>6, BeforeNone
<1>9. ASSUME NEW m \in 0..(n - 1), m \in T PROVE m + 1 \in T
  <2>1. m + 1 \in 1..n /\ (m + 1) - 1 = m /\ m + 1 \in 0..n
    BY <1>0
  <2> DEFINE w == tokens[m + 1]
  <2>2. w \in Seq(Chars) /\ Clear(w) /\ LaysBefore(P[m], F(m))
    BY <1>0, <1>9, <2>1
  <2>3. P[m + 1] = P[m] \o piece(m + 1)
    BY <1>5, <2>1
  <2>4. F(m + 1) = F(m) \o <<w>>
    BY <1>7
  <2> HIDE DEF F
  <2>5. CASE m = 0
    <3>1. piece(m + 1) = w /\ P[m] = <<>> /\ F(m) = <<>>
      BY <1>5, <1>6, <2>5
    <3>2. P[m + 1] = w /\ F(m + 1) = <<w>>
      <4>1. <<>> \o w = w
        BY <2>2, TextConcat, Zenon
      <4>2. <<>> \o <<w>> = <<w>>
        BY <2>2, TokensConcat, Zenon
      <4> QED BY <2>3, <2>4, <3>1, <4>1, <4>2, Zenon
    <3>3. LaysBefore(P[m + 1], F(m + 1))
      BY <2>2, <3>2, BeforeOne
    <3> QED BY <2>1, <3>3
  <2>6. CASE m # 0
    <3>1. piece(m + 1) = <<"SP">> \o w
      BY <2>6
    <3>2. LaysBefore(P[m + 1], F(m + 1))
      BY <2>2, <2>3, <2>4, <3>1, BeforeMore
    <3> QED BY <2>1, <3>2
  <2> QED BY <2>5, <2>6
<1>10. n \in T
  <2>1. n \in 0..n
    BY <1>0
  <2> HIDE DEF T, n
  <2> QED BY <1>0, <1>8, <1>9, <2>1, UptoInduction
<1>11. FlattenSeq(q) = P[n]
  BY <1>2, <1>4, FlattenJoins
<1> QED BY <1>3, <1>6, <1>10, <1>11

LEMMA LaysOpen == Lays(<<"SP", "{", "LF">>, OpenBrace) /\ Parted(<<"SP", "{", "LF">>)
<1>1. "SP" \in Blanks /\ "LF" \in Blanks /\ IsPunctuation("{") /\ "SP" \in Separators
  BY DEF Blanks, IsPunctuation, Separators
<1>2. Lays(<<"SP">>, <<>>) /\ Lays(<<"LF">>, <<>>) /\ Lays(<<"{">>, OpenBrace)
  BY <1>1, LaysBlank, LaysMark, Zenon DEF OpenBrace
<1>3. Lays((<<"SP">> \o <<"{">>) \o <<"LF">>, (<<>> \o OpenBrace) \o <<>>)
  BY <1>2, LaysJoin
<1>4. (<<>> \o OpenBrace) \o <<>> = OpenBrace
  BY TokensConcat, BraceTokens, Zenon
<1>5. ASSUME NEW x \in Chars, NEW y \in Chars, NEW z \in Chars
      PROVE  (<<x>> \o <<y>>) \o <<z>> = <<x, y, z>>
  <2> HIDE DEF Chars
  <2> DEFINE p == <<x>>
             q == <<y>>
             r == <<z>>
             t == <<x, y, z>>
  <2>1. /\ p \in Seq(Chars) /\ Len(p) = 1 /\ p[1] = x
        /\ q \in Seq(Chars) /\ Len(q) = 1 /\ q[1] = y
        /\ r \in Seq(Chars) /\ Len(r) = 1 /\ r[1] = z
        /\ t \in Seq(Chars) /\ Len(t) = 3 /\ t[1] = x /\ t[2] = y /\ t[3] = z
    OBVIOUS
  <2> HIDE DEF p, q, r, t
  <2> DEFINE u == p \o q
             v == u \o r
  <2>2. u \in Seq(Chars) /\ Len(u) = 2 /\ u[1] = x /\ u[2] = y
    BY <2>1, ConcatProperties
  <2> HIDE DEF u
  <2>3. v \in Seq(Chars) /\ Len(v) = 3 /\ v[1] = x /\ v[2] = y /\ v[3] = z
    <3>1. /\ v \in Seq(Chars) /\ Len(v) = Len(u) + Len(r)
          /\ \A i \in 1..(Len(u) + Len(r)) :
               v[i] = IF i <= Len(u) THEN u[i] ELSE r[i - Len(u)]
      BY <2>1, <2>2, ConcatProperties
    <3> HIDE DEF v
    <3>2. \A i \in 1..3 : v[i] = IF i <= 2 THEN u[i] ELSE r[i - 2]
      BY <2>1, <2>2, <3>1
    <3>3. v[1] = u[1] /\ v[2] = u[2] /\ v[3] = r[1]
      BY <3>2
    <3>4. Len(v) = 3
      BY <2>1, <2>2, <3>1
    <3> QED BY <2>1, <2>2, <3>1, <3>3, <3>4
  <2> HIDE DEF v
  <2>4. \A i \in 1..3 : i = 1 \/ i = 2 \/ i = 3
    OBVIOUS
  <2>5. \A i \in 1..Len(v) : v[i] = t[i]
    BY <2>1, <2>3, <2>4
  <2>6. v = t
    BY <2>1, <2>3, <2>5, SeqEqual
  <2> QED BY <2>6 DEF u, v, p, q, r, t
<1>6. \A x, y, z : Len(<<x, y, z>>) > 0 /\ <<x, y, z>>[1] = x
  OBVIOUS
<1>7. Lays(<<"SP", "{", "LF">>, OpenBrace)
  <2>1. "SP" \in Chars /\ "{" \in Chars /\ "LF" \in Chars
    BY DEF Chars
  <2> QED BY <1>3, <1>4, <1>5, <2>1, Zenon
<1>8. Parted(<<"SP", "{", "LF">>)
  BY <1>1, <1>6, Zenon DEF Parted
<1> QED BY <1>7, <1>8

(* Either end of a statement.                                              *)
Rest(g, st) ==
  IF st.child = None THEN Semi ELSE OpenBrace \o g[st.child] \o CloseBrace

LEMMA LaysBraces ==
  ASSUME NEW f, NEW g, NEW st, NEW depth \in Nat,
         st.child # None => Lays(f[st.child][depth + 1], g[st.child])
  PROVE  Lays(Braces(f, st, depth), Rest(g, st)) /\ Parted(Braces(f, st, depth))
<1>1. IsPunctuation(";") /\ IsPunctuation("}") /\ ";" \in Separators
  BY DEF IsPunctuation, Separators
<1>2. Lays(<<";">>, Semi) /\ Lays(<<"}">>, CloseBrace) /\ Parted(<<";">>)
  BY <1>1, LaysMark, PartedOne, Zenon DEF Semi, CloseBrace
<1>3. CASE st.child = None
  <2>1. Braces(f, st, depth) = <<";">> /\ Rest(g, st) = Semi
    BY <1>3, Zenon DEF Braces, Rest
  <2> QED BY <1>2, <2>1, Zenon
<1>4. CASE st.child # None
  <2> DEFINE open == <<"SP", "{", "LF">>
             body == f[st.child][depth + 1]
             toks == g[st.child]
             close == <<"}">>
             ind == Indent(depth)
  <2>1. Lays(open, OpenBrace) /\ Parted(open)
    BY LaysOpen
  <2>2. Lays(body, toks) /\ Lays(ind, <<>>) /\ Lays(close, CloseBrace)
    BY <1>2, <1>4, LaysIndent
  <2>3. Braces(f, st, depth) = ((open \o body) \o ind) \o close
    BY <1>4, Zenon DEF Braces
  <2>4. Rest(g, st) = (OpenBrace \o toks) \o CloseBrace
    BY <1>4, Zenon DEF Rest
  <2> HIDE DEF open, body, toks, close, ind
  <2>5. Lays(((open \o body) \o ind) \o close, ((OpenBrace \o toks) \o <<>>) \o CloseBrace)
    BY <2>1, <2>2, LaysJoin
  <2>6. OpenBrace \o toks \in Tokens
    BY <2>1, <2>2, LaysJoin DEF Lays
  <2>7. (OpenBrace \o toks) \o <<>> = OpenBrace \o toks
    BY <2>6, TokensConcat, Zenon
  <2>8. open \in Seq(Chars) /\ body \in Seq(Chars) /\ ind \in Seq(Chars) /\ close \in Seq(Chars)
    BY <2>1, <2>2 DEF Lays
  <2>9. Parted(((open \o body) \o ind) \o close)
    <3>1. open \o body \in Seq(Chars) /\ Parted(open \o body)
      BY <2>1, <2>8, PartedJoin, TextConcat, Zenon
    <3>2. (open \o body) \o ind \in Seq(Chars) /\ Parted((open \o body) \o ind)
      BY <2>8, <3>1, PartedJoin, TextConcat, Zenon
    <3> QED BY <2>8, <3>2, PartedJoin, Zenon
  <2> QED BY <2>3, <2>4, <2>5, <2>7, <2>9
<1> QED BY <1>3, <1>4

ClearWords(st) == \A i \in 1..Len(st.tokens) : Clear(st.tokens[i])

LEMMA LaysStatement ==
  ASSUME NEW f, NEW g, NEW st \in Statement, NEW depth \in Nat, ClearWords(st),
         st.child # None => Lays(f[st.child][depth + 1], g[st.child])
  PROVE  Lays(StatementText(f, st, depth), StatementTokens(g, st))
<1> DEFINE ind == Indent(depth)
           words == Spaced(st.tokens)
           rest == Braces(f, st, depth)
           toks == st.tokens
           R == Rest(g, st)
<1>1. toks \in Tokens
  BY DEF Statement, Tokens
<1>2. Lays(ind, <<>>) /\ LaysBefore(words, toks) /\ Lays(rest, R) /\ Parted(rest)
  BY <1>1, LaysIndent, LaysWords, LaysBraces DEF ClearWords
<1>3. StatementText(f, st, depth) = ((ind \o words) \o rest) \o <<"LF">>
  BY Zenon DEF StatementText
<1>4. StatementTokens(g, st) = toks \o R
  BY Zenon DEF StatementTokens, Rest
<1> HIDE DEF ind, words, rest, toks, R
<1>5. Lays(words \o rest, toks \o R)
  BY <1>2, BeforeJoin
<1>6. Lays(<<"LF">>, <<>>)
  <2>1. "LF" \in Blanks
    BY DEF Blanks
  <2> QED BY <2>1, LaysBlank
<1>7. Lays((ind \o (words \o rest)) \o <<"LF">>, (<<>> \o (toks \o R)) \o <<>>)
  BY <1>2, <1>5, <1>6, LaysJoin
<1>8. toks \o R \in Tokens
  BY <1>5 DEF Lays
<1>9. (<<>> \o (toks \o R)) \o <<>> = toks \o R
  BY <1>8, TokensConcat, Zenon
<1>10. ind \in Seq(Chars) /\ words \in Seq(Chars) /\ rest \in Seq(Chars)
  BY <1>2 DEF Lays, LaysBefore
<1>11. (ind \o words) \o rest = ind \o (words \o rest)
  BY <1>10, TextAssoc, Zenon
<1> QED BY <1>3, <1>4, <1>7, <1>9, <1>11

LEMMA LaysBlock ==
  ASSUME NEW tree \in Seq(Seq(Statement)), NEW f, NEW g, NEW n \in 1..Len(tree),
         NEW depth \in Nat,
         \A i \in 1..Len(tree[n]) : ClearWords(tree[n][i]),
         \A i \in 1..Len(tree[n]) : tree[n][i].child # None =>
           Lays(f[tree[n][i].child][depth + 1], g[tree[n][i].child])
  PROVE  Lays(BlockText(tree, f, n, depth), PartTokens(g, tree[n], Len(tree[n])))
<1> DEFINE b == tree[n]
           m == Len(b)
           A(i) == StatementText(f, b[i], depth)
           B(i) == StatementTokens(g, b[i])
           u == [i \in 1..m |-> A(i)]
           v == [i \in 1..m |-> B(i)]
<1>1. b \in Seq(Statement) /\ m \in Nat
  <2>1. b \in Seq(Statement)
    BY ElementOfSeq
  <2> QED BY <2>1
<1>2. ASSUME NEW i \in 1..m PROVE Lays(A(i), B(i))
  <2>1. b[i] \in Statement
    BY <1>1, ElementOfSeq
  <2> QED BY <2>1, LaysStatement
<1>3. BlockText(tree, f, n, depth) = FlattenSeq(u) /\ PartTokens(g, b, m) = FlattenSeq(v)
  BY DEF BlockText, PartTokens
<1> HIDE DEF A, B, m
<1>4. \A i \in 1..m : A(i) \in Seq(Chars) /\ B(i) \in Tokens
  BY <1>2 DEF Lays
<1>5. /\ u \in Seq(Seq(Chars)) /\ Len(u) = m /\ \A i \in 1..m : u[i] = A(i)
  BY <1>1, <1>4
<1>6. /\ v \in Seq(Tokens) /\ Len(v) = m /\ \A i \in 1..m : v[i] = B(i)
  BY <1>1, <1>4
<1> HIDE DEF u, v
<1>7. Lays(FlattenSeq(u), FlattenSeq(v))
  BY <1>2, <1>5, <1>6, LaysFlatten
<1> QED BY <1>3, <1>7 DEF m

ClearTree(tree) == \A n \in 1..Len(tree) : \A i \in 1..Len(tree[n]) : ClearWords(tree[n][i])

(* The tokens of every block, the last blocks first.                       *)
LEMMA TokensExist ==
  ASSUME NEW tree \in Seq(Seq(Statement)), Descends(tree)
  PROVE  \E f \in [1..Len(tree) -> Tokens] : \A n \in 1..Len(tree) : Solves(f, tree, n)
<1> DEFINE N == Len(tree)
           D == [1..N -> Tokens]
           Part(f, n) == PartTokens(f, tree[n], Len(tree[n]))
           step == [x \in (1..N) \X D |-> Part(x[2], x[1])]
<1>1. N \in Nat /\ <<>> \in Tokens
  BY TokensConcat
<1>2. ASSUME NEW n \in 1..N, NEW i \in 1..Len(tree[n]), tree[n][i].child # None
      PROVE  tree[n][i].child \in (n + 1)..N /\ tree[n][i].child \in 1..N
  <2>1. tree[n][i].child \in (n + 1)..N
    BY <1>2 DEF Descends
  <2>2. (n + 1)..N \subseteq 1..N
    BY <1>1
  <2> QED BY <2>1, <2>2
<1>3. ASSUME NEW n \in 1..N, NEW f \in D PROVE Part(f, n) \in Tokens
  <2>1. tree[n] \in Seq(Statement)
    BY ElementOfSeq
  <2>2. Len(tree[n]) \in 0..Len(tree[n])
    BY <2>1
  <2>3. Within(tree[n], Len(tree[n]), 1..N)
    BY <1>2 DEF Within
  <2> QED BY <2>1, <2>2, <2>3, PartType
<1>4. ASSUME NEW n \in 1..N, NEW f \in D, NEW g \in D, SameBehind(N, n, f, g)
      PROVE  Part(f, n) = Part(g, n)
  <2>1. \A i \in 1..Len(tree[n]) :
          /\ tree[n][i] = tree[n][i]
          /\ tree[n][i].child # None => f[tree[n][i].child] = g[tree[n][i].child]
    BY <1>2, <1>4 DEF SameBehind
  <2> HIDE DEF D, step, N
  <2> QED BY <2>1, PartSame
<1> HIDE DEF Part, N
<1>5. step \in [(1..N) \X D -> Tokens]
  <2> HIDE DEF D
  <2> QED BY <1>3
<1>6. \A n \in 1..N : \A f \in D : step[<<n, f>>] = Part(f, n)
  <2> HIDE DEF D
  <2> QED OBVIOUS
<1> HIDE DEF step
<1>7. \A n \in 1..N : \A f, g \in D :
        SameBehind(N, n, f, g) => step[<<n, f>>] = step[<<n, g>>]
  <2> HIDE DEF D
  <2> QED BY <1>4, <1>6
<1>8. PICK f : Backward(Tokens, N, step, f)
  BY <1>1, <1>5, <1>7, BackwardExists
<1>9. f \in D /\ \A n \in 1..N : f[n] = step[<<n, f>>]
  BY <1>8 DEF Backward
<1>10. \A n \in 1..N : f[n] = Part(f, n)
  <2> HIDE DEF D
  <2> QED BY <1>6, <1>9
<1> QED BY <1>9, <1>10 DEF Solves, Part, N

(* The printed tree is laid out, with the tree's tokens.                   *)
LEMMA TreeLaid ==
  ASSUME NEW tree \in Seq(Seq(Statement)), Descends(tree), tree # <<>>, ClearTree(tree)
  PROVE  Laid(ConfigToString(tree), TokensOf(tree))
<1> DEFINE N == Len(tree)
<1>1. N \in Nat /\ 1 \in 1..N
  <2>1. N \in Nat /\ N # 0
    BY EmptySeq
  <2> QED BY <2>1
<1>2. PICK f : /\ \A n \in 1..N, d \in Nat : f[n][d] = BlockText(tree, f, n, d)
               /\ ConfigToString(tree) = f[1][0]
  BY TextsSolved
<1>3. PICK g \in [1..N -> Tokens] : \A n \in 1..N : Solves(g, tree, n)
  BY TokensExist
<1>4. TokensOf(tree) = g[1]
  BY <1>3, TokensSolved
<1> DEFINE T == {n \in 1..N : \A d \in Nat : Lays(f[n][d], g[n])}
<1>5. ASSUME NEW n \in 1..N, \A k \in (n + 1)..N : k \in T PROVE n \in T
  <2>1. ASSUME NEW d \in Nat PROVE Lays(f[n][d], g[n])
    <3>1. ASSUME NEW i \in 1..Len(tree[n]), tree[n][i].child # None
          PROVE  Lays(f[tree[n][i].child][d + 1], g[tree[n][i].child])
      <4>1. tree[n][i].child \in (n + 1)..N
        BY <3>1 DEF Descends
      <4>2. d + 1 \in Nat
        OBVIOUS
      <4>3. tree[n][i].child \in T
        BY <1>5, <4>1
      <4> QED BY <4>2, <4>3
    <3>2. \A i \in 1..Len(tree[n]) : ClearWords(tree[n][i])
      BY DEF ClearTree
    <3>3. Lays(BlockText(tree, f, n, d), PartTokens(g, tree[n], Len(tree[n])))
      BY <3>1, <3>2, LaysBlock
    <3>4. f[n][d] = BlockText(tree, f, n, d)
      BY <1>2
    <3>5. g[n] = PartTokens(g, tree[n], Len(tree[n]))
      BY <1>3 DEF Solves
    <3> QED BY <3>3, <3>4, <3>5
  <2> QED BY <2>1
<1>6. \A n \in 1..N : n \in T
  <2> HIDE DEF T, N
  <2> QED BY <1>1, <1>5, DownInduction
<1>7. Lays(f[1][0], g[1])
  BY <1>1, <1>6
<1>8. Laid(f[1][0] \o <<>>, g[1] \o <<>>) /\ f[1][0] \in Seq(Chars) /\ g[1] \in Tokens
  BY <1>7, LaidNone, Zenon DEF Lays
<1>9. f[1][0] \o <<>> = f[1][0] /\ g[1] \o <<>> = g[1]
  BY <1>8, TextConcat, TokensConcat, Zenon
<1> QED BY <1>2, <1>4, <1>8, <1>9

(* A word of either shape that no escape was taken out of is clear.        *)
LEMMA ClearShapes ==
  ASSUME NEW w \in Shapes, Printable(w)
  PROVE  Clear(w)
BY DEF Shapes, Printable, Clear, QuotedWord, Quotes

LEMMA ShapesClear ==
  ASSUME NEW tree \in Seq(Seq(ShapedStatement)), AllPrintable(tree)
  PROVE  ClearTree(tree)
<1> SUFFICES ASSUME NEW n \in 1..Len(tree), NEW i \in 1..Len(tree[n]),
                    NEW k \in 1..Len(tree[n][i].tokens)
             PROVE  Clear(tree[n][i].tokens[k])
  BY DEF ClearTree, ClearWords
<1> DEFINE b == tree[n]
           st == b[i]
           w == st.tokens[k]
<1>1. b \in Seq(ShapedStatement) /\ n \in DOMAIN tree
  BY ElementOfSeq
<1>2. st \in ShapedStatement /\ i \in DOMAIN b
  BY <1>1, ElementOfSeq
<1>3. st.tokens \in Seq(Shapes)
  BY <1>2 DEF ShapedStatement
<1>4. w \in Shapes /\ k \in DOMAIN st.tokens
  BY <1>3, ElementOfSeq
<1>5. w \in Range(st.tokens)
  BY <1>4, Zenon DEF Range
<1>6. Printable(w)
  BY <1>1, <1>2, <1>5, Zenon DEF AllPrintable
<1> QED BY <1>4, <1>6, ClearShapes

-----------------------------------------------------------------------------
(* ParseToken reads a laid text as it was laid.                            *)

(* u is what is behind the first p elements of s.                          *)
Behind(s, p, u) ==
  /\ p \in Nat /\ Len(s) = p + Len(u)
  /\ \A i \in 1..Len(u) : s[p + i] = u[i]

LEMMA BehindAll ==
  ASSUME NEW S, NEW s \in Seq(S)
  PROVE  Behind(s, 0, s)
<1>1. Len(s) \in Nat /\ \A i \in 1..Len(s) : 0 + i = i
  OBVIOUS
<1> QED BY <1>1 DEF Behind

LEMMA BehindSplit ==
  ASSUME NEW S, NEW u \in Seq(S), NEW v \in Seq(S), NEW s, NEW p, Behind(s, p, u \o v)
  PROVE  /\ Behind(s, p + Len(u), v)
         /\ Len(s) = p + Len(u) + Len(v)
         /\ \A i \in 1..Len(u) : s[p + i] = u[i]
<1>1. /\ Len(u \o v) = Len(u) + Len(v) /\ Len(u) \in Nat /\ Len(v) \in Nat
      /\ \A i \in 1..(Len(u) + Len(v)) :
           (u \o v)[i] = IF i <= Len(u) THEN u[i] ELSE v[i - Len(u)]
  BY ConcatProperties
<1>2. /\ p \in Nat /\ Len(s) = p + (Len(u) + Len(v))
      /\ \A i \in 1..(Len(u) + Len(v)) : s[p + i] = (u \o v)[i]
  BY <1>1 DEF Behind
<1>3. ASSUME NEW i \in 1..Len(u) PROVE s[p + i] = u[i]
  <2>1. i \in 1..(Len(u) + Len(v)) /\ i <= Len(u)
    BY <1>1
  <2> QED BY <1>1, <1>2, <2>1
<1>4. ASSUME NEW i \in 1..Len(v) PROVE s[(p + Len(u)) + i] = v[i]
  <2>1. PICK k \in 1..(Len(u) + Len(v)) : k = Len(u) + i
    <3>1. Len(u) + i \in 1..(Len(u) + Len(v))
      BY <1>1
    <3> QED BY <3>1
  <2>2. ~(k <= Len(u)) /\ k - Len(u) = i /\ (p + Len(u)) + i = p + k
    BY <1>1, <1>2, <2>1
  <2>3. s[p + k] = v[k - Len(u)]
    BY <1>1, <1>2, <2>2
  <2> QED BY <2>2, <2>3
<1>5. p + Len(u) \in Nat /\ Len(s) = (p + Len(u)) + Len(v)
  BY <1>1, <1>2
<1> QED BY <1>2, <1>3, <1>4, <1>5 DEF Behind

LEMMA LeadsMore ==
  ASSUME NEW S, NEW v \in Seq(S), NEW w \in Seq(S), Leads(v, w), Len(v) < Len(w),
         NEW c \in S, c = w[Len(v) + 1]
  PROVE  Leads(Append(v, c), w)
<1>1. /\ Len(Append(v, c)) = Len(v) + 1 /\ Len(v) \in Nat /\ Len(w) \in Nat
      /\ Append(v, c)[Len(v) + 1] = c
      /\ \A i \in 1..Len(v) : Append(v, c)[i] = v[i]
  BY AppendProperties
<1>2. \A i \in 1..(Len(v) + 1) : i = Len(v) + 1 \/ i \in 1..Len(v)
  BY <1>1
<1>3. \A i \in 1..Len(v) : v[i] = w[i]
  BY DEF Leads
<1>4. \A i \in 1..Len(Append(v, c)) : Append(v, c)[i] = w[i]
  BY <1>1, <1>2, <1>3
<1>5. Len(Append(v, c)) <= Len(w)
  BY <1>1
<1> QED BY <1>4, <1>5 DEF Leads

LEMMA LeadsAll ==
  ASSUME NEW S, NEW v \in Seq(S), NEW w \in Seq(S), Leads(v, w), Len(v) = Len(w)
  PROVE  v = w
BY SeqEqual DEF Leads

(* The next token is due.                                                  *)
LEMMA TokenDue ==
  ASSUME NEW T \in Tokens, NEW t \in Tokens, Leads(t, T), NEW w \in Seq(Chars),
         NEW r \in Tokens, Behind(T, Len(t), <<w>> \o r)
  PROVE  Leads(Append(t, w), T) /\ Behind(T, Len(Append(t, w)), r)
<1> DEFINE x == <<w>>
<1>1. x \in Tokens /\ Len(x) = 1 /\ x[1] = w
  <2>1. x \in Tokens
    BY TokensConcat, Zenon
  <2> QED BY <2>1
<1> HIDE DEF x
<1>2. /\ Behind(T, Len(t) + Len(x), r) /\ Len(T) = Len(t) + Len(x) + Len(r)
      /\ \A i \in 1..Len(x) : T[Len(t) + i] = x[i]
  <2>1. Behind(T, Len(t), x \o r)
    BY DEF x
  <2> DEFINE S == Seq(Chars)
  <2>2. x \in Seq(S) /\ r \in Seq(S)
    BY <1>1 DEF Tokens
  <2> HIDE DEF S
  <2> QED BY <2>1, <2>2, BehindSplit
<1>3. Len(t) \in Nat /\ Len(r) \in Nat /\ Len(Append(t, w)) = Len(t) + 1
  BY AppendProperties DEF Tokens
<1>4. T[Len(t) + 1] = w /\ Len(t) < Len(T)
  BY <1>1, <1>2, <1>3
<1>5. Leads(Append(t, w), T)
  BY <1>4, LeadsMore DEF Tokens
<1> QED BY <1>1, <1>2, <1>3, <1>5

(* The state for a word that begins with c.                                *)
StateFor(c) == IF c \in Quotes THEN c ELSE "normal"

(* v of the word w is read.                                                *)
InWord(st, v, w) ==
  /\ w \in Seq(Chars) /\ Clear(w)
  /\ v \in Seq(Chars) /\ Leads(v, w) /\ Len(v) > 0
  /\ st = StateFor(w[1])
  /\ st \in Quotes => Len(v) < Len(w)

Ahead(s, T, a, w, u, r, m) ==
  /\ Laid(u, r) /\ Parted(u)
  /\ Behind(s, a, w \o u) /\ Behind(T, m, <<w>> \o r)

BetweenTokens(s, T, p, m) ==
  \E u, r : Laid(u, r) /\ Behind(s, p, u) /\ Behind(T, m, r)

(* ParseToken has given t of the tokens T of s, and p is what it has read. *)
Tracks(s, T, p, st, v, t) ==
  /\ t \in Tokens /\ Leads(t, T)
  /\ \/ st = "initial" /\ BetweenTokens(s, T, p, Len(t))
     \/ \E a, w, u, r : InWord(st, v, w) /\ Ahead(s, T, a, w, u, r, Len(t)) /\ p = a + Len(v)

LEMMA TrackStart ==
  ASSUME NEW s, NEW T, Laid(s, T)
  PROVE  Tracks(s, T, 0, "initial", <<>>, <<>>)
<1>1. s \in Seq(Chars) /\ T \in Tokens
  BY LaidType
<1>2. Behind(s, 0, s) /\ Behind(T, 0, T)
  BY <1>1, BehindAll DEF Tokens
<1>3. <<>> \in Tokens /\ Len(<<>>) = 0
  BY TokensConcat
<1>4. Leads(<<>>, T)
  <2>1. Len(T) \in Nat /\ 1..0 = {}
    BY <1>1 DEF Tokens
  <2> QED BY <1>3, <2>1 DEF Leads
<1>5. BetweenTokens(s, T, 0, Len(<<>>))
  BY <1>2, <1>3, Zenon DEF BetweenTokens
<1> QED BY <1>3, <1>4, <1>5, Zenon DEF Tracks

LEMMA CharAhead ==
  ASSUME NEW s, NEW p, NEW c \in Chars, NEW v \in Seq(Chars), Behind(s, p, <<c>> \o v)
  PROVE  s[p + 1] = c /\ Behind(s, p + 1, v)
<1> DEFINE x == <<c>>
<1>1. x \in Seq(Chars) /\ Len(x) = 1 /\ x[1] = c
  BY CharTexts
<1>2. Behind(s, p, x \o v)
  OBVIOUS
<1> HIDE DEF x
<1>3. Behind(s, p + Len(x), v) /\ \A i \in 1..Len(x) : s[p + i] = x[i]
  <2>1. v \in Seq(Chars) /\ x \in Seq(Chars)
    BY <1>1
  <2>2. Behind(s, p + Len(x), v)
    BY <1>2, <2>1, BehindSplit
  <2>3. \A i \in 1..Len(x) : s[p + i] = x[i]
    BY <1>2, <2>1, BehindSplit
  <2> QED BY <2>2, <2>3
<1>4. 1 \in 1..1
  OBVIOUS
<1> QED BY <1>1, <1>3, <1>4

(* What can be next between two tokens.                                    *)
LEMMA TrackInitial ==
  ASSUME NEW s \in Seq(Chars), NEW T \in Tokens, NEW p \in Nat, p < Len(s), NEW v, NEW t,
         Tracks(s, T, p, "initial", v, t), NEW c, c = s[p + 1]
  PROVE  \/ c \in Blanks /\ Tracks(s, T, p + 1, "initial", <<>>, t)
         \/ IsPunctuation(c) /\ Tracks(s, T, p + 1, "initial", <<>>, Append(t, <<c>>))
         \/ c \in Starts /\ Tracks(s, T, p + 1, "normal", <<c>>, t)
         \/ c \in Quotes /\ Tracks(s, T, p + 1, c, <<c>>, t)
<1>0. t \in Tokens /\ Leads(t, T)
  BY DEF Tracks
<1>1. BetweenTokens(s, T, p, Len(t))
  <2>1. ASSUME NEW w, InWord("initial", v, w) PROVE FALSE
    BY <2>1 DEF InWord, StateFor, Quotes
  <2> QED BY <2>1 DEF Tracks
<1>2. PICK u, r : Laid(u, r) /\ Behind(s, p, u) /\ Behind(T, Len(t), r)
  BY <1>1 DEF BetweenTokens
<1>3. u # <<>>
  <2>1. ASSUME u = <<>> PROVE FALSE
    <3>1. Len(s) = p + Len(u) /\ Len(u) = 0
      BY <1>2, <2>1 DEF Behind
    <3> QED BY <3>1
  <2> QED BY <2>1
<1>4. CASE \E b, y : ByBlank(u, b, y) /\ Laid(y, r)
  <2>1. PICK b, y : ByBlank(u, b, y) /\ Laid(y, r)
    BY <1>4
  <2>2. b \in Blanks /\ b \in Chars /\ u = <<b>> \o y /\ y \in Seq(Chars)
    BY <2>1, LaidType DEF ByBlank, Blanks, Chars
  <2>3. c = b /\ Behind(s, p + 1, y)
    <3>1. Behind(s, p, <<b>> \o y)
      BY <1>2, <2>2, Zenon
    <3> QED BY <2>2, <3>1, CharAhead
  <2>4. BetweenTokens(s, T, p + 1, Len(t))
    BY <1>2, <2>1, <2>3, Zenon DEF BetweenTokens
  <2>5. Tracks(s, T, p + 1, "initial", <<>>, t)
    BY <1>0, <2>4, Zenon DEF Tracks
  <2> QED BY <2>2, <2>3, <2>5
<1>5. CASE \E d, y, z : ByMark(u, r, d, y, z) /\ Laid(y, z)
  <2>1. PICK d, y, z : ByMark(u, r, d, y, z) /\ Laid(y, z)
    BY <1>5
  <2>2. IsPunctuation(d) /\ u = <<d>> \o y /\ r = << <<d>> >> \o z
    BY <2>1, Zenon DEF ByMark
  <2>3. d \in Chars
    BY <2>2 DEF IsPunctuation, Chars
  <2>4. y \in Seq(Chars) /\ z \in Tokens /\ <<d>> \in Seq(Chars)
    BY <2>1, <2>3, LaidType, CharTexts, Zenon
  <2>5. Behind(s, p, <<d>> \o y) /\ Behind(T, Len(t), << <<d>> >> \o z)
    BY <1>2, <2>2, Zenon
  <2>6. c = d /\ Behind(s, p + 1, y)
    BY <2>3, <2>4, <2>5, CharAhead
  <2> DEFINE x == <<d>>
  <2>7. x \in Seq(Chars) /\ Behind(T, Len(t), <<x>> \o z) /\ x = <<c>>
    BY <2>4, <2>5, <2>6, Zenon
  <2> HIDE DEF x
  <2>8. Leads(Append(t, x), T) /\ Behind(T, Len(Append(t, x)), z)
    BY <1>0, <2>4, <2>7, TokenDue
  <2>9. Append(t, x) \in Tokens
    BY <1>0, <2>7 DEF Tokens
  <2>10. BetweenTokens(s, T, p + 1, Len(Append(t, x)))
    BY <2>1, <2>6, <2>8, Zenon DEF BetweenTokens
  <2>11. Tracks(s, T, p + 1, "initial", <<>>, Append(t, x))
    BY <2>8, <2>9, <2>10, Zenon DEF Tracks
  <2> QED BY <2>2, <2>6, <2>7, <2>11, Zenon
<1>6. CASE \E w, y, z : ByWord(u, r, w, y, z) /\ Laid(y, z)
  <2>1. PICK w, y, z : ByWord(u, r, w, y, z) /\ Laid(y, z)
    BY <1>6
  <2>2. /\ w \in Seq(Chars) /\ Clear(w) /\ Parted(y) /\ u = w \o y /\ r = <<w>> \o z
    BY <2>1, Zenon DEF ByWord
  <2>3. y \in Seq(Chars) /\ z \in Tokens
    BY <2>1, LaidType
  <2>4. Behind(s, p, w \o y) /\ Behind(T, Len(t), <<w>> \o z)
    BY <1>2, <2>2, Zenon
  <2>5. Len(w) \in Nat /\ Len(w) > 0 /\ w[1] \in Starts \cup Quotes
        /\ (w[1] \in Quotes => Len(w) > 1) /\ (w[1] \in Starts => w[1] \notin Quotes)
    BY <2>2 DEF Clear, PlainWord, QuotedWord, Starts, Quotes
  <2>6. c = w[1]
    <3>1. \A i \in 1..Len(w) : s[p + i] = w[i]
      BY <2>2, <2>3, <2>4, BehindSplit
    <3>2. 1 \in 1..Len(w)
      BY <2>5
    <3> QED BY <3>1, <3>2
  <2> DEFINE x == <<c>>
  <2>7. x \in Seq(Chars) /\ Len(x) = 1 /\ x[1] = c
    <3>1. c \in Chars
      BY <2>2, <2>5, <2>6, ElementOfSeq
    <3> QED BY <3>1, CharTexts
  <2> HIDE DEF x
  <2>8. Leads(x, w)
    <3>1. Len(x) <= Len(w) /\ \A i \in 1..Len(x) : i = 1
      BY <2>5, <2>7
    <3> QED BY <2>6, <2>7, <3>1 DEF Leads
  <2>9. InWord(StateFor(c), x, w)
    <3>1. StateFor(c) \in Quotes => Len(x) < Len(w)
      BY <2>5, <2>6, <2>7 DEF StateFor, Quotes
    <3>2. Len(x) > 0
      BY <2>7
    <3> QED BY <2>2, <2>6, <2>7, <2>8, <3>1, <3>2, Zenon DEF InWord
  <2>10. Ahead(s, T, p, w, y, z, Len(t)) /\ p + 1 = p + Len(x)
    BY <2>1, <2>2, <2>4, <2>7 DEF Ahead
  <2>11. Tracks(s, T, p + 1, StateFor(c), x, t)
    BY <1>0, <2>9, <2>10, Zenon DEF Tracks
  <2>12. c \in Quotes \/ c \in Starts
    BY <2>5, <2>6
  <2>13. CASE c \in Quotes
    BY <2>11, <2>13, Zenon DEF StateFor, x
  <2>14. CASE c \in Starts /\ c \notin Quotes
    BY <2>11, <2>14, Zenon DEF StateFor, x
  <2> QED BY <2>12, <2>13, <2>14
<1> QED BY <1>2, <1>3, <1>4, <1>5, <1>6, LaidBegins

(* p is in the word w of s, behind its beginning v; u follows.             *)
Inside(s, p, a, w, u, v) ==
  /\ w \in Seq(Chars) /\ u \in Seq(Chars) /\ v \in Seq(Chars)
  /\ Behind(s, a, w \o u) /\ Parted(u) /\ Leads(v, w)
  /\ p = a + Len(v)

NextChar(s, p, a, w, u, v) ==
  /\ p < Len(s)
  /\ Len(v) < Len(w) => /\ s[p + 1] = w[Len(v) + 1]
                        /\ Leads(Append(v, s[p + 1]), w)
                        /\ p + 1 = a + Len(Append(v, s[p + 1]))
  /\ Len(v) = Len(w) => v = w /\ s[p + 1] \in Separators /\ Behind(s, p, u)
  /\ Len(v) + 1 = Len(w) => /\ Append(v, s[p + 1]) = w
                            /\ p + 1 < Len(s) /\ s[p + 2] \in Separators
                            /\ Behind(s, p + 1, u)

(* What can be next in a word that a separator follows.                    *)
LEMMA WordAhead ==
  ASSUME NEW s \in Seq(Chars), NEW p, NEW a, NEW w, NEW u, NEW v,
         Inside(s, p, a, w, u, v)
  PROVE  NextChar(s, p, a, w, u, v)
<1>0. /\ w \in Seq(Chars) /\ u \in Seq(Chars) /\ v \in Seq(Chars)
      /\ Behind(s, a, w \o u) /\ Parted(u) /\ Leads(v, w)
      /\ p = a + Len(v)
  BY DEF Inside
<1>1. /\ Len(v) \in Nat /\ Len(w) \in Nat /\ Len(u) \in Nat /\ a \in Nat /\ Len(u) > 0
      /\ u[1] \in Separators
  BY <1>0 DEF Behind, Parted
<1>2. /\ Behind(s, a + Len(w), u) /\ Len(s) = a + Len(w) + Len(u)
      /\ \A i \in 1..Len(w) : s[a + i] = w[i]
  BY <1>0, BehindSplit
<1>3. s[(a + Len(w)) + 1] = u[1]
  <2>1. 1 \in 1..Len(u)
    BY <1>1
  <2> QED BY <1>2, <2>1 DEF Behind
<1>4. Len(v) <= Len(w)
  BY <1>0 DEF Leads
<1>5. p < Len(s) /\ p \in Nat
  BY <1>0, <1>1, <1>2, <1>4
<1>6. ASSUME Len(v) < Len(w)
      PROVE  /\ s[p + 1] = w[Len(v) + 1] /\ s[p + 1] \in Chars
             /\ Leads(Append(v, s[p + 1]), w)
             /\ p + 1 = a + Len(Append(v, s[p + 1]))
             /\ Append(v, s[p + 1]) \in Seq(Chars)
             /\ Len(Append(v, s[p + 1])) = Len(v) + 1
  <2>1. Len(v) + 1 \in 1..Len(w) /\ p + 1 = a + (Len(v) + 1)
    BY <1>0, <1>1, <1>6
  <2>2. s[p + 1] = w[Len(v) + 1]
    BY <1>2, <2>1
  <2>3. s[p + 1] \in Chars
    BY <1>0, <2>1, <2>2, ElementOfSeq
  <2>4. Append(v, s[p + 1]) \in Seq(Chars) /\ Len(Append(v, s[p + 1])) = Len(v) + 1
    BY <1>0, <2>3, AppendProperties
  <2>5. Leads(Append(v, s[p + 1]), w)
    BY <1>0, <1>6, <2>2, <2>3, LeadsMore
  <2> QED BY <2>1, <2>2, <2>3, <2>4, <2>5
<1>7. ASSUME Len(v) = Len(w)
      PROVE  v = w /\ s[p + 1] \in Separators /\ Behind(s, p, u)
  <2>1. v = w
    BY <1>0, <1>7, LeadsAll
  <2> QED BY <1>0, <1>1, <1>2, <1>3, <1>7, <2>1
<1>8. ASSUME Len(v) + 1 = Len(w)
      PROVE  /\ Append(v, s[p + 1]) = w
             /\ p + 1 < Len(s) /\ s[p + 2] \in Separators /\ Behind(s, p + 1, u)
  <2>1. Len(v) < Len(w)
    BY <1>1, <1>8
  <2>2. Append(v, s[p + 1]) = w
    BY <1>0, <1>6, <1>8, <2>1, LeadsAll
  <2>3. p + 1 = a + Len(w) /\ p + 2 = (a + Len(w)) + 1 /\ p + 1 < Len(s)
    BY <1>0, <1>1, <1>2, <1>8
  <2> QED BY <1>1, <1>2, <1>3, <2>2, <2>3
<1> QED BY <1>5, <1>6, <1>7, <1>8 DEF NextChar

LEMMA ClearKinds ==
  ASSUME NEW w \in Seq(Chars), Clear(w)
  PROVE  /\ StateFor(w[1]) = "normal" => PlainWord(w)
         /\ StateFor(w[1]) \in Quotes =>
              /\ w[1] = StateFor(w[1]) /\ QuotedWord(w)
              /\ \A i \in 2..(Len(w) - 1) : w[i] \notin {w[1], "bs"}
         /\ StateFor(w[1]) \in {"normal"} \cup Quotes
BY DEF Clear, PlainWord, QuotedWord, StateFor, Starts, Quotes

(* ParseToken is in the word w; u is behind it.                            *)
WithinWord(s, T, p, st, v, t, a, w, u, r) ==
  InWord(st, v, w) /\ Ahead(s, T, a, w, u, r, Len(t)) /\ p = a + Len(v)

LEMMA TrackWord ==
  ASSUME NEW s, NEW T, NEW p, NEW st, st # "initial", NEW v, NEW t,
         Tracks(s, T, p, st, v, t)
  PROVE  \E a, w, u, r : WithinWord(s, T, p, st, v, t, a, w, u, r)
BY Zenon DEF Tracks, WithinWord

(* The word goes on.                                                       *)
LEMMA TrackMore ==
  ASSUME NEW s, NEW T, NEW p, NEW st, NEW v, NEW t, Tracks(s, T, p, st, v, t),
         NEW a, NEW w, NEW u, NEW r, WithinWord(s, T, p, st, v, t, a, w, u, r),
         NEW c \in Chars, Leads(Append(v, c), w), p + 1 = a + Len(Append(v, c)),
         st \in Quotes => Len(Append(v, c)) < Len(w)
  PROVE  Tracks(s, T, p + 1, st, Append(v, c), t)
<1>1. t \in Tokens /\ Leads(t, T)
  BY DEF Tracks
<1>2. InWord(st, v, w) /\ Ahead(s, T, a, w, u, r, Len(t))
  BY DEF WithinWord
<1>3. Append(v, c) \in Seq(Chars) /\ Len(Append(v, c)) > 0
  <2>1. v \in Seq(Chars)
    BY <1>2 DEF InWord
  <2> QED BY <2>1, AppendProperties
<1>4. InWord(st, Append(v, c), w)
  BY <1>2, <1>3, Zenon DEF InWord
<1> QED BY <1>1, <1>2, <1>4, Zenon DEF Tracks

(* The word ends.                                                          *)
LEMMA TrackToken ==
  ASSUME NEW s, NEW T \in Tokens, NEW p, NEW st, NEW v, NEW t, Tracks(s, T, p, st, v, t),
         NEW a, NEW w, NEW u, NEW r, WithinWord(s, T, p, st, v, t, a, w, u, r),
         NEW q, Behind(s, q, u)
  PROVE  Tracks(s, T, q, "initial", <<>>, Append(t, w))
<1>1. t \in Tokens /\ Leads(t, T)
  BY DEF Tracks
<1>2. w \in Seq(Chars) /\ Laid(u, r) /\ Behind(T, Len(t), <<w>> \o r)
  BY DEF WithinWord, InWord, Ahead
<1>3. r \in Tokens
  BY <1>2, LaidType
<1>4. Leads(Append(t, w), T) /\ Behind(T, Len(Append(t, w)), r)
  BY <1>1, <1>2, <1>3, TokenDue
<1>5. Append(t, w) \in Tokens
  BY <1>1, <1>2 DEF Tokens
<1>6. BetweenTokens(s, T, q, Len(Append(t, w)))
  BY <1>2, <1>4, Zenon DEF BetweenTokens
<1> QED BY <1>4, <1>5, <1>6, Zenon DEF Tracks

LEMMA TrackNormal ==
  ASSUME NEW s \in Seq(Chars), NEW T \in Tokens, NEW p \in Nat, p < Len(s), NEW v, NEW t,
         Tracks(s, T, p, "normal", v, t), NEW c, c = s[p + 1]
  PROVE  \/ c \in Separators /\ Tracks(s, T, p, "initial", <<>>, Append(t, v))
         \/ c \notin Separators /\ Tracks(s, T, p + 1, "normal", Append(v, c), t)
<1>0. "normal" # "initial" /\ "normal" \notin Quotes
  BY DEF Quotes
<1>1. PICK a, w, u, r : WithinWord(s, T, p, "normal", v, t, a, w, u, r)
  BY <1>0, TrackWord
<1>2. /\ w \in Seq(Chars) /\ Clear(w) /\ v \in Seq(Chars) /\ Leads(v, w)
      /\ StateFor(w[1]) = "normal" /\ Laid(u, r) /\ Parted(u) /\ Behind(s, a, w \o u)
      /\ p = a + Len(v)
  BY <1>1 DEF WithinWord, InWord, Ahead
<1>3. PlainWord(w) /\ u \in Seq(Chars)
  BY <1>2, ClearKinds, LaidType
<1>4. Len(v) \in Nat /\ Len(w) \in Nat /\ Len(v) <= Len(w)
  BY <1>2 DEF Leads
<1>9. NextChar(s, p, a, w, u, v)
  BY <1>2, <1>3, WordAhead, Zenon DEF Inside
<1>5. CASE Len(v) = Len(w)
  <2>1. v = w /\ c \in Separators /\ Behind(s, p, u)
    BY <1>9, <1>5 DEF NextChar
  <2> QED BY <1>1, <2>1, TrackToken
<1>6. CASE Len(v) < Len(w)
  <2>1. c = w[Len(v) + 1] /\ Leads(Append(v, c), w) /\ p + 1 = a + Len(Append(v, c))
    BY <1>9, <1>6 DEF NextChar
  <2>2. Len(v) + 1 \in 1..Len(w)
    BY <1>4, <1>6
  <2>3. c \in Chars /\ c \notin Separators
    BY <1>2, <1>3, <2>1, <2>2, ElementOfSeq DEF PlainWord
  <2> QED BY <1>0, <1>1, <2>1, <2>3, TrackMore
<1> QED BY <1>4, <1>5, <1>6

LEMMA TrackQuoted ==
  ASSUME NEW s \in Seq(Chars), NEW T \in Tokens, NEW p \in Nat, p < Len(s),
         NEW st \in Quotes, NEW v, NEW t,
         Tracks(s, T, p, st, v, t), NEW c, c = s[p + 1]
  PROVE  \/ /\ c = st /\ p + 1 < Len(s) /\ s[p + 2] \in Separators
            /\ Tracks(s, T, p + 1, "initial", <<>>, Append(t, Append(v, c)))
         \/ c \notin {st, "bs"} /\ Tracks(s, T, p + 1, st, Append(v, c), t)
<1>0. st # "initial"
  BY DEF Quotes
<1>1. PICK a, w, u, r : WithinWord(s, T, p, st, v, t, a, w, u, r)
  BY <1>0, TrackWord
<1>2. /\ w \in Seq(Chars) /\ Clear(w) /\ v \in Seq(Chars) /\ Leads(v, w)
      /\ StateFor(w[1]) = st /\ Laid(u, r) /\ Parted(u) /\ Behind(s, a, w \o u)
      /\ p = a + Len(v) /\ Len(v) > 0 /\ Len(v) < Len(w)
  BY <1>1 DEF WithinWord, InWord, Ahead
<1>3. /\ w[1] = st /\ w[Len(w)] = st /\ u \in Seq(Chars)
      /\ \A i \in 2..(Len(w) - 1) : w[i] \notin {st, "bs"}
  BY <1>2, ClearKinds, LaidType DEF QuotedWord
<1>4. Len(v) \in Nat /\ Len(w) \in Nat
  BY <1>2
<1>9. NextChar(s, p, a, w, u, v)
  BY <1>2, <1>3, WordAhead, Zenon DEF Inside
<1>5. c = w[Len(v) + 1] /\ Leads(Append(v, c), w) /\ p + 1 = a + Len(Append(v, c))
  BY <1>2, <1>9 DEF NextChar
<1>6. c \in Chars /\ Len(Append(v, c)) = Len(v) + 1
  <2>1. Len(v) + 1 \in 1..Len(w)
    BY <1>2, <1>4
  <2>2. c \in Chars
    BY <1>2, <1>5, <2>1, ElementOfSeq
  <2> QED BY <1>2, <2>2, AppendProperties
<1>7. CASE Len(v) + 1 = Len(w)
  <2>1. /\ Append(v, c) = w /\ p + 1 < Len(s) /\ s[p + 2] \in Separators
        /\ Behind(s, p + 1, u)
    BY <1>9, <1>7 DEF NextChar
  <2>2. Tracks(s, T, p + 1, "initial", <<>>, Append(t, Append(v, c)))
    BY <1>1, <2>1, TrackToken
  <2> QED BY <1>3, <1>5, <1>7, <2>1, <2>2
<1>8. CASE Len(v) + 1 < Len(w)
  <2>1. Len(v) + 1 \in 2..(Len(w) - 1)
    BY <1>2, <1>4, <1>8
  <2>2. c \notin {st, "bs"}
    BY <1>3, <1>5, <2>1
  <2>3. Len(Append(v, c)) < Len(w)
    BY <1>6, <1>8
  <2>4. Tracks(s, T, p + 1, st, Append(v, c), t)
    BY <1>1, <1>5, <1>6, <2>3, TrackMore
  <2> QED BY <2>2, <2>4
<1> QED BY <1>2, <1>4, <1>7, <1>8

(* All tokens are given at the end of the text.                            *)
LEMMA TrackEnd ==
  ASSUME NEW s \in Seq(Chars), NEW T \in Tokens, NEW st, NEW v, NEW t,
         Tracks(s, T, Len(s), st, v, t)
  PROVE  st = "initial" /\ t = T
<1>0. t \in Tokens /\ Leads(t, T) /\ Len(s) \in Nat
  BY DEF Tracks
<1>1. st = "initial"
  <2> SUFFICES ASSUME st # "initial" PROVE FALSE
    OBVIOUS
  <2>1. PICK a, w, u, r : WithinWord(s, T, Len(s), st, v, t, a, w, u, r)
    BY TrackWord
  <2>2. /\ w \in Seq(Chars) /\ v \in Seq(Chars) /\ Leads(v, w)
        /\ Laid(u, r) /\ Parted(u) /\ Behind(s, a, w \o u) /\ Len(s) = a + Len(v)
    BY <2>1 DEF WithinWord, InWord, Ahead
  <2>3. u \in Seq(Chars)
    BY <2>2, LaidType
  <2>4. NextChar(s, Len(s), a, w, u, v)
    BY <2>2, <2>3, WordAhead, Zenon DEF Inside
  <2>5. Len(s) < Len(s)
    BY <2>4 DEF NextChar
  <2> QED BY <1>0, <2>5
<1>2. BetweenTokens(s, T, Len(s), Len(t))
  <2>1. ASSUME NEW w, InWord("initial", v, w) PROVE FALSE
    BY <2>1 DEF InWord, StateFor, Quotes
  <2> QED BY <1>1, <2>1 DEF Tracks
<1>3. PICK u, r : Laid(u, r) /\ Behind(s, Len(s), u) /\ Behind(T, Len(t), r)
  BY <1>2 DEF BetweenTokens
<1>4. u \in Seq(Chars) /\ r \in Tokens
  BY <1>3, LaidType
<1>5. Len(u) = 0
  BY <1>0, <1>3, <1>4 DEF Behind
<1>6. r = <<>>
  <2>1. u = <<>>
    BY <1>4, <1>5, EmptySeq
  <2>2. ASSUME NEW y, NEW x, x \in Seq(Chars), y \in Seq(Chars), Len(x) > 0, u = x \o y
        PROVE  FALSE
    BY <1>5, <2>2, ConcatProperties
  <2>3. \A b : Len(<<b>>) > 0
    OBVIOUS
  <2>4. ~\E b, y : ByBlank(u, b, y) /\ Laid(y, r)
    <3> SUFFICES ASSUME NEW b, NEW y, ByBlank(u, b, y), Laid(y, r) PROVE FALSE
      OBVIOUS
    <3>1. b \in Chars
      BY DEF ByBlank, Blanks, Chars
    <3>2. <<b>> \in Seq(Chars) /\ y \in Seq(Chars) /\ u = <<b>> \o y
      BY <3>1, CharTexts, LaidType, Zenon DEF ByBlank
    <3> QED BY <2>2, <2>3, <3>2
  <2>5. ~\E c, y, z : ByMark(u, r, c, y, z) /\ Laid(y, z)
    <3> SUFFICES ASSUME NEW c, NEW y, NEW z, ByMark(u, r, c, y, z), Laid(y, z) PROVE FALSE
      OBVIOUS
    <3>1. c \in Chars
      BY DEF ByMark, IsPunctuation, Chars
    <3>2. <<c>> \in Seq(Chars) /\ y \in Seq(Chars) /\ u = <<c>> \o y
      BY <3>1, CharTexts, LaidType, Zenon DEF ByMark
    <3> QED BY <2>2, <2>3, <3>2
  <2>6. ~\E w, y, z : ByWord(u, r, w, y, z) /\ Laid(y, z)
    <3> SUFFICES ASSUME NEW w, NEW y, NEW z, ByWord(u, r, w, y, z), Laid(y, z) PROVE FALSE
      OBVIOUS
    <3>1. w \in Seq(Chars) /\ Clear(w) /\ y \in Seq(Chars) /\ u = w \o y
      BY LaidType, Zenon DEF ByWord
    <3>2. Len(w) > 0
      BY <3>1 DEF Clear, PlainWord, QuotedWord
    <3> QED BY <2>2, <3>1, <3>2
  <2> QED BY <1>3, <2>4, <2>5, <2>6, LaidBegins
<1>7. Len(T) = Len(t)
  <2>1. Len(r) = 0
    BY <1>6
  <2> QED BY <1>0, <1>3, <2>1 DEF Behind, Tokens
<1> QED BY <1>0, <1>1, <1>7, LeadsAll DEF Tokens

-----------------------------------------------------------------------------
(* The printed tree is read again.                                         *)

(* T is accepted, and tree is what it gives.                               *)
Accepts(T, tree) == \E type, st : Way(T, type, st, tree) /\ Final(type, st)

LEMMA LeadsSame ==
  ASSUME NEW T \in Tokens
  PROVE  Leads(T, T)
<1>1. Len(T) \in Nat
  BY DEF Tokens
<1> QED BY <1>1 DEF Leads

LEMMA WayUnique ==
  ASSUME NEW T \in Tokens, NEW a, NEW b, NEW c, Way(T, a, b, c),
         NEW d, NEW e, NEW f, Way(T, d, e, f)
  PROVE  a = d /\ b = e /\ c = f
<1>1. PICK x, y, z : Ran(T, x, y, z)
  BY Zenon DEF Way
<1>2. Leads(T, T)
  BY LeadsSame
<1>3. a = x[Len(T)] /\ b = y[Len(T)] /\ c = z[Len(T)]
  BY <1>1, <1>2, WayPrefix
<1>4. d = x[Len(T)] /\ e = y[Len(T)] /\ f = z[Len(T)]
  BY <1>1, <1>2, WayPrefix
<1> QED BY <1>3, <1>4

(* Parse takes a token that is next in an accepted sequence.               *)
LEMMA RoundTaken ==
  ASSUME ReadType, WayInv, outcome = "running", NEW T \in Tokens, NEW tree, Accepts(T, tree),
         NEW x \in Seq(Chars), Leads(Append(seen, x), T), Taken(x)
  PROVE  outcome' = "running"
<1> DEFINE n == Len(seen)
<1>1. seen \in Tokens /\ n \in Nat /\ Way(seen, last_token_type, stack, blocks)
  BY DEF ReadType, WayInv, Tokens
<1>2. /\ Len(Append(seen, x)) = n + 1 /\ Append(seen, x)[n + 1] = x
      /\ \A i \in 1..n : Append(seen, x)[i] = seen[i]
  BY <1>1, AppendProperties DEF Tokens
<1>3. /\ n + 1 <= Len(T) /\ Len(T) \in Nat
      /\ \A i \in 1..(n + 1) : Append(seen, x)[i] = T[i]
  BY <1>2 DEF Leads, Tokens
<1> HIDE DEF n
<1>4. Leads(seen, T)
  <2>1. \A i \in 1..n : i \in 1..(n + 1)
    BY <1>1
  <2>2. \A i \in 1..n : seen[i] = T[i]
    BY <1>2, <1>3, <2>1
  <2>3. n <= Len(T)
    BY <1>1, <1>3
  <2> QED BY <2>2, <2>3 DEF Leads, n
<1>5. n + 1 \in 1..Len(T) /\ (n + 1) - 1 = n /\ n + 1 \in 1..(n + 1)
  BY <1>1, <1>3
<1>6. T[n + 1] = x
  BY <1>2, <1>3, <1>5
<1>7. PICK a, b, c : Ran(T, a, b, c)
  BY Zenon DEF Accepts, Way
<1>8. last_token_type = a[n] /\ stack = b[n] /\ blocks = c[n]
  BY <1>1, <1>4, <1>7, WayPrefix DEF n
<1>9. Takes(a[n], b[n], c[n], x, a[n + 1], b[n + 1], c[n + 1])
  BY <1>5, <1>6, <1>7 DEF Ran
<1>10. ~Stuck(x)
  BY <1>8, <1>9, Zenon DEF Stuck
<1> QED BY <1>10 DEF Taken

Follow(T) == Tracks(text, T, pos, state, value, seen)

LEMMA RoundRead ==
  ASSUME Inv, ReadType, Reading, WayInv, NEW T \in Tokens, NEW tree, Accepts(T, tree),
         NEW c \in Chars, ParseToken(c), Follow(T)
  PROVE  outcome' = "running" /\ Follow(T)'
<1>0. /\ value \in Seq(Chars) /\ Append(value, c) \in Seq(Chars) /\ <<c>> \in Seq(Chars)
      /\ text \in Seq(Chars) /\ pos \in Nat /\ Len(text) \in Nat
  <2>1. value \in Seq(Chars) /\ text \in Seq(Chars) /\ pos \in 0..Len(text)
    BY DEF Inv, HeapType, ReadType
  <2>2. Append(value, c) \in Seq(Chars)
    BY <2>1, AppendProperties
  <2>3. <<c>> \in Seq(Chars)
    BY CharTexts, Zenon
  <2>4. pos \in Nat /\ Len(text) \in Nat
    BY <2>1
  <2> QED BY <2>1, <2>2, <2>3, <2>4
<1>1. outcome = "running" /\ pos < Len(text) /\ c = text[pos + 1] /\ text' = text
  BY DEF ParseToken, InitialWhitespace, Quoted, Escape, Comment, Normal, Reads, Same
<1>2. Tracks(text, T, pos, state, value, seen)
  BY DEF Follow
<1>3. ASSUME NEW st, NEW v, Go(st, v), Tracks(text, T, pos + 1, st, v, seen)
      PROVE  outcome' = "running" /\ Follow(T)'
  BY <1>1, <1>3 DEF Go, Follow
<1>4. ASSUME NEW x \in Seq(Chars), NEW p, Token(x, p), Taken(x),
             Tracks(text, T, p, "initial", <<>>, Append(seen, x))
      PROVE  outcome' = "running" /\ Follow(T)'
  <2>1. Leads(Append(seen, x), T)
    BY <1>4 DEF Tracks
  <2>2. outcome' = "running"
    BY <1>1, <1>4, <2>1, RoundTaken
  <2> QED BY <1>1, <1>4, <2>2 DEF Token, Follow
<1>5. state \in {"initial", "normal"} \cup Quotes
  <2>1. ASSUME NEW w, InWord(state, value, w) PROVE state \in {"normal"} \cup Quotes
    BY <2>1, ClearKinds DEF InWord
  <2> QED BY <1>2, <2>1 DEF Tracks
<1>6. CASE state = "initial"
  <2>0. InitialWhitespace(c)
    BY <1>6 DEF ParseToken, Quoted, Escape, Comment, Normal
  <2>5. Tracks(text, T, pos, "initial", value, seen)
    BY <1>2, <1>6
  <2>1. CASE c \in Blanks /\ Tracks(text, T, pos + 1, "initial", <<>>, seen)
    <3>1. Go("initial", <<>>)
      BY <2>0, <2>1 DEF InitialWhitespace, Blanks
    <3> QED BY <1>3, <2>1, <3>1
  <2>2. CASE IsPunctuation(c) /\ Tracks(text, T, pos + 1, "initial", <<>>, Append(seen, <<c>>))
    <3>1. Token(<<c>>, pos + 1)
      BY <2>0, <2>2 DEF InitialWhitespace, IsPunctuation
    <3>2. \/ c = ";" /\ GotStatementEnd
          \/ c = "{" /\ GotStartBlock
          \/ c = "}" /\ GotEndBlock
      BY <2>0, <2>2 DEF InitialWhitespace, IsPunctuation
    <3>3. Taken(<<c>>)
      <4>1. c = ";" => IsSemi(<<c>>)
        BY Zenon DEF IsSemi
      <4>2. c = "{" => IsOpen(<<c>>)
        BY Zenon DEF IsOpen
      <4>3. c = "}" => IsClose(<<c>>)
        BY Zenon DEF IsClose
      <4> QED BY <3>2, <4>1, <4>2, <4>3, PunctuationTaken
    <3> QED BY <1>0, <1>4, <2>2, <3>1, <3>3
  <2>3. CASE c \in Starts /\ Tracks(text, T, pos + 1, "normal", <<c>>, seen)
    <3>1. Go("normal", <<c>>)
      BY <2>0, <2>3 DEF InitialWhitespace, Starts
    <3> QED BY <1>3, <2>3, <3>1
  <2>4. CASE c \in Quotes /\ Tracks(text, T, pos + 1, c, <<c>>, seen)
    <3>1. Go(c, <<c>>)
      BY <2>0, <2>4 DEF InitialWhitespace, Quotes
    <3> QED BY <1>3, <2>4, <3>1
  <2> QED BY <1>0, <1>1, <2>1, <2>2, <2>3, <2>4, <2>5, TrackInitial
<1>7. CASE state = "normal"
  <2>0. Normal(c) /\ BeginsWord(value)
    BY <1>1, <1>7 DEF ParseToken, InitialWhitespace, Quoted, Escape, Comment, Reading
  <2>5. Tracks(text, T, pos, "normal", value, seen)
    BY <1>2, <1>7
  <2>1. CASE c \in Separators /\ Tracks(text, T, pos, "initial", <<>>, Append(seen, value))
    <3>1. Token(value, pos) /\ GotNormal(value)
      BY <2>0, <2>1 DEF Normal
    <3>2. Taken(value)
      BY <2>0, <3>1, WordBegun, WordTaken
    <3> QED BY <1>0, <1>4, <2>1, <3>1, <3>2
  <2>2. CASE c \notin Separators /\ Tracks(text, T, pos + 1, "normal", Append(value, c), seen)
    <3>1. Go("normal", Append(value, c))
      BY <2>0, <2>2 DEF Normal
    <3> QED BY <1>3, <2>2, <3>1
  <2> QED BY <1>0, <1>1, <2>1, <2>2, <2>5, TrackNormal
<1>8. CASE state \in Quotes
  <2>0. Quoted(c) /\ BeginsWord(Append(value, c))
    <3>1. Quoted(c)
      BY <1>8 DEF ParseToken, InitialWhitespace, Normal, Escape, Comment, Quotes
    <3>2. BeginsWord(value)
      BY <1>1, <1>8 DEF Reading, Quotes
    <3> QED BY <1>0, <3>1, <3>2, BegunMore
  <2>1. CASE /\ c = state /\ pos + 1 < Len(text) /\ text[pos + 2] \in Separators
             /\ Tracks(text, T, pos + 1, "initial", <<>>, Append(seen, Append(value, c)))
    <3>1. Token(Append(value, c), pos + 1) /\ GotNormal(Append(value, c))
      <4>1. c # "bs"
        BY <1>8, <2>1 DEF Quotes
      <4> QED BY <2>0, <2>1, <4>1 DEF Quoted
    <3>2. Taken(Append(value, c))
      BY <2>0, <3>1, WordBegun, WordTaken
    <3> QED BY <1>0, <1>4, <2>1, <3>1, <3>2
  <2>2. CASE c \notin {state, "bs"} /\ Tracks(text, T, pos + 1, state, Append(value, c), seen)
    <3>1. Go(state, Append(value, c))
      BY <2>0, <2>2 DEF Quoted
    <3> QED BY <1>3, <2>2, <3>1
  <2> QED BY <1>0, <1>1, <1>2, <1>8, <2>1, <2>2, TrackQuoted
<1> QED BY <1>5, <1>6, <1>7, <1>8

(* At the end of the text Parse has the tree that was printed.             *)
LEMMA RoundEnd ==
  ASSUME Inv, ReadType, WayInv, NEW T \in Tokens, NEW tree, Accepts(T, tree),
         EndOfFile, Follow(T)
  PROVE  outcome' = "true" /\ blocks' = tree
<1>1. outcome = "running" /\ pos = Len(text) /\ text \in Seq(Chars)
  BY DEF EndOfFile, ReadType
<1>2. state = "initial" /\ seen = T
  BY <1>1, TrackEnd DEF Follow
<1>3. PICK type, st : Way(T, type, st, tree) /\ Final(type, st)
  BY DEF Accepts
<1>4. Way(T, last_token_type, stack, blocks)
  BY <1>1, <1>2 DEF WayInv
<1>5. last_token_type = type /\ stack = st /\ blocks = tree
  BY <1>3, <1>4, WayUnique
<1>6. GotEof
  BY <1>2 DEF EndOfFile
<1>7. outcome' = "true"
  BY <1>3, <1>5, <1>6 DEF GotEof, Stop, Final, Finals
<1> QED BY <1>5, <1>6, <1>7 DEF GotEof, Stop

(* The printed tree is on its way back.                                    *)
Returns(T) ==
  /\ T \in Tokens /\ Accepts(T, printed)
  /\ outcome \in {"running", "true"}
  /\ outcome = "running" => Follow(T)
  /\ outcome = "true" => blocks = printed

RoundInv == reparses > 0 /\ AllPrintable(printed) => \E T : Returns(T)

LEMMA RoundReparse ==
  ASSUME Inv, ReadType, WayInv, ShapeInv, TreeExact, Reparse
  PROVE  RoundInv'
<1>1. /\ outcome = "true" /\ printed' = blocks /\ seen \in Tokens
      /\ blocks \in Seq(Seq(Statement)) /\ blocks # <<>>
      /\ blocks \in Seq(Seq(ShapedStatement))
  BY DEF Reparse, ReadType, Tokens, Inv, HeapType, ShapeInv
<1>2. /\ text' = ConfigToString(blocks) /\ pos' = 0 /\ state' = "initial"
      /\ value' = <<>> /\ seen' = <<>> /\ outcome' = "running"
  BY DEF Reparse, NewFile
<1> SUFFICES ASSUME AllPrintable(blocks) PROVE \E T : Returns(T)'
  BY <1>1 DEF RoundInv
<1>3. PICK T \in Tokens : T = seen
  BY <1>1
<1>4. Accepts(T, blocks)
  BY <1>1, <1>3, Zenon DEF WayInv, Accepts
<1>5. TokensOf(blocks) = T
  BY <1>1, <1>3 DEF TreeExact
<1>6. Descends(blocks)
  BY DEF Inv, ChildrenBelow, Descends
<1>7. ClearTree(blocks)
  BY <1>1, ShapesClear
<1>8. Laid(text', T)
  BY <1>1, <1>2, <1>5, <1>6, <1>7, TreeLaid
<1>9. Tracks(text', T, 0, "initial", <<>>, <<>>)
  BY <1>8, TrackStart
<1>10. Follow(T)'
  BY <1>2, <1>9 DEF Follow
<1>11. Returns(T)'
  BY <1>1, <1>2, <1>4, <1>10 DEF Returns
<1> QED BY <1>11

LEMMA RoundStep ==
  ASSUME Inv, ReadType, Reading, WayInv, ShapeInv, TreeExact, RoundInv, [Next]_vars
  PROVE  RoundInv'
<1>1. CASE UNCHANGED vars
  BY <1>1 DEF vars, RoundInv, Returns, Follow
<1>2. ASSUME NEW c \in Chars, ParseToken(c) PROVE RoundInv'
  <2>1. outcome = "running" /\ UNCHANGED <<reparses, printed>>
    BY <1>2 DEF ParseToken, InitialWhitespace, Quoted, Escape, Comment, Normal, Reads, Same
  <2> SUFFICES ASSUME NEW T, Returns(T) PROVE Returns(T)'
    BY <2>1 DEF RoundInv
  <2>2. T \in Tokens /\ Accepts(T, printed) /\ Follow(T)
    BY <2>1 DEF Returns
  <2>3. outcome' = "running" /\ Follow(T)'
    BY <1>2, <2>2, RoundRead
  <2> QED BY <2>1, <2>2, <2>3 DEF Returns
<1>3. CASE EndOfFile
  <2>1. outcome = "running" /\ UNCHANGED <<reparses, printed>>
    BY <1>3 DEF EndOfFile, Same
  <2> SUFFICES ASSUME NEW T, Returns(T) PROVE Returns(T)'
    BY <2>1 DEF RoundInv
  <2>2. T \in Tokens /\ Accepts(T, printed) /\ Follow(T)
    BY <2>1 DEF Returns
  <2>3. outcome' = "true" /\ blocks' = printed
    BY <1>3, <2>2, RoundEnd
  <2> QED BY <2>1, <2>2, <2>3 DEF Returns
<1>4. CASE Main
  <2>1. outcome = "true" /\ UNCHANGED <<reparses, printed, outcome, blocks>>
    BY <1>4 DEF Main
  <2> QED BY <2>1 DEF RoundInv, Returns
<1>5. CASE Reparse
  BY <1>5, RoundReparse
<1> QED BY <1>1, <1>2, <1>3, <1>4, <1>5 DEF Next

LEMMA RoundInit == Init => RoundInv
BY DEF Init, RoundInv

(* What ToString prints of any accepted configuration, at any depth of     *)
(* nesting, is accepted again and gives the same tree: the indentation,    *)
(* blanks and braces it puts around the words are read as what they stood  *)
(* for, and no quoted word is cut or joined, if no escape was taken out of *)
(* a quoted word.                                                          *)
THEOREM RoundTripHolds == Spec => []RoundTrip
<1> DEFINE All == /\ Inv /\ ReadType /\ PrintType /\ GrammarInv /\ TreeInv
                  /\ WayInv /\ ShapeInv /\ RoundInv
<1>1. Init => All
  BY InvInit, TypesInit, GrammarInit, TreeInit, WayInit, ShapeInit, RoundInit
<1>2. All /\ [Next]_vars => All'
  <2> SUFFICES ASSUME All, [Next]_vars PROVE All'
    OBVIOUS
  <2>1. Reading /\ TreeExact
    BY DEF GrammarInv, TreeInv
  <2>2. Inv' /\ ReadType' /\ PrintType' /\ GrammarInv' /\ TreeInv'
    BY InvStep, TypesStep, GrammarStep, TreeStep
  <2>3. WayInv' /\ ShapeInv' /\ RoundInv'
    BY <2>1, WayStep, ShapeStep, RoundStep
  <2> QED BY <2>2, <2>3
<1>3. All => RoundTrip
  BY DEF RoundInv, Returns, RoundTrip
<1> QED BY <1>1, <1>2, <1>3, PTL DEF Spec
=============================================================================
