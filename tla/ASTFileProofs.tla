--------------------------- MODULE ASTFileProofs ---------------------------
(***************************************************************************)
(* For trees of any shapes, size and nesting: what is read from a file is  *)
(* the tree that was printed to it.                                        *)
(*                                                                         *)
(* The invariant names three things that the program does not keep.  D is  *)
(* the level of every node: a node's is one more than its parent's, and    *)
(* no node between the two has a lower one, so that the tabs of a line     *)
(* tell where a node ends.  P is the place of every node's line.  W says,  *)
(* for every goal that the reader has left, which node it is for: 0 for a  *)
(* loop, which takes all that is left of a parent.  The nodes read are a   *)
(* beginning of the tree, and the next node of the tree is what the first  *)
(* goal that is not at its end asks for.                                   *)
(***************************************************************************)
EXTENDS ASTFile, FiniteSetTheorems, SequenceTheorems, TLAPS

(* Nodes, lines and goals, and the kinds by the number of their children. *)
Node == [kind : NodeKind, name : STRING \cup {""}, type : Type \cup {""}, size : Nat, up : Nat]
Line == [kind : NodeKind, name : STRING \cup {""}, type : Type \cup {""}, size : Nat, tabs : Nat]
GoalSet ==
  [what : {"decls", "params", "block", "stmts", "expr", "args", "elements"},
   node : Nat, tabs : Nat]

Ones == {"VAR_DECL", "PRINT_STMT", "RETURN_STMT"}
Twos == {"BINARY_EXPR", "IF_STMT", "WHILE_STMT"}
Literals == {"BOOLEAN_EXPR", "NUMBER_EXPR", "STRING_EXPR", "IDENTIFIER_EXPR"}

(* What stands under a node, as far as the reader relies on it. *)
OneChild(x) == \E i \in Nodes : Children(x) = {i} /\ Kind(i) \in Exprs
TwoChildren(x) ==
  \E i, j \in Nodes :
     /\ Children(x) = {i, j} /\ i < j /\ Kind(i) \in Exprs
     /\ Kind(j) \in IF Kind(x) = "BINARY_EXPR" THEN Exprs ELSE {"COMPOUND_STMT"}
Body(f) ==
  \E b \in Nodes :
     Children(f) = {f + 1, b} /\ f + 1 < b /\ Kind(b) \in {"COMPOUND_STMT", "null"}

(* The children a node may have at any time, by its kind. *)
ChildrenOK(x) ==
  /\ Kind(x) = "FUNCTION_DECL" =>
       /\ x + 1 \in Nodes /\ tree[x + 1] = Bare("PARAM_VAR_DECL", x)
       /\ Children(x) = {x + 1} \/ Body(x)
  /\ Kind(x) = "PARAM_VAR_DECL" =>
       /\ x - 1 \in Nodes /\ Kind(x - 1) = "FUNCTION_DECL"
       /\ \A i \in Children(x) : Kind(i) = "VAR_DECL" /\ Children(i) = {}
  /\ Kind(x) \in {"CALL_EXPR", "ARRAY_EXPR"} =>
       \A i \in Children(x) : Kind(i) \in Exprs \cup {"null"}
  /\ Kind(x) \in Ones => Children(x) = {} \/ OneChild(x)
  /\ Kind(x) \in Twos => Children(x) = {} \/ OneChild(x) \/ TwoChildren(x)
  /\ Kind(x) \in Literals => Children(x) = {}

(* A node is open, or it has all the children that it cannot do without. *)
IsOpen(n) == \E k \in DOMAIN open : open[k] = n
Full(x) ==
  /\ Kind(x) \in Twos => TwoChildren(x)
  /\ Kind(x) = "FUNCTION_DECL" => Body(x)

(* There is one program, a block is nothing but its statements, and the tabs of *)
(* a line are its indentation unless it is a string.                            *)
NodeOK(n) ==
  /\ Kind(n) = "PROGRAM_DECL" => n = 1
  /\ Kind(n) = "COMPOUND_STMT" => tree[n] = Bare("COMPOUND_STMT", tree[n].up)
  /\ tree[n].name = Tab => Kind(n) = "STRING_EXPR"
TreeOK ==
  /\ tree \in Seq(Node)
  /\ 1 \in Nodes /\ tree[1] = Program
  /\ \A n \in Nodes : NodeOK(n) /\ ChildrenOK(n) /\ (IsOpen(n) \/ Full(n))

(* Parameters are walked over at once and never open. *)
OpenOK == \A j \in DOMAIN open : open[j] # 1 => ~IsParameter(open[j])

(* The levels of the nodes: one more than the parent's, with no lower one between *)
(* the two.  The open nodes are one of each level, and all that follows one of    *)
(* them so far is below it.                                                       *)
LevelsOK(D) ==
  /\ D \in [Nodes -> Nat]
  /\ D[1] = 0
  /\ \A n \in Nodes : n # 1 =>
       /\ tree[n].up \in 1 .. n - 1
       /\ D[n] = D[tree[n].up] + 1
       /\ \A k \in tree[n].up + 1 .. n - 1 : D[n] <= D[k]
  /\ open \in Seq(Nodes)
  /\ \A j \in DOMAIN open :
       /\ D[open[j]] + j = Len(open)
       /\ \A k \in open[j] + 1 .. Len(tree) : D[open[j]] < D[k]

(* The places of the lines: a node without a line has that of the node before it. *)
LineFor(n, level) ==
  LineOf(IF IsParameter(n) THEN "PARAM_VAR_DECL" ELSE Kind(n), tree[n], level)
LinesOK(D, P) ==
  /\ P \in [Nodes -> Nat]
  /\ P[1] = 1
  /\ lines \in Seq(Line)
  /\ Len(lines) = P[Len(tree)]
  /\ \A n \in Nodes : P[n] \in DOMAIN lines
  /\ \A n \in Nodes : n # 1 =>
       /\ P[n] = P[n - 1] + IF Kind(n) \in NoLine THEN 0 ELSE 1
       /\ Kind(n) \notin NoLine => lines[P[n]] = LineFor(n, D[n])

(* What the reader has left: the node that a node is read for. *)
Owner(i) == IF IsParameter(i) THEN tree[i].up - 1 ELSE tree[i].up

(* A goal after r nodes: a loop of the right kind and indentation, or one node w *)
(* that is not read yet.                                                         *)
LoopOK(g, r, D) ==
  \/ g.what = "decls" /\ g.node = 1
  \/ /\ g.what = "params" /\ Kind(g.node) = "FUNCTION_DECL"
     /\ \E b \in Children(g.node) : b > r
  \/ Kind(g.node) = "CALL_EXPR" /\ g.what = "args" /\ g.tabs = D[g.node] + 1
  \/ Kind(g.node) = "ARRAY_EXPR" /\ g.what = "elements" /\ g.tabs = D[g.node] + 1
  \/ Kind(g.node) = "COMPOUND_STMT" /\ g.what = "stmts" /\ g.tabs = D[g.node]
TargetOK(g, w, r) ==
  /\ w \in Children(g.node) /\ w > r
  /\ \/ g.what = "expr" /\ Kind(w) \in Exprs
     \/ g.what = "block" /\ Kind(w) = "COMPOUND_STMT"
GoalOK(g, w, r, D) ==
  /\ g.node \in 1 .. r
  /\ (w = 0 /\ LoopOK(g, r, D)) \/ (w # 0 /\ TargetOK(g, w, r))

(* Goal g, the i-th, comes before goal h: it is for nodes deeper in the tree, or   *)
(* for an earlier child.  Only the first goal may have been put before the loop of *)
(* the same node, and then it is for the next node.                                *)
OrderOK(g, v, h, w, i, r) ==
  /\ h.node <= g.node
  /\ v # 0 /\ w # 0 => v < w
  /\ h.node = g.node => v # 0
  /\ h.node = g.node /\ w = 0 => i = 1 /\ v = r + 1 /\ h.what # "params"

(* Every node that is not read and is read for one that is has its goal. *)
Covered(t, W, i) == \E j \in 1 .. Len(t) : t[j].node = Owner(i) /\ W[j] \in {0, i}

TodoOK(t, W, r, D) ==
  /\ t \in Seq(GoalSet) /\ W \in Seq(Nat) /\ Len(W) = Len(t)
  /\ t # <<>> /\ t[Len(t)].what = "decls"
  /\ \A j \in 1 .. Len(t) : GoalOK(t[j], W[j], r, D)
  /\ \A i, j \in 1 .. Len(t) : i < j => OrderOK(t[i], W[i], t[j], W[j], i, r)
  /\ \A i \in Nodes : i > r /\ Owner(i) <= r => Covered(t, W, i)

(* What was read is a beginning of the tree, up to the line before the current one. *)
ReadOK(P) ==
  /\ read \in Seq(Node)
  /\ Len(read) \in Nodes
  /\ Kind(Len(read)) # "FUNCTION_DECL"
  /\ \A n \in 1 .. Len(read) : read[n] = tree[n]
  /\ mCurrentLine = P[Len(read)] + 1

FileOK(D, P) ==
  /\ LevelsOK(D)
  /\ LinesOK(D, P)
  /\ status = "reading" /\ Readable =>
       ReadOK(P) /\ \E W : TodoOK(todo, W, Len(read), D)

(* The inductive invariant. *)
FInv ==
  /\ source \in Sources
  /\ TreeOK /\ OpenOK
  /\ status # "printing" => open = <<>>
  /\ RoundTrip
  /\ \E D, P : FileOK(D, P)

----------------------------------------------------------------------------
(* Sequences. *)

LEMMA Concatenation ==
  ASSUME NEW S, NEW x \in Seq(S), NEW y \in Seq(S)
  PROVE  /\ x \o y \in Seq(S) /\ Len(x \o y) = Len(x) + Len(y)
         /\ \A i \in 1 .. Len(x) : (x \o y)[i] = x[i]
         /\ \A i \in 1 .. Len(y) : (x \o y)[Len(x) + i] = y[i]
OBVIOUS

LEMMA TailElements ==
  ASSUME NEW S, NEW x \in Seq(S), x # <<>>
  PROVE  /\ Tail(x) \in Seq(S) /\ Len(Tail(x)) = Len(x) - 1 /\ Len(x) >= 1 /\ Len(x) \in Nat
         /\ \A i \in 1 .. Len(x) - 1 : Tail(x)[i] = x[i + 1]
         /\ Head(x) = x[1]
OBVIOUS

(* The head of a sequence replaced by a sequence. *)
LEMMA HeadReplaced ==
  ASSUME NEW S, NEW x \in Seq(S), NEW y \in Seq(S), y # <<>>, NEW s, s = x \o Tail(y)
  PROVE  /\ s \in Seq(S)
         /\ Len(s) = Len(x) + Len(y) - 1
         /\ \A i \in 1 .. Len(x) : i \in 1 .. Len(s) /\ s[i] = x[i]
         /\ \A j \in 2 .. Len(y) :
              Len(x) + j - 1 \in 1 .. Len(s) /\ s[Len(x) + j - 1] = y[j]
         /\ \A i \in 1 .. Len(s) : i > Len(x) =>
              i + 1 - Len(x) \in 2 .. Len(y) /\ s[i] = y[i + 1 - Len(x)]
<1>1. PICK z : z = Tail(y)
  OBVIOUS
<1>2. /\ z \in Seq(S) /\ Len(z) = Len(y) - 1 /\ Len(y) >= 1 /\ Len(y) \in Nat
      /\ \A i \in 1 .. Len(y) - 1 : z[i] = y[i + 1]
  BY <1>1, TailElements
<1>3. /\ s \in Seq(S) /\ Len(s) = Len(x) + Len(z)
      /\ \A i \in 1 .. Len(x) : s[i] = x[i]
      /\ \A i \in 1 .. Len(z) : s[Len(x) + i] = z[i]
  BY <1>1, <1>2, Concatenation
<1>4. PICK a \in Nat : a = Len(x)
  OBVIOUS
<1>5. PICK b \in Nat : b = Len(y)
  OBVIOUS
<1>6. b >= 1 /\ Len(s) = a + (b - 1)
  BY <1>2, <1>3, <1>4, <1>5
<1>7. \A i \in 1 .. b - 1 : s[a + i] = y[i + 1]
  <2> TAKE i \in 1 .. b - 1
  <2>1. i \in 1 .. Len(z) /\ i \in 1 .. Len(y) - 1
    BY <1>2, <1>5
  <2> QED
    BY <1>2, <1>3, <1>4, <2>1
<1>8. \A i \in 1 .. a : i \in 1 .. Len(s)
  BY <1>6
<1>9. ASSUME NEW j \in 2 .. b
      PROVE  a + j - 1 \in 1 .. Len(s) /\ s[a + j - 1] = y[j]
  <2>1. j - 1 \in 1 .. b - 1 /\ (j - 1) + 1 = j /\ a + j - 1 = a + (j - 1)
    OBVIOUS
  <2>2. s[a + (j - 1)] = y[(j - 1) + 1]
    BY <2>1, <1>7
  <2>3. a + (j - 1) \in 1 .. a + (b - 1)
    OBVIOUS
  <2> QED
    BY <2>1, <2>2, <2>3, <1>6
<1>10. ASSUME NEW i \in 1 .. Len(s), i > a
       PROVE  i + 1 - a \in 2 .. b /\ s[i] = y[i + 1 - a]
  <2>0. i \in 1 .. a + (b - 1)
    BY <1>6
  <2>1. i - a \in 1 .. b - 1 /\ (i - a) + 1 = i + 1 - a /\ a + (i - a) = i
        /\ i + 1 - a \in 2 .. b
    BY <2>0, <1>6, <1>10
  <2>2. s[a + (i - a)] = y[(i - a) + 1]
    BY <2>1, <1>7
  <2> QED
    BY <2>1, <2>2
<1> QED
  BY <1>3, <1>4, <1>5, <1>6, <1>8, <1>9, <1>10

----------------------------------------------------------------------------
(* The goals. *)

(* The goal on top is replaced by goals: what must hold of those. *)
LEMMA Advance ==
  ASSUME NEW t, NEW W, NEW r \in Nat, NEW m \in Nat, NEW D, TodoOK(t, W, r, D),
         NEW G \in Seq(GoalSet), NEW V \in Seq(Nat), Len(V) = Len(G),
         t[1].what # "decls" \/ (G # <<>> /\ G[Len(G)] = t[1]),
         \A k \in 1 .. Len(G) : GoalOK(G[k], V[k], m, D),
         \A j \in 2 .. Len(t) : GoalOK(t[j], W[j], m, D),
         \A i, k \in 1 .. Len(G) : i < k => OrderOK(G[i], V[i], G[k], V[k], i, m),
         \A k \in 1 .. Len(G), j \in 2 .. Len(t) : OrderOK(G[k], V[k], t[j], W[j], k, m),
         \A i \in Nodes : i > m /\ Owner(i) <= m =>
            \/ \E k \in 1 .. Len(G) : G[k].node = Owner(i) /\ V[k] \in {0, i}
            \/ \E j \in 2 .. Len(t) : t[j].node = Owner(i) /\ W[j] \in {0, i}
  PROVE  TodoOK(G \o Tail(t), V \o Tail(W), m, D)
<1>s. PICK s : s = G \o Tail(t)
  OBVIOUS
<1>u. PICK U : U = V \o Tail(W)
  OBVIOUS
<1>a. PICK a : a = Len(G)
  OBVIOUS
<1>b. PICK b : b = Len(t)
  OBVIOUS
<1>1. /\ t \in Seq(GoalSet) /\ W \in Seq(Nat) /\ Len(W) = b
      /\ t # <<>> /\ t[b].what = "decls"
  BY <1>b DEF TodoOK
<1>2. a \in Nat /\ b \in Nat /\ b >= 1 /\ Len(V) = a
  BY <1>1, <1>a, <1>b
<1>3. W # <<>>
  BY <1>1, <1>2
<1>h. /\ t[1].what # "decls" \/ (a # 0 /\ G[a] = t[1])
      /\ \A k \in 1 .. a : GoalOK(G[k], V[k], m, D)
      /\ \A j \in 2 .. b : GoalOK(t[j], W[j], m, D)
      /\ \A i, k \in 1 .. a : i < k => OrderOK(G[i], V[i], G[k], V[k], i, m)
      /\ \A k \in 1 .. a, j \in 2 .. b : OrderOK(G[k], V[k], t[j], W[j], k, m)
      /\ \A i, j \in 1 .. b : i < j => OrderOK(t[i], W[i], t[j], W[j], i, r)
  BY <1>a, <1>b DEF TodoOK
<1>i. \A i \in Nodes : i > m /\ Owner(i) <= m =>
        \/ \E k \in 1 .. a : G[k].node = Owner(i) /\ V[k] \in {0, i}
        \/ \E j \in 2 .. b : t[j].node = Owner(i) /\ W[j] \in {0, i}
  BY <1>a, <1>b
<1>4. /\ s \in Seq(GoalSet) /\ Len(s) = a + b - 1
      /\ \A i \in 1 .. a : i \in 1 .. Len(s) /\ s[i] = G[i]
      /\ \A j \in 2 .. b : a + j - 1 \in 1 .. Len(s) /\ s[a + j - 1] = t[j]
      /\ \A i \in 1 .. Len(s) : i > a => i + 1 - a \in 2 .. b /\ s[i] = t[i + 1 - a]
  BY <1>1, <1>a, <1>b, <1>s, HeadReplaced
<1>5. /\ U \in Seq(Nat) /\ Len(U) = Len(s)
      /\ \A i \in 1 .. a : U[i] = V[i]
      /\ \A j \in 2 .. b : U[a + j - 1] = W[j]
      /\ \A i \in 1 .. Len(s) : i > a => U[i] = W[i + 1 - a]
  <2>1. /\ U \in Seq(Nat) /\ Len(U) = Len(V) + Len(W) - 1
        /\ \A i \in 1 .. Len(V) : U[i] = V[i]
        /\ \A j \in 2 .. Len(W) : U[Len(V) + j - 1] = W[j]
        /\ \A i \in 1 .. Len(U) : i > Len(V) => U[i] = W[i + 1 - Len(V)]
    BY <1>1, <1>3, <1>u, HeadReplaced, SMTT(60)
  <2> QED
    BY <2>1, <1>1, <1>2, <1>4
<1>6. ASSUME NEW i \in 1 .. Len(s)
      PROVE  \/ i \in 1 .. a /\ s[i] = G[i] /\ U[i] = V[i]
             \/ /\ i > a /\ i + 1 - a \in 2 .. b
                /\ s[i] = t[i + 1 - a] /\ U[i] = W[i + 1 - a]
  <2>1. i \in 1 .. a \/ i > a
    BY <1>2
  <2> QED
    BY <2>1, <1>4, <1>5
<1>7. s # <<>> /\ s[Len(s)].what = "decls"
  <2>1. CASE b = 1
    <3>1. t[1].what = "decls"
      BY <2>1, <1>1
    <3>2. a # 0 /\ G[a] = t[1]
      BY <3>1, <1>h
    <3>4. a \in 1 .. a /\ Len(s) = a
      BY <2>1, <3>2, <1>2, <1>4
    <3> QED
      BY <3>1, <3>2, <3>4, <1>4
  <2>2. CASE b # 1
    <3>1. b \in 2 .. b
      BY <2>2, <1>2
    <3>2. s[Len(s)] = t[b]
      BY <3>1, <1>4
    <3>3. Len(s) # 0
      BY <2>2, <1>2, <1>4
    <3> QED
      BY <3>2, <3>3, <1>1, <1>4
  <2> QED
    BY <2>1, <2>2
<1>8. ASSUME NEW i \in 1 .. Len(s)
      PROVE  GoalOK(s[i], U[i], m, D)
  BY <1>6, <1>h
<1>9. ASSUME NEW i \in 1 .. Len(s), NEW j \in 1 .. Len(s), i < j
      PROVE  OrderOK(s[i], U[i], s[j], U[j], i, m)
  <2>1. CASE j <= a
    <3>1. i \in 1 .. a /\ j \in 1 .. a
      BY <1>2, <1>4, <1>9, <2>1
    <3> QED
      BY <3>1, <1>4, <1>5, <1>9, <1>h
  <2>2. CASE i <= a /\ j > a
    <3>1. i \in 1 .. a /\ s[i] = G[i] /\ U[i] = V[i]
      <4>1. i \in 1 .. a
        BY <1>2, <1>4, <2>2
      <4> QED
        BY <4>1, <1>4, <1>5
    <3>2. j + 1 - a \in 2 .. b /\ s[j] = t[j + 1 - a] /\ U[j] = W[j + 1 - a]
      BY <1>2, <1>4, <1>6, <2>2
    <3> QED
      BY <3>1, <3>2, <1>h
  <2>3. CASE i > a
    <3>1. /\ i + 1 - a \in 2 .. b /\ s[i] = t[i + 1 - a] /\ U[i] = W[i + 1 - a]
          /\ j + 1 - a \in 2 .. b /\ s[j] = t[j + 1 - a] /\ U[j] = W[j + 1 - a]
      <4>1. i \in 1 .. Len(s) /\ j \in 1 .. Len(s) /\ i > a /\ j > a
        BY <1>2, <1>4, <1>9, <2>3
      <4> QED
        BY <4>1, <1>4, <1>5
    <3>2. i + 1 - a < j + 1 - a /\ i + 1 - a \in 1 .. b /\ j + 1 - a \in 1 .. b
          /\ i + 1 - a # 1
      BY <3>1, <1>2, <1>4, <1>9
    <3>3. OrderOK(t[i + 1 - a], W[i + 1 - a], t[j + 1 - a], W[j + 1 - a], i + 1 - a, r)
      BY <3>2, <1>h
    <3> QED
      BY <3>1, <3>2, <3>3 DEF OrderOK
  <2> QED
    BY <2>1, <2>2, <2>3, <1>2, <1>4
<1>10. ASSUME NEW i \in Nodes, i > m, Owner(i) <= m
       PROVE  Covered(s, U, i)
  <2>1. CASE \E k \in 1 .. a : G[k].node = Owner(i) /\ V[k] \in {0, i}
    <3>1. PICK k \in 1 .. a : G[k].node = Owner(i) /\ V[k] \in {0, i}
      BY <2>1
    <3>2. k \in 1 .. Len(s) /\ s[k] = G[k] /\ U[k] = V[k]
      BY <1>4, <1>5
    <3> QED
      BY <3>1, <3>2 DEF Covered
  <2>2. CASE \E j \in 2 .. b : t[j].node = Owner(i) /\ W[j] \in {0, i}
    <3>1. PICK j \in 2 .. b : t[j].node = Owner(i) /\ W[j] \in {0, i}
      BY <2>2
    <3>2. a + j - 1 \in 1 .. Len(s) /\ s[a + j - 1] = t[j] /\ U[a + j - 1] = W[j]
      BY <1>4, <1>5
    <3> QED
      BY <3>1, <3>2 DEF Covered
  <2> QED
    BY <1>10, <1>i, <2>1, <2>2
<1> QED
  <2>1. TodoOK(s, U, m, D)
    BY <1>4, <1>5, <1>7, <1>8, <1>9, <1>10 DEF TodoOK
  <2> QED
    BY <2>1, <1>s, <1>u

----------------------------------------------------------------------------
(* The levels. *)

(* The nodes are numbers, and the first is the program. *)
LEMMA Places ==
  ASSUME TreeOK
  PROVE  /\ Len(tree) \in Nat /\ Nodes = 1 .. Len(tree) /\ 1 \in Nodes
         /\ \A n \in Nodes : n \in Nat /\ tree[n] \in Node
         /\ Kind(1) = "PROGRAM_DECL" /\ tree[1].up = 0
<1>1. tree \in Seq(Node) /\ 1 \in Nodes /\ tree[1] = Program
  BY DEF TreeOK
<1>2. Len(tree) \in Nat /\ Nodes = 1 .. Len(tree) /\ \A n \in 1 .. Len(tree) : tree[n] \in Node
  BY <1>1 DEF Nodes
<1>3. Program.kind = "PROGRAM_DECL" /\ Program.up = 0
  BY DEF Program, NodeOf, Plain, Shape
<1> QED
  BY <1>1, <1>2, <1>3 DEF Kind

(* What the levels of a tree are. *)
LEMMA Levels ==
  ASSUME TreeOK, NEW D, LevelsOK(D)
  PROVE  /\ \A n \in Nodes : D[n] \in Nat
         /\ D[1] = 0
         /\ \A n \in Nodes : n # 1 =>
              /\ tree[n].up \in Nodes /\ tree[n].up < n
              /\ D[n] = D[tree[n].up] + 1
         /\ \A n, k \in Nodes : n # 1 /\ tree[n].up < k /\ k < n => D[n] <= D[k]
<1>1. Len(tree) \in Nat /\ Nodes = 1 .. Len(tree)
  BY Places
<1>2. D \in [Nodes -> Nat] /\ D[1] = 0
  BY DEF LevelsOK
<1>3. ASSUME NEW n \in Nodes, n # 1
      PROVE  /\ tree[n].up \in Nodes /\ tree[n].up < n
             /\ D[n] = D[tree[n].up] + 1
             /\ \A k \in Nodes : tree[n].up < k /\ k < n => D[n] <= D[k]
  <2>1. /\ tree[n].up \in 1 .. n - 1 /\ D[n] = D[tree[n].up] + 1
        /\ \A k \in tree[n].up + 1 .. n - 1 : D[n] <= D[k]
    BY <1>3 DEF LevelsOK
  <2>2. PICK u : u = tree[n].up
    OBVIOUS
  <2>3. u \in Nodes /\ u < n /\ u \in Nat /\ n \in Nat
    BY <1>1, <2>1, <2>2
  <2>4. \A k \in Nodes : u < k /\ k < n => k \in u + 1 .. n - 1
    BY <1>1, <2>3
  <2> QED
    BY <2>1, <2>2, <2>3, <2>4
<1> QED
  BY <1>2, <1>3

(* Parameters are under the ParamVarDecls next to their function. *)
LEMMA Parameters ==
  ASSUME TreeOK, NEW D, LevelsOK(D), NEW i \in Nodes, i # 1, IsParameter(i)
  PROVE  /\ Kind(i) = "VAR_DECL" /\ Children(i) = {}
         /\ Owner(i) \in Nodes /\ Kind(Owner(i)) = "FUNCTION_DECL"
         /\ tree[i].up = Owner(i) + 1 /\ Kind(Owner(i) + 1) = "PARAM_VAR_DECL"
         /\ D[i] = D[Owner(i)] + 2 /\ Owner(i) + 1 < i
<1>1. PICK p : p = tree[i].up
  OBVIOUS
<1>2. p \in Nodes /\ p < i /\ D[i] = D[p] + 1 /\ Kind(p) = "PARAM_VAR_DECL"
  BY <1>1, Levels DEF IsParameter
<1>3. /\ p - 1 \in Nodes /\ Kind(p - 1) = "FUNCTION_DECL"
      /\ \A c \in Children(p) : Kind(c) = "VAR_DECL" /\ Children(c) = {}
  BY <1>2 DEF TreeOK, ChildrenOK
<1>4. i \in Children(p)
  BY <1>1 DEF Children
<1>5. p \in Nat /\ p - 1 + 1 = p /\ Owner(i) = p - 1
  BY <1>1, <1>2, Places DEF Owner
<1>6. tree[p] = Bare("PARAM_VAR_DECL", p - 1)
  <2>1. tree[p - 1 + 1] = Bare("PARAM_VAR_DECL", p - 1)
    BY <1>3 DEF TreeOK, ChildrenOK
  <2> QED
    BY <2>1, <1>5
<1>7. tree[p].up = p - 1
  <2>1. \A k, u : Bare(k, u).up = u
    BY DEF Bare
  <2> QED
    BY <2>1, <1>6
<1>8. p # 1
  BY <1>2, Places
<1>9. D[p] = D[p - 1] + 1 /\ D[p - 1] \in Nat
  BY <1>2, <1>3, <1>7, <1>8, Levels
<1> QED
  BY <1>1, <1>2, <1>3, <1>4, <1>5, <1>9

(* A node is read for its owner: its parent, or the function of a parameter. *)
LEMMA Owners ==
  ASSUME TreeOK, NEW D, LevelsOK(D), NEW i \in Nodes, i # 1
  PROVE  /\ Owner(i) \in Nodes /\ Owner(i) < i
         /\ D[i] > D[Owner(i)]
         /\ ~IsParameter(i) => Owner(i) = tree[i].up /\ D[i] = D[Owner(i)] + 1
         /\ \A x \in Nodes :
              Owner(i) < x /\ x < i /\ (x # Owner(i) + 1 \/ ~IsParameter(i)) => D[i] <= D[x]
<1>1. CASE ~IsParameter(i)
  <2>1. Owner(i) = tree[i].up
    BY <1>1 DEF Owner
  <2>2. D[Owner(i)] \in Nat
    BY <2>1, Levels
  <2> QED
    BY <1>1, <2>1, <2>2, Levels
<1>2. CASE IsParameter(i)
  <2>1. PICK f : f = Owner(i)
    OBVIOUS
  <2>2. f \in Nodes /\ tree[i].up = f + 1 /\ D[i] = D[f] + 2 /\ f + 1 < i
    BY <1>2, <2>1, Parameters
  <2>3. f \in Nat /\ i \in Nat /\ D[f] \in Nat
    BY <2>2, Places, Levels
  <2>4. \A x \in Nodes : f < x /\ x # f + 1 => f + 1 < x
    BY <2>3, Places
  <2> QED
    BY <1>2, <2>1, <2>2, <2>3, <2>4, Levels
<1> QED
  BY <1>1, <1>2

(* The node after a node is under it if it is deeper, and it is if the node *)
(* has children at all.                                                     *)
LEMMA FirstChild ==
  ASSUME TreeOK, NEW D, LevelsOK(D), NEW n \in Nodes
  PROVE  /\ n + 1 \in Nodes /\ D[n + 1] > D[n] => tree[n + 1].up = n
         /\ n + 1 \in Nodes => D[n + 1] <= D[n] + 1
         /\ Children(n) # {} => n + 1 \in Nodes /\ tree[n + 1].up = n /\ D[n + 1] = D[n] + 1
<1>1. n \in Nat /\ Nodes = 1 .. Len(tree) /\ Len(tree) \in Nat /\ D[n] \in Nat
  BY Places, Levels
<1>2. ASSUME n + 1 \in Nodes
      PROVE  /\ D[n + 1] > D[n] => tree[n + 1].up = n
             /\ D[n + 1] \in Nat /\ n + 1 # 1
  <2>1. n + 1 # 1 /\ D[n + 1] \in Nat
    BY <1>1, <1>2, Levels
  <2>2. tree[n + 1].up \in Nat /\ tree[n + 1].up < n + 1
    BY <1>2, <2>1, Levels, Places
  <2>3. tree[n + 1].up = n \/ tree[n + 1].up < n
    BY <1>1, <2>2
  <2>4. tree[n + 1].up < n => D[n + 1] <= D[n]
    BY <1>1, <1>2, <2>1, Levels
  <2> QED
    BY <1>1, <2>1, <2>3, <2>4
<1>3. n + 1 \in Nodes => D[n + 1] <= D[n] + 1
  <2> HAVE n + 1 \in Nodes
  <2>1. CASE D[n + 1] > D[n]
    BY <1>1, <1>2, <2>1, Levels
  <2>2. CASE ~(D[n + 1] > D[n])
    BY <1>1, <1>2, <2>2
  <2> QED
    BY <2>1, <2>2
<1>4. ASSUME NEW c \in Children(n)
      PROVE  n + 1 \in Nodes /\ tree[n + 1].up = n /\ D[n + 1] = D[n] + 1
  <2>1. c \in Nodes /\ tree[c].up = n /\ c \in Nat
    BY Places DEF Children
  <2>2. c # 1
    BY <1>1, <2>1, Places
  <2>3. n < c /\ D[c] = D[n] + 1
    BY <2>1, <2>2, Levels
  <2>4. n + 1 \in Nodes /\ D[n + 1] \in Nat
    <3>1. n + 1 \in Nodes
      BY <1>1, <2>1, <2>3
    <3> QED
      BY <3>1, <1>2
  <2>5. CASE c = n + 1
    BY <2>1, <2>3, <2>4, <2>5
  <2>6. CASE c # n + 1
    <3>1. n < n + 1 /\ n + 1 < c
      BY <1>1, <2>1, <2>3, <2>6
    <3>2. D[c] <= D[n + 1]
      BY <2>1, <2>2, <2>4, <3>1, Levels
    <3>3. D[n + 1] > D[n]
      BY <1>1, <2>3, <2>4, <3>2
    <3>4. tree[n + 1].up = n
      BY <1>2, <2>4, <3>3
    <3>5. D[n + 1] = D[n] + 1
      BY <1>2, <2>4, <3>4, Levels
    <3> QED
      BY <2>4, <3>4, <3>5
  <2> QED
    BY <2>5, <2>6
<1> QED
  BY <1>2, <1>3, <1>4

----------------------------------------------------------------------------
(* The goals that the reader has. *)

(* What the goals of the reader are. *)
LEMMA Goals ==
  ASSUME TreeOK, NEW t, NEW W, NEW r \in Nodes, NEW D, TodoOK(t, W, r, D)
  PROVE  /\ t \in Seq(GoalSet) /\ W \in Seq(Nat) /\ Len(W) = Len(t) /\ t # <<>>
         /\ Len(t) \in Nat /\ 1 \in 1 .. Len(t)
         /\ \A j \in 1 .. Len(t) :
              /\ t[j] \in GoalSet /\ W[j] \in Nat
              /\ t[j].node \in Nodes /\ t[j].node <= r
              /\ Kind(t[j].node) # "PARAM_VAR_DECL"
              /\ W[j] = 0 => LoopOK(t[j], r, D)
              /\ W[j] # 0 =>
                   /\ W[j] \in Nodes /\ W[j] > r
                   /\ tree[W[j]].up = t[j].node /\ Owner(W[j]) = t[j].node
                   /\ Kind(W[j]) \in Exprs \cup {"COMPOUND_STMT"}
         /\ \A j \in 2 .. Len(t) : OrderOK(t[1], W[1], t[j], W[j], 1, r)
<1>1. t \in Seq(GoalSet) /\ W \in Seq(Nat) /\ Len(W) = Len(t) /\ t # <<>>
  BY DEF TodoOK
<1>2. Len(t) \in Nat /\ 1 \in 1 .. Len(t)
  BY <1>1
<1>3. ASSUME NEW j \in 1 .. Len(t)
      PROVE  /\ t[j] \in GoalSet /\ W[j] \in Nat
             /\ t[j].node \in Nodes /\ t[j].node <= r
             /\ Kind(t[j].node) # "PARAM_VAR_DECL"
             /\ W[j] = 0 => LoopOK(t[j], r, D)
             /\ W[j] # 0 =>
                  /\ W[j] \in Nodes /\ W[j] > r
                  /\ tree[W[j]].up = t[j].node /\ Owner(W[j]) = t[j].node
                  /\ Kind(W[j]) \in Exprs \cup {"COMPOUND_STMT"}
  <2>1. t[j] \in GoalSet /\ W[j] \in Nat
    BY <1>1
  <2>2. GoalOK(t[j], W[j], r, D)
    BY DEF TodoOK
  <2>3. PICK x : x = t[j].node
    OBVIOUS
  <2>4. x \in Nodes /\ x <= r
    BY <2>2, <2>3, Places DEF GoalOK
  <2>5. CASE W[j] = 0
    <3>1. LoopOK(t[j], r, D)
      BY <2>2, <2>5 DEF GoalOK
    <3>2. Kind(x) # "PARAM_VAR_DECL"
      BY <3>1, <2>3, Places DEF LoopOK
    <3> QED
      BY <2>1, <2>3, <2>4, <2>5, <3>1, <3>2
  <2>6. CASE W[j] # 0
    <3>1. TargetOK(t[j], W[j], r)
      BY <2>2, <2>6 DEF GoalOK
    <3>2. /\ W[j] \in Children(x) /\ W[j] > r
          /\ Kind(W[j]) \in Exprs \cup {"COMPOUND_STMT"}
      BY <3>1, <2>3 DEF TargetOK
    <3>3. Kind(x) # "PARAM_VAR_DECL"
      <4>1. Kind(W[j]) # "VAR_DECL"
        BY <3>2 DEF Exprs
      <4> QED
        BY <4>1, <3>2, <2>4 DEF TreeOK, ChildrenOK
    <3>4. W[j] \in Nodes /\ tree[W[j]].up = x
      BY <3>2 DEF Children
    <3>5. Owner(W[j]) = x
      BY <3>3, <3>4 DEF Owner, IsParameter
    <3> QED
      BY <2>1, <2>3, <2>4, <2>6, <3>2, <3>3, <3>4, <3>5
  <2> QED
    BY <2>5, <2>6
<1>4. \A j \in 2 .. Len(t) : OrderOK(t[1], W[1], t[j], W[j], 1, r)
  <2> TAKE j \in 2 .. Len(t)
  <2>1. j \in 1 .. Len(t) /\ 1 < j
    BY <1>2
  <2> QED
    BY <1>2, <2>1 DEF TodoOK
<1> QED
  BY <1>1, <1>2, <1>3, <1>4

(* The next node is under the node of the first goal if it is deeper than   *)
(* that node, and it is if anything is left under that node.                *)
LEMMA NextNode ==
  ASSUME TreeOK, NEW t, NEW W, NEW r \in Nodes, NEW D, LevelsOK(D), TodoOK(t, W, r, D)
  PROVE  r + 1 \in Nodes /\ D[r + 1] > D[t[1].node] => Owner(r + 1) = t[1].node
<1> SUFFICES ASSUME r + 1 \in Nodes, Owner(r + 1) # t[1].node
             PROVE  D[r + 1] <= D[t[1].node]
  <2>1. r + 1 \in Nodes => D[r + 1] \in Nat
    BY Levels
  <2>2. D[t[1].node] \in Nat
    BY Goals, Levels
  <2> QED
    BY <2>1, <2>2
<1>1. r \in Nat /\ r + 1 # 1 /\ r + 1 > r
  BY Places
<1>2. Owner(r + 1) \in Nodes /\ Owner(r + 1) \in Nat /\ Owner(r + 1) < r + 1
  BY <1>1, Owners, Places
<1>3. PICK j \in 1 .. Len(t) : t[j].node = Owner(r + 1)
  <2>1. Owner(r + 1) <= r
    BY <1>1, <1>2
  <2>2. Covered(t, W, r + 1)
    BY <1>1, <2>1 DEF TodoOK
  <2> QED
    BY <2>2 DEF Covered
<1>4. PICK x : x = t[1].node
  OBVIOUS
<1>5. x \in Nodes /\ x \in Nat /\ x <= r /\ Kind(x) # "PARAM_VAR_DECL"
  BY <1>4, Goals, Places
<1>6. Owner(r + 1) < x
  <2>1. j # 1
    BY <1>3
  <2>2. j \in 2 .. Len(t)
    BY <2>1, Goals
  <2>3. t[j].node <= t[1].node
    BY <2>2, Goals DEF OrderOK
  <2> QED
    BY <1>2, <1>3, <1>4, <1>5, <2>3
<1>7. x # Owner(r + 1) + 1 \/ ~IsParameter(r + 1)
  BY <1>1, <1>5, Parameters
<1>8. x < r + 1
  BY <1>1, <1>5
<1> QED
  BY <1>1, <1>4, <1>5, <1>6, <1>7, <1>8, Owners

(* While some node is left for the first goal, the next node is one of them. *)
LEMMA NextIsLeft ==
  ASSUME TreeOK, NEW t, NEW W, NEW r \in Nodes, NEW D, LevelsOK(D), TodoOK(t, W, r, D),
         Kind(r) # "FUNCTION_DECL", NEW i \in Nodes, i > r, Owner(i) = t[1].node
  PROVE  r + 1 \in Nodes /\ Owner(r + 1) = t[1].node
<1>1. r \in Nat /\ i \in Nat /\ i # 1 /\ Nodes = 1 .. Len(tree) /\ Len(tree) \in Nat
  BY Places
<1>2. r + 1 \in Nodes
  BY <1>1
<1>3. PICK x : x = t[1].node
  OBVIOUS
<1>4. x \in Nodes /\ x \in Nat /\ x <= r /\ D[x] \in Nat
  BY <1>3, Goals, Places, Levels
<1>5. CASE i = r + 1
  BY <1>2, <1>5
<1>6. CASE i # r + 1
  <2>1. x < r + 1 /\ r + 1 < i
    BY <1>1, <1>4, <1>6
  <2>2. r + 1 # x + 1 \/ ~IsParameter(i)
    <3>1. IsParameter(i) => Kind(x) = "FUNCTION_DECL"
      BY <1>1, <1>3, Parameters
    <3> QED
      BY <1>1, <1>4, <3>1
  <2>3. D[i] > D[x] /\ D[i] <= D[r + 1] /\ D[i] \in Nat /\ D[r + 1] \in Nat
    BY <1>1, <1>2, <1>3, <2>1, <2>2, Owners, Levels
  <2>4. D[r + 1] > D[x]
    BY <1>4, <2>3
  <2> QED
    BY <1>2, <1>3, <2>4, NextNode
<1> QED
  BY <1>5, <1>6

(* A goal that is not the first one does not want the next node. *)
LEMMA OtherTargets ==
  ASSUME TreeOK, NEW t, NEW W, NEW r \in Nodes, NEW D, LevelsOK(D), TodoOK(t, W, r, D),
         r + 1 \in Nodes, Owner(r + 1) = t[1].node, W[1] = 0 \/ W[1] = r + 1,
         NEW j \in 2 .. Len(t)
  PROVE  /\ W[j] # 0 => W[j] > r + 1
         /\ W[1] = 0 => t[j].node < t[1].node
         /\ GoalOK(t[j], W[j], r + 1, D)
<1>0. j \in 1 .. Len(t) /\ r \in Nat
  BY Goals, Places
<1>1. OrderOK(t[1], W[1], t[j], W[j], 1, r)
  BY Goals
<1>2. W[1] = 0 => t[j].node < t[1].node
  <2>1. t[j].node \in Nat /\ t[1].node \in Nat
    BY <1>0, Goals, Places
  <2> QED
    BY <1>1, <2>1 DEF OrderOK
<1>3. W[j] # 0 => W[j] > r + 1
  <2> HAVE W[j] # 0
  <2>1. W[j] \in Nat /\ W[j] > r /\ Owner(W[j]) = t[j].node
    BY <1>0, Goals
  <2>2. W[j] # r + 1
    <3>1. CASE W[1] = 0
      <4>1. t[j].node # t[1].node
        BY <1>1, <3>1 DEF OrderOK
      <4> QED
        BY <4>1, <2>1
    <3>2. CASE W[1] = r + 1
      <4>1. W[1] # 0
        BY <3>2, <1>0
      <4>2. W[1] < W[j]
        BY <1>1, <4>1 DEF OrderOK
      <4> QED
        BY <3>2, <4>2, <1>0, <2>1
    <3> QED
      BY <3>1, <3>2
  <2> QED
    BY <2>1, <2>2, <1>0
<1>4. GoalOK(t[j], W[j], r, D)
  BY <1>0 DEF TodoOK
<1>5. t[j].node \in 1 .. r + 1
  BY <1>0, <1>4 DEF GoalOK
<1>8. GoalOK(t[j], W[j], r + 1, D)
  <2>6. CASE W[j] # 0
    BY <1>3, <1>4, <1>5, <2>6 DEF GoalOK, TargetOK
  <2>7. CASE W[j] = 0
    <3>1. LoopOK(t[j], r, D)
      BY <1>4, <2>7 DEF GoalOK
    <3>2. CASE t[j].what = "params"
      <4>1. /\ Kind(t[j].node) = "FUNCTION_DECL"
            /\ \E b \in Children(t[j].node) : b > r
        BY <3>1, <3>2 DEF LoopOK
      <4>2. PICK b \in Children(t[j].node) : b > r
        BY <4>1
      <4>3. b \in Nodes /\ tree[b].up = t[j].node /\ b \in Nat
        BY Places DEF Children
      <4>4. Owner(b) = t[j].node
        BY <4>1, <4>3 DEF Owner, IsParameter
      <4>5. t[j].node # t[1].node
        BY <1>1, <2>7, <3>2 DEF OrderOK
      <4>6. b > r + 1
        BY <1>0, <4>2, <4>3, <4>4, <4>5
      <4>7. LoopOK(t[j], r + 1, D)
        BY <3>2, <4>1, <4>6 DEF LoopOK
      <4> QED
        BY <1>5, <2>7, <4>7 DEF GoalOK
    <3>3. CASE t[j].what # "params"
      <4>1. LoopOK(t[j], r + 1, D)
        BY <3>1, <3>3 DEF LoopOK
      <4> QED
        BY <1>5, <2>7, <4>1 DEF GoalOK
    <3> QED
      BY <3>2, <3>3
  <2> QED
    BY <2>6, <2>7
<1> QED
  BY <1>2, <1>3, <1>8

(* A loop that has nothing left ends. *)
LEMMA Pop ==
  ASSUME TreeOK, NEW t, NEW W, NEW r \in Nodes, NEW D, LevelsOK(D), TodoOK(t, W, r, D),
         t[1].what # "decls",
         \A i \in Nodes : i > r => Owner(i) # t[1].node
  PROVE  TodoOK(<<>> \o Tail(t), <<>> \o Tail(W), r, D)
<1>1. PICK G : G = <<>>
  OBVIOUS
<1>2. G \in Seq(GoalSet) /\ G \in Seq(Nat) /\ Len(G) = 0 /\ 1 .. Len(G) = {}
  BY <1>1
<1>3. \A j \in 2 .. Len(t) : GoalOK(t[j], W[j], r, D)
  <2> TAKE j \in 2 .. Len(t)
  <2>1. j \in 1 .. Len(t)
    BY Goals
  <2> QED
    BY <2>1 DEF TodoOK
<1>4. ASSUME NEW i \in Nodes, i > r, Owner(i) <= r
      PROVE  \E j \in 2 .. Len(t) : t[j].node = Owner(i) /\ W[j] \in {0, i}
  <2>1. PICK j \in 1 .. Len(t) : t[j].node = Owner(i) /\ W[j] \in {0, i}
    BY <1>4 DEF TodoOK, Covered
  <2>2. j # 1
    BY <1>4, <2>1
  <2>3. j \in 2 .. Len(t)
    BY <2>1, <2>2, Goals
  <2> QED
    BY <2>1, <2>3
<1>5. r \in Nat
  BY Places
<1>6. TodoOK(G \o Tail(t), G \o Tail(W), r, D)
  BY <1>2, <1>3, <1>4, <1>5, Advance
<1> QED
  BY <1>1, <1>6

(* A loop goes for the next node, or the reading of parameters ends and goes *)
(* for the body.                                                             *)
LEMMA Push ==
  ASSUME TreeOK, NEW t, NEW W, NEW r \in Nodes, NEW D, LevelsOK(D), TodoOK(t, W, r, D),
         r + 1 \in Nodes, Owner(r + 1) = t[1].node, W[1] = 0,
         NEW g \in GoalSet, g.node = t[1].node, TargetOK(g, r + 1, r),
         NEW G \in Seq(GoalSet), NEW V \in Seq(Nat), Len(V) = Len(G),
         G # <<>> /\ G[1] = g /\ V[1] = r + 1,
         \/ Len(G) = 2 /\ G[2] = t[1] /\ V[2] = 0 /\ t[1].what # "params"
         \/ /\ Len(G) = 1 /\ t[1].what # "decls"
            /\ \A i \in Nodes : i > r /\ Owner(i) = t[1].node => i = r + 1
  PROVE  TodoOK(G \o Tail(t), V \o Tail(W), r, D)
<1>1. r \in Nat /\ 1 \in 1 .. Len(t) /\ r + 1 # 0
  BY Places, Goals
<1>2. Len(G) \in Nat /\ (Len(G) = 1 \/ Len(G) = 2)
  OBVIOUS
<1>c. \A k \in 1 .. Len(G) : k = 1 \/ (k = 2 /\ Len(G) = 2)
  <2>1. PICK n : n = Len(G)
    OBVIOUS
  <2>2. n = 1 \/ n = 2
    BY <1>2, <2>1
  <2>3. \A k \in 1 .. n : k = 1 \/ (k = 2 /\ n = 2)
    BY <2>2
  <2> QED
    BY <2>1, <2>3
<1>3. GoalOK(g, r + 1, r, D)
  <2>1. g.node \in 1 .. r
    BY <1>1 DEF TodoOK, GoalOK
  <2> QED
    BY <1>1, <2>1 DEF GoalOK
<1>4. GoalOK(t[1], 0, r, D)
  BY <1>1 DEF TodoOK
<1>5. \A k \in 1 .. Len(G) : GoalOK(G[k], V[k], r, D)
  <2> TAKE k \in 1 .. Len(G)
  <2>1. k = 1 \/ (k = 2 /\ Len(G) = 2)
    BY <1>c
  <2> QED
    BY <1>3, <1>4, <2>1
<1>6. \A j \in 2 .. Len(t) : GoalOK(t[j], W[j], r, D)
  <2> TAKE j \in 2 .. Len(t)
  <2>1. j \in 1 .. Len(t)
    BY Goals
  <2> QED
    BY <2>1 DEF TodoOK
<1>7. ASSUME NEW i \in 1 .. Len(G), NEW k \in 1 .. Len(G), i < k
      PROVE  OrderOK(G[i], V[i], G[k], V[k], i, r)
  <2>1. i = 1 /\ k = 2 /\ Len(G) = 2
    BY <1>2, <1>7
  <2>2. t[1].node \in Nat
    BY Goals, Places
  <2> QED
    BY <1>1, <2>1, <2>2 DEF OrderOK
<1>8. ASSUME NEW k \in 1 .. Len(G), NEW j \in 2 .. Len(t)
      PROVE  OrderOK(G[k], V[k], t[j], W[j], k, r)
  <2>1. k = 1 \/ (k = 2 /\ Len(G) = 2)
    BY <1>c
  <2>2. G[k].node = t[1].node /\ (V[k] = 0 \/ V[k] = r + 1)
    BY <2>1
  <2>3. t[j].node < t[1].node /\ (W[j] # 0 => W[j] > r + 1)
    BY OtherTargets
  <2>4. t[j].node \in Nat /\ t[1].node \in Nat /\ W[j] \in Nat
    <3>1. j \in 1 .. Len(t)
      BY Goals
    <3> QED
      BY <1>1, <3>1, Goals, Places
  <2>5. t[j].node <= G[k].node /\ t[j].node # G[k].node
    BY <2>2, <2>3, <2>4
  <2>6. V[k] # 0 /\ W[j] # 0 => V[k] < W[j]
    BY <2>2, <2>3, <2>4, <1>1
  <2> QED
    BY <2>5, <2>6 DEF OrderOK
<1>9. ASSUME NEW i \in Nodes, i > r, Owner(i) <= r
      PROVE  \/ \E k \in 1 .. Len(G) : G[k].node = Owner(i) /\ V[k] \in {0, i}
             \/ \E j \in 2 .. Len(t) : t[j].node = Owner(i) /\ W[j] \in {0, i}
  <2>1. PICK j \in 1 .. Len(t) : t[j].node = Owner(i) /\ W[j] \in {0, i}
    BY <1>9 DEF TodoOK, Covered
  <2>2. CASE j = 1
    <3>1. Owner(i) = t[1].node
      BY <2>1, <2>2
    <3>2. CASE Len(G) = 2
      BY <3>1, <3>2
    <3>3. CASE Len(G) = 1
      <4>1. i = r + 1 /\ 1 \in 1 .. Len(G)
        BY <1>9, <3>1, <3>3
      <4> QED
        BY <3>1, <4>1
    <3> QED
      BY <1>2, <3>2, <3>3
  <2>3. CASE j # 1
    <3>1. j \in 2 .. Len(t)
      BY <2>1, <2>3, Goals
    <3> QED
      BY <2>1, <3>1
  <2> QED
    BY <2>2, <2>3
<1>10. t[1].what # "decls" \/ G[Len(G)] = t[1]
  OBVIOUS
<1> QED
  BY <1>1, <1>5, <1>6, <1>7, <1>8, <1>9, <1>10, Advance

(* A node is read: h goals for what is under it come first, and a loop goes *)
(* on.                                                                      *)
LEMMA Consume ==
  ASSUME TreeOK, NEW t, NEW W, NEW r \in Nodes, NEW D, LevelsOK(D), TodoOK(t, W, r, D),
         r + 1 \in Nodes, Owner(r + 1) = t[1].node, W[1] = 0 \/ W[1] = r + 1,
         NEW m \in Nodes,
         m = r + 1 \/ (m = r + 2 /\ tree[r + 2].up = r + 1 /\ Kind(r + 2) = "PARAM_VAR_DECL"),
         NEW G \in Seq(GoalSet), NEW V \in Seq(Nat), Len(V) = Len(G),
         NEW h \in Nat,
         W[1] = 0 => /\ Len(G) = h + 1 /\ G[h + 1] = t[1] /\ V[h + 1] = 0
                     /\ LoopOK(t[1], m, D),
         W[1] # 0 => Len(G) = h,
         \A k \in 1 .. h : G[k].node = r + 1 /\ GoalOK(G[k], V[k], m, D),
         \A i, k \in 1 .. h : i < k => V[i] # 0 /\ V[k] # 0 /\ V[i] < V[k],
         \A i \in Nodes : i > m /\ Owner(i) = r + 1 => \E k \in 1 .. h : V[k] \in {0, i}
  PROVE  TodoOK(G \o Tail(t), V \o Tail(W), m, D)
<1>1. r \in Nat /\ m \in Nat /\ 1 \in 1 .. Len(t) /\ r + 1 # 0 /\ r + 1 # 1 /\ r + 1 <= m
  BY Places, Goals
<1>2. PICK x : x = t[1].node
  OBVIOUS
<1>3. x \in Nat /\ x \in 1 .. r /\ x \in 1 .. m
  <2>1. x \in 1 .. r
    BY <1>1, <1>2 DEF TodoOK, GoalOK
  <2> QED
    BY <2>1, <1>1
<1>4. \A k \in 1 .. Len(G) :
        \/ k \in 1 .. h
        \/ k = h + 1 /\ W[1] = 0 /\ G[k] = t[1] /\ V[k] = 0
  BY <1>1
<1>5. \A k \in 1 .. Len(G) : GoalOK(G[k], V[k], m, D)
  <2> TAKE k \in 1 .. Len(G)
  <2>1. CASE k \in 1 .. h
    BY <2>1
  <2>2. CASE k = h + 1 /\ W[1] = 0 /\ G[k] = t[1] /\ V[k] = 0
    BY <2>2, <1>2, <1>3 DEF GoalOK
  <2> QED
    BY <1>4, <2>1, <2>2
<1>6. \A j \in 2 .. Len(t) :
        /\ j \in 1 .. Len(t) /\ t[j].node \in Nat /\ W[j] \in Nat
        /\ t[j].node <= x /\ t[j].node <= r
        /\ W[1] = 0 => t[j].node < x
        /\ W[j] # 0 => W[j] > r + 1
  <2> TAKE j \in 2 .. Len(t)
  <2>1. j \in 1 .. Len(t)
    BY Goals
  <2>2. OrderOK(t[1], W[1], t[j], W[j], 1, r)
    BY Goals
  <2> QED
    BY <2>1, <2>2, <1>2, Goals, Places, OtherTargets DEF OrderOK
<1>7. ASSUME NEW j \in 2 .. Len(t)
      PROVE  GoalOK(t[j], W[j], m, D)
  <2>1. GoalOK(t[j], W[j], r + 1, D)
    BY OtherTargets
  <2>2. CASE m = r + 1
    BY <2>1, <2>2
  <2>3. CASE m # r + 1
    <3>1. m = r + 2 /\ tree[m].up = r + 1
      BY <2>3
    <3>2. t[j].node \in 1 .. m /\ t[j].node # r + 1
      BY <1>1, <1>6, <2>1 DEF GoalOK
    <3>3. \A b \in Children(t[j].node) : b \in Nat /\ b # m
      BY <3>1, <3>2, Places DEF Children
    <3>4. \A b \in Children(t[j].node) : b > r + 1 => b > m
      BY <1>1, <3>1, <3>3
    <3>5. CASE W[j] # 0
      <4>1. TargetOK(t[j], W[j], r + 1)
        BY <2>1, <3>5 DEF GoalOK
      <4>2. TargetOK(t[j], W[j], m)
        BY <3>4, <4>1 DEF TargetOK
      <4> QED
        BY <3>2, <3>5, <4>2 DEF GoalOK
    <3>6. CASE W[j] = 0
      <4>1. LoopOK(t[j], r + 1, D)
        BY <2>1, <3>6 DEF GoalOK
      <4>2. LoopOK(t[j], m, D)
        BY <3>4, <4>1 DEF LoopOK
      <4> QED
        BY <3>2, <3>6, <4>2 DEF GoalOK
    <3> QED
      BY <3>5, <3>6
  <2> QED
    BY <2>2, <2>3
<1>8. ASSUME NEW i \in 1 .. Len(G), NEW k \in 1 .. Len(G), i < k
      PROVE  OrderOK(G[i], V[i], G[k], V[k], i, m)
  <2>1. i \in 1 .. h /\ i # h + 1
    <3>1. i # h + 1
      BY <1>4, <1>8
    <3> QED
      BY <1>4, <3>1
  <2>2. G[i].node = r + 1
    BY <2>1
  <2>3. CASE k \in 1 .. h
    <3>1. G[k].node = r + 1 /\ V[i] # 0 /\ V[k] # 0 /\ V[i] < V[k]
      BY <1>8, <2>1, <2>3
    <3> QED
      BY <1>1, <2>2, <3>1 DEF OrderOK
  <2>4. CASE G[k] = t[1] /\ V[k] = 0
    <3>1. G[k].node <= r + 1 /\ G[k].node # r + 1
      BY <1>1, <1>2, <1>3, <2>4
    <3> QED
      BY <2>2, <2>4, <3>1 DEF OrderOK
  <2> QED
    BY <1>4, <2>3, <2>4
<1>9. ASSUME NEW k \in 1 .. Len(G), NEW j \in 2 .. Len(t)
      PROVE  OrderOK(G[k], V[k], t[j], W[j], k, m)
  <2>1. CASE k \in 1 .. h
    <3>1. G[k].node = r + 1 /\ GoalOK(G[k], V[k], m, D)
      BY <2>1
    <3>2. t[j].node <= r + 1 /\ t[j].node # r + 1
      BY <1>1, <1>6
    <3>3. V[k] # 0 /\ W[j] # 0 => V[k] < W[j]
      <4> SUFFICES ASSUME V[k] # 0, W[j] # 0
                   PROVE  V[k] < W[j]
        OBVIOUS
      <4>1. PICK v : v = V[k]
        OBVIOUS
      <4>2. PICK w : w = W[j]
        OBVIOUS
      <4>3. v \in Nodes /\ v \in Nat /\ tree[v].up = r + 1 /\ v # 1
        <5>1. v \in Children(r + 1) /\ v > m
          BY <3>1, <4>1 DEF GoalOK, TargetOK
        <5> QED
          BY <5>1, <1>1, Places DEF Children
      <4>4. /\ w \in Nodes /\ w \in Nat /\ tree[w].up = t[j].node /\ w > r + 1 /\ w # 1
            /\ t[j].node < r + 1
        <5>1. w > r + 1
          BY <1>6, <4>2
        <5>2. w \in Nodes /\ tree[w].up = t[j].node
          BY <1>6, <4>2, Goals
        <5>3. w \in Nat
          BY <5>2, Places
        <5>4. t[j].node < r + 1
          BY <1>1, <1>6
        <5>5. w # 1
          BY <1>1, <5>1, <5>3
        <5> QED
          BY <5>1, <5>2, <5>3, <5>4, <5>5
      <4>5. w # v
        BY <4>3, <4>4, <3>2
      <4>6. D[w] <= D[r + 1] /\ D[v] = D[r + 1] + 1 /\ D[r + 1] \in Nat /\ D[w] \in Nat
        BY <4>3, <4>4, Levels
      <4>7. ~(w < v)
        <5> SUFFICES ASSUME w < v
                     PROVE  FALSE
          OBVIOUS
        <5>1. D[v] <= D[w]
          BY <4>3, <4>4, Levels
        <5> QED
          BY <5>1, <4>6
      <4> QED
        BY <4>1, <4>2, <4>3, <4>4, <4>5, <4>7
    <3> QED
      BY <3>1, <3>2, <3>3 DEF OrderOK
  <2>2. CASE W[1] = 0 /\ G[k] = t[1] /\ V[k] = 0
    <3>1. t[j].node <= x /\ t[j].node # x
      BY <1>3, <1>6, <2>2
    <3> QED
      BY <2>2, <3>1, <1>2 DEF OrderOK
  <2> QED
    BY <1>4, <2>1, <2>2
<1>10. ASSUME NEW i \in Nodes, i > m, Owner(i) <= m
       PROVE  \/ \E k \in 1 .. Len(G) : G[k].node = Owner(i) /\ V[k] \in {0, i}
              \/ \E j \in 2 .. Len(t) : t[j].node = Owner(i) /\ W[j] \in {0, i}
  <2>0. i \in Nat /\ i # 1 /\ i > r + 1 /\ i > r
    BY <1>1, <1>10, Places
  <2>1. Owner(i) \in Nodes /\ Owner(i) \in Nat
    BY <2>0, Owners, Places
  <2>2. CASE Owner(i) = r + 1
    <3>1. PICK k \in 1 .. h : V[k] \in {0, i}
      BY <1>10, <2>2
    <3>2. k \in 1 .. Len(G) /\ G[k].node = r + 1
      BY <1>4
    <3> QED
      BY <2>2, <3>1, <3>2
  <2>3. CASE Owner(i) = r + 2 /\ m = r + 2
    <3>1. Kind(r + 2) = "PARAM_VAR_DECL"
      BY <1>1, <2>3
    <3>2. CASE IsParameter(i)
      <4>1. Kind(Owner(i)) = "FUNCTION_DECL"
        BY <2>0, <3>2, Parameters
      <4> QED
        BY <4>1, <3>1, <2>3
    <3>3. CASE ~IsParameter(i)
      <4>1. Owner(i) = tree[i].up
        BY <3>3 DEF Owner
      <4> QED
        BY <3>1, <3>3, <4>1, <2>3 DEF IsParameter
    <3> QED
      BY <3>2, <3>3
  <2>4. CASE Owner(i) <= r
    <3>1. PICK j \in 1 .. Len(t) : t[j].node = Owner(i) /\ W[j] \in {0, i}
      BY <2>0, <2>4 DEF TodoOK, Covered
    <3>2. CASE j = 1
      <4>1. W[1] = 0
        BY <2>0, <3>1, <3>2, <1>1
      <4>2. h + 1 \in 1 .. Len(G) /\ G[h + 1] = t[1] /\ V[h + 1] = 0
        BY <4>1
      <4> QED
        BY <3>1, <3>2, <4>2
    <3>3. CASE j # 1
      <4>1. j \in 2 .. Len(t)
        BY <3>1, <3>3, Goals
      <4> QED
        BY <3>1, <4>1
    <3> QED
      BY <3>2, <3>3
  <2>5. Owner(i) = r + 1 \/ (Owner(i) = r + 2 /\ m = r + 2) \/ Owner(i) <= r
    BY <1>1, <1>10, <2>1
  <2> QED
    BY <2>2, <2>3, <2>4, <2>5
<1>11. t[1].what # "decls" \/ (G # <<>> /\ G[Len(G)] = t[1])
  <2>1. CASE W[1] = 0
    <3>1. Len(G) = h + 1 /\ G[h + 1] = t[1]
      BY <2>1
    <3>2. G # <<>>
      BY <3>1
    <3> QED
      BY <3>1, <3>2
  <2>2. CASE W[1] # 0
    <3>1. TargetOK(t[1], W[1], r)
      BY <1>1, <2>2 DEF TodoOK, GoalOK
    <3> QED
      BY <3>1 DEF TargetOK
  <2> QED
    BY <2>1, <2>2
<1> QED
  BY <1>1, <1>5, <1>7, <1>8, <1>9, <1>10, <1>11, Advance

(* What a goal asks for tells a loop from a target, and a target on top is *)
(* the next node.                                                          *)
LEMMA TopGoal ==
  ASSUME TreeOK, NEW t, NEW W, NEW r \in Nodes, NEW D, TodoOK(t, W, r, D)
  PROVE  /\ t[1].what \in {"expr", "block"} <=> W[1] # 0
         /\ W[1] = 0 => LoopOK(t[1], r, D)
         /\ W[1] # 0 => TargetOK(t[1], W[1], r)
<1>1. GoalOK(t[1], W[1], r, D)
  BY Goals DEF TodoOK
<1>2. W[1] = 0 => LoopOK(t[1], r, D) /\ t[1].what \notin {"expr", "block"}
  BY <1>1 DEF GoalOK, LoopOK
<1>3. W[1] # 0 => TargetOK(t[1], W[1], r) /\ t[1].what \in {"expr", "block"}
  BY <1>1 DEF GoalOK, TargetOK
<1> QED
  BY <1>2, <1>3

(* A goal for one node is for the node after those read. *)
LEMMA TargetIsNext ==
  ASSUME TreeOK, NEW t, NEW W, NEW r \in Nodes, NEW D, LevelsOK(D), TodoOK(t, W, r, D),
         Kind(r) # "FUNCTION_DECL", W[1] # 0
  PROVE  /\ r + 1 \in Nodes /\ Owner(r + 1) = t[1].node /\ tree[r + 1].up = t[1].node
         /\ W[1] = r + 1
<1>1. /\ W[1] \in Nodes /\ W[1] > r /\ Owner(W[1]) = t[1].node /\ W[1] \in Nat
      /\ tree[W[1]].up = t[1].node /\ r \in Nat
  BY Goals, Places
<1>2. r + 1 \in Nodes /\ Owner(r + 1) = t[1].node
  BY <1>1, NextIsLeft
<1>3. W[1] = r + 1
  <2>1. t[1].node <= r /\ r + 1 > r
    BY <1>1, Goals
  <2>2. PICK j \in 1 .. Len(t) : t[j].node = t[1].node /\ W[j] \in {0, r + 1}
    BY <1>2, <2>1 DEF TodoOK, Covered
  <2>3. CASE j = 1
    BY <2>2, <2>3
  <2>4. CASE j # 1
    <3>1. j \in 2 .. Len(t)
      BY <2>2, <2>4, Goals
    <3>2. OrderOK(t[1], W[1], t[j], W[j], 1, r)
      BY <3>1, Goals
    <3>3. CASE W[j] = 0
      BY <2>2, <3>2, <3>3 DEF OrderOK
    <3>4. CASE W[j] = r + 1
      <4>1. W[j] # 0
        BY <3>4, <1>1
      <4>2. W[1] < r + 1
        BY <3>2, <3>4, <4>1 DEF OrderOK
      <4> QED
        BY <1>1, <4>2
    <3> QED
      BY <2>2, <3>3, <3>4
  <2> QED
    BY <2>3, <2>4
<1> QED
  BY <1>1, <1>2, <1>3

(* But for parameters the owner of a node is its parent. *)
LEMMA OwnedAreChildren ==
  ASSUME TreeOK, NEW D, LevelsOK(D), NEW n \in Nodes, Kind(n) # "FUNCTION_DECL",
         NEW i \in Nodes, i # 1, Owner(i) = n
  PROVE  i \in Children(n)
<1>1. ~IsParameter(i)
  BY Parameters
<1> QED
  BY <1>1 DEF Owner, Children

----------------------------------------------------------------------------
(* The lines of a finished tree that can be read. *)

Context(D, P) ==
  /\ TreeOK /\ LevelsOK(D) /\ LinesOK(D, P)
  /\ Readable
  /\ open = <<>>

(* The current line is that of the next node with a line. *)
LEMMA CurrentLine ==
  ASSUME NEW D, NEW P, Context(D, P), NEW r \in Nodes, Kind(r) # "FUNCTION_DECL"
  PROVE  /\ r + 1 \notin Nodes => LineAt(P[r] + 1) = EndOfFile
         /\ r + 1 \in Nodes =>
              /\ P[r + 1] = P[r] + 1
              /\ LineAt(P[r] + 1) \in Line
              /\ LineAt(P[r] + 1).tabs = D[r + 1]
              /\ LineAt(P[r] + 1).kind = IF IsParameter(r + 1) THEN "PARAM_VAR_DECL" ELSE Kind(r + 1)
              /\ LineAt(P[r] + 1).name = tree[r + 1].name
              /\ LineAt(P[r] + 1).type = tree[r + 1].type
              /\ LineAt(P[r] + 1).size = tree[r + 1].size
              /\ Kind(r + 1) \notin NoLine
<1>1. TreeOK /\ LevelsOK(D) /\ LinesOK(D, P) /\ Readable
  BY DEF Context
<1>2. r \in Nat /\ Len(tree) \in Nat /\ Nodes = 1 .. Len(tree)
  BY <1>1, Places
<1>3. /\ P \in [Nodes -> Nat] /\ lines \in Seq(Line) /\ Len(lines) = P[Len(tree)]
      /\ \A n \in Nodes : P[n] \in DOMAIN lines
  BY <1>1 DEF LinesOK
<1>4. ASSUME r + 1 \notin Nodes
      PROVE  LineAt(P[r] + 1) = EndOfFile
  <2>1. r = Len(tree)
    BY <1>2, <1>4
  <2>2. P[r] \in Nat /\ Len(lines) = P[r]
    BY <1>3, <2>1
  <2>3. ~(P[r] + 1 <= Len(lines))
    BY <2>2
  <2> QED
    BY <2>3 DEF LineAt
<1>5. ASSUME r + 1 \in Nodes
      PROVE  /\ P[r + 1] = P[r] + 1
             /\ LineAt(P[r] + 1) \in Line
             /\ LineAt(P[r] + 1) = LineFor(r + 1, D[r + 1])
             /\ Kind(r + 1) \notin NoLine
             /\ tree[r + 1].name # Tab /\ D[r + 1] \in Nat
  <2>1. r + 1 # 1 /\ (r + 1) - 1 = r
    BY <1>2
  <2>2. Kind(r + 1) # "PARAM_VAR_DECL"
    <3> SUFFICES ASSUME Kind(r + 1) = "PARAM_VAR_DECL"
                 PROVE  FALSE
      OBVIOUS
    <3>1. Kind((r + 1) - 1) = "FUNCTION_DECL"
      BY <1>1, <1>5 DEF TreeOK, ChildrenOK
    <3> QED
      BY <2>1, <3>1
  <2>3. Kind(r + 1) \notin NoLine
    BY <1>1, <1>5, <2>2 DEF Readable, NoLine
  <2>4. tree[r + 1].name # Tab
    BY <1>1, <1>5 DEF Readable, TreeOK, NodeOK
  <2>5. P[r + 1] = P[(r + 1) - 1] + 1 /\ lines[P[r + 1]] = LineFor(r + 1, D[r + 1])
    BY <1>1, <1>5, <2>1, <2>3 DEF LinesOK
  <2>6. P[r] + 1 \in DOMAIN lines /\ P[r + 1] = P[r] + 1
    BY <1>3, <1>5, <2>1, <2>5
  <2>7. P[r] + 1 <= Len(lines) /\ lines[P[r] + 1] \in Line
    BY <1>3, <2>6
  <2>8. LineAt(P[r] + 1) = lines[P[r] + 1]
    BY <2>7 DEF LineAt
  <2> QED
    BY <1>1, <1>5, <2>3, <2>4, <2>5, <2>6, <2>7, <2>8, Levels
<1>6. ASSUME r + 1 \in Nodes
      PROVE  LET l == LineFor(r + 1, D[r + 1]) IN
             /\ l.tabs = D[r + 1]
             /\ l.kind = IF IsParameter(r + 1) THEN "PARAM_VAR_DECL" ELSE Kind(r + 1)
             /\ l.name = tree[r + 1].name
             /\ l.type = tree[r + 1].type
             /\ l.size = tree[r + 1].size
  <2>1. tree[r + 1].name # Tab /\ D[r + 1] + 0 = D[r + 1]
    BY <1>5, <1>6
  <2> QED
    BY <2>1 DEF LineFor, LineOf
<1> QED
  BY <1>4, <1>5, <1>6

(* The kind of the next node and its parent, as the reader finds them. *)
LEMMA NodeIsRead ==
  ASSUME NEW D, NEW P, Context(D, P), NEW r \in Nodes, Kind(r) # "FUNCTION_DECL",
         mCurrentLine = P[r] + 1, r + 1 \in Nodes
  PROVE  NodeRead(Kind(r + 1), tree[r + 1].up) = tree[r + 1]
<1>1. PICK x : x = tree[r + 1]
  OBVIOUS
<1>2. x \in Node
  BY <1>1, Places DEF Context
<1>3. x = [kind |-> x.kind, name |-> x.name, type |-> x.type, size |-> x.size, up |-> x.up]
  BY <1>2 DEF Node
<1>4. line.name = x.name /\ line.type = x.type /\ line.size = x.size
  BY <1>1, CurrentLine DEF line
<1> QED
  BY <1>1, <1>3, <1>4 DEF NodeRead, Kind

(* A node more is read. *)
LEMMA ReadGrows ==
  ASSUME NEW P, TreeOK, ReadOK(P), NEW r, r = Len(read), r + 1 \in Nodes,
         Kind(r + 1) # "FUNCTION_DECL", P[r + 1] = P[r] + 1,
         read' = Append(read, tree[r + 1]),
         mCurrentLine' = mCurrentLine + 1, tree' = tree
  PROVE  ReadOK(P)' /\ Len(read') = r + 1
<1>1. read \in Seq(Node) /\ r \in Nat /\ tree[r + 1] \in Node
  BY Places DEF ReadOK
<1>2. /\ read' \in Seq(Node) /\ Len(read') = r + 1 /\ read'[r + 1] = tree[r + 1]
      /\ \A n \in 1 .. r : read'[n] = read[n]
  BY <1>1
<1>3. \A n \in 1 .. r + 1 : n = r + 1 \/ n \in 1 .. r
  BY <1>1
<1>4. \A n \in 1 .. Len(read') : read'[n] = tree'[n]
  BY <1>2, <1>3 DEF ReadOK
<1>5. mCurrentLine' = P[Len(read')] + 1
  BY <1>2 DEF ReadOK
<1>6. Len(read') \in Nodes' /\ tree'[Len(read')].kind # "FUNCTION_DECL"
  BY <1>2 DEF Nodes, Kind
<1> QED
  BY <1>2, <1>4, <1>5, <1>6 DEF ReadOK, Kind

(* No node is read. *)
LEMMA ReadStays ==
  ASSUME NEW P, ReadOK(P), read' = read, mCurrentLine' = mCurrentLine, tree' = tree
  PROVE  ReadOK(P)' /\ Len(read') = Len(read)
BY DEF ReadOK, Nodes, Kind

----------------------------------------------------------------------------
(* Reading a node, and what stands under it. *)

Reading(D, P, W, r) ==
  /\ Context(D, P)
  /\ ReadOK(P) /\ r = Len(read)
  /\ TodoOK(todo, W, r, D)
Result(D, P) == ReadOK(P)' /\ \E V : TodoOK(todo', V, Len(read'), D)

(* What the invariant says while a readable file is read. *)
LEMMA ReaderFacts ==
  ASSUME NEW D, NEW P, NEW W, NEW r, Reading(D, P, W, r)
  PROVE  /\ TreeOK /\ LevelsOK(D) /\ Context(D, P) /\ TodoOK(todo, W, r, D)
         /\ ReadOK(P) /\ r = Len(read)
         /\ r \in Nodes /\ r \in Nat /\ Kind(r) # "FUNCTION_DECL"
         /\ mCurrentLine = P[r] + 1
         /\ todo \in Seq(GoalSet) /\ W \in Seq(Nat) /\ todo # <<>>
         /\ goal = todo[1] /\ goal \in GoalSet /\ goal.node \in Nodes /\ goal.node <= r
         /\ NewNode = r + 1
<1>1. Context(D, P) /\ ReadOK(P) /\ r = Len(read) /\ TodoOK(todo, W, r, D)
  BY DEF Reading
<1>2. TreeOK /\ LevelsOK(D)
  BY <1>1 DEF Context
<1>3. r \in Nodes /\ Kind(r) # "FUNCTION_DECL" /\ mCurrentLine = P[r] + 1
  BY <1>1 DEF ReadOK
<1>4. r \in Nat
  BY <1>2, <1>3, Places
<1>5. todo \in Seq(GoalSet) /\ W \in Seq(Nat) /\ todo # <<>>
  BY <1>1 DEF TodoOK
<1>6. goal = todo[1]
  BY <1>5, TailElements DEF goal
<1>7. todo[1] \in GoalSet /\ todo[1].node \in Nodes /\ todo[1].node <= r
  BY <1>1, <1>2, <1>3, Goals
<1> QED
  BY <1>1, <1>2, <1>3, <1>4, <1>5, <1>6, <1>7 DEF NewNode

(* What a goal is made of. *)
LEMMA GoalType ==
  ASSUME NEW what \in {"decls", "params", "block", "stmts", "expr", "args", "elements"},
         NEW n \in Nat, NEW k \in Nat
  PROVE  /\ Goal(what, n, k) \in GoalSet
         /\ Goal(what, n, k).what = what
         /\ Goal(what, n, k).node = n
         /\ Goal(what, n, k).tabs = k
BY DEF Goal, GoalSet

(* Short sequences. *)
LEMMA Tuples ==
  ASSUME NEW S, NEW a \in S, NEW b \in S, NEW c \in S
  PROVE  /\ <<a>> \in Seq(S) /\ Len(<<a>>) = 1 /\ <<a>>[1] = a
         /\ <<a, b>> \in Seq(S) /\ Len(<<a, b>>) = 2 /\ <<a, b>>[1] = a /\ <<a, b>>[2] = b
         /\ <<a, b, c>> \in Seq(S) /\ Len(<<a, b, c>>) = 3
         /\ <<a, b, c>>[1] = a /\ <<a, b, c>>[2] = b /\ <<a, b, c>>[3] = c
         /\ <<>> \o <<a>> = <<a>>
         /\ <<a>> \o <<b>> = <<a, b>>
<1>1. <<a>> \in Seq(S) /\ Len(<<a>>) = 1 /\ <<a>>[1] = a
  OBVIOUS
<1>2. <<a, b>> \in Seq(S) /\ Len(<<a, b>>) = 2 /\ <<a, b>>[1] = a /\ <<a, b>>[2] = b
  OBVIOUS
<1>3. /\ <<a, b, c>> \in Seq(S) /\ Len(<<a, b, c>>) = 3
      /\ <<a, b, c>>[1] = a /\ <<a, b, c>>[2] = b /\ <<a, b, c>>[3] = c
  OBVIOUS
<1>4. <<>> \o <<a>> = <<a>>
  OBVIOUS
<1>5. <<a>> \o <<b>> = <<a, b>>
  <2>1. PICK s : s = <<a>> \o <<b>>
    OBVIOUS
  <2>2. PICK u : u = <<a, b>>
    OBVIOUS
  <2>3. s \in Seq(S) /\ Len(s) = 2 /\ s[1] = a /\ s[2] = b
    BY <2>1
  <2>4. u \in Seq(S) /\ Len(u) = 2 /\ u[1] = a /\ u[2] = b
    BY <1>2, <2>2
  <2>5. \A i \in 1 .. Len(s) : s[i] = u[i]
    <3>1. \A i \in 1 .. 2 : i = 1 \/ i = 2
      OBVIOUS
    <3> QED
      BY <2>3, <2>4, <3>1
  <2>6. s = u
    BY <2>3, <2>4, <2>5, SeqEqual
  <2> QED
    BY <2>1, <2>2, <2>6
<1> QED
  BY <1>1, <1>2, <1>3, <1>4, <1>5

(* An expression, if any, under a declaration or a statement. *)
LEMMA OneRead ==
  ASSUME NEW D, NEW P, NEW W, NEW r, Reading(D, P, W, r), tree' = tree,
         r + 1 \in Nodes, Owner(r + 1) = goal.node, W[1] = 0, LoopOK(goal, r + 1, D),
         Kind(r + 1) \in Ones,
         Adds(tree[r + 1]), GetLine,
         Then((IF nextLine.tabs > line.tabs THEN <<Goal("expr", NewNode, 0)>> ELSE <<>>)
              \o <<goal>>)
  PROVE  Result(D, P)
<1> DEFINE n == r + 1
<1>1. /\ TreeOK /\ LevelsOK(D) /\ Context(D, P) /\ TodoOK(todo, W, r, D)
      /\ ReadOK(P) /\ r = Len(read)
      /\ r \in Nodes /\ r \in Nat /\ Kind(r) # "FUNCTION_DECL"
      /\ mCurrentLine = P[r] + 1
      /\ goal = todo[1] /\ goal \in GoalSet /\ NewNode = n
  BY ReaderFacts
<1>2. n \in Nat /\ n # 1 /\ n # 0 /\ D[n] \in Nat /\ Kind(n) # "FUNCTION_DECL"
  <2>1. n \in Nat /\ n # 1 /\ n # 0
    BY <1>1, Places
  <2>2. Kind(n) # "FUNCTION_DECL"
    BY DEF Ones
  <2> QED
    BY <1>1, <2>1, <2>2, Levels
<1>3. P[n] = P[r] + 1 /\ line.tabs = D[n]
  BY <1>1, CurrentLine DEF line
<1>4. P[r] + 1 + 1 = P[n] + 1 /\ nextLine = LineAt(P[n] + 1)
  BY <1>1, <1>3 DEF nextLine
<1>5. ReadOK(P)' /\ Len(read') = n
  BY <1>1, <1>2, <1>3, ReadGrows DEF Adds, GetLine
<1>6. PICK g : g = Goal("expr", n, 0)
  OBVIOUS
<1>7. g \in GoalSet /\ g.what = "expr" /\ g.node = n
  BY <1>2, <1>6, GoalType
<1>8. \A i \in Nodes : i > n /\ Owner(i) = n => i \in Children(n)
  <2> SUFFICES ASSUME NEW i \in Nodes, i > n, Owner(i) = n
               PROVE  i \in Children(n)
    OBVIOUS
  <2>1. i # 1
    BY <1>1, <1>2
  <2> QED
    BY <1>1, <1>2, <2>1, OwnedAreChildren
<1>9. CASE nextLine.tabs > line.tabs
  <2>1. n + 1 \in Nodes
    <3> SUFFICES ASSUME n + 1 \notin Nodes
                 PROVE  FALSE
      OBVIOUS
    <3>1. nextLine = EndOfFile
      BY <1>1, <1>2, <1>4, CurrentLine
    <3>2. nextLine.tabs = 0
      BY <3>1 DEF EndOfFile
    <3> QED
      BY <3>2, <1>2, <1>3, <1>9
  <2>2. nextLine.tabs = D[n + 1]
    BY <1>1, <1>2, <1>4, <2>1, CurrentLine
  <2>3. tree[n + 1].up = n
    BY <1>1, <1>3, <1>9, <2>1, <2>2, FirstChild
  <2>4. n + 1 \in Children(n)
    BY <2>1, <2>3 DEF Children
  <2>5. Children(n) = {n + 1} /\ Kind(n + 1) \in Exprs
    <3>1. OneChild(n)
      BY <1>1, <2>4 DEF TreeOK, ChildrenOK
    <3> QED
      BY <2>4, <3>1 DEF OneChild
  <2>6. TargetOK(g, n + 1, n)
    BY <1>2, <1>7, <2>4, <2>5 DEF TargetOK
  <2>7. GoalOK(g, n + 1, n, D)
    BY <1>2, <1>7, <2>6 DEF GoalOK
  <2>8. PICK G : G = <<g, goal>>
    OBVIOUS
  <2>9. PICK V : V = <<n + 1, 0>>
    OBVIOUS
  <2>10. G \in Seq(GoalSet) /\ Len(G) = 2 /\ G[1] = g /\ G[2] = goal
    BY <1>1, <1>7, <2>8, Tuples
  <2>11. V \in Seq(Nat) /\ Len(V) = 2 /\ V[1] = n + 1 /\ V[2] = 0
    BY <1>2, <2>9, Tuples
  <2>12. todo' = G \o Tail(todo)
    <3>1. todo' = (<<g>> \o <<goal>>) \o Tail(todo)
      BY <1>1, <1>6, <1>9 DEF Then
    <3> QED
      BY <1>1, <1>7, <2>8, <3>1, Tuples
  <2>13. \A k \in 1 .. 1 : k = 1
    OBVIOUS
  <2>14. \A i \in Nodes : i > n /\ Owner(i) = n => V[1] \in {0, i}
    BY <1>8, <2>5, <2>11
  <2>15. TodoOK(G \o Tail(todo), V \o Tail(W), n, D)
    <3>0. PICK h \in Nat : h = 1
      OBVIOUS
    <3>1. h + 1 = 2 /\ Len(G) = h + 1 /\ Len(V) = Len(G) /\ G[h + 1] = todo[1] /\ V[h + 1] = 0
      BY <1>1, <2>10, <2>11, <3>0
    <3>2. \A k \in 1 .. h : k = 1
      BY <3>0
    <3>3. \A k \in 1 .. h : G[k].node = r + 1 /\ GoalOK(G[k], V[k], r + 1, D)
      BY <1>7, <2>7, <2>10, <2>11, <3>2
    <3>4. \A i, k \in 1 .. h : i < k => V[i] # 0 /\ V[k] # 0 /\ V[i] < V[k]
      BY <3>2
    <3>5. \A i \in Nodes : i > r + 1 /\ Owner(i) = r + 1 => \E k \in 1 .. h : V[k] \in {0, i}
      BY <2>14, <3>0
    <3> QED
      <4>1. /\ W[1] = 0 => /\ Len(G) = h + 1 /\ G[h + 1] = todo[1] /\ V[h + 1] = 0
                           /\ LoopOK(todo[1], r + 1, D)
            /\ W[1] # 0 => Len(G) = h
            /\ W[1] = 0 \/ W[1] = r + 1
            /\ Owner(r + 1) = todo[1].node
        BY <1>1, <3>1
      <4>2. PICK m \in Nodes : m = r + 1
        OBVIOUS
      <4>3. TodoOK(G \o Tail(todo), V \o Tail(W), m, D)
        BY <1>1, <2>10, <2>11, <3>1, <3>3, <3>4, <3>5, <4>1, <4>2, Consume
      <4> QED
        BY <4>2, <4>3
  <2> QED
    BY <1>5, <2>12, <2>15 DEF Result
<1>10. CASE ~(nextLine.tabs > line.tabs)
  <2>1. Children(n) = {}
    <3> SUFFICES ASSUME Children(n) # {}
                 PROVE  FALSE
      OBVIOUS
    <3>1. n + 1 \in Nodes /\ D[n + 1] = D[n] + 1
      BY <1>1, FirstChild
    <3>2. nextLine.tabs = D[n + 1]
      BY <1>1, <1>2, <1>4, <3>1, CurrentLine
    <3> QED
      BY <1>2, <1>3, <1>10, <3>1, <3>2
  <2>2. PICK G : G = <<goal>>
    OBVIOUS
  <2>3. PICK V : V = <<0>>
    OBVIOUS
  <2>4. G \in Seq(GoalSet) /\ Len(G) = 1 /\ G[1] = goal
    BY <1>1, <2>2, Tuples
  <2>5. V \in Seq(Nat) /\ Len(V) = 1 /\ V[1] = 0
    BY <2>3, Tuples
  <2>6. todo' = G \o Tail(todo)
    <3>1. todo' = (<<>> \o <<goal>>) \o Tail(todo)
      BY <1>10 DEF Then
    <3> QED
      BY <1>1, <2>2, <3>1, Tuples
  <2>7. TodoOK(G \o Tail(todo), V \o Tail(W), n, D)
    <3>0. PICK h \in Nat : h = 0
      OBVIOUS
    <3>1. Len(G) = h + 1 /\ Len(V) = Len(G) /\ G[h + 1] = todo[1] /\ V[h + 1] = 0
      BY <1>1, <2>4, <2>5, <3>0
    <3>2. /\ \A k \in 1 .. h : G[k].node = r + 1 /\ GoalOK(G[k], V[k], r + 1, D)
          /\ \A i, k \in 1 .. h : i < k => V[i] # 0 /\ V[k] # 0 /\ V[i] < V[k]
      BY <3>0
    <3>3. \A i \in Nodes : i > r + 1 /\ Owner(i) = r + 1 => \E k \in 1 .. h : V[k] \in {0, i}
      BY <1>8, <2>1
    <3> QED
      <4>1. /\ W[1] = 0 => /\ Len(G) = h + 1 /\ G[h + 1] = todo[1] /\ V[h + 1] = 0
                           /\ LoopOK(todo[1], r + 1, D)
            /\ W[1] # 0 => Len(G) = h
            /\ W[1] = 0 \/ W[1] = r + 1
            /\ Owner(r + 1) = todo[1].node
        BY <1>1, <3>1
      <4>2. PICK m \in Nodes : m = r + 1
        OBVIOUS
      <4>3. TodoOK(G \o Tail(todo), V \o Tail(W), m, D)
        BY <1>1, <2>4, <2>5, <3>1, <3>2, <3>3, <4>1, <4>2, Consume
      <4> QED
        BY <4>2, <4>3
  <2> QED
    BY <1>5, <2>6, <2>7 DEF Result
<1> QED
  BY <1>9, <1>10

(* The place of the next node. *)
LEMMA NextPlace ==
  ASSUME NEW D, NEW P, NEW W, NEW r, Reading(D, P, W, r), r + 1 \in Nodes
  PROVE  P[r + 1] = P[r] + 1
<1>1. Context(D, P) /\ r \in Nodes /\ Kind(r) # "FUNCTION_DECL"
  BY ReaderFacts
<1> QED
  BY <1>1, CurrentLine

(* A node is read, and goals for all of its children come before what is left. *)
LEMMA ReadUnder ==
  ASSUME NEW D, NEW P, NEW W, NEW r, Reading(D, P, W, r), tree' = tree,
         r + 1 \in Nodes, Kind(r + 1) # "FUNCTION_DECL",
         Owner(r + 1) = goal.node, W[1] = 0 \/ W[1] = r + 1,
         NEW G \in Seq(GoalSet), NEW V \in Seq(Nat), Len(V) = Len(G), NEW h \in Nat,
         W[1] = 0 => /\ Len(G) = h + 1 /\ G[h + 1] = goal /\ V[h + 1] = 0
                     /\ LoopOK(goal, r + 1, D),
         W[1] # 0 => Len(G) = h,
         \A k \in 1 .. h : G[k].node = r + 1 /\ GoalOK(G[k], V[k], r + 1, D),
         \A i, k \in 1 .. h : i < k => V[i] # 0 /\ V[k] # 0 /\ V[i] < V[k],
         \A i \in Children(r + 1) : \E k \in 1 .. h : V[k] \in {0, i},
         Adds(tree[r + 1]), GetLine, todo' = G \o Tail(todo)
  PROVE  Result(D, P)
<1>1. /\ TreeOK /\ LevelsOK(D) /\ Context(D, P) /\ TodoOK(todo, W, r, D)
      /\ ReadOK(P) /\ r = Len(read)
      /\ r \in Nodes /\ r \in Nat /\ Kind(r) # "FUNCTION_DECL"
      /\ mCurrentLine = P[r] + 1
      /\ goal = todo[1]
  BY ReaderFacts
<1>2. P[r + 1] = P[r] + 1
  BY NextPlace
<1>3. ReadOK(P)' /\ Len(read') = r + 1
  BY <1>1, <1>2, ReadGrows DEF Adds, GetLine
<1>4. \A i \in Nodes : i > r + 1 /\ Owner(i) = r + 1 => \E k \in 1 .. h : V[k] \in {0, i}
  <2> SUFFICES ASSUME NEW i \in Nodes, i > r + 1, Owner(i) = r + 1
               PROVE  i \in Children(r + 1)
    OBVIOUS
  <2>1. i # 1
    BY <1>1
  <2> QED
    BY <1>1, <2>1, OwnedAreChildren
<1>5. PICK m \in Nodes : m = r + 1
  OBVIOUS
<1>6. TodoOK(G \o Tail(todo), V \o Tail(W), m, D)
  BY <1>1, <1>4, <1>5, Consume
<1> QED
  BY <1>3, <1>5, <1>6 DEF Result

(* A node is read with two children to follow. *)
LEMMA TwoRead ==
  ASSUME NEW D, NEW P, NEW W, NEW r, Reading(D, P, W, r), tree' = tree,
         r + 1 \in Nodes, Owner(r + 1) = goal.node, W[1] = 0 \/ W[1] = r + 1,
         Kind(r + 1) \in Twos,
         NEW g, g = Goal("expr", r + 1, 0),
         NEW b, b = Goal(IF Kind(r + 1) = "BINARY_EXPR" THEN "expr" ELSE "block", r + 1, 0),
         W[1] = 0 => LoopOK(goal, r + 1, D) /\ todo' = <<g, b, goal>> \o Tail(todo),
         W[1] # 0 => todo' = <<g, b>> \o Tail(todo),
         Adds(tree[r + 1]), GetLine
  PROVE  Result(D, P)
<1>1. TreeOK /\ open = <<>> /\ r \in Nat /\ goal \in GoalSet
  BY ReaderFacts DEF Context
<1>2. TwoChildren(r + 1)
  <2>1. ~IsOpen(r + 1)
    BY <1>1 DEF IsOpen
  <2> QED
    BY <1>1, <2>1 DEF TreeOK, Full
<1>3. PICK i, j \in Nodes :
        /\ Children(r + 1) = {i, j} /\ i < j /\ Kind(i) \in Exprs
        /\ Kind(j) \in IF Kind(r + 1) = "BINARY_EXPR" THEN Exprs ELSE {"COMPOUND_STMT"}
  BY <1>2 DEF TwoChildren
<1>4. i \in Nat /\ j \in Nat /\ i > r + 1 /\ j > r + 1
  <2>1. \A c \in Children(r + 1) : c \in Nat /\ c > r + 1
    <3> TAKE c \in Children(r + 1)
    <3>1. c \in Nodes /\ tree[c].up = r + 1 /\ c # 1
      BY <1>1, Places DEF Children
    <3> QED
      BY <1>1, <3>1, ReaderFacts, Levels, Places
  <2> QED
    BY <1>3, <2>1
<1>5. g \in GoalSet /\ g.what = "expr" /\ g.node = r + 1
  BY <1>1, GoalType
<1>6. b \in GoalSet /\ b.node = r + 1
      /\ b.what = (IF Kind(r + 1) = "BINARY_EXPR" THEN "expr" ELSE "block")
  <2>1. CASE Kind(r + 1) = "BINARY_EXPR"
    BY <1>1, <2>1, GoalType
  <2>2. CASE Kind(r + 1) # "BINARY_EXPR"
    BY <1>1, <2>2, GoalType
  <2> QED
    BY <2>1, <2>2
<1>7. TargetOK(g, i, r + 1) /\ TargetOK(b, j, r + 1)
  BY <1>3, <1>4, <1>5, <1>6 DEF TargetOK
<1>8. GoalOK(g, i, r + 1, D) /\ GoalOK(b, j, r + 1, D)
  BY <1>1, <1>4, <1>5, <1>6, <1>7 DEF GoalOK
<1>9. Kind(r + 1) # "FUNCTION_DECL"
  BY DEF Twos
<1>10. PICK h \in Nat : h = 2
  OBVIOUS
<1>11. \A k \in 1 .. h : k = 1 \/ k = 2
  BY <1>10
<1>a. ASSUME NEW G \in Seq(GoalSet), NEW V \in Seq(Nat), G[1] = g, G[2] = b, V[1] = i, V[2] = j
      PROVE  /\ \A k \in 1 .. h : G[k].node = r + 1 /\ GoalOK(G[k], V[k], r + 1, D)
             /\ \A p, k \in 1 .. h : p < k => V[p] # 0 /\ V[k] # 0 /\ V[p] < V[k]
             /\ \A c \in Children(r + 1) : \E k \in 1 .. h : V[k] \in {0, c}
  <2>1. \A k \in 1 .. h : G[k].node = r + 1 /\ GoalOK(G[k], V[k], r + 1, D)
    BY <1>5, <1>6, <1>8, <1>11, <1>a
  <2>2. \A p, k \in 1 .. h : p < k => V[p] # 0 /\ V[k] # 0 /\ V[p] < V[k]
    <3> SUFFICES ASSUME NEW p \in 1 .. h, NEW k \in 1 .. h, p < k
                 PROVE  V[p] # 0 /\ V[k] # 0 /\ V[p] < V[k]
      OBVIOUS
    <3>1. p \in Nat /\ k \in Nat /\ (p = 1 \/ p = 2) /\ (k = 1 \/ k = 2)
      BY <1>10, <1>11
    <3>2. p = 1 /\ k = 2
      BY <3>1
    <3> QED
      BY <1>1, <1>3, <1>4, <1>a, <3>2
  <2>3. 1 \in 1 .. h /\ 2 \in 1 .. h
    BY <1>10
  <2> QED
    BY <1>3, <1>a, <2>1, <2>2, <2>3
<1>12. CASE W[1] = 0
  <2>1. PICK G : G = <<g, b, goal>>
    OBVIOUS
  <2>2. PICK V : V = <<i, j, 0>>
    OBVIOUS
  <2>3. G \in Seq(GoalSet) /\ Len(G) = 3 /\ G[1] = g /\ G[2] = b /\ G[3] = goal
    BY <1>1, <1>5, <1>6, <2>1, Tuples
  <2>4. V \in Seq(Nat) /\ Len(V) = 3 /\ V[1] = i /\ V[2] = j /\ V[3] = 0
    BY <1>4, <2>2, Tuples
  <2>5. /\ \A k \in 1 .. h : G[k].node = r + 1 /\ GoalOK(G[k], V[k], r + 1, D)
        /\ \A p, k \in 1 .. h : p < k => V[p] # 0 /\ V[k] # 0 /\ V[p] < V[k]
        /\ \A c \in Children(r + 1) : \E k \in 1 .. h : V[k] \in {0, c}
    BY <1>a, <2>3, <2>4
  <2>6. Len(V) = Len(G) /\ Len(G) = h + 1 /\ G[h + 1] = goal /\ V[h + 1] = 0
    BY <1>10, <2>3, <2>4
  <2>7. todo' = G \o Tail(todo) /\ LoopOK(goal, r + 1, D)
    BY <1>12, <2>1
  <2> QED
    BY <1>9, <1>12, <2>3, <2>4, <2>5, <2>6, <2>7, ReadUnder
<1>13. CASE W[1] # 0
  <2>1. PICK G : G = <<g, b>>
    OBVIOUS
  <2>2. PICK V : V = <<i, j>>
    OBVIOUS
  <2>3. G \in Seq(GoalSet) /\ Len(G) = 2 /\ G[1] = g /\ G[2] = b
    BY <1>5, <1>6, <2>1, Tuples
  <2>4. V \in Seq(Nat) /\ Len(V) = 2 /\ V[1] = i /\ V[2] = j
    BY <1>4, <2>2, Tuples
  <2>5. /\ \A k \in 1 .. h : G[k].node = r + 1 /\ GoalOK(G[k], V[k], r + 1, D)
        /\ \A p, k \in 1 .. h : p < k => V[p] # 0 /\ V[k] # 0 /\ V[p] < V[k]
        /\ \A c \in Children(r + 1) : \E k \in 1 .. h : V[k] \in {0, c}
    BY <1>a, <2>3, <2>4
  <2>6. Len(V) = Len(G) /\ Len(G) = h
    BY <1>10, <2>3, <2>4
  <2>7. todo' = G \o Tail(todo)
    BY <1>13, <2>1
  <2> QED
    BY <1>9, <1>13, <2>3, <2>4, <2>5, <2>6, <2>7, ReadUnder
<1> QED
  BY <1>12, <1>13

(* A node that any number of nodes is read under. *)
LEMMA LoopRead ==
  ASSUME NEW D, NEW P, NEW W, NEW r, Reading(D, P, W, r), tree' = tree,
         r + 1 \in Nodes, Owner(r + 1) = goal.node, W[1] = r + 1,
         Kind(r + 1) # "FUNCTION_DECL",
         NEW g \in GoalSet, g.node = r + 1, LoopOK(g, r + 1, D),
         Adds(tree[r + 1]), GetLine, todo' = <<g>> \o Tail(todo)
  PROVE  Result(D, P)
<1>1. r \in Nat /\ r + 1 # 0
  BY ReaderFacts
<1>2. PICK G : G = <<g>>
  OBVIOUS
<1>3. PICK V : V = <<0>>
  OBVIOUS
<1>4. G \in Seq(GoalSet) /\ Len(G) = 1 /\ G[1] = g
  BY <1>2, Tuples
<1>5. V \in Seq(Nat) /\ Len(V) = 1 /\ V[1] = 0
  BY <1>3, Tuples
<1>6. PICK h \in Nat : h = 1
  OBVIOUS
<1>7. \A k \in 1 .. h : k = 1
  BY <1>6
<1>8. GoalOK(g, 0, r + 1, D)
  BY <1>1 DEF GoalOK
<1>9. /\ \A k \in 1 .. h : G[k].node = r + 1 /\ GoalOK(G[k], V[k], r + 1, D)
      /\ \A p, k \in 1 .. h : p < k => V[p] # 0 /\ V[k] # 0 /\ V[p] < V[k]
  <2>1. \A k \in 1 .. h : G[k].node = r + 1 /\ GoalOK(G[k], V[k], r + 1, D)
    BY <1>4, <1>5, <1>7, <1>8
  <2>2. \A p, k \in 1 .. h : ~(p < k)
    BY <1>7
  <2> QED
    BY <2>1, <2>2
<1>10. \A c \in Children(r + 1) : \E k \in 1 .. h : V[k] \in {0, c}
  BY <1>5, <1>6
<1>11. W[1] # 0 /\ Len(V) = Len(G) /\ Len(G) = h
  BY <1>1, <1>4, <1>5, <1>6
<1> QED
  BY <1>2, <1>4, <1>5, <1>9, <1>10, <1>11, ReadUnder

(* A node is read with none to follow. *)
LEMMA LeafRead ==
  ASSUME NEW D, NEW P, NEW W, NEW r, Reading(D, P, W, r), tree' = tree,
         r + 1 \in Nodes, Owner(r + 1) = goal.node, W[1] = r + 1,
         Kind(r + 1) \in Literals,
         Adds(tree[r + 1]), GetLine, todo' = <<>> \o Tail(todo)
  PROVE  Result(D, P)
<1>1. r \in Nat /\ r + 1 # 0 /\ TreeOK
  BY ReaderFacts
<1>2. Children(r + 1) = {} /\ Kind(r + 1) # "FUNCTION_DECL"
  BY <1>1 DEF TreeOK, ChildrenOK, Literals
<1>3. PICK G : G = <<>>
  OBVIOUS
<1>v. PICK V : V = <<>>
  OBVIOUS
<1>4. G \in Seq(GoalSet) /\ Len(G) = 0 /\ V \in Seq(Nat) /\ Len(V) = 0
  BY <1>3, <1>v
<1>5. PICK h \in Nat : h = 0
  OBVIOUS
<1>6. /\ \A k \in 1 .. h : G[k].node = r + 1 /\ GoalOK(G[k], V[k], r + 1, D)
      /\ \A p, k \in 1 .. h : p < k => V[p] # 0 /\ V[k] # 0 /\ V[p] < V[k]
  BY <1>5
<1>7. \A c \in Children(r + 1) : \E k \in 1 .. h : V[k] \in {0, c}
  BY <1>2
<1>8. W[1] # 0 /\ Len(V) = Len(G) /\ Len(G) = h
  BY <1>1, <1>4, <1>5
<1> QED
  BY <1>2, <1>3, <1>4, <1>6, <1>7, <1>8, ReadUnder

(* A function is read together with its empty list of parameters. *)
LEMMA FunctionRead ==
  ASSUME NEW D, NEW P, NEW W, NEW r, Reading(D, P, W, r), tree' = tree,
         r + 1 \in Nodes, Owner(r + 1) = goal.node, W[1] = 0, goal.what = "decls",
         Kind(r + 1) = "FUNCTION_DECL",
         read' = read \o <<tree[r + 1], Bare("PARAM_VAR_DECL", r + 1)>>, GetLine,
         NEW g, g = Goal("params", r + 1, 0), todo' = <<g, goal>> \o Tail(todo)
  PROVE  Result(D, P)
<1>1. /\ TreeOK /\ LevelsOK(D) /\ Context(D, P) /\ TodoOK(todo, W, r, D)
      /\ ReadOK(P) /\ r = Len(read)
      /\ r \in Nodes /\ r \in Nat /\ Kind(r) # "FUNCTION_DECL"
      /\ mCurrentLine = P[r] + 1
      /\ goal = todo[1] /\ goal \in GoalSet
  BY ReaderFacts
<1>2. PICK m : m = r + 2
  OBVIOUS
<1>3. m = r + 1 + 1 /\ m \in Nat /\ m # 1 /\ m - 1 = r + 1
  BY <1>1, <1>2
<1>4. /\ m \in Nodes /\ tree[m] = Bare("PARAM_VAR_DECL", r + 1)
      /\ tree[m].up = r + 1 /\ Kind(m) = "PARAM_VAR_DECL"
  <2>1. m \in Nodes /\ tree[m] = Bare("PARAM_VAR_DECL", r + 1)
    BY <1>1, <1>3 DEF TreeOK, ChildrenOK
  <2>2. \A k, u : Bare(k, u).up = u /\ Bare(k, u).kind = k
    BY DEF Bare
  <2> QED
    BY <2>1, <2>2 DEF Kind
<1>5. P[m] = P[r] + 1
  <2>1. P[r + 1] = P[r] + 1
    BY <1>1, CurrentLine
  <2>2. P[m] = P[m - 1] + 0 /\ P[m - 1] \in Nat
    BY <1>1, <1>3, <1>4 DEF Context, LinesOK, NoLine
  <2> QED
    BY <1>3, <2>1, <2>2
<1>6. ReadOK(P)' /\ Len(read') = m
  <2>1. PICK s : s = <<tree[r + 1], tree[m]>>
    OBVIOUS
  <2>2. s \in Seq(Node) /\ Len(s) = 2 /\ s[1] = tree[r + 1] /\ s[2] = tree[m]
    BY <1>1, <1>4, <2>1, Places, Tuples
  <2>3. read \in Seq(Node) /\ read' = read \o s
    BY <1>1, <1>4, <2>1 DEF ReadOK
  <2>4. /\ read' \in Seq(Node) /\ Len(read') = r + 2
        /\ \A n \in 1 .. r : read'[n] = read[n]
        /\ read'[r + 1] = s[1] /\ read'[r + 2] = s[2]
    BY <1>1, <2>2, <2>3, Concatenation
  <2>5. \A n \in 1 .. r + 2 : n \in 1 .. r \/ n = r + 1 \/ n = r + 2
    BY <1>1
  <2>6. \A n \in 1 .. Len(read') : read'[n] = tree'[n]
    BY <1>1, <1>2, <2>2, <2>4, <2>5 DEF ReadOK
  <2>7. mCurrentLine' = P[Len(read')] + 1
    BY <1>1, <1>2, <1>5, <2>4 DEF GetLine
  <2>8. Len(read') \in Nodes' /\ tree'[Len(read')].kind # "FUNCTION_DECL"
    BY <1>2, <1>4, <2>4 DEF Nodes, Kind
  <2> QED
    BY <1>2, <2>4, <2>6, <2>7, <2>8 DEF ReadOK, Kind
<1>7. g \in GoalSet /\ g.what = "params" /\ g.node = r + 1
  BY <1>1, GoalType
<1>8. GoalOK(g, 0, m, D)
  <2>1. Body(r + 1)
    <3>1. ~IsOpen(r + 1)
      BY <1>1 DEF Context, IsOpen
    <3> QED
      BY <1>1, <3>1 DEF TreeOK, Full
  <2>2. PICK b \in Nodes : Children(r + 1) = {r + 1 + 1, b} /\ r + 1 + 1 < b
    BY <2>1 DEF Body
  <2>3. b \in Children(r + 1) /\ b > m
    BY <1>1, <1>3, <2>2, Places
  <2>4. LoopOK(g, m, D)
    BY <1>7, <2>3 DEF LoopOK
  <2>5. g.node \in 1 .. m
    BY <1>1, <1>2, <1>7
  <2> QED
    BY <2>4, <2>5 DEF GoalOK
<1>9. LoopOK(goal, m, D)
  <2>1. LoopOK(goal, r, D)
    BY <1>1, TopGoal
  <2> QED
    BY <2>1 DEF LoopOK
<1>10. PICK G : G = <<g, goal>>
  OBVIOUS
<1>11. PICK V : V = <<0, 0>>
  OBVIOUS
<1>12. G \in Seq(GoalSet) /\ Len(G) = 2 /\ G[1] = g /\ G[2] = goal
  BY <1>1, <1>7, <1>10, Tuples
<1>13. V \in Seq(Nat) /\ Len(V) = 2 /\ V[1] = 0 /\ V[2] = 0
  BY <1>11, Tuples
<1>14. PICK h \in Nat : h = 1
  OBVIOUS
<1>15. \A k \in 1 .. h : k = 1
  BY <1>14
<1>16. \A k \in 1 .. h : G[k].node = r + 1 /\ GoalOK(G[k], V[k], m, D)
  BY <1>7, <1>8, <1>12, <1>13, <1>15
<1>17. \A p, k \in 1 .. h : p < k => V[p] # 0 /\ V[k] # 0 /\ V[p] < V[k]
  BY <1>15
<1>18. \A i \in Nodes : i > m /\ Owner(i) = r + 1 => \E k \in 1 .. h : V[k] \in {0, i}
  BY <1>13, <1>14
<1>19. /\ Len(G) = h + 1 /\ G[h + 1] = todo[1] /\ V[h + 1] = 0
       /\ LoopOK(todo[1], m, D)
  BY <1>1, <1>9, <1>12, <1>13, <1>14
<1>20. m = r + 1 \/ (m = r + 2 /\ tree[r + 2].up = r + 1 /\ Kind(r + 2) = "PARAM_VAR_DECL")
  BY <1>2, <1>4
<1>21. /\ W[1] = 0 => /\ Len(G) = h + 1 /\ G[h + 1] = todo[1] /\ V[h + 1] = 0
                       /\ LoopOK(todo[1], m, D)
       /\ W[1] # 0 => Len(G) = h
       /\ W[1] = 0 \/ W[1] = r + 1
       /\ Len(V) = Len(G)
       /\ Owner(r + 1) = todo[1].node
  BY <1>1, <1>12, <1>13, <1>19
<1>22. TodoOK(G \o Tail(todo), V \o Tail(W), m, D)
  BY <1>1, <1>4, <1>12, <1>13, <1>16, <1>17, <1>18, <1>20, <1>21, Consume
<1> QED
  BY <1>6, <1>10, <1>22 DEF Result

----------------------------------------------------------------------------
(* The steps of the reader. *)

Outcome(D, P) ==
  /\ status' = "reading" => Result(D, P)
  /\ status' = "done" => read' = tree'

(* The current line is that of the next node. *)
LEMMA LineIsNext ==
  ASSUME NEW D, NEW P, NEW W, NEW r, Reading(D, P, W, r)
  PROVE  /\ r + 1 \notin Nodes => line.kind = "eof" /\ line.tabs = 0
         /\ r + 1 \in Nodes =>
              /\ r + 1 # 1 /\ line.tabs = D[r + 1] /\ D[r + 1] \in Nat
              /\ line.kind = IF IsParameter(r + 1) THEN "PARAM_VAR_DECL" ELSE Kind(r + 1)
              /\ NodeRead(Kind(r + 1), tree[r + 1].up) = tree[r + 1]
              /\ Kind(r + 1) \notin NoLine
              /\ line.kind # "eof"
<1>1. /\ TreeOK /\ LevelsOK(D) /\ Context(D, P) /\ r \in Nodes /\ r \in Nat
      /\ Kind(r) # "FUNCTION_DECL" /\ mCurrentLine = P[r] + 1
  BY ReaderFacts
<1>2. r + 1 \notin Nodes => line.kind = "eof" /\ line.tabs = 0
  <2>1. r + 1 \notin Nodes => line = EndOfFile
    BY <1>1, CurrentLine DEF line
  <2>2. EndOfFile.kind = "eof" /\ EndOfFile.tabs = 0
    BY DEF EndOfFile
  <2> QED
    BY <2>1, <2>2
<1>3. ASSUME r + 1 \in Nodes
      PROVE  /\ line.tabs = D[r + 1]
             /\ line.kind = IF IsParameter(r + 1) THEN "PARAM_VAR_DECL" ELSE Kind(r + 1)
             /\ Kind(r + 1) \notin NoLine
             /\ line.kind # "eof"
  <2>1. /\ line \in Line /\ line.tabs = D[r + 1]
        /\ line.kind = IF IsParameter(r + 1) THEN "PARAM_VAR_DECL" ELSE Kind(r + 1)
        /\ Kind(r + 1) \notin NoLine
    BY <1>1, <1>3, CurrentLine DEF line
  <2>2. line.kind \in NodeKind
    BY <2>1 DEF Line
  <2>3. line.kind # "eof"
    BY <2>2 DEF NodeKind, Decls, Exprs, Stmts
  <2> QED
    BY <2>1, <2>3
<1>4. r + 1 \in Nodes => NodeRead(Kind(r + 1), tree[r + 1].up) = tree[r + 1]
  BY <1>1, NodeIsRead
<1>5. r + 1 \in Nodes => r + 1 # 1 /\ D[r + 1] \in Nat
  BY <1>1, Places, Levels
<1> QED
  BY <1>2, <1>3, <1>4, <1>5

(* Each of the functions of the reader keeps what the invariant says. *)
LEMMA ReadDeclsStep ==
  ASSUME NEW D, NEW P, NEW W, NEW r, Reading(D, P, W, r), tree' = tree, ReadDecls
  PROVE  Outcome(D, P)
<1>1. /\ TreeOK /\ LevelsOK(D) /\ TodoOK(todo, W, r, D) /\ ReadOK(P) /\ r = Len(read)
      /\ r \in Nodes /\ r \in Nat
      /\ goal = todo[1] /\ goal \in GoalSet /\ NewNode = r + 1
  BY ReaderFacts
<1>2. goal.what = "decls" /\ status = "reading"
  BY DEF ReadDecls, Doing, goal
<1>3. W[1] = 0 /\ LoopOK(goal, r, D)
  BY <1>1, <1>2, TopGoal
<1>4. goal.node = 1 /\ LoopOK(goal, r + 1, D)
  BY <1>2, <1>3 DEF LoopOK
<1>5. CASE line.kind = "eof" /\ Stop("done")
  <2>1. r + 1 \notin Nodes
    BY <1>5, LineIsNext
  <2>2. r = Len(tree)
    BY <1>1, <2>1, Places
  <2>3. read \in Seq(Node) /\ tree \in Seq(Node) /\ \A n \in 1 .. Len(read) : read[n] = tree[n]
    BY <1>1 DEF ReadOK, TreeOK
  <2>4. read = tree
    BY <1>1, <2>2, <2>3, SeqEqual
  <2> QED
    BY <1>5, <2>4 DEF Outcome, Stop, readerVars
<1>6. ASSUME line.kind \in {"FUNCTION_DECL", "VAR_DECL"}
      PROVE  /\ r + 1 \in Nodes /\ Owner(r + 1) = 1 /\ tree[r + 1].up = 1
             /\ Kind(r + 1) = line.kind
             /\ NodeRead(line.kind, 1) = tree[r + 1]
  <2>1. r + 1 \in Nodes
    BY <1>6, LineIsNext
  <2>2. ~IsParameter(r + 1) /\ Kind(r + 1) = line.kind /\ r + 1 # 1
    BY <1>6, <2>1, LineIsNext
  <2>3. D[r + 1] > D[goal.node]
    <3>1. D[r + 1] = D[Owner(r + 1)] + 1 /\ Owner(r + 1) \in Nodes
      BY <1>1, <2>1, <2>2, Owners
    <3>2. D[Owner(r + 1)] \in Nat /\ D[1] = 0
      BY <1>1, <3>1, Levels
    <3> QED
      BY <1>4, <3>1, <3>2
  <2>4. Owner(r + 1) = 1
    BY <1>1, <1>4, <2>1, <2>3, NextNode
  <2>5. tree[r + 1].up = 1
    BY <1>1, <2>1, <2>2, <2>4, Owners
  <2> QED
    BY <2>1, <2>2, <2>4, <2>5, LineIsNext
<1>7. CASE /\ line.kind = "FUNCTION_DECL"
           /\ read' = read \o <<NodeRead("FUNCTION_DECL", 1), Bare("PARAM_VAR_DECL", NewNode)>>
           /\ GetLine
           /\ Then(<<Goal("params", NewNode, 0), goal>>)
           /\ UNCHANGED status
  <2>1. /\ r + 1 \in Nodes /\ Owner(r + 1) = goal.node /\ Kind(r + 1) = "FUNCTION_DECL"
        /\ NodeRead("FUNCTION_DECL", 1) = tree[r + 1]
    BY <1>4, <1>6, <1>7
  <2>2. read' = read \o <<tree[r + 1], Bare("PARAM_VAR_DECL", r + 1)>>
    BY <1>1, <1>7, <2>1
  <2>3. PICK g : g = Goal("params", r + 1, 0)
    OBVIOUS
  <2>4. todo' = <<g, goal>> \o Tail(todo)
    BY <1>1, <1>7, <2>3 DEF Then
  <2>5. Result(D, P)
    BY <1>2, <1>3, <1>7, <2>1, <2>2, <2>3, <2>4, FunctionRead
  <2> QED
    BY <1>2, <1>7, <2>5 DEF Outcome
<1>8. CASE line.kind = "VAR_DECL" /\ ReadVarDecl(1, <<goal>>)
  <2>1. /\ r + 1 \in Nodes /\ Owner(r + 1) = goal.node /\ Kind(r + 1) \in Ones
        /\ NodeRead("VAR_DECL", 1) = tree[r + 1]
    BY <1>4, <1>6, <1>8 DEF Ones
  <2>2. /\ Adds(tree[r + 1]) /\ GetLine /\ status' = status
        /\ Then((IF nextLine.tabs > line.tabs THEN <<Goal("expr", NewNode, 0)>> ELSE <<>>)
                \o <<goal>>)
    BY <1>8, <2>1 DEF ReadVarDecl
  <2>3. Result(D, P)
    BY <1>3, <1>4, <2>1, <2>2, OneRead
  <2> QED
    BY <1>2, <2>2, <2>3 DEF Outcome
<1>9. CASE Stop("hung")
  BY <1>9 DEF Stop, Outcome
<1> QED
  BY <1>5, <1>7, <1>8, <1>9 DEF ReadDecls

LEMMA ReadParamsStep ==
  ASSUME NEW D, NEW P, NEW W, NEW r, Reading(D, P, W, r), tree' = tree, ReadParams
  PROVE  Outcome(D, P)
<1>1. /\ TreeOK /\ LevelsOK(D) /\ Context(D, P) /\ TodoOK(todo, W, r, D)
      /\ ReadOK(P) /\ r = Len(read)
      /\ r \in Nodes /\ r \in Nat /\ Kind(r) # "FUNCTION_DECL"
      /\ goal = todo[1] /\ goal \in GoalSet /\ goal.node \in Nodes /\ goal.node <= r
      /\ NewNode = r + 1
  BY ReaderFacts
<1>2. goal.what = "params" /\ status = "reading"
  BY DEF ReadParams, Doing, goal
<1>3. W[1] = 0 /\ LoopOK(goal, r, D)
  BY <1>1, <1>2, TopGoal
<1>4. PICK x : x = goal.node
  OBVIOUS
<1>5. /\ x \in Nodes /\ x \in Nat /\ x <= r /\ Kind(x) = "FUNCTION_DECL" /\ x < r
      /\ \E b \in Children(x) : b > r
  <2>1. Kind(x) = "FUNCTION_DECL" /\ \E b \in Children(x) : b > r
    BY <1>2, <1>3, <1>4 DEF LoopOK
  <2>2. x \in Nodes /\ x \in Nat /\ x <= r
    BY <1>1, <1>4, Places
  <2>3. x # r
    BY <1>1, <2>1
  <2> QED
    BY <1>1, <2>1, <2>2, <2>3
<1>6. PICK b \in Children(x) : b > r
  BY <1>5
<1>7. b \in Nodes /\ b \in Nat /\ Owner(b) = x /\ ~IsParameter(b)
  <2>1. b \in Nodes /\ tree[b].up = x
    BY DEF Children
  <2> QED
    BY <1>1, <1>5, <2>1, Places DEF Owner, IsParameter
<1>8. r + 1 \in Nodes /\ Owner(r + 1) = x
  BY <1>1, <1>4, <1>6, <1>7, NextIsLeft
<1>9. /\ r + 1 # 1 /\ D[r + 1] \in Nat
      /\ line.kind = (IF IsParameter(r + 1) THEN "PARAM_VAR_DECL" ELSE Kind(r + 1))
      /\ NodeRead(Kind(r + 1), tree[r + 1].up) = tree[r + 1]
      /\ Kind(r + 1) \notin NoLine
  BY <1>8, LineIsNext
<1>10. CASE line.kind = "PARAM_VAR_DECL"
  <2>1. IsParameter(r + 1)
    BY <1>9, <1>10 DEF NoLine
  <2>2. Kind(r + 1) = "VAR_DECL" /\ tree[r + 1].up = x + 1
    BY <1>1, <1>8, <1>9, <2>1, Parameters
  <2>3. ReadVarDecl(x + 1, <<goal>>)
    BY <1>4, <1>10 DEF ReadParams
  <2>4. /\ Adds(tree[r + 1]) /\ GetLine /\ status' = status
        /\ Then((IF nextLine.tabs > line.tabs THEN <<Goal("expr", NewNode, 0)>> ELSE <<>>)
                \o <<goal>>)
    BY <1>9, <2>2, <2>3 DEF ReadVarDecl
  <2>5. LoopOK(goal, r + 1, D)
    <3>1. b > r + 1
      BY <1>1, <1>6, <1>7, <2>1
    <3> QED
      BY <1>2, <1>4, <1>5, <3>1 DEF LoopOK
  <2>6. Kind(r + 1) \in Ones
    BY <2>2 DEF Ones
  <2>7. Result(D, P)
    BY <1>3, <1>4, <1>8, <2>4, <2>5, <2>6, OneRead
  <2> QED
    BY <1>2, <2>4, <2>7 DEF Outcome
<1>11. CASE line.kind # "PARAM_VAR_DECL"
  <2>1. ~IsParameter(r + 1)
    BY <1>9, <1>11
  <2>2. tree[r + 1].up = x /\ D[r + 1] = D[x] + 1
    BY <1>1, <1>8, <1>9, <2>1, Owners
  <2>3. Body(x)
    <3>1. ~IsOpen(x)
      BY <1>1 DEF Context, IsOpen
    <3> QED
      BY <1>1, <1>5, <3>1 DEF TreeOK, Full
  <2>4. PICK c \in Nodes :
          Children(x) = {x + 1, c} /\ x + 1 < c /\ Kind(c) \in {"COMPOUND_STMT", "null"}
    BY <2>3 DEF Body
  <2>5. r + 1 # x + 1
    BY <1>1, <1>5
  <2>6. c = r + 1
    <3>1. r + 1 \in Children(x)
      BY <1>8, <2>2 DEF Children
    <3> QED
      BY <2>4, <2>5, <3>1
  <2>7. Kind(r + 1) = "COMPOUND_STMT"
    BY <2>4, <2>6, <1>9 DEF NoLine
  <2>8. PICK g : g = Goal("block", x, 0)
    OBVIOUS
  <2>9. g \in GoalSet /\ g.what = "block" /\ g.node = x
    BY <1>5, <2>8, GoalType
  <2>10. TargetOK(g, r + 1, r)
    BY <1>1, <1>8, <2>2, <2>7, <2>9 DEF TargetOK, Children
  <2>11. ASSUME NEW i \in Nodes, i > r, Owner(i) = x
         PROVE  i = r + 1
    <3>0. i \in Nat /\ i # 1
      BY <1>1, <2>11, Places
    <3>1. CASE ~IsParameter(i)
      <4>1. i \in Children(x)
        BY <3>1, <2>11 DEF Owner, Children
      <4>2. i # x + 1
        BY <1>1, <1>5, <2>11, <3>0
      <4> QED
        BY <2>4, <2>6, <4>1, <4>2
    <3>2. CASE IsParameter(i)
      <4> SUFFICES ASSUME i # r + 1
                   PROVE  FALSE
        OBVIOUS
      <4>1. tree[i].up = x + 1 /\ D[i] = D[x] + 2
        BY <1>1, <2>11, <3>0, <3>2, Parameters
      <4>2. x + 1 < r + 1 /\ r + 1 < i
        BY <1>1, <1>5, <2>11, <3>0
      <4>3. D[i] <= D[r + 1]
        BY <1>1, <1>8, <3>0, <4>1, <4>2, Levels
      <4>4. D[x] \in Nat
        BY <1>1, <1>5, Levels
      <4> QED
        BY <2>2, <4>1, <4>3, <4>4
    <3> QED
      BY <3>1, <3>2
  <2>12. PICK G : G = <<g>>
    OBVIOUS
  <2>13. PICK V : V = <<r + 1>>
    OBVIOUS
  <2>14. G \in Seq(GoalSet) /\ Len(G) = 1 /\ G[1] = g /\ G # <<>>
    BY <2>9, <2>12, Tuples
  <2>15. V \in Seq(Nat) /\ Len(V) = 1 /\ V[1] = r + 1
    <3>1. r + 1 \in Nat
      BY <1>1
    <3> QED
      BY <2>13, <3>1, Tuples
  <2>16. todo' = G \o Tail(todo) /\ status' = status /\ read' = read /\ mCurrentLine' = mCurrentLine
    BY <1>4, <1>11, <2>8, <2>12 DEF ReadParams, Then
  <2>17. TodoOK(G \o Tail(todo), V \o Tail(W), r, D)
    <3>1. Owner(r + 1) = todo[1].node /\ g.node = todo[1].node
      BY <1>1, <1>4, <1>8, <2>9
    <3>2. /\ Len(G) = 1 /\ todo[1].what # "decls"
          /\ \A i \in Nodes : i > r /\ Owner(i) = todo[1].node => i = r + 1
      BY <1>1, <1>2, <1>4, <2>11, <2>14
    <3>3. Len(V) = Len(G)
      BY <2>14, <2>15
    <3> QED
      BY <1>1, <1>3, <1>8, <2>9, <2>10, <2>14, <2>15, <3>1, <3>2, <3>3, Push
  <2>18. ReadOK(P)' /\ Len(read') = r
    BY <1>1, <2>16, ReadStays
  <2> QED
    BY <2>16, <2>17, <2>18, <1>2 DEF Outcome, Result
<1> QED
  BY <1>10, <1>11

LEMMA ReadCompoundStmtStep ==
  ASSUME NEW D, NEW P, NEW W, NEW r, Reading(D, P, W, r), tree' = tree, ReadCompoundStmt
  PROVE  Outcome(D, P)
<1>1. /\ TreeOK /\ LevelsOK(D) /\ TodoOK(todo, W, r, D)
      /\ r \in Nodes /\ r \in Nat /\ Kind(r) # "FUNCTION_DECL"
      /\ goal = todo[1] /\ NewNode = r + 1
  BY ReaderFacts
<1>2. goal.what = "block" /\ status = "reading"
  BY DEF ReadCompoundStmt, Doing, goal
<1>3. W[1] # 0 /\ TargetOK(goal, W[1], r)
  BY <1>1, <1>2, TopGoal
<1>4. /\ r + 1 \in Nodes /\ Owner(r + 1) = goal.node /\ tree[r + 1].up = goal.node
      /\ W[1] = r + 1
  BY <1>1, <1>3, TargetIsNext
<1>5. Kind(r + 1) = "COMPOUND_STMT"
  BY <1>2, <1>3, <1>4 DEF TargetOK
<1>6. tree[r + 1] = Bare("COMPOUND_STMT", goal.node)
  BY <1>1, <1>4, <1>5 DEF TreeOK, NodeOK
<1>7. line.tabs = D[r + 1] /\ D[r + 1] \in Nat
  BY <1>4, LineIsNext
<1>8. PICK g : g = Goal("stmts", r + 1, line.tabs)
  OBVIOUS
<1>9. g \in GoalSet /\ g.what = "stmts" /\ g.node = r + 1 /\ g.tabs = D[r + 1]
  <2>1. r + 1 \in Nat
    BY <1>1
  <2> QED
    BY <1>7, <1>8, <2>1, GoalType
<1>10. LoopOK(g, r + 1, D)
  BY <1>5, <1>9 DEF LoopOK
<1>11. Adds(tree[r + 1]) /\ GetLine /\ todo' = <<g>> \o Tail(todo) /\ status' = status
  BY <1>1, <1>6, <1>8 DEF ReadCompoundStmt, Then
<1>12. Kind(r + 1) # "FUNCTION_DECL"
  BY <1>5
<1>13. Result(D, P)
  BY <1>4, <1>9, <1>10, <1>11, <1>12, LoopRead
<1> QED
  BY <1>2, <1>11, <1>13 DEF Outcome

(* A block, a call or an array that ends: its goal goes. *)
LEMMA LoopEnds ==
  ASSUME NEW D, NEW P, NEW W, NEW r, Reading(D, P, W, r), tree' = tree,
         status = "reading", goal.what # "decls",
         line.tabs <= D[goal.node],
         Then(<<>>), UNCHANGED <<status, mCurrentLine, read>>
  PROVE  Outcome(D, P)
<1>1. /\ TreeOK /\ LevelsOK(D) /\ TodoOK(todo, W, r, D) /\ ReadOK(P) /\ r = Len(read)
      /\ r \in Nodes /\ r \in Nat /\ Kind(r) # "FUNCTION_DECL"
      /\ goal = todo[1] /\ goal.node \in Nodes
  BY ReaderFacts
<1>2. \A i \in Nodes : i > r => Owner(i) # todo[1].node
  <2> SUFFICES ASSUME NEW i \in Nodes, i > r, Owner(i) = todo[1].node
               PROVE  FALSE
    OBVIOUS
  <2>1. r + 1 \in Nodes /\ Owner(r + 1) = goal.node
    BY <1>1, NextIsLeft
  <2>2. r + 1 # 1 /\ line.tabs = D[r + 1] /\ D[r + 1] \in Nat
    BY <2>1, LineIsNext
  <2>3. D[r + 1] > D[goal.node] /\ D[goal.node] \in Nat
    BY <1>1, <2>1, <2>2, Owners, Levels
  <2> QED
    BY <2>2, <2>3
<1>3. todo' = <<>> \o Tail(todo) /\ read' = read /\ mCurrentLine' = mCurrentLine
  BY DEF Then
<1>4. TodoOK(<<>> \o Tail(todo), <<>> \o Tail(W), r, D)
  BY <1>1, <1>2, Pop
<1>5. ReadOK(P)' /\ Len(read') = r
  BY <1>1, <1>3, ReadStays
<1> QED
  BY <1>3, <1>4, <1>5 DEF Outcome, Result

(* A loop that goes for the next node. *)
LEMMA LoopGoesOn ==
  ASSUME NEW D, NEW P, NEW W, NEW r, Reading(D, P, W, r), tree' = tree,
         status = "reading", W[1] = 0, goal.what # "params",
         r + 1 \in Nodes, Owner(r + 1) = goal.node, tree[r + 1].up = goal.node,
         NEW what \in {"expr", "block"},
         what = "expr" => Kind(r + 1) \in Exprs,
         what = "block" => Kind(r + 1) = "COMPOUND_STMT",
         Then(<<Goal(what, goal.node, 0), goal>>),
         UNCHANGED <<status, mCurrentLine, read>>
  PROVE  Outcome(D, P)
<1>1. /\ TreeOK /\ LevelsOK(D) /\ TodoOK(todo, W, r, D) /\ ReadOK(P) /\ r = Len(read)
      /\ r \in Nodes /\ r \in Nat
      /\ goal = todo[1] /\ goal \in GoalSet /\ goal.node \in Nodes
  BY ReaderFacts
<1>2. PICK g : g = Goal(what, goal.node, 0)
  OBVIOUS
<1>3. g \in GoalSet /\ g.what = what /\ g.node = goal.node
  <2>1. goal.node \in Nat
    BY <1>1, Places
  <2> QED
    BY <1>2, <2>1, GoalType
<1>4. TargetOK(g, r + 1, r)
  <2>1. r + 1 \in Children(g.node) /\ r + 1 > r
    BY <1>1, <1>3 DEF Children
  <2> QED
    BY <1>3, <2>1 DEF TargetOK
<1>5. PICK G : G = <<g, goal>>
  OBVIOUS
<1>6. PICK V : V = <<r + 1, 0>>
  OBVIOUS
<1>7. G \in Seq(GoalSet) /\ Len(G) = 2 /\ G[1] = g /\ G[2] = todo[1] /\ G # <<>>
  BY <1>1, <1>3, <1>5, Tuples
<1>8. V \in Seq(Nat) /\ Len(V) = 2 /\ V[1] = r + 1 /\ V[2] = 0
  <2>1. r + 1 \in Nat
    BY <1>1
  <2> QED
    BY <1>6, <2>1, Tuples
<1>9. todo' = G \o Tail(todo) /\ read' = read /\ mCurrentLine' = mCurrentLine
  BY <1>2, <1>5 DEF Then
<1>10. TodoOK(G \o Tail(todo), V \o Tail(W), r, D)
  <2>1. /\ Len(V) = Len(G) /\ Owner(r + 1) = todo[1].node /\ g.node = todo[1].node
        /\ todo[1].what # "params"
    BY <1>1, <1>3, <1>7, <1>8
  <2> QED
    BY <1>1, <1>3, <1>4, <1>7, <1>8, <2>1, Push
<1>11. ReadOK(P)' /\ Len(read') = r
  BY <1>1, <1>9, ReadStays
<1> QED
  BY <1>9, <1>10, <1>11 DEF Outcome, Result

(* The goal of a block, and the next node when the line is in the block. *)
LEMMA InBlockFacts ==
  ASSUME NEW D, NEW P, NEW W, NEW r, Reading(D, P, W, r), goal.what = "stmts"
  PROVE  /\ W[1] = 0 /\ Kind(goal.node) = "COMPOUND_STMT" /\ goal.tabs = D[goal.node]
         /\ D[goal.node] \in Nat /\ line.tabs \in Nat
         /\ LoopOK(goal, r + 1, D)
         /\ InBlock(goal.tabs) =>
              /\ r + 1 \in Nodes /\ Owner(r + 1) = goal.node
              /\ tree[r + 1].up = goal.node
              /\ Kind(r + 1) = line.kind
              /\ NodeRead(line.kind, goal.node) = tree[r + 1]
<1>1. /\ TreeOK /\ LevelsOK(D) /\ TodoOK(todo, W, r, D)
      /\ r \in Nodes /\ r \in Nat
      /\ goal = todo[1] /\ goal.node \in Nodes
  BY ReaderFacts
<1>2. W[1] = 0 /\ LoopOK(goal, r, D)
  BY <1>1, TopGoal
<1>3. Kind(goal.node) = "COMPOUND_STMT" /\ goal.tabs = D[goal.node]
  BY <1>2 DEF LoopOK
<1>4. LoopOK(goal, r + 1, D)
  BY <1>3 DEF LoopOK
<1>5. D[goal.node] \in Nat /\ line.tabs \in Nat
  <2>1. D[goal.node] \in Nat
    BY <1>1, Levels
  <2>2. CASE r + 1 \in Nodes
    <3>1. line.tabs = D[r + 1] /\ D[r + 1] \in Nat
      BY <2>2, LineIsNext
    <3> QED
      BY <2>1, <3>1
  <2>3. CASE r + 1 \notin Nodes
    <3>1. line.tabs = 0
      BY <2>3, LineIsNext
    <3> QED
      BY <2>1, <3>1
  <2> QED
    BY <2>2, <2>3
<1>6. ASSUME InBlock(goal.tabs)
      PROVE  /\ r + 1 \in Nodes /\ Owner(r + 1) = goal.node
             /\ tree[r + 1].up = goal.node
             /\ Kind(r + 1) = line.kind
             /\ NodeRead(line.kind, goal.node) = tree[r + 1]
  <2>1. line.tabs > D[goal.node]
    BY <1>3, <1>6 DEF InBlock
  <2>2. r + 1 \in Nodes
    BY <1>5, <2>1, LineIsNext
  <2>3. r + 1 # 1 /\ line.tabs = D[r + 1]
    BY <2>2, LineIsNext
  <2>4. Owner(r + 1) = goal.node
    BY <1>1, <2>1, <2>2, <2>3, NextNode
  <2>5. ~IsParameter(r + 1)
    <3> SUFFICES ASSUME IsParameter(r + 1)
                 PROVE  FALSE
      OBVIOUS
    <3>1. Kind(Owner(r + 1)) = "FUNCTION_DECL"
      BY <1>1, <2>2, <2>3, Parameters
    <3> QED
      BY <1>3, <2>4, <3>1
  <2>6. tree[r + 1].up = goal.node
    BY <2>4, <2>5 DEF Owner
  <2> QED
    BY <2>2, <2>4, <2>5, <2>6, LineIsNext
<1> QED
  BY <1>2, <1>3, <1>4, <1>5, <1>6

LEMMA EndBlockStep ==
  ASSUME NEW D, NEW P, NEW W, NEW r, Reading(D, P, W, r), tree' = tree, EndBlock
  PROVE  Outcome(D, P)
<1>1. goal.what = "stmts" /\ status = "reading"
  BY DEF EndBlock, Doing, goal
<1>2. goal.tabs = D[goal.node] /\ D[goal.node] \in Nat /\ line.tabs \in Nat
  BY <1>1, InBlockFacts
<1>3. line.tabs <= D[goal.node]
  BY <1>2 DEF EndBlock, InBlock
<1>4. Then(<<>>) /\ UNCHANGED <<status, mCurrentLine, read>>
  BY DEF EndBlock
<1>5. goal.what # "decls"
  BY <1>1
<1> QED
  BY <1>1, <1>3, <1>4, <1>5, LoopEnds

LEMMA ReadStmtStep ==
  ASSUME NEW D, NEW P, NEW W, NEW r, Reading(D, P, W, r), tree' = tree, ReadStmt
  PROVE  Outcome(D, P)
<1>1. goal.what = "stmts" /\ status = "reading" /\ goal.what # "params"
  BY DEF ReadStmt, Doing, goal
<1>2. W[1] = 0 /\ LoopOK(goal, r + 1, D) /\ NewNode = r + 1
  BY <1>1, InBlockFacts, ReaderFacts
<1>3. InBlock(goal.tabs)
  BY DEF ReadStmt
<1>4. /\ r + 1 \in Nodes /\ Owner(r + 1) = goal.node
      /\ tree[r + 1].up = goal.node
      /\ Kind(r + 1) = line.kind
      /\ NodeRead(line.kind, goal.node) = tree[r + 1]
  BY <1>1, <1>3, InBlockFacts
<1>5. CASE line.kind = "VAR_DECL" /\ ReadVarDecl(goal.node, <<goal>>)
  <2>1. /\ Adds(tree[r + 1]) /\ GetLine /\ status' = status
        /\ Then((IF nextLine.tabs > line.tabs THEN <<Goal("expr", NewNode, 0)>> ELSE <<>>)
                \o <<goal>>)
    BY <1>4, <1>5 DEF ReadVarDecl
  <2>2. Kind(r + 1) \in Ones
    BY <1>4, <1>5 DEF Ones
  <2>3. Result(D, P)
    BY <1>2, <1>4, <2>1, <2>2, OneRead
  <2> QED
    BY <1>1, <2>1, <2>3 DEF Outcome
<1>6. CASE /\ line.kind \in {"IF_STMT", "WHILE_STMT"}
           /\ Adds(NodeRead(line.kind, goal.node))
           /\ GetLine
           /\ Then(<<Goal("expr", NewNode, 0), Goal("block", NewNode, 0), goal>>)
           /\ UNCHANGED status
  <2>1. Kind(r + 1) \in Twos /\ Kind(r + 1) # "BINARY_EXPR"
    BY <1>4, <1>6 DEF Twos
  <2>2. PICK g : g = Goal("expr", r + 1, 0)
    OBVIOUS
  <2>3. PICK b : b = Goal(IF Kind(r + 1) = "BINARY_EXPR" THEN "expr" ELSE "block", r + 1, 0)
    OBVIOUS
  <2>4. b = Goal("block", r + 1, 0)
    BY <2>1, <2>3
  <2>5. todo' = <<g, b, goal>> \o Tail(todo)
    BY <1>2, <1>6, <2>2, <2>4 DEF Then
  <2>6. Adds(tree[r + 1]) /\ GetLine
    BY <1>4, <1>6
  <2>7. /\ W[1] = 0 \/ W[1] = r + 1
        /\ W[1] = 0 => LoopOK(goal, r + 1, D) /\ todo' = <<g, b, goal>> \o Tail(todo)
        /\ W[1] # 0 => todo' = <<g, b>> \o Tail(todo)
    BY <1>2, <2>5
  <2>8. Result(D, P)
    BY <1>4, <2>1, <2>2, <2>3, <2>6, <2>7, TwoRead
  <2> QED
    BY <1>1, <1>6, <2>8 DEF Outcome
<1>7. CASE /\ line.kind \in {"PRINT_STMT", "RETURN_STMT"}
           /\ Adds(NodeRead(line.kind, goal.node))
           /\ GetLine
           /\ Then((IF nextLine.tabs > line.tabs THEN <<Goal("expr", NewNode, 0)>> ELSE <<>>)
                   \o <<goal>>)
           /\ UNCHANGED status
  <2>1. Adds(tree[r + 1])
    BY <1>4, <1>7
  <2>2. Kind(r + 1) \in Ones
    BY <1>4, <1>7 DEF Ones
  <2>3. Result(D, P)
    BY <1>2, <1>4, <1>7, <2>1, <2>2, OneRead
  <2> QED
    BY <1>1, <1>7, <2>3 DEF Outcome
<1>8. CASE /\ line.kind \in {"BINARY_EXPR", "CALL_EXPR"}
           /\ Then(<<Goal("expr", goal.node, 0), goal>>)
           /\ UNCHANGED <<status, mCurrentLine, read>>
  <2>1. Kind(r + 1) \in Exprs
    BY <1>4, <1>8 DEF Exprs
  <2>2. PICK what \in {"expr", "block"} : what = "expr"
    OBVIOUS
  <2>3. /\ what = "expr" => Kind(r + 1) \in Exprs
        /\ what = "block" => Kind(r + 1) = "COMPOUND_STMT"
    BY <2>1, <2>2
  <2>4. Then(<<Goal(what, goal.node, 0), goal>>)
    BY <1>8, <2>2
  <2> QED
    BY <1>1, <1>2, <1>4, <1>8, <2>3, <2>4, LoopGoesOn
<1>9. CASE /\ line.kind = "COMPOUND_STMT"
           /\ Then(<<Goal("block", goal.node, 0), goal>>)
           /\ UNCHANGED <<status, mCurrentLine, read>>
  <2>2. PICK what \in {"expr", "block"} : what = "block"
    OBVIOUS
  <2>3. /\ what = "expr" => Kind(r + 1) \in Exprs
        /\ what = "block" => Kind(r + 1) = "COMPOUND_STMT"
    BY <1>4, <1>9, <2>2
  <2>4. Then(<<Goal(what, goal.node, 0), goal>>)
    BY <1>9, <2>2
  <2> QED
    BY <1>1, <1>2, <1>4, <1>9, <2>3, <2>4, LoopGoesOn
<1>10. CASE Stop("crashed") \/ Stop("hung")
  BY <1>10 DEF Stop, Outcome
<1> QED
  BY <1>5, <1>6, <1>7, <1>8, <1>9, <1>10 DEF ReadStmt

LEMMA ReadExprStep ==
  ASSUME NEW D, NEW P, NEW W, NEW r, Reading(D, P, W, r), tree' = tree, ReadExpr
  PROVE  Outcome(D, P)
<1>1. /\ TreeOK /\ LevelsOK(D) /\ Context(D, P) /\ TodoOK(todo, W, r, D)
      /\ r \in Nodes /\ r \in Nat /\ Kind(r) # "FUNCTION_DECL"
      /\ mCurrentLine = P[r] + 1
      /\ goal = todo[1] /\ NewNode = r + 1
  BY ReaderFacts
<1>2. goal.what = "expr" /\ status = "reading"
  BY DEF ReadExpr, Doing, goal
<1>3. W[1] # 0 /\ TargetOK(goal, W[1], r)
  BY <1>1, <1>2, TopGoal
<1>4. /\ r + 1 \in Nodes /\ Owner(r + 1) = goal.node /\ tree[r + 1].up = goal.node
      /\ W[1] = r + 1
  BY <1>1, <1>3, TargetIsNext
<1>5. Kind(r + 1) \in Exprs
  BY <1>2, <1>3, <1>4 DEF TargetOK
<1>6. ~IsParameter(r + 1)
  <2> SUFFICES ASSUME IsParameter(r + 1)
               PROVE  FALSE
    OBVIOUS
  <2>1. r + 1 # 1
    BY <1>1, Places
  <2>2. Kind(r + 1) = "VAR_DECL"
    BY <1>1, <1>4, <2>1, Parameters
  <2> QED
    BY <1>5, <2>2 DEF Exprs
<1>7. /\ line.kind = Kind(r + 1) /\ line.tabs = D[r + 1] /\ D[r + 1] \in Nat
      /\ NodeRead(line.kind, goal.node) = tree[r + 1]
  BY <1>4, <1>6, LineIsNext
<1>8. KnownExpr
  <2>1. line.name = tree[r + 1].name
    BY <1>1, <1>4, CurrentLine DEF line
  <2>2. Kind(r + 1) = "NUMBER_EXPR" => tree[r + 1].name # Zero
    BY <1>1, <1>4 DEF Context, Readable
  <2> QED
    BY <1>5, <1>7, <2>1, <2>2 DEF KnownExpr
<1>9. Adds(tree[r + 1]) /\ GetLine /\ todo' = Parts(r + 1) \o Tail(todo) /\ status' = status
  BY <1>1, <1>7, <1>8 DEF ReadExpr, Then
<1>10. Result(D, P)
  <2>1. CASE Kind(r + 1) = "BINARY_EXPR"
    <3>1. PICK g : g = Goal("expr", r + 1, 0)
      OBVIOUS
    <3>2. PICK b : b = Goal(IF Kind(r + 1) = "BINARY_EXPR" THEN "expr" ELSE "block", r + 1, 0)
      OBVIOUS
    <3>3. b = g
      BY <2>1, <3>1, <3>2
    <3>4. Parts(r + 1) = <<g, b>>
      BY <1>7, <2>1, <3>1, <3>3 DEF Parts
    <3>5. /\ W[1] = 0 \/ W[1] = r + 1
          /\ W[1] = 0 => LoopOK(goal, r + 1, D) /\ todo' = <<g, b, goal>> \o Tail(todo)
          /\ W[1] # 0 => todo' = <<g, b>> \o Tail(todo)
      BY <1>3, <1>4, <1>9, <3>4
    <3>6. Kind(r + 1) \in Twos
      BY <2>1 DEF Twos
    <3> QED
      BY <1>4, <1>9, <3>1, <3>2, <3>5, <3>6, TwoRead
  <2>2. CASE Kind(r + 1) = "CALL_EXPR"
    <3>1. PICK g : g = Goal("args", r + 1, D[r + 1] + 1)
      OBVIOUS
    <3>2. g \in GoalSet /\ g.what = "args" /\ g.node = r + 1 /\ g.tabs = D[r + 1] + 1
      <4>1. r + 1 \in Nat /\ D[r + 1] + 1 \in Nat
        BY <1>1, <1>7
      <4> QED
        BY <3>1, <4>1, GoalType
    <3>3. LoopOK(g, r + 1, D)
      BY <2>2, <3>2 DEF LoopOK
    <3>4. Parts(r + 1) = <<g>>
      BY <1>7, <2>2, <3>1 DEF Parts
    <3>5. todo' = <<g>> \o Tail(todo) /\ Kind(r + 1) # "FUNCTION_DECL"
      BY <1>9, <2>2, <3>4
    <3> QED
      BY <1>4, <1>9, <3>2, <3>3, <3>5, LoopRead
  <2>3. CASE Kind(r + 1) = "ARRAY_EXPR"
    <3>1. nextLine.tabs = D[r + 1] + 1
      <4>1. PICK n : n = r + 1
        OBVIOUS
      <4>2. Children(n) # {}
        <5>1. Arity(n) > 0
          BY <1>1, <1>4, <2>3, <4>1 DEF Context, Readable
        <5> QED
          BY <5>1, FS_EmptySet DEF Arity
      <4>3. n + 1 \in Nodes /\ D[n + 1] = D[n] + 1
        BY <1>1, <1>4, <4>1, <4>2, FirstChild
      <4>4. P[n] = P[r] + 1
        BY <1>1, <1>4, <4>1, CurrentLine
      <4>5. nextLine = LineAt(P[n] + 1)
        BY <1>1, <4>4 DEF nextLine
      <4>6. n \in Nodes /\ Kind(n) # "FUNCTION_DECL"
        BY <1>4, <2>3, <4>1
      <4>7. nextLine.tabs = D[n + 1]
        BY <1>1, <4>3, <4>5, <4>6, CurrentLine
      <4> QED
        BY <4>1, <4>3, <4>7
    <3>2. PICK g : g = Goal("elements", r + 1, D[r + 1] + 1)
      OBVIOUS
    <3>3. g \in GoalSet /\ g.what = "elements" /\ g.node = r + 1 /\ g.tabs = D[r + 1] + 1
      <4>1. r + 1 \in Nat /\ D[r + 1] + 1 \in Nat
        BY <1>1, <1>7
      <4> QED
        BY <3>2, <4>1, GoalType
    <3>4. LoopOK(g, r + 1, D)
      BY <2>3, <3>3 DEF LoopOK
    <3>5. Parts(r + 1) = <<g>>
      BY <1>7, <2>3, <3>1, <3>2 DEF Parts
    <3>6. todo' = <<g>> \o Tail(todo) /\ Kind(r + 1) # "FUNCTION_DECL"
      BY <1>9, <2>3, <3>5
    <3> QED
      BY <1>4, <1>9, <3>3, <3>4, <3>6, LoopRead
  <2>4. CASE Kind(r + 1) \in Literals
    <3>1. Parts(r + 1) = <<>>
      BY <1>7, <2>4 DEF Parts, Literals
    <3> QED
      BY <1>4, <1>9, <2>4, <3>1, LeafRead
  <2>5. Kind(r + 1) # "SPAWN_EXPR"
    BY <1>1, <1>4 DEF Context, Readable
  <2> QED
    BY <1>5, <2>1, <2>2, <2>3, <2>4, <2>5 DEF Exprs, Literals
<1> QED
  BY <1>2, <1>9, <1>10 DEF Outcome

LEMMA ReadMoreStep ==
  ASSUME NEW D, NEW P, NEW W, NEW r, Reading(D, P, W, r), tree' = tree, ReadMore
  PROVE  Outcome(D, P)
<1>1. /\ TreeOK /\ LevelsOK(D) /\ Context(D, P) /\ TodoOK(todo, W, r, D)
      /\ r \in Nodes /\ r \in Nat
      /\ goal = todo[1] /\ goal.node \in Nodes
  BY ReaderFacts
<1>2. /\ goal.what \in {"args", "elements"} /\ status = "reading"
      /\ goal.what # "params" /\ goal.what # "decls"
  BY DEF ReadMore, Doing, goal
<1>3. W[1] = 0 /\ LoopOK(goal, r, D)
  BY <1>1, <1>2, TopGoal
<1>4. /\ Kind(goal.node) \in {"CALL_EXPR", "ARRAY_EXPR"} /\ goal.tabs = D[goal.node] + 1
      /\ D[goal.node] \in Nat /\ line.tabs \in Nat
  <2>1. Kind(goal.node) \in {"CALL_EXPR", "ARRAY_EXPR"} /\ goal.tabs = D[goal.node] + 1
    BY <1>2, <1>3 DEF LoopOK
  <2>2. D[goal.node] \in Nat
    BY <1>1, Levels
  <2>3. CASE r + 1 \in Nodes
    <3>1. line.tabs = D[r + 1] /\ D[r + 1] \in Nat
      BY <2>3, LineIsNext
    <3> QED
      BY <2>1, <2>2, <3>1
  <2>4. CASE r + 1 \notin Nodes
    <3>1. line.tabs = 0
      BY <2>4, LineIsNext
    <3> QED
      BY <2>1, <2>2, <3>1
  <2> QED
    BY <2>3, <2>4
<1>5. CASE /\ line.tabs >= goal.tabs /\ line.kind # "eof"
           /\ Then(<<Goal("expr", goal.node, 0), goal>>)
           /\ UNCHANGED <<status, mCurrentLine, read>>
  <2>1. r + 1 \in Nodes
    BY <1>5, LineIsNext
  <2>2. r + 1 # 1 /\ line.tabs = D[r + 1] /\ Kind(r + 1) \notin NoLine
    BY <2>1, LineIsNext
  <2>3. D[r + 1] > D[goal.node]
    BY <1>4, <1>5, <2>2
  <2>4. Owner(r + 1) = goal.node
    BY <1>1, <2>1, <2>3, NextNode
  <2>5. r + 1 \in Children(goal.node)
    <3>1. Kind(goal.node) # "FUNCTION_DECL"
      BY <1>4
    <3> QED
      BY <1>1, <2>1, <2>2, <2>4, <3>1, OwnedAreChildren
  <2>6. Kind(r + 1) \in Exprs
    <3>1. Kind(r + 1) \in Exprs \cup {"null"}
      BY <1>1, <1>4, <2>5 DEF TreeOK, ChildrenOK
    <3> QED
      BY <2>2, <3>1 DEF NoLine
  <2>7. tree[r + 1].up = goal.node
    BY <2>5 DEF Children
  <2>8. PICK what \in {"expr", "block"} : what = "expr"
    OBVIOUS
  <2>9. /\ what = "expr" => Kind(r + 1) \in Exprs
        /\ what = "block" => Kind(r + 1) = "COMPOUND_STMT"
    BY <2>6, <2>8
  <2>10. Then(<<Goal(what, goal.node, 0), goal>>)
    BY <1>5, <2>8
  <2> QED
    BY <1>2, <1>3, <1>5, <2>1, <2>4, <2>7, <2>9, <2>10, LoopGoesOn
<1>6. CASE Stop("hung")
  BY <1>6 DEF Stop, Outcome
<1>7. CASE /\ line.tabs < goal.tabs
           /\ Then(<<>>)
           /\ UNCHANGED <<status, mCurrentLine, read>>
  <2>1. line.tabs <= D[goal.node]
    BY <1>4, <1>7
  <2> QED
    BY <1>2, <1>7, <2>1, LoopEnds
<1> QED
  BY <1>5, <1>6, <1>7 DEF ReadMore

(* All of them do. *)
LEMMA ReadStep ==
  ASSUME NEW D, NEW P, NEW W, NEW r, Reading(D, P, W, r), Read
  PROVE  Outcome(D, P)
<1>1. tree' = tree
  BY DEF Read
<1> QED
  BY <1>1, ReadDeclsStep, ReadParamsStep, ReadCompoundStmtStep, EndBlockStep, ReadStmtStep,
     ReadExprStep, ReadMoreStep DEF Read

----------------------------------------------------------------------------
(* Steps that leave the tree alone. *)

(* What is said of the tree, the lines and the goals depends on nothing else. *)
LEMMA SameTree ==
  ASSUME tree' = tree
  PROVE  /\ Nodes' = Nodes
         /\ \A n : Kind(n)' = Kind(n) /\ Children(n)' = Children(n)
         /\ \A n : IsParameter(n)' = IsParameter(n) /\ Owner(n)' = Owner(n)
         /\ \A n : Arity(n)' = Arity(n)
         /\ Readable' = Readable
<1>1. Nodes' = Nodes
  BY DEF Nodes
<1>2. \A n : Kind(n)' = Kind(n)
  BY DEF Kind
<1>3. \A n : Children(n)' = Children(n)
  BY <1>1 DEF Children
<1>4. \A n : IsParameter(n)' = IsParameter(n)
  BY <1>2 DEF IsParameter
<1>5. \A n : Owner(n)' = Owner(n)
  BY <1>4 DEF Owner
<1>6. \A n : Arity(n)' = Arity(n)
  BY <1>3 DEF Arity
<1>7. Readable' = Readable
  BY <1>1, <1>2, <1>6 DEF Readable, Kind
<1> QED
  BY <1>1, <1>2, <1>3, <1>4, <1>5, <1>6, <1>7

LEMMA SameTodo ==
  ASSUME tree' = tree, NEW D, NEW V, TodoOK(todo', V, Len(read'), D)
  PROVE  TodoOK(todo, V, Len(read), D)'
<1>1. PICK t : t = todo'
  OBVIOUS
<1>2. PICK r : r = Len(read')
  OBVIOUS
<1>3. TodoOK(t, V, r, D)
  BY <1>1, <1>2
<1>4. Nodes' = Nodes /\ \A n : Kind(n)' = Kind(n) /\ Children(n)' = Children(n) /\ Owner(n)' = Owner(n)
  BY SameTree
<1>5. \A g : LoopOK(g, r, D)' = LoopOK(g, r, D)
  BY <1>4 DEF LoopOK
<1>6. \A g, w : TargetOK(g, w, r)' = TargetOK(g, w, r)
  BY <1>4 DEF TargetOK
<1>7. \A g, w : GoalOK(g, w, r, D)' = GoalOK(g, w, r, D)
  BY <1>5, <1>6 DEF GoalOK
<1>8. \A i : Covered(t, V, i)' = Covered(t, V, i)
  BY <1>4 DEF Covered
<1>9. TodoOK(t, V, r, D)'
  BY <1>3, <1>4, <1>7, <1>8 DEF TodoOK, OrderOK
<1> QED
  BY <1>1, <1>2, <1>9 DEF TodoOK

LEMMA SameLevels ==
  ASSUME tree' = tree, open' = open, NEW D, LevelsOK(D)
  PROVE  LevelsOK(D)'
BY SameTree DEF LevelsOK

LEMMA SameLines ==
  ASSUME tree' = tree, lines' = lines, NEW D, NEW P, LinesOK(D, P)
  PROVE  LinesOK(D, P)'
<1>1. \A n, level : LineFor(n, level)' = LineFor(n, level)
  BY SameTree DEF LineFor, LineOf
<1> QED
  BY <1>1, SameTree DEF LinesOK

LEMMA SameShape ==
  ASSUME tree' = tree
  PROVE  /\ \A n : NodeOK(n)' = NodeOK(n) /\ ChildrenOK(n)' = ChildrenOK(n)
         /\ \A n : Full(n)' = Full(n)
<1>1. \A n : OneChild(n)' = OneChild(n) /\ TwoChildren(n)' = TwoChildren(n) /\ Body(n)' = Body(n)
  BY SameTree DEF OneChild, TwoChildren, Body
<1>2. \A n : NodeOK(n)' = NodeOK(n)
  BY DEF NodeOK, Kind, Tab
<1>3. \A n : ChildrenOK(n)' = ChildrenOK(n)
  BY <1>1, SameTree DEF ChildrenOK, Bare
<1>4. \A n : Full(n)' = Full(n)
  BY <1>1, SameTree DEF Full
<1> QED
  BY <1>2, <1>3, <1>4

LEMMA SameTreeOK ==
  ASSUME tree' = tree, open' = open, TreeOK, OpenOK
  PROVE  TreeOK' /\ OpenOK'
<1>1. \A n : IsOpen(n)' = IsOpen(n)
  BY DEF IsOpen
<1>2. TreeOK'
  BY <1>1, SameTree, SameShape DEF TreeOK
<1>3. OpenOK'
  BY SameTree DEF OpenOK
<1> QED
  BY <1>2, <1>3

LEMMA ReadKeepsInvariant ==
  ASSUME FInv, Read
  PROVE  FInv'
<1>1. UNCHANGED <<source, tree, open, lines>> /\ status = "reading"
  BY DEF Read, ReadDecls, ReadParams, ReadCompoundStmt, EndBlock, ReadStmt, ReadExpr, ReadMore,
         Doing
<1>2. open = <<>> /\ TreeOK /\ OpenOK /\ source \in Sources
  BY <1>1 DEF FInv
<1>3. source' \in Sources /\ TreeOK' /\ OpenOK' /\ open' = <<>>
  BY <1>1, <1>2, SameTreeOK
<1>4. PICK D, P : FileOK(D, P)
  BY DEF FInv
<1>5. LevelsOK(D) /\ LinesOK(D, P)
  BY <1>4 DEF FileOK
<1>6. LevelsOK(D)' /\ LinesOK(D, P)'
  BY <1>1, <1>5, SameLevels, SameLines
<1>7. CASE Readable
  <2>1. PICK W : ReadOK(P) /\ TodoOK(todo, W, Len(read), D)
    BY <1>1, <1>4, <1>7 DEF FileOK
  <2>2. PICK r : r = Len(read)
    OBVIOUS
  <2>3. Reading(D, P, W, r)
    BY <1>2, <1>5, <1>7, <2>1, <2>2 DEF Reading, Context
  <2>4. Outcome(D, P)
    BY <2>3, ReadStep
  <2>5. status' = "reading" => ReadOK(P)' /\ \E V : TodoOK(todo, V, Len(read), D)'
    <3> SUFFICES ASSUME status' = "reading"
                 PROVE  ReadOK(P)' /\ \E V : TodoOK(todo, V, Len(read), D)'
      OBVIOUS
    <3>1. ReadOK(P)' /\ \E V : TodoOK(todo', V, Len(read'), D)
      BY <2>4 DEF Outcome, Result
    <3>2. PICK V : TodoOK(todo', V, Len(read'), D)
      BY <3>1
    <3>3. TodoOK(todo, V, Len(read), D)'
      BY <1>1, <3>2, SameTodo
    <3> QED
      BY <3>1, <3>3
  <2>6. FileOK(D, P)'
    BY <1>6, <2>5 DEF FileOK
  <2>7. RoundTrip'
    BY <2>4 DEF Outcome, RoundTrip
  <2> QED
    BY <1>3, <2>6, <2>7 DEF FInv
<1>8. CASE ~Readable
  <2>1. ~Readable'
    BY <1>1, <1>8, SameTree
  <2>2. FileOK(D, P)'
    BY <1>6, <2>1 DEF FileOK
  <2>3. RoundTrip'
    BY <2>1 DEF RoundTrip
  <2> QED
    BY <1>3, <2>2, <2>3 DEF FInv
<1> QED
  BY <1>7, <1>8

LEMMA RunKeepsInvariant ==
  ASSUME FInv, Run
  PROVE  FInv'
<1>1. /\ UNCHANGED <<source, tree, open, lines>> /\ status # "printing"
      /\ status' \in {"null", "reading"}
  BY DEF Run
<1>2. open = <<>> /\ TreeOK /\ OpenOK /\ source \in Sources
  BY <1>1 DEF FInv
<1>3. source' \in Sources /\ TreeOK' /\ OpenOK' /\ open' = <<>>
  BY <1>1, <1>2, SameTreeOK
<1>4. PICK D, P : FileOK(D, P)
  BY DEF FInv
<1>5. LevelsOK(D) /\ LinesOK(D, P)
  BY <1>4 DEF FileOK
<1>6. LevelsOK(D)' /\ LinesOK(D, P)'
  BY <1>1, <1>5, SameLevels, SameLines
<1>7. RoundTrip'
  BY <1>1 DEF RoundTrip
<1>8. ASSUME status' = "reading"
      PROVE  ReadOK(P)' /\ \E V : TodoOK(todo, V, Len(read), D)'
  <2>1. /\ mCurrentLine' = 2 /\ todo' = <<Goal("decls", 1, 0)>> /\ read' = <<Program>>
    BY <1>8 DEF Run
  <2>2. 1 \in Nodes /\ tree[1] = Program /\ Program \in Node /\ Kind(1) = "PROGRAM_DECL"
    BY <1>2, Places DEF TreeOK
  <2>3. read' \in Seq(Node) /\ Len(read') = 1 /\ read'[1] = Program
    BY <2>1, <2>2, Tuples
  <2>4. \A n \in 1 .. 1 : n = 1
    OBVIOUS
  <2>5. P[1] + 1 = 2
    BY <1>5 DEF LinesOK
  <2>6. ReadOK(P)'
    <3>1. Len(read') \in Nodes' /\ tree'[Len(read')].kind # "FUNCTION_DECL"
      BY <1>1, <2>2, <2>3 DEF Nodes, Kind
    <3>2. \A n \in 1 .. Len(read') : read'[n] = tree'[n]
      BY <1>1, <2>2, <2>3, <2>4
    <3>3. mCurrentLine' = P[Len(read')] + 1
      BY <2>1, <2>3, <2>5
    <3> QED
      BY <2>3, <3>1, <3>2, <3>3 DEF ReadOK, Kind
  <2>7. PICK g : g = Goal("decls", 1, 0)
    OBVIOUS
  <2>8. g \in GoalSet /\ g.what = "decls" /\ g.node = 1
    BY <2>7, GoalType
  <2>9. PICK t : t = <<g>>
    OBVIOUS
  <2>10. PICK V : V = <<0>>
    OBVIOUS
  <2>11. t \in Seq(GoalSet) /\ Len(t) = 1 /\ t[1] = g
    BY <2>8, <2>9, Tuples
  <2>12. V \in Seq(Nat) /\ Len(V) = 1 /\ V[1] = 0
    BY <2>10, Tuples
  <2>13. GoalOK(g, 0, 1, D)
    BY <2>8 DEF GoalOK, LoopOK
  <2>14. ASSUME NEW i \in Nodes, i > 1, Owner(i) <= 1
         PROVE  Covered(t, V, i)
    <3>1. i # 1
      BY <2>14
    <3>2. Owner(i) \in Nodes
      BY <1>2, <1>5, <3>1, Owners
    <3>3. Owner(i) = 1
      BY <1>2, <2>14, <3>2, Places
    <3> QED
      BY <2>8, <2>11, <2>12, <3>3 DEF Covered
  <2>15. TodoOK(t, V, 1, D)
    <3>0. t # <<>>
      BY <2>11
    <3>1. t # <<>> /\ t[Len(t)].what = "decls" /\ Len(V) = Len(t)
      <4>1. t[Len(t)] = g
        BY <2>11, Zenon
      <4> QED
        BY <2>8, <2>11, <2>12, <3>0, <4>1, Zenon
    <3>2. \A j \in 1 .. Len(t) : GoalOK(t[j], V[j], 1, D)
      BY <2>4, <2>11, <2>12, <2>13
    <3>3. \A i, j \in 1 .. Len(t) : ~(i < j)
      BY <2>4, <2>11
    <3> QED
      BY <2>11, <2>12, <2>14, <3>1, <3>2, <3>3 DEF TodoOK
  <2>16. TodoOK(todo', V, Len(read'), D)
    BY <2>1, <2>3, <2>7, <2>9, <2>15
  <2>17. TodoOK(todo, V, Len(read), D)'
    BY <1>1, <2>16, SameTodo
  <2> QED
    BY <2>6, <2>17
<1>9. FileOK(D, P)'
  BY <1>6, <1>8 DEF FileOK
<1> QED
  BY <1>3, <1>7, <1>9 DEF FInv

LEMMA StutterKeepsInvariant ==
  ASSUME FInv, UNCHANGED vars
  PROVE  FInv'
<1>1. UNCHANGED <<source, tree, open, lines, status, mCurrentLine, todo, read>>
  BY DEF vars, readerVars
<1>2. source' \in Sources /\ TreeOK' /\ OpenOK' /\ (status' # "printing" => open' = <<>>)
  BY <1>1, SameTreeOK DEF FInv
<1>3. PICK D, P : FileOK(D, P)
  BY DEF FInv
<1>4. LevelsOK(D)' /\ LinesOK(D, P)'
  BY <1>1, <1>3, SameLevels, SameLines DEF FileOK
<1>5. Readable' = Readable
  BY <1>1, SameTree
<1>6. RoundTrip'
  BY <1>1, <1>5 DEF FInv, RoundTrip
<1>7. ASSUME status' = "reading", Readable'
      PROVE  ReadOK(P)' /\ \E V : TodoOK(todo, V, Len(read), D)'
  <2>1. PICK W : ReadOK(P) /\ TodoOK(todo, W, Len(read), D)
    BY <1>1, <1>3, <1>5, <1>7 DEF FileOK
  <2>2. ReadOK(P)'
    BY <1>1, <2>1, ReadStays
  <2>3. TodoOK(todo', W, Len(read'), D)
    BY <1>1, <2>1
  <2>4. TodoOK(todo, W, Len(read), D)'
    BY <1>1, <2>3, SameTodo
  <2> QED
    BY <2>2, <2>4
<1>8. FileOK(D, P)'
  BY <1>4, <1>7 DEF FileOK
<1> QED
  BY <1>2, <1>6, <1>8 DEF FInv

----------------------------------------------------------------------------
(* The printer. *)

(* The number of the children of a node. *)
LEMMA Finite ==
  ASSUME TreeOK, NEW n
  PROVE  /\ Arity(n) \in Nat
         /\ Arity(n) = 0 => Children(n) = {}
         /\ \A i : Children(n) = {i} => Arity(n) = 1
         /\ \A i, j : Children(n) = {i, j} /\ i # j => Arity(n) = 2
         /\ Children(n) = {} => Arity(n) = 0
<1>1. IsFiniteSet(Children(n))
  <2>1. IsFiniteSet(1 .. Len(tree))
    BY Places, FS_Interval
  <2>2. Children(n) \subseteq 1 .. Len(tree)
    BY Places DEF Children
  <2> QED
    BY <2>1, <2>2, FS_Subset
<1>2. Arity(n) \in Nat
  BY <1>1, FS_CardinalityType DEF Arity
<1>3. Arity(n) = 0 <=> Children(n) = {}
  BY <1>1, FS_EmptySet DEF Arity
<1>4. \A i : Cardinality({i}) = 1 /\ IsFiniteSet({i})
  BY FS_Singleton
<1>5. \A i, j : i # j => Cardinality({i, j}) = 2
  <2> SUFFICES ASSUME NEW i, NEW j, i # j
               PROVE  Cardinality({i, j}) = 2
    OBVIOUS
  <2>1. {i, j} = {i} \cup {j} /\ j \notin {i}
    OBVIOUS
  <2>2. Cardinality({i} \cup {j}) = Cardinality({i}) + 1
    BY <1>4, <2>1, FS_AddElement
  <2> QED
    BY <1>4, <2>1, <2>2
<1>6. \A i : Children(n) = {i} => Arity(n) = 1
  <2> TAKE i
  <2> HAVE Children(n) = {i}
  <2>1. Arity(n) = Cardinality({i})
    BY Zenon DEF Arity
  <2> QED
    BY <1>4, <2>1
<1>7. \A i, j : Children(n) = {i, j} /\ i # j => Arity(n) = 2
  <2> TAKE i, j
  <2> HAVE Children(n) = {i, j} /\ i # j
  <2>1. Arity(n) = Cardinality({i, j})
    BY Zenon DEF Arity
  <2> QED
    BY <1>5, <2>1
<1> QED
  BY <1>2, <1>3, <1>6, <1>7

LEMMA Successors ==
  ASSUME NEW n \in Nat, NEW k \in {0, 1}
  PROVE  n + k \in Nat
OBVIOUS

(* The type of a line. *)
LEMMA LineType ==
  ASSUME NEW kind \in NodeKind, NEW s, s.name \in STRING \cup {""},
         s.type \in Type \cup {""}, s.size \in Nat, NEW level \in Nat
  PROVE  LineOf(kind, s, level) \in Line
<1>1. PICK k : k = IF s.name = Tab THEN 1 ELSE 0
  OBVIOUS
<1>2. k \in {0, 1}
  BY <1>1, Zenon
<1>3. PICK t : t = level + k
  OBVIOUS
<1>4. t \in Nat
  BY <1>2, <1>3, Successors, Zenon
<1>5. LineOf(kind, s, level)
        = [kind |-> kind, name |-> s.name, type |-> s.type, size |-> s.size, tabs |-> t]
  BY <1>1, <1>3, Zenon DEF LineOf
<1>6. PICK name \in STRING \cup {""} : name = s.name
  BY Zenon
<1>7. PICK type \in Type \cup {""} : type = s.type
  BY Zenon
<1>8. PICK size \in Nat : size = s.size
  BY Zenon
<1>9. [kind |-> kind, name |-> name, type |-> type, size |-> size, tabs |-> t] \in Line
  BY <1>4 DEF Line
<1> QED
  BY <1>5, <1>6, <1>7, <1>8, <1>9, Zenon

(* The tree that is only the program. *)
LEMMA InitHasInvariant ==
  ASSUME Init
  PROVE  FInv
<1>1. /\ source \in Sources /\ tree = <<Program>> /\ open = <<1>> /\ status = "printing"
      /\ lines = <<LineOf("PROGRAM_DECL", Plain("PROGRAM_DECL"), 0)>>
  BY DEF Init
<1>2. Program \in Node /\ Program.kind = "PROGRAM_DECL" /\ Program.name = "" /\ Program.up = 0
  BY DEF Program, NodeOf, Plain, Shape, Node, NodeKind, Decls
<1>3. tree \in Seq(Node) /\ Len(tree) = 1 /\ tree[1] = Program
  BY <1>1, <1>2, Tuples
<1>4. open \in Seq(Nat) /\ Len(open) = 1 /\ open[1] = 1
  BY <1>1, Tuples
<1>5. Nodes = 1 .. 1 /\ DOMAIN open = 1 .. 1
  BY <1>3, <1>4 DEF Nodes
<1>6. \A n : n \in 1 .. 1 <=> n = 1
  OBVIOUS
<1>7. Kind(1) = "PROGRAM_DECL" /\ tree[1].name # Tab
  BY <1>2, <1>3 DEF Kind, Tab
<1>8. TreeOK
  <2>1. NodeOK(1)
    BY <1>7 DEF NodeOK
  <2>2. ChildrenOK(1)
    BY <1>7 DEF ChildrenOK, Ones, Twos, Literals
  <2>3. IsOpen(1)
    BY <1>4, <1>5, <1>6 DEF IsOpen
  <2>4. \A n \in Nodes : NodeOK(n) /\ ChildrenOK(n) /\ (IsOpen(n) \/ Full(n))
    BY <1>5, <1>6, <2>1, <2>2, <2>3
  <2>5. 1 \in Nodes
    BY <1>5, <1>6
  <2> QED
    BY <1>3, <2>4, <2>5 DEF TreeOK
<1>9. OpenOK
  BY <1>4, <1>5, <1>6 DEF OpenOK
<1>10. PICK D : D = [n \in Nodes |-> 0]
  OBVIOUS
<1>11. PICK P : P = [n \in Nodes |-> 1]
  OBVIOUS
<1>12. D \in [Nodes -> Nat] /\ D[1] = 0 /\ P \in [Nodes -> Nat] /\ P[1] = 1
  BY <1>5, <1>6, <1>10, <1>11
<1>13. LevelsOK(D)
  <2>1. open \in Seq(Nodes)
    BY <1>1, <1>5, <1>6, Tuples
  <2>2. D[open[1]] + 1 = Len(open) /\ open[1] + 1 .. Len(tree) = {}
    BY <1>3, <1>4, <1>12
  <2> QED
    BY <1>5, <1>6, <1>12, <2>1, <2>2 DEF LevelsOK
<1>14. LinesOK(D, P)
  <2>1. PICK l : l = LineOf("PROGRAM_DECL", Plain("PROGRAM_DECL"), 0)
    OBVIOUS
  <2>2. l \in Line
    <3>1. PICK s : s = Plain("PROGRAM_DECL")
      OBVIOUS
    <3>2. s.name \in STRING \cup {""} /\ s.type \in Type \cup {""} /\ s.size \in Nat
      BY <3>1 DEF Plain, Shape
    <3>3. "PROGRAM_DECL" \in NodeKind
      BY DEF NodeKind, Decls
    <3> QED
      BY <2>1, <3>1, <3>2, <3>3, LineType
  <2>3. lines \in Seq(Line) /\ Len(lines) = 1
    BY <1>1, <2>1, <2>2, Tuples
  <2>4. DOMAIN lines = 1 .. 1
    BY <2>3
  <2> QED
    BY <1>3, <1>5, <1>6, <1>12, <2>3, <2>4 DEF LinesOK
<1>15. FileOK(D, P)
  BY <1>1, <1>13, <1>14 DEF FileOK
<1>16. RoundTrip
  BY <1>1 DEF RoundTrip
<1> QED
  BY <1>1, <1>8, <1>9, <1>15, <1>16 DEF FInv

(* A node is left when it has what it cannot do without. *)
LEMMA CompleteIsFull ==
  ASSUME TreeOK, NEW x \in Nodes, Arity(x) >= Needs(x)
  PROVE  Full(x)
<1>1. ChildrenOK(x) /\ x \in Nat /\ Len(tree) \in Nat /\ Nodes = 1 .. Len(tree)
  BY Places DEF TreeOK
<1>2. CASE Kind(x) \in Twos
  <2>1. Needs(x) = 2 /\ Kind(x) # "FUNCTION_DECL"
    BY <1>2 DEF Needs, Twos
  <2>2. Children(x) # {} /\ ~OneChild(x)
    BY <2>1, Finite DEF OneChild
  <2>3. TwoChildren(x)
    BY <1>1, <1>2, <2>2 DEF ChildrenOK
  <2> QED
    BY <2>1, <2>3 DEF Full
<1>3. CASE Kind(x) = "FUNCTION_DECL"
  <2>1. Needs(x) = 2
    BY <1>3 DEF Needs
  <2>2. Children(x) # {x + 1}
    BY <2>1, Finite
  <2>3. Body(x)
    BY <1>1, <1>3, <2>2 DEF ChildrenOK
  <2> QED
    BY <1>3, <2>3 DEF Full, Twos
<1> QED
  BY <1>2, <1>3 DEF Full

(* A node is left. *)
LEMMA PrintLeaveKeepsInvariant ==
  ASSUME FInv, PrintLeave
  PROVE  FInv'
<1>1. /\ source' = source /\ tree' = tree /\ lines' = lines /\ open' = Tail(open) /\ open # <<>>
      /\ Arity(Head(open)) >= Needs(Head(open))
      /\ status' \in {"printing", "printed"} /\ (status' # "printing" => open' = <<>>)
  BY DEF PrintLeave, LeaveNew, Complete
<1>2. TreeOK /\ OpenOK /\ source \in Sources
  BY DEF FInv
<1>3. PICK D, P : FileOK(D, P)
  BY DEF FInv
<1>4. LevelsOK(D) /\ LinesOK(D, P)
  BY <1>3 DEF FileOK
<1>5. /\ Nodes' = Nodes
      /\ \A n : Kind(n)' = Kind(n) /\ IsParameter(n)' = IsParameter(n)
      /\ \A n : NodeOK(n)' = NodeOK(n) /\ ChildrenOK(n)' = ChildrenOK(n) /\ Full(n)' = Full(n)
  BY <1>1, SameTree, SameShape
<1>6. open \in Seq(Nodes)
  BY <1>4 DEF LevelsOK
<1>7. PICK o : o = Tail(open)
  OBVIOUS
<1>8. PICK l : l = Len(open)
  OBVIOUS
<1>9. /\ o \in Seq(Nodes) /\ Len(o) = l - 1 /\ l \in Nat /\ l >= 1
      /\ \A i \in 1 .. l - 1 : o[i] = open[i + 1]
      /\ Head(open) = open[1] /\ DOMAIN open = 1 .. l /\ DOMAIN o = 1 .. l - 1
  <2>1. o \in Seq(Nodes) /\ Len(o) = l - 1 /\ l \in Nat /\ l >= 1
        /\ \A i \in 1 .. l - 1 : o[i] = open[i + 1]
        /\ Head(open) = open[1]
    BY <1>1, <1>6, <1>7, <1>8, TailElements
  <2>2. DOMAIN open = 1 .. l /\ DOMAIN o = 1 .. l - 1
    BY <1>6, <1>8, <2>1
  <2> QED
    BY <2>1, <2>2
<1>10. open[1] \in Nodes /\ Full(open[1])
  <2>1. open[1] \in Nodes
    BY <1>6, <1>9
  <2> QED
    BY <1>1, <1>2, <1>9, <2>1, CompleteIsFull
<1>11. TreeOK'
  <2>1. ASSUME NEW n \in Nodes
        PROVE  IsOpen(n)' \/ Full(n)
    <3>1. CASE Full(n)
      BY <3>1
    <3>2. CASE IsOpen(n) /\ ~Full(n)
      <4>1. PICK k \in 1 .. l : open[k] = n
        BY <1>9, <3>2 DEF IsOpen
      <4>2. k # 1
        BY <1>10, <3>2, <4>1
      <4>3. k - 1 \in 1 .. l - 1 /\ (k - 1) + 1 = k
        BY <1>9, <4>2
      <4>4. o[k - 1] = n
        BY <1>9, <4>1, <4>3
      <4> QED
        BY <1>1, <1>7, <1>9, <4>3, <4>4 DEF IsOpen
    <3> QED
      BY <1>2, <3>1, <3>2 DEF TreeOK
  <2> QED
    BY <1>1, <1>2, <1>5, <2>1 DEF TreeOK
<1>12. \A j \in 1 .. l - 1 : j + 1 \in 1 .. l /\ j \in Nat
  BY <1>9
<1>13. OpenOK'
  BY <1>1, <1>2, <1>5, <1>7, <1>9, <1>12 DEF OpenOK
<1>14. LevelsOK(D)'
  <2>1. ASSUME NEW j \in 1 .. l - 1
        PROVE  /\ D[o[j]] + j = l - 1
               /\ \A k \in o[j] + 1 .. Len(tree) : D[o[j]] < D[k]
    <3>1. j + 1 \in 1 .. l /\ j \in Nat /\ o[j] = open[j + 1] /\ o[j] \in Nodes
      BY <1>9, <1>12
    <3>2. D[o[j]] + (j + 1) = l /\ \A k \in o[j] + 1 .. Len(tree) : D[o[j]] < D[k]
      BY <1>4, <1>8, <1>9, <3>1 DEF LevelsOK
    <3>3. D[o[j]] \in Nat
      BY <1>2, <1>4, <3>1, Levels
    <3>4. PICK d \in Nat : d = D[o[j]]
      BY <3>3
    <3>5. d + j = l - 1
      BY <1>9, <3>1, <3>2, <3>4
    <3> QED
      BY <3>2, <3>4, <3>5
  <2>2. /\ D \in [Nodes -> Nat]
        /\ D[1] = 0
        /\ \A n \in Nodes : n # 1 =>
             /\ tree[n].up \in 1 .. n - 1
             /\ D[n] = D[tree[n].up] + 1
             /\ \A k \in tree[n].up + 1 .. n - 1 : D[n] <= D[k]
    BY <1>4 DEF LevelsOK
  <2> QED
    BY <1>1, <1>5, <1>7, <1>9, <2>1, <2>2 DEF LevelsOK
<1>15. LinesOK(D, P)'
  BY <1>1, <1>4, SameLines
<1>16. FileOK(D, P)' /\ RoundTrip'
  BY <1>1, <1>14, <1>15 DEF FileOK, RoundTrip
<1> QED
  BY <1>1, <1>2, <1>11, <1>13, <1>16 DEF FInv

(* What a source has for shapes and parameters. *)
LEMMA ShapeType ==
  ASSUME source \in Sources, NEW s \in source.shapes
  PROVE  /\ s.kind \in NodeKind /\ s.name \in STRING \cup {""} /\ s.type \in Type \cup {""}
         /\ s.size \in Nat
         /\ s.params \in Seq(ParamShape)
         /\ s.kind # "FUNCTION_DECL" => s.params = <<>>
         /\ s.kind = "COMPOUND_STMT" => s = Plain("COMPOUND_STMT")
         /\ s.name = Tab => s.kind = "STRING_EXPR"
<1>1. s \in NodeShape
  BY SourcesAssumption
<1>2. /\ s.kind # "FUNCTION_DECL" => s.params = <<>>
      /\ s.kind = "COMPOUND_STMT" => s = Plain("COMPOUND_STMT")
      /\ s.name = Tab => s.kind = "STRING_EXPR"
  BY ShapesAssumption
<1>3. /\ s.kind \in NodeKind /\ s.name \in STRING \cup {""} /\ s.type \in Type \cup {""}
      /\ s.size \in Nat
      /\ s.params \in Seq(ParamShape)
  BY <1>1 DEF NodeShape
<1> QED
  BY <1>2, <1>3

LEMMA ParamType ==
  ASSUME source \in Sources, NEW s \in source.shapes,
         NEW k \in DOMAIN s.params, NEW p, p = s.params[k]
  PROVE  /\ p.kind = "VAR_DECL" /\ p.name \in STRING \cup {""}
         /\ p.type \in Type \cup {""} /\ p.size \in Nat
         /\ p.name # Tab
<1>1. PICK ps \in Seq(ParamShape) : ps = s.params
  BY ShapeType
<1>2. ps[k] \in ParamShape
  <2>1. k \in DOMAIN ps
    BY <1>1
  <2> QED
    BY <2>1
<1>3. p \in ParamShape
  BY <1>1, <1>2
<1>4. p.name # Tab
  BY ShapesAssumption
<1> QED
  BY <1>3, <1>4 DEF ParamShape

(* The type of a node. *)
LEMMA NodeOfType ==
  ASSUME NEW s, s.kind \in NodeKind, s.name \in STRING \cup {""},
         s.type \in Type \cup {""}, s.size \in Nat, NEW up \in Nat
  PROVE  NodeOf(s, up) \in Node
BY DEF NodeOf, Node

LEMMA BareType ==
  ASSUME NEW kind \in NodeKind, NEW up \in Nat
  PROVE  Bare(kind, up) \in Node /\ Bare(kind, up) = NodeOf(Plain(kind), up)
BY DEF Bare, Node, NodeOf, Plain, Shape

(* The items of a sequence joined to another. *)
LEMMA Joined ==
  ASSUME NEW S, NEW x \in Seq(S), NEW y \in Seq(S), NEW z, z = x \o y,
         NEW a, a = Len(x), NEW b, b = Len(y)
  PROVE  /\ z \in Seq(S) /\ Len(z) = a + b
         /\ \A i \in 1 .. a : z[i] = x[i]
         /\ \A i \in 1 .. b : z[a + i] = y[i]
BY Concatenation

(* The items of a sequence followed by an item and a sequence. *)
LEMMA ItemJoined ==
  ASSUME NEW S, NEW t \in Seq(S), NEW first \in S, NEW params \in Seq(S),
         NEW h \in Nat, h = Len(t), NEW q \in Nat, q = Len(params),
         NEW u, u = t \o (<<first>> \o params)
  PROVE  /\ u \in Seq(S) /\ Len(u) = h + 1 + q
         /\ \A n \in 1 .. h : u[n] = t[n]
         /\ u[h + 1] = first
         /\ \A k \in 1 .. q : u[h + 1 + k] = params[k]
<1>1. PICK one : one = <<first>>
  OBVIOUS
<1>2. one \in Seq(S) /\ Len(one) = 1 /\ one[1] = first
  BY <1>1, Tuples
<1>3. PICK rest : rest = one \o params
  OBVIOUS
<1>4. /\ rest \in Seq(S) /\ Len(rest) = 1 + q
      /\ \A i \in 1 .. 1 : rest[i] = one[i]
      /\ \A i \in 1 .. q : rest[1 + i] = params[i]
  <2>1. PICK a \in Nat : a = 1
    OBVIOUS
  <2>2. a = Len(one)
    BY <1>2, <2>1
  <2>3. /\ rest \in Seq(S) /\ Len(rest) = a + q
        /\ \A i \in 1 .. a : rest[i] = one[i]
        /\ \A i \in 1 .. q : rest[a + i] = params[i]
    <3>1. one \in Seq(S)
      BY <1>2
    <3> QED
      BY <1>3, <2>2, <3>1, Joined
  <2> QED
    BY <2>1, <2>3
<1>5. rest[1] = first
  BY <1>2, <1>4
<1>6. u = t \o rest
  BY <1>1, <1>3
<1>7. /\ u \in Seq(S) /\ Len(u) = h + (1 + q)
      /\ \A n \in 1 .. h : u[n] = t[n]
      /\ \A n \in 1 .. 1 + q : u[h + n] = rest[n]
  BY <1>4, <1>6, Joined
<1>8. u[h + 1] = first
  BY <1>5, <1>7
<1>9. ASSUME NEW k \in 1 .. q
      PROVE  u[h + 1 + k] = params[k]
  <2>1. 1 + k \in 1 .. 1 + q /\ h + (1 + k) = h + 1 + k
    OBVIOUS
  <2>2. u[h + (1 + k)] = rest[1 + k]
    BY <1>7, <2>1
  <2> QED
    BY <1>4, <2>1, <2>2
<1> QED
  BY <1>7, <1>8, <1>9

(* What may be put under a node. *)
LEMMA TakesFacts ==
  ASSUME NEW x, NEW k, NEW kind, kind \in Takes(x, k)
  PROVE  /\ kind \notin {"PROGRAM_DECL", "PARAM_VAR_DECL"}
         /\ Kind(x) \notin Literals \cup {"PARAM_VAR_DECL"}
         /\ Kind(x) = "FUNCTION_DECL" => k = 2 /\ kind \in {"COMPOUND_STMT", "null"}
         /\ Kind(x) \in {"CALL_EXPR", "ARRAY_EXPR"} => kind \in Exprs \cup {"null"}
         /\ Kind(x) \in Ones => k = 1 /\ kind \in Exprs
         /\ Kind(x) \in Twos =>
              \/ k = 1 /\ kind \in Exprs
              \/ k = 2 /\ kind \in IF Kind(x) = "BINARY_EXPR" THEN Exprs ELSE {"COMPOUND_STMT"}
<1>1. kind \notin {"PROGRAM_DECL", "PARAM_VAR_DECL"}
  BY DEF Takes, Exprs, Stmts
<1>2. Kind(x) \notin Literals \cup {"PARAM_VAR_DECL"}
  BY DEF Takes, Literals
<1>3. Kind(x) = "FUNCTION_DECL" => k = 2 /\ kind \in {"COMPOUND_STMT", "null"}
  BY DEF Takes
<1>4. Kind(x) \in {"CALL_EXPR", "ARRAY_EXPR"} => kind \in Exprs \cup {"null"}
  BY DEF Takes
<1>5. Kind(x) \in Ones => k = 1 /\ kind \in Exprs
  BY DEF Takes, Ones
<1>6. Kind(x) \in Twos =>
        \/ k = 1 /\ kind \in Exprs
        \/ k = 2 /\ kind \in IF Kind(x) = "BINARY_EXPR" THEN Exprs ELSE {"COMPOUND_STMT"}
  <2>1. CASE Kind(x) = "BINARY_EXPR"
    BY <2>1 DEF Takes, Exprs
  <2>2. CASE Kind(x) \in {"IF_STMT", "WHILE_STMT"}
    BY <2>2 DEF Takes
  <2> QED
    BY <2>1, <2>2 DEF Twos
<1> QED
  BY <1>1, <1>2, <1>3, <1>4, <1>5, <1>6

(* The tree that node h of shape s is put in, under x, with its parameters. *)
Growth(s, x, h) ==
  /\ Len(tree) \in Nat /\ h = Len(tree) + 1 /\ x \in Nodes
  /\ s \in source.shapes
  /\ tree' \in Seq(Node) /\ Len(tree') \in Nat /\ Nodes' = 1 .. Len(tree') /\ Len(tree') >= h
  /\ s.kind # "FUNCTION_DECL" => Len(tree') = h
  /\ s.kind = "FUNCTION_DECL" => Len(tree') = h + 1 + Len(s.params)
  /\ \A n \in Nodes : tree'[n] = tree[n]
  /\ tree'[h] = NodeOf(s, x)
  /\ \A n \in Nodes' : n = h + 1 => tree'[n] = Bare("PARAM_VAR_DECL", h)
  /\ \A n \in Nodes' : n > h + 1 =>
       /\ n - (h + 1) \in DOMAIN s.params
       /\ tree'[n] = NodeOf(s.params[n - (h + 1)], h + 1)

(* To print a node lets the tree grow. *)
LEMMA TreeGrows ==
  ASSUME TreeOK, source \in Sources, NEW s \in source.shapes, NEW x \in Nodes, x = Head(open),
         tree' = Grown(s), NEW h, h = Here
  PROVE  Growth(s, x, h)
<1>1. Len(tree) \in Nat /\ h = Len(tree) + 1 /\ tree \in Seq(Node) /\ x \in Nat /\ h \in Nat
  BY Places DEF TreeOK, Here
<1>2. PICK top : top = NodeOf(s, x)
  OBVIOUS
<1>3. PICK first : first = Bare("PARAM_VAR_DECL", h)
  OBVIOUS
<1>4. PICK q : q = Len(s.params)
  OBVIOUS
<1>5. PICK params : params = [k \in 1 .. q |-> NodeOf(s.params[k], h + 1)]
  OBVIOUS
<1>6. q \in Nat /\ DOMAIN s.params = 1 .. q
  <2>1. PICK p \in Seq(ParamShape) : p = s.params
    BY ShapeType
  <2> QED
    BY <1>4, <2>1
<1>7. top \in Node
  <2>1. /\ s.kind \in NodeKind /\ s.name \in STRING \cup {""}
        /\ s.type \in Type \cup {""} /\ s.size \in Nat
    BY ShapeType
  <2> QED
    BY <1>1, <1>2, <2>1, NodeOfType
<1>8. first \in Node /\ first = NodeOf(Plain("PARAM_VAR_DECL"), h)
  <2>1. "PARAM_VAR_DECL" \in NodeKind
    BY DEF NodeKind, Decls
  <2> QED
    BY <1>1, <1>3, <2>1, BareType
<1>9. \A k \in 1 .. q : params[k] = NodeOf(s.params[k], h + 1) /\ params[k] \in Node
  <2> SUFFICES ASSUME NEW k \in 1 .. q
               PROVE  params[k] = NodeOf(s.params[k], h + 1) /\ params[k] \in Node
    OBVIOUS
  <2>1. params[k] = NodeOf(s.params[k], h + 1)
    BY <1>5
  <2>2. PICK p : p = s.params[k]
    OBVIOUS
  <2>3. /\ p.kind = "VAR_DECL" /\ p.name \in STRING \cup {""}
        /\ p.type \in Type \cup {""} /\ p.size \in Nat
    <3>1. k \in DOMAIN s.params
      BY <1>6
    <3> QED
      BY <2>2, <3>1, ParamType
  <2>4. "VAR_DECL" \in NodeKind
    BY DEF NodeKind, Decls
  <2>5. h + 1 \in Nat
    BY <1>1
  <2>6. NodeOf(p, h + 1) \in Node
    BY <2>3, <2>4, <2>5, NodeOfType
  <2> QED
    BY <2>1, <2>2, <2>6
<1>10. params \in Seq(Node) /\ Len(params) = q
  <2>1. params \in [1 .. q -> Node]
    BY <1>5, <1>9
  <2> QED
    BY <1>6, <2>1
<1>11. PICK t : t = Append(tree, top)
  OBVIOUS
<1>12. t \in Seq(Node) /\ Len(t) = h /\ t[h] = top /\ \A n \in 1 .. Len(tree) : t[n] = tree[n]
  BY <1>1, <1>7, <1>11
<1>17. Nodes = 1 .. Len(tree)
  BY Places
<1>18. CASE s.kind = "FUNCTION_DECL"
  <2>1. tree' = t \o (<<first>> \o params)
    <3>1. tree' = Append(tree, NodeOf(s, Head(open)))
                  \o (<<NodeOf(Plain("PARAM_VAR_DECL"), Here)>>
                      \o [k \in 1 .. Len(s.params) |-> NodeOf(s.params[k], Here + 1)])
      BY <1>18 DEF Grown
    <3> QED
      BY <3>1, <1>2, <1>4, <1>5, <1>8, <1>11
  <2>2. /\ tree' \in Seq(Node) /\ Len(tree') = h + 1 + q
        /\ \A n \in 1 .. h : tree'[n] = t[n]
        /\ tree'[h + 1] = first
        /\ \A k \in 1 .. q : tree'[h + 1 + k] = params[k]
    <3>1. /\ h \in Nat /\ h = Len(t) /\ q \in Nat /\ q = Len(params)
          /\ t \in Seq(Node) /\ first \in Node /\ params \in Seq(Node)
      BY <1>1, <1>6, <1>8, <1>10, <1>12
    <3>2. PICK u : u = tree'
      OBVIOUS
    <3>3. /\ u \in Seq(Node) /\ Len(u) = h + 1 + q
          /\ \A n \in 1 .. h : u[n] = t[n]
          /\ u[h + 1] = first
          /\ \A k \in 1 .. q : u[h + 1 + k] = params[k]
      BY <2>1, <3>1, <3>2, ItemJoined
    <3> QED
      BY <3>2, <3>3
  <2>3. Nodes' = 1 .. Len(tree') /\ Len(tree') \in Nat /\ Len(tree') >= h
    BY <1>1, <1>6, <2>2 DEF Nodes
  <2>4. \A n \in Nodes : tree'[n] = tree[n]
    BY <1>1, <1>12, <1>17, <2>2
  <2>5. tree'[h] = top
    BY <1>1, <1>12, <2>2
  <2>6. \A n \in Nodes' : n = h + 1 => tree'[n] = first
    BY <2>2
  <2>7. ASSUME NEW n \in Nodes', n > h + 1
        PROVE  /\ n - (h + 1) \in 1 .. q
               /\ tree'[n] = NodeOf(s.params[n - (h + 1)], h + 1)
    <3>1. PICK k : k = n - (h + 1)
      OBVIOUS
    <3>2. n \in 1 .. h + 1 + q
      BY <2>2, <2>3
    <3>3. k \in 1 .. q /\ n = h + 1 + k
      BY <1>1, <1>6, <2>7, <3>1, <3>2
    <3>4. tree'[n] = params[k]
      BY <2>2, <3>3
    <3> QED
      BY <1>9, <3>1, <3>3, <3>4
  <2> QED
    BY <1>1, <1>2, <1>3, <1>4, <1>6, <1>18, <2>2, <2>3, <2>4, <2>5, <2>6, <2>7 DEF Growth
<1>19. CASE s.kind # "FUNCTION_DECL"
  <2>1. tree' = t
    <3>1. tree' = Append(tree, NodeOf(s, Head(open))) \o <<>>
      BY <1>19 DEF Grown
    <3> QED
      BY <1>2, <1>11, <1>12, <3>1
  <2>2. Nodes' = 1 .. Len(tree') /\ Len(tree') = h /\ Len(tree') \in Nat /\ tree' \in Seq(Node)
    BY <1>1, <1>12, <2>1 DEF Nodes
  <2>3. \A n \in Nodes : tree'[n] = tree[n]
    BY <1>12, <1>17, <2>1
  <2>4. tree'[h] = top
    BY <1>12, <2>1
  <2>5. \A n \in Nodes' : n # h + 1 /\ ~(n > h + 1)
    BY <1>1, <2>2
  <2> QED
    <3>1. /\ \A n \in Nodes' : n = h + 1 => tree'[n] = Bare("PARAM_VAR_DECL", h)
          /\ \A n \in Nodes' : n > h + 1 =>
               /\ n - (h + 1) \in DOMAIN s.params
               /\ tree'[n] = NodeOf(s.params[n - (h + 1)], h + 1)
      BY <2>5, Zenon
    <3>2. Len(tree') >= h
      BY <1>1, <2>2
    <3> QED
      BY <1>1, <1>2, <1>19, <2>2, <2>3, <2>4, <3>1, <3>2, Zenon DEF Growth
<1> QED
  BY <1>18, <1>19

(* The nodes that are new and what is under each of the nodes. *)
LEMMA NewNodes ==
  ASSUME TreeOK, source \in Sources, NEW s, NEW x, NEW h, Growth(s, x, h)
  PROVE  /\ h \in Nat /\ h \in Nodes' /\ h >= 1 /\ x \in Nat /\ x >= 1 /\ x < h
         /\ \A n \in Nodes : n \in Nodes' /\ n \in Nat /\ n >= 1 /\ n < h
         /\ Nodes = 1 .. Len(tree)
         /\ \A n \in Nodes' : n \in Nat /\ n >= 1 /\ (n \in Nodes \/ n = h \/ n = h + 1 \/ n > h + 1)
         /\ \A n \in Nodes' : n >= h + 1 => s.kind = "FUNCTION_DECL"
         /\ s.kind = "FUNCTION_DECL" => h + 1 \in Nodes'
         /\ tree'[h].kind = s.kind /\ tree'[h].name = s.name /\ tree'[h].up = x
         /\ tree'[h].type = s.type /\ tree'[h].size = s.size
         /\ h + 1 \in Nodes' =>
              /\ tree'[h + 1].kind = "PARAM_VAR_DECL" /\ tree'[h + 1].up = h
              /\ tree'[h + 1].name # Tab
         /\ \A n \in Nodes' : n > h + 1 =>
              /\ tree'[n].kind = "VAR_DECL" /\ tree'[n].up = h + 1 /\ tree'[n].name # Tab
<1>1. /\ Len(tree) \in Nat /\ h = Len(tree) + 1 /\ x \in Nodes
      /\ s \in source.shapes
      /\ Len(tree') \in Nat /\ Nodes' = 1 .. Len(tree') /\ Len(tree') >= h
      /\ s.kind # "FUNCTION_DECL" => Len(tree') = h
      /\ s.kind = "FUNCTION_DECL" => Len(tree') = h + 1 + Len(s.params)
      /\ tree'[h] = NodeOf(s, x)
      /\ \A n \in Nodes' : n = h + 1 => tree'[n] = Bare("PARAM_VAR_DECL", h)
      /\ \A n \in Nodes' : n > h + 1 =>
           /\ n - (h + 1) \in DOMAIN s.params
           /\ tree'[n] = NodeOf(s.params[n - (h + 1)], h + 1)
  BY DEF Growth
<1>2. Nodes = 1 .. Len(tree)
  BY Places
<1>3. /\ h \in Nat /\ h \in Nodes' /\ h >= 1 /\ x \in Nat /\ x >= 1 /\ x < h
      /\ \A n \in Nodes : n \in Nodes' /\ n \in Nat /\ n >= 1 /\ n < h
      /\ \A n \in Nodes' : n \in Nat /\ n >= 1 /\ (n \in Nodes \/ n = h \/ n = h + 1 \/ n > h + 1)
  BY <1>1, <1>2
<1>4. \A n \in Nodes' : n >= h + 1 => s.kind = "FUNCTION_DECL"
  BY <1>1, <1>3
<1>5. s.kind = "FUNCTION_DECL" => h + 1 \in Nodes'
  <2>1. Len(s.params) \in Nat
    <3>1. PICK p \in Seq(ParamShape) : p = s.params
      BY <1>1, ShapeType
    <3> QED
      BY <3>1
  <2> QED
    <3>1. PICK q \in Nat : q = Len(s.params)
      BY <2>1
    <3>2. h + 1 \in 1 .. h + 1 + q
      BY <1>3
    <3> QED
      BY <1>1, <3>1, <3>2, Zenon
<1>6. /\ tree'[h].kind = s.kind /\ tree'[h].name = s.name /\ tree'[h].up = x
      /\ tree'[h].type = s.type /\ tree'[h].size = s.size
  BY <1>1 DEF NodeOf
<1>7. ASSUME h + 1 \in Nodes'
      PROVE  /\ tree'[h + 1].kind = "PARAM_VAR_DECL" /\ tree'[h + 1].up = h
             /\ tree'[h + 1].name # Tab
  <2>1. tree'[h + 1] = Bare("PARAM_VAR_DECL", h)
    BY <1>1, <1>7
  <2>3. "" # Tab
    BY DEF Tab
  <2>2. PICK b : b = tree'[h + 1]
    OBVIOUS
  <2>4. b.kind = "PARAM_VAR_DECL" /\ b.up = h /\ b.name = ""
    <3>1. b = Bare("PARAM_VAR_DECL", h)
      BY <2>1, <2>2, Zenon
    <3>2. b.kind = "PARAM_VAR_DECL"
      BY <3>1 DEF Bare
    <3>3. b.up = h
      BY <3>1 DEF Bare
    <3>4. b.name = ""
      BY <3>1 DEF Bare
    <3> QED
      BY <3>2, <3>3, <3>4
  <2> QED
    BY <2>2, <2>3, <2>4
<1>8. ASSUME NEW n \in Nodes', n > h + 1
      PROVE  tree'[n].kind = "VAR_DECL" /\ tree'[n].up = h + 1 /\ tree'[n].name # Tab
  <2>1. PICK k \in DOMAIN s.params : k = n - (h + 1)
    BY <1>1, <1>8
  <2>2. PICK p : p = s.params[k]
    OBVIOUS
  <2>3. p.kind = "VAR_DECL" /\ p.name # Tab
    BY <1>1, <2>2, ParamType
  <2>4. tree'[n] = NodeOf(p, h + 1)
    BY <1>1, <1>8, <2>1, <2>2
  <2> QED
    BY <2>3, <2>4 DEF NodeOf
<1> QED
  BY <1>2, <1>3, <1>4, <1>5, <1>6, <1>7, <1>8

(* The children that a node has in the tree that has grown. *)
LEMMA NewChildren ==
  ASSUME TreeOK, source \in Sources, NEW D, LevelsOK(D), NEW s, NEW x, NEW h, Growth(s, x, h)
  PROVE  /\ \A n \in Nodes : Kind(n)' = Kind(n)
         /\ \A n \in Nodes : n # x => Children(n)' = Children(n)
         /\ Children(x)' = Children(x) \cup {h}
         /\ s.kind # "FUNCTION_DECL" => Children(h)' = {}
         /\ s.kind = "FUNCTION_DECL" => Children(h)' = {h + 1}
         /\ \A i \in Children(h + 1)' : i > h + 1
         /\ \A n \in Nodes' : n > h + 1 => Children(n)' = {}
         /\ \A n \in Nodes : Children(n) \subseteq Nodes
<1>1. /\ h \in Nat /\ h \in Nodes' /\ h >= 1 /\ x \in Nat /\ x >= 1 /\ x < h
      /\ \A n \in Nodes : n \in Nodes' /\ n \in Nat /\ n >= 1 /\ n < h
      /\ \A n \in Nodes' : n \in Nat /\ n >= 1 /\ (n \in Nodes \/ n = h \/ n = h + 1 \/ n > h + 1)
      /\ \A n \in Nodes' : n >= h + 1 => s.kind = "FUNCTION_DECL"
      /\ s.kind = "FUNCTION_DECL" => h + 1 \in Nodes'
      /\ tree'[h].up = x
      /\ h + 1 \in Nodes' => tree'[h + 1].up = h
      /\ \A n \in Nodes' : n > h + 1 => tree'[n].up = h + 1
  BY NewNodes
<1>2. /\ \A n \in Nodes : tree'[n] = tree[n]
      /\ x \in Nodes
  BY DEF Growth
<1>3. \A n \in Nodes : tree[n].up \in Nat /\ tree[n].up < n
  <2> SUFFICES ASSUME NEW n \in Nodes
               PROVE  tree[n].up \in Nat /\ tree[n].up < n
    OBVIOUS
  <2>1. CASE n = 1
    BY <2>1, Places
  <2>2. CASE n # 1
    BY <2>2, Levels, Places
  <2> QED
    BY <2>1, <2>2
<1>4. \A n : n \in Nodes => Kind(n)' = Kind(n)
  BY <1>2 DEF Kind
<1>5. ASSUME NEW n, NEW i
      PROVE  i \in Children(n)' <=> i \in Nodes' /\ tree'[i].up = n
  BY DEF Children
<1>6. ASSUME NEW n, NEW i
      PROVE  i \in Children(n) <=> i \in Nodes /\ tree[i].up = n
  BY DEF Children
<1>7. ASSUME NEW n \in Nodes, n # x
      PROVE  Children(n)' = Children(n)
  <2> SUFFICES ASSUME NEW i
               PROVE  i \in Children(n)' <=> i \in Children(n)
    OBVIOUS
  <2>1. n \in Nat /\ n < h
    BY <1>1
  <2>2. i \in Children(n)' => i \in Nodes
    <3> SUFFICES ASSUME i \in Nodes', tree'[i].up = n, i \notin Nodes
                 PROVE  FALSE
      BY <1>5
    <3>1. CASE i = h
      BY <1>1, <1>7, <3>1
    <3>2. CASE i = h + 1
      BY <1>1, <2>1, <3>2
    <3>3. CASE i > h + 1
      BY <1>1, <2>1, <3>3
    <3> QED
      BY <1>1, <3>1, <3>2, <3>3
  <2> QED
    BY <1>1, <1>2, <1>5, <1>6, <2>2
<1>8. Children(x)' = Children(x) \cup {h}
  <2> SUFFICES ASSUME NEW i
               PROVE  i \in Children(x)' <=> i \in Children(x) \/ i = h
    OBVIOUS
  <2>1. i \in Children(x)' => i \in Nodes \/ i = h
    <3> SUFFICES ASSUME i \in Nodes', tree'[i].up = x, i \notin Nodes, i # h
                 PROVE  FALSE
      BY <1>5
    <3>2. CASE i = h + 1
      BY <1>1, <3>2
    <3>3. CASE i > h + 1
      BY <1>1, <3>3
    <3> QED
      BY <1>1, <3>2, <3>3
  <2>2. h \in Children(x)'
    BY <1>1, <1>5
  <2>3. i \in Nodes => (i \in Children(x)' <=> i \in Children(x))
    BY <1>1, <1>2, <1>5, <1>6
  <2>4. i \in Children(x) => i \in Nodes
    BY <1>6
  <2> QED
    BY <2>1, <2>2, <2>3, <2>4
<1>9. ASSUME NEW n \in Nodes', n >= h, NEW i \in Children(n)'
      PROVE  i >= h + 1 /\ (i = h + 1 => n = h) /\ (i > h + 1 => n = h + 1)
  <2>1. i \in Nodes' /\ tree'[i].up = n /\ n \in Nat
    BY <1>1, <1>5, <1>9
  <2>2. i \notin Nodes
    <3> SUFFICES ASSUME i \in Nodes
                 PROVE  FALSE
      OBVIOUS
    <3>1. tree[i].up = n /\ tree[i].up < i /\ i < h /\ i \in Nat
      BY <1>1, <1>2, <1>3, <2>1
    <3> QED
      BY <1>1, <1>9, <2>1, <3>1
  <2>3. i # h
    BY <1>1, <1>9, <2>1
  <2>4. i = h + 1 \/ i > h + 1
    BY <1>1, <2>1, <2>2, <2>3
  <2>5. i = h + 1 => n = h
    BY <1>1, <2>1
  <2>6. i > h + 1 => n = h + 1
    BY <1>1, <2>1
  <2>7. i >= h + 1
    BY <1>1, <2>1, <2>4
  <2> QED
    BY <2>5, <2>6, <2>7
<1>10. Children(h)' \subseteq {h + 1}
  <2> SUFFICES ASSUME NEW i \in Children(h)'
               PROVE  i = h + 1
    OBVIOUS
  <2>1. i >= h + 1 /\ (i > h + 1 => h = h + 1)
    BY <1>1, <1>9
  <2>2. i \in Nat
    BY <1>1, <1>5
  <2> QED
    BY <1>1, <2>1, <2>2
<1>11. s.kind = "FUNCTION_DECL" => h + 1 \in Children(h)'
  BY <1>1, <1>5
<1>12. s.kind # "FUNCTION_DECL" => h + 1 \notin Nodes'
  BY <1>1
<1>13. s.kind # "FUNCTION_DECL" => h + 1 \notin Children(h)'
  BY <1>5, <1>12
<1>14. \A i \in Children(h + 1)' : i > h + 1
  <2> SUFFICES ASSUME NEW i \in Children(h + 1)'
               PROVE  i > h + 1
    OBVIOUS
  <2>1. i \in Nodes' /\ tree'[i].up = h + 1 /\ i \in Nat
    BY <1>1, <1>5
  <2>2. i \notin Nodes
    <3> SUFFICES ASSUME i \in Nodes
                 PROVE  FALSE
      OBVIOUS
    <3>1. tree[i].up = h + 1 /\ tree[i].up < i /\ i < h
      BY <1>1, <1>2, <1>3, <2>1
    <3> QED
      BY <1>1, <2>1, <3>1
  <2>3. i # h /\ i # h + 1
    BY <1>1, <2>1
  <2> QED
    BY <1>1, <2>1, <2>2, <2>3
<1>15. ASSUME NEW n \in Nodes', n > h + 1
       PROVE  Children(n)' = {}
  <2> SUFFICES ASSUME NEW i \in Children(n)'
               PROVE  FALSE
    OBVIOUS
  <2>0. n \in Nat
    BY <1>1
  <2>1. n \in Nat /\ n >= h
    BY <1>1, <1>15, <2>0
  <2>2. i >= h + 1 /\ (i = h + 1 => n = h) /\ (i > h + 1 => n = h + 1)
    BY <1>9, <2>1
  <2>3. i \in Nat
    BY <1>1, <1>5
  <2> QED
    BY <1>1, <1>15, <2>1, <2>2, <2>3
<1>16. \A n \in Nodes : Children(n) \subseteq Nodes
  BY <1>6
<1> QED
  BY <1>4, <1>7, <1>8, <1>10, <1>11, <1>13, <1>14, <1>15, <1>16

(* The trees under the nodes that were there. *)
LEMMA OldNodes ==
  ASSUME TreeOK, OpenOK, source \in Sources, NEW D, LevelsOK(D), NEW s, NEW h,
         NEW x, IsOpen(x), Growth(s, x, h), NEW n \in Nodes, n # x
  PROVE  ChildrenOK(n)' /\ (Full(n) => Full(n)')
<1>1. /\ \A m \in Nodes : Kind(m)' = Kind(m) /\ tree'[m] = tree[m]
      /\ \A m \in Nodes : m # x => Children(m)' = Children(m)
      /\ \A m \in Nodes : m \in Nodes' /\ Children(m) \subseteq Nodes
  <2>1. /\ \A m \in Nodes : Kind(m)' = Kind(m)
        /\ \A m \in Nodes : m # x => Children(m)' = Children(m)
        /\ \A m \in Nodes : Children(m) \subseteq Nodes
    BY NewChildren
  <2>2. \A m \in Nodes : m \in Nodes'
    BY NewNodes
  <2>3. \A m \in Nodes : tree'[m] = tree[m]
    BY DEF Growth
  <2> QED
    BY <2>1, <2>2, <2>3
<1>2. Children(n)' = Children(n) /\ Kind(n)' = Kind(n) /\ Children(n) \subseteq Nodes
  BY <1>1
<1>3. OneChild(n) => OneChild(n)'
  BY <1>1, <1>2 DEF OneChild
<1>4. TwoChildren(n) => TwoChildren(n)'
  <2> SUFFICES ASSUME TwoChildren(n)
               PROVE  TwoChildren(n)'
    OBVIOUS
  <2>1. PICK i, j \in Nodes :
          /\ Children(n) = {i, j} /\ i < j /\ Kind(i) \in Exprs
          /\ Kind(j) \in IF Kind(n) = "BINARY_EXPR" THEN Exprs ELSE {"COMPOUND_STMT"}
    BY DEF TwoChildren
  <2>2. /\ i \in Nodes' /\ j \in Nodes'
        /\ Children(n)' = {i, j} /\ Kind(i)' \in Exprs
        /\ Kind(j)' \in IF Kind(n)' = "BINARY_EXPR" THEN Exprs ELSE {"COMPOUND_STMT"}
    BY <1>1, <1>2, <2>1
  <2> QED
    BY <2>1, <2>2 DEF TwoChildren
<1>5. Body(n) => Body(n)'
  BY <1>1, <1>2 DEF Body
<1>6. ChildrenOK(n)
  BY DEF TreeOK
<1>7. Kind(n) = "FUNCTION_DECL" =>
        /\ n + 1 \in Nodes' /\ tree'[n + 1] = Bare("PARAM_VAR_DECL", n)
        /\ Children(n)' = {n + 1} \/ Body(n)'
  BY <1>1, <1>2, <1>5, <1>6 DEF ChildrenOK
<1>8. ASSUME Kind(n) = "PARAM_VAR_DECL"
      PROVE  /\ n - 1 \in Nodes' /\ Kind(n - 1)' = "FUNCTION_DECL"
             /\ \A i \in Children(n)' : Kind(i)' = "VAR_DECL" /\ Children(i)' = {}
  <2>1. /\ n - 1 \in Nodes /\ Kind(n - 1) = "FUNCTION_DECL"
        /\ \A i \in Children(n) : Kind(i) = "VAR_DECL" /\ Children(i) = {}
    BY <1>6, <1>8 DEF ChildrenOK
  <2>2. ASSUME NEW i \in Children(n)
        PROVE  Kind(i)' = "VAR_DECL" /\ Children(i)' = {}
    <3>1. i \in Nodes /\ tree[i].up = n
      BY DEF Children
    <3>2. i # x
      <4> SUFFICES ASSUME i = x
                   PROVE  FALSE
        OBVIOUS
      <4>1. IsParameter(x)
        BY <1>8, <3>1 DEF IsParameter
      <4>2. x = 1
        BY <4>1 DEF IsOpen, OpenOK
      <4> QED
        BY <3>1, <4>2, Places
    <3> QED
      BY <1>1, <2>1, <3>1, <3>2
  <2> QED
    BY <1>1, <1>2, <2>1, <2>2
<1>9. Kind(n) \in {"CALL_EXPR", "ARRAY_EXPR"} =>
        \A i \in Children(n)' : Kind(i)' \in Exprs \cup {"null"}
  BY <1>1, <1>2, <1>6 DEF ChildrenOK
<1>10. Kind(n) \in Ones => Children(n)' = {} \/ OneChild(n)'
  BY <1>2, <1>3, <1>6 DEF ChildrenOK
<1>11. Kind(n) \in Twos => Children(n)' = {} \/ OneChild(n)' \/ TwoChildren(n)'
  BY <1>2, <1>3, <1>4, <1>6 DEF ChildrenOK
<1>12. Kind(n) \in Literals => Children(n)' = {}
  BY <1>2, <1>6 DEF ChildrenOK
<1>13. ChildrenOK(n)'
  BY <1>2, <1>7, <1>8, <1>9, <1>10, <1>11, <1>12 DEF ChildrenOK
<1>14. Full(n) => Full(n)'
  BY <1>2, <1>4, <1>5 DEF Full
<1> QED
  BY <1>13, <1>14

(* The node that gets a child. *)
LEMMA ParentGrows ==
  ASSUME TreeOK, source \in Sources, NEW D, LevelsOK(D), NEW s, NEW h,
         NEW x, Growth(s, x, h), s.kind \in Takes(x, Arity(x) + 1)
  PROVE  ChildrenOK(x)'
<1>1. /\ \A m \in Nodes : Kind(m)' = Kind(m) /\ tree'[m] = tree[m]
      /\ Children(x)' = Children(x) \cup {h}
      /\ \A m \in Nodes : m \in Nodes' /\ Children(m) \subseteq Nodes /\ m < h
      /\ h \in Nodes' /\ Kind(h)' = s.kind /\ x \in Nodes
  <2>1. /\ \A m \in Nodes : Kind(m)' = Kind(m)
        /\ Children(x)' = Children(x) \cup {h}
        /\ \A m \in Nodes : Children(m) \subseteq Nodes
    BY NewChildren
  <2>2. /\ \A m \in Nodes : m \in Nodes' /\ m < h
        /\ h \in Nodes' /\ Kind(h)' = s.kind
    BY NewNodes DEF Kind
  <2>3. x \in Nodes /\ \A m \in Nodes : tree'[m] = tree[m]
    BY DEF Growth
  <2> QED
    BY <2>1, <2>2, <2>3
<1>2. Kind(x)' = Kind(x) /\ ChildrenOK(x) /\ Arity(x) \in Nat
  BY <1>1, Finite DEF TreeOK
<1>3. /\ Kind(x) \notin Literals \cup {"PARAM_VAR_DECL"}
      /\ Kind(x) = "FUNCTION_DECL" => Arity(x) + 1 = 2 /\ s.kind \in {"COMPOUND_STMT", "null"}
      /\ Kind(x) \in {"CALL_EXPR", "ARRAY_EXPR"} => s.kind \in Exprs \cup {"null"}
      /\ Kind(x) \in Ones => Arity(x) + 1 = 1 /\ s.kind \in Exprs
      /\ Kind(x) \in Twos =>
           \/ Arity(x) + 1 = 1 /\ s.kind \in Exprs
           \/ /\ Arity(x) + 1 = 2
              /\ s.kind \in IF Kind(x) = "BINARY_EXPR" THEN Exprs ELSE {"COMPOUND_STMT"}
  BY TakesFacts
<1>4. ASSUME Arity(x) + 1 = 1, s.kind \in Exprs
      PROVE  OneChild(x)'
  <2>1. Arity(x) = 0
    BY <1>2, <1>4
  <2>2. Children(x)' = {h}
    BY <1>1, <2>1, Finite
  <2> QED
    BY <1>1, <1>4, <2>2 DEF OneChild
<1>5. ASSUME Kind(x) = "FUNCTION_DECL"
      PROVE  /\ x + 1 \in Nodes' /\ tree'[x + 1] = Bare("PARAM_VAR_DECL", x)
             /\ Body(x)'
  <2>1. /\ x + 1 \in Nodes /\ tree[x + 1] = Bare("PARAM_VAR_DECL", x)
        /\ Children(x) = {x + 1} \/ Body(x)
    BY <1>2, <1>5 DEF ChildrenOK
  <2>2. Arity(x) = 1
    BY <1>2, <1>3, <1>5
  <2>3. ~Body(x)
    <3> SUFFICES ASSUME Body(x)
                 PROVE  FALSE
      OBVIOUS
    <3>1. PICK b \in Nodes : Children(x) = {x + 1, b} /\ x + 1 < b
      BY DEF Body
    <3>2. x + 1 # b
      BY <2>1, <3>1, Places
    <3>3. Arity(x) = 2
      BY <3>1, <3>2, Finite
    <3> QED
      BY <2>2, <3>3
  <2>4. Children(x)' = {x + 1, h} /\ x + 1 < h
    BY <1>1, <2>1, <2>3
  <2>5. Body(x)'
    BY <1>1, <1>3, <1>5, <2>4 DEF Body
  <2> QED
    BY <1>1, <2>1, <2>5
<1>6. ASSUME Kind(x) \in {"CALL_EXPR", "ARRAY_EXPR"}
      PROVE  \A i \in Children(x)' : Kind(i)' \in Exprs \cup {"null"}
  <2>1. \A i \in Children(x) : Kind(i) \in Exprs \cup {"null"}
    BY <1>2, <1>6 DEF ChildrenOK
  <2>2. \A i \in Children(x) : Kind(i)' \in Exprs \cup {"null"}
    BY <1>1, <2>1
  <2> QED
    BY <1>1, <1>3, <1>6, <2>2
<1>7. ASSUME Kind(x) \in Twos, Arity(x) + 1 = 2,
             s.kind \in IF Kind(x) = "BINARY_EXPR" THEN Exprs ELSE {"COMPOUND_STMT"}
      PROVE  TwoChildren(x)'
  <2>1. Arity(x) = 1
    BY <1>2, <1>7
  <2>2. Children(x) # {}
    BY <2>1, Finite
  <2>3. ~TwoChildren(x)
    <3> SUFFICES ASSUME TwoChildren(x)
                 PROVE  FALSE
      OBVIOUS
    <3>1. PICK i, j \in Nodes : Children(x) = {i, j} /\ i < j
      BY DEF TwoChildren
    <3>2. i # j
      BY <3>1, Places
    <3>3. Arity(x) = 2
      BY <3>1, <3>2, Finite
    <3> QED
      BY <2>1, <3>3
  <2>4. PICK i \in Nodes : Children(x) = {i} /\ Kind(i) \in Exprs
    BY <1>2, <1>7, <2>2, <2>3 DEF ChildrenOK, OneChild
  <2>5. Children(x)' = {i, h} /\ i < h /\ Kind(i)' \in Exprs /\ i \in Nodes'
    BY <1>1, <2>4
  <2>6. Kind(h)' \in IF Kind(x)' = "BINARY_EXPR" THEN Exprs ELSE {"COMPOUND_STMT"}
    BY <1>1, <1>2, <1>7
  <2> QED
    BY <1>1, <2>5, <2>6 DEF TwoChildren
<1>8. Kind(x) \in Ones => OneChild(x)'
  BY <1>3, <1>4
<1>9. Kind(x) \in Twos => OneChild(x)' \/ TwoChildren(x)'
  BY <1>3, <1>4, <1>7
<1> QED
  BY <1>2, <1>3, <1>5, <1>6, <1>8, <1>9 DEF ChildrenOK

(* The node that is put in, and its parameters. *)
LEMMA NewIsOK ==
  ASSUME TreeOK, source \in Sources, NEW D, LevelsOK(D), NEW s, NEW h,
         NEW x, Growth(s, x, h), s.kind \in Takes(x, Arity(x) + 1),
         NEW n \in Nodes', n \notin Nodes
  PROVE  /\ NodeOK(n)' /\ ChildrenOK(n)'
         /\ n # h => Full(n)'
         /\ s.kind \in Leaves => Full(n)'
<1>1. /\ h \in Nat /\ h \in Nodes' /\ h >= 1
      /\ n \in Nat /\ (n = h \/ n = h + 1 \/ n > h + 1)
      /\ n >= h + 1 => s.kind = "FUNCTION_DECL"
      /\ Kind(h)' = s.kind /\ tree'[h].name = s.name /\ tree'[h].up = x
      /\ h + 1 \in Nodes' => Kind(h + 1)' = "PARAM_VAR_DECL" /\ tree'[h + 1].name # Tab
      /\ \A m \in Nodes' : m > h + 1 => Kind(m)' = "VAR_DECL" /\ tree'[m].name # Tab
      /\ s.kind = "FUNCTION_DECL" => h + 1 \in Nodes'
  BY NewNodes DEF Kind
<1>2. /\ s.kind # "FUNCTION_DECL" => Children(h)' = {}
      /\ s.kind = "FUNCTION_DECL" => Children(h)' = {h + 1}
      /\ \A i \in Children(h + 1)' : i > h + 1 /\ i \in Nodes'
      /\ \A m \in Nodes' : m > h + 1 => Children(m)' = {}
  BY NewChildren DEF Children
<1>3. s.kind \notin {"PROGRAM_DECL", "PARAM_VAR_DECL"} /\ s \in source.shapes
  BY TakesFacts DEF Growth
<1>4. CASE n = h
  <2>1. NodeOK(h)'
    <3>1. s.name = Tab => s.kind = "STRING_EXPR"
      BY <1>3, ShapeType
    <3>2. s.kind = "COMPOUND_STMT" => tree'[h] = Bare("COMPOUND_STMT", x)
      <4> SUFFICES ASSUME s.kind = "COMPOUND_STMT"
                   PROVE  tree'[h] = Bare("COMPOUND_STMT", x)
        OBVIOUS
      <4>1. tree'[h] = NodeOf(Plain("COMPOUND_STMT"), x)
        BY <1>3, ShapeType DEF Growth
      <4> QED
        BY <4>1 DEF NodeOf, Plain, Shape, Bare
    <3> QED
      BY <1>1, <1>3, <3>1, <3>2 DEF NodeOK
  <2>2. ChildrenOK(h)'
    <3>1. CASE s.kind = "FUNCTION_DECL"
      <4>1. h + 1 \in Nodes' /\ tree'[h + 1] = Bare("PARAM_VAR_DECL", h)
        BY <1>1, <3>1 DEF Growth
      <4> QED
        BY <1>1, <1>2, <3>1, <4>1 DEF ChildrenOK, Ones, Twos, Literals
    <3>2. CASE s.kind # "FUNCTION_DECL"
      BY <1>1, <1>2, <1>3, <3>2 DEF ChildrenOK
    <3> QED
      BY <3>1, <3>2
  <2>3. s.kind \in Leaves => Full(h)'
    BY <1>1 DEF Leaves, Full, Twos
  <2> QED
    BY <1>4, <2>1, <2>2, <2>3
<1>5. CASE n = h + 1
  <2>1. Kind(n)' = "PARAM_VAR_DECL" /\ tree'[n].name # Tab /\ n - 1 = h
    BY <1>1, <1>5
  <2>2. NodeOK(n)' /\ Full(n)'
    BY <2>1 DEF NodeOK, Full, Twos
  <2>3. ChildrenOK(n)'
    <3>1. Kind(n - 1)' = "FUNCTION_DECL" /\ n - 1 \in Nodes'
      BY <1>1, <1>5, <2>1
    <3>2. \A i \in Children(n)' : Kind(i)' = "VAR_DECL" /\ Children(i)' = {}
      BY <1>1, <1>2, <1>5
    <3> QED
      BY <2>1, <3>1, <3>2 DEF ChildrenOK, Ones, Twos, Literals
  <2> QED
    BY <2>2, <2>3
<1>6. CASE n > h + 1
  <2>1. Kind(n)' = "VAR_DECL" /\ tree'[n].name # Tab /\ Children(n)' = {}
    BY <1>1, <1>2, <1>6
  <2>2. NodeOK(n)' /\ Full(n)'
    BY <2>1 DEF NodeOK, Full, Twos
  <2>3. ChildrenOK(n)'
    BY <2>1 DEF ChildrenOK
  <2> QED
    BY <2>2, <2>3
<1> QED
  BY <1>1, <1>4, <1>5, <1>6

(* The tree that has grown is a tree. *)
LEMMA GrownTree ==
  ASSUME TreeOK, OpenOK, source \in Sources, NEW D, LevelsOK(D), NEW s, NEW h,
         NEW x, open # <<>>, x = open[1], Growth(s, x, h), s.kind \in Takes(x, Arity(x) + 1),
         open' = IF s.kind \in Leaves THEN open ELSE <<h>> \o open
  PROVE  /\ TreeOK' /\ OpenOK'
         /\ s.kind \notin Leaves =>
              /\ Len(open') = Len(open) + 1 /\ open'[1] = h
              /\ \A j \in 1 .. Len(open) : open'[j + 1] = open[j]
         /\ open' \in Seq(Nodes')
<1>1. open \in Seq(Nodes) /\ 1 \in DOMAIN open /\ DOMAIN open = 1 .. Len(open) /\ Len(open) \in Nat
  <2>1. open \in Seq(Nodes)
    BY DEF LevelsOK
  <2> QED
    BY <2>1
<1>2. /\ \A n \in Nodes : n \in Nodes' /\ n \in Nat
      /\ h \in Nodes' /\ h \in Nat /\ 1 \in Nodes
      /\ tree'[h].up = x
  BY NewNodes, Places
<1>3. /\ \A n \in Nodes : tree'[n] = tree[n]
      /\ tree' \in Seq(Node) /\ x \in Nodes
  BY DEF Growth
<1>4. IsOpen(x)
  BY <1>1 DEF IsOpen
<1>5. open \in Seq(Nodes')
  <2>1. \A j \in 1 .. Len(open) : open[j] \in Nodes'
    BY <1>1, <1>2
  <2>2. open = [j \in 1 .. Len(open) |-> open[j]]
    BY <1>1
  <2>3. open \in [1 .. Len(open) -> Nodes']
    BY <2>1, <2>2
  <2> QED
    BY <1>1, <2>3
<1>6. ASSUME s.kind \notin Leaves
      PROVE  /\ open' \in Seq(Nodes') /\ Len(open') = Len(open) + 1 /\ open'[1] = h
             /\ \A j \in 1 .. Len(open) : open'[j + 1] = open[j]
  <2>1. PICK one : one = <<h>>
    OBVIOUS
  <2>2. one \in Seq(Nodes') /\ Len(one) = 1 /\ one[1] = h
    BY <1>2, <2>1, Tuples
  <2>3. open' = one \o open
    BY <1>6, <2>1
  <2>4. PICK a \in Nat : a = 1
    OBVIOUS
  <2>5. PICK b \in Nat : b = Len(open)
    BY <1>1
  <2>6. a = Len(one) /\ one \in Seq(Nodes')
    BY <2>2, <2>4
  <2>7. PICK o : o = open'
    OBVIOUS
  <2>8. /\ o \in Seq(Nodes') /\ Len(o) = a + b
        /\ \A i \in 1 .. a : o[i] = one[i]
        /\ \A i \in 1 .. b : o[a + i] = open[i]
    BY <1>5, <2>3, <2>5, <2>6, <2>7, Joined
  <2>9. /\ o \in Seq(Nodes') /\ Len(o) = b + 1 /\ o[1] = h
        /\ \A j \in 1 .. b : o[j + 1] = open[j]
    BY <2>2, <2>4, <2>8
  <2> QED
    BY <2>5, <2>7, <2>9
<1>7. open' \in Seq(Nodes')
  BY <1>5, <1>6
<1>8. \A n \in Nodes : IsOpen(n) => IsOpen(n)'
  <2> SUFFICES ASSUME NEW n \in Nodes, IsOpen(n)
               PROVE  IsOpen(n)'
    OBVIOUS
  <2>1. CASE s.kind \in Leaves
    BY <2>1 DEF IsOpen
  <2>2. CASE s.kind \notin Leaves
    <3>1. PICK k \in 1 .. Len(open) : open[k] = n
      BY <1>1 DEF IsOpen
    <3>2. /\ open' \in Seq(Nodes') /\ Len(open') = Len(open) + 1
          /\ open'[k + 1] = n
      BY <1>6, <2>2, <3>1
    <3>3. k + 1 \in 1 .. Len(open) + 1
      BY <1>1
    <3>4. k + 1 \in DOMAIN open'
      BY <3>2, <3>3
    <3> QED
      BY <3>2, <3>4 DEF IsOpen
  <2> QED
    BY <2>1, <2>2
<1>9. s.kind \notin Leaves => IsOpen(h)'
  <2> SUFFICES ASSUME s.kind \notin Leaves
               PROVE  IsOpen(h)'
    OBVIOUS
  <2>1. open' \in Seq(Nodes') /\ Len(open') = Len(open) + 1 /\ open'[1] = h
    BY <1>6
  <2>2. 1 \in DOMAIN open'
    BY <1>1, <2>1
  <2> QED
    BY <2>1, <2>2 DEF IsOpen
<1>10. ASSUME NEW n \in Nodes
       PROVE  NodeOK(n)' /\ ChildrenOK(n)' /\ (IsOpen(n)' \/ Full(n)')
  <2>1. NodeOK(n) /\ (IsOpen(n) \/ Full(n))
    BY DEF TreeOK
  <2>2. NodeOK(n)'
    <3>1. PICK t : t = tree[n]
      OBVIOUS
    <3>2. tree'[n] = t
      BY <1>3, <3>1
    <3> QED
      BY <2>1, <3>1, <3>2 DEF NodeOK, Kind
  <2>3. CASE n = x
    BY <1>4, <1>8, <2>2, <2>3, ParentGrows
  <2>4. CASE n # x
    BY <1>4, <1>8, <2>1, <2>2, <2>4, OldNodes
  <2> QED
    BY <2>3, <2>4
<1>11. ASSUME NEW n \in Nodes', n \notin Nodes
       PROVE  NodeOK(n)' /\ ChildrenOK(n)' /\ (IsOpen(n)' \/ Full(n)')
  <2>1. NodeOK(n)' /\ ChildrenOK(n)' /\ (n # h => Full(n)') /\ (s.kind \in Leaves => Full(n)')
    BY <1>11, NewIsOK
  <2> QED
    BY <1>9, <2>1
<1>12. TreeOK'
  <2>1. tree'[1] = Program /\ 1 \in Nodes'
    BY <1>2, <1>3 DEF TreeOK
  <2> QED
    BY <1>3, <1>10, <1>11, <2>1 DEF TreeOK
<1>13. \A n \in Nodes : n # 1 => IsParameter(n)' = IsParameter(n)
  <2> SUFFICES ASSUME NEW n \in Nodes, n # 1
               PROVE  IsParameter(n)' = IsParameter(n)
    OBVIOUS
  <2>1. tree[n].up \in Nodes
    BY Levels
  <2> QED
    BY <1>3, <2>1 DEF IsParameter, Kind
<1>14. ~IsParameter(h)'
  <2>1. Kind(x) # "PARAM_VAR_DECL"
    BY TakesFacts
  <2> QED
    BY <1>2, <1>3, <2>1 DEF IsParameter, Kind
<1>15. OpenOK'
  <2>0. tree'[tree'[h].up].kind # "PARAM_VAR_DECL"
    BY <1>14 DEF IsParameter, Kind
  <2>1. ASSUME NEW j \in 1 .. Len(open), open[j] # 1
        PROVE  tree'[tree'[open[j]].up].kind # "PARAM_VAR_DECL"
    <3>1. PICK n \in Nodes : n = open[j]
      BY <1>1
    <3>2. ~IsParameter(n)
      BY <1>1, <2>1, <3>1 DEF OpenOK
    <3>3. ~IsParameter(n)'
      BY <1>13, <2>1, <3>1, <3>2
    <3> QED
      BY <3>1, <3>3 DEF IsParameter, Kind
  <2>2. CASE s.kind \in Leaves
    BY <1>1, <2>1, <2>2 DEF OpenOK, IsParameter, Kind
  <2>3. CASE s.kind \notin Leaves
    <3>1. /\ open' \in Seq(Nodes') /\ Len(open') = Len(open) + 1 /\ open'[1] = h
          /\ \A j \in 1 .. Len(open) : open'[j + 1] = open[j]
      BY <1>6, <2>3
    <3>2. DOMAIN open' = 1 .. Len(open) + 1
      BY <3>1
    <3>3. ASSUME NEW j \in 1 .. Len(open) + 1, open'[j] # 1
          PROVE  tree'[tree'[open'[j]].up].kind # "PARAM_VAR_DECL"
      <4>1. CASE j = 1
        BY <2>0, <3>1, <4>1
      <4>2. CASE j # 1
        <5>1. PICK k \in 1 .. Len(open) : j = k + 1
          <6>1. j - 1 \in 1 .. Len(open) /\ j = (j - 1) + 1
            BY <1>1, <4>2
          <6> QED
            BY <6>1
        <5>2. open'[j] = open[k]
          BY <3>1, <5>1
        <5> QED
          BY <2>1, <3>3, <5>2
      <4> QED
        BY <4>1, <4>2
    <3> QED
      BY <3>2, <3>3 DEF OpenOK, IsParameter, Kind
  <2> QED
    BY <2>2, <2>3
<1> QED
  BY <1>6, <1>7, <1>12, <1>15

(* What is open after node h is entered. *)
Opened(s, h) ==
  /\ open' = IF s.kind \in Leaves THEN open ELSE <<h>> \o open
  /\ s.kind \notin Leaves =>
       /\ Len(open') = Len(open) + 1 /\ open'[1] = h
       /\ \A j \in 1 .. Len(open) : open'[j + 1] = open[j]
  /\ open' \in Seq(Nodes')

(* The levels, with those of node h and of its parameters. *)
MoreLevels(D, E, h, l) ==
  /\ E \in [Nodes' -> Nat]
  /\ \A n \in Nodes : E[n] = D[n]
  /\ E[h] = l
  /\ h + 1 \in Nodes' => E[h + 1] = l + 1
  /\ \A n \in Nodes' : n > h + 1 => E[n] = l + 2

LEMMA NextSum ==
  ASSUME NEW e \in Nat, NEW i \in Nat, NEW l \in Nat, e + i = l, NEW j, j = i + 1
  PROVE  e + j = l + 1
OBVIOUS

(* The levels go on to be levels. *)
LEMMA GrownLevels ==
  ASSUME TreeOK, source \in Sources, NEW D, LevelsOK(D), NEW s, NEW h,
         NEW x, open # <<>>, x = open[1], Growth(s, x, h), Opened(s, h),
         NEW l \in Nat, l = Len(open), NEW E, MoreLevels(D, E, h, l)
  PROVE  LevelsOK(E)'
<1> USE DEF Opened, MoreLevels
<1>1. open \in Seq(Nodes) /\ 1 \in 1 .. l /\ DOMAIN open = 1 .. l
  <2>1. open \in Seq(Nodes)
    BY DEF LevelsOK
  <2> QED
    BY <2>1
<1>2. /\ h \in Nat /\ h \in Nodes' /\ h >= 1 /\ x \in Nat /\ x >= 1 /\ x < h
      /\ \A n \in Nodes : n \in Nodes' /\ n \in Nat /\ n >= 1 /\ n < h
      /\ \A n \in Nodes' : n \in Nat /\ n >= 1 /\ (n \in Nodes \/ n = h \/ n = h + 1 \/ n > h + 1)
      /\ \A n \in Nodes' : n >= h + 1 => s.kind = "FUNCTION_DECL"
      /\ tree'[h].up = x
      /\ h + 1 \in Nodes' => tree'[h + 1].up = h
      /\ \A n \in Nodes' : n > h + 1 => tree'[n].up = h + 1
      /\ s.kind = "FUNCTION_DECL" => h + 1 \in Nodes'
  BY NewNodes
<1>3. /\ \A n \in Nodes : tree'[n] = tree[n]
      /\ x \in Nodes /\ Nodes' = 1 .. Len(tree') /\ h = Len(tree) + 1 /\ Len(tree) \in Nat
      /\ Len(tree') \in Nat
  BY DEF Growth
<1>4. Nodes = 1 .. Len(tree) /\ 1 \in Nodes
  BY Places
<1>5. \A j \in 1 .. l :
        /\ open[j] \in Nodes /\ D[open[j]] \in Nat
        /\ D[open[j]] + j = l
        /\ \A k \in Nodes : k > open[j] => D[open[j]] < D[k]
  <2> SUFFICES ASSUME NEW j \in 1 .. l
               PROVE  /\ open[j] \in Nodes /\ D[open[j]] \in Nat
                      /\ D[open[j]] + j = l
                      /\ \A k \in Nodes : k > open[j] => D[open[j]] < D[k]
    OBVIOUS
  <2>1. open[j] \in Nodes /\ D[open[j]] \in Nat
    BY <1>1, Levels
  <2>2. /\ D[open[j]] + j = l
        /\ \A k \in open[j] + 1 .. Len(tree) : D[open[j]] < D[k]
    BY <1>1 DEF LevelsOK
  <2>3. \A k \in Nodes : k > open[j] => k \in open[j] + 1 .. Len(tree)
    BY <1>3, <1>4, <2>1
  <2> QED
    BY <2>1, <2>2, <2>3
<1>6. D[x] + 1 = l /\ D[x] \in Nat /\ \A k \in Nodes : k > x => D[x] < D[k]
  BY <1>1, <1>5
<1>7. E[1] = 0
  BY <1>4, Levels
<1>8. \A n \in Nodes' : E[n] \in Nat
  OBVIOUS
<1>9. ASSUME NEW n \in Nodes', n # 1
      PROVE  /\ tree'[n].up \in 1 .. n - 1
             /\ E[n] = E[tree'[n].up] + 1
             /\ \A k \in tree'[n].up + 1 .. n - 1 : E[n] <= E[k]
  <2>1. CASE n \in Nodes
    <3>1. PICK u : u = tree[n].up
      OBVIOUS
    <3>2. /\ u \in Nodes /\ u < n /\ D[n] = D[u] + 1 /\ tree'[n].up = u
          /\ \A k \in Nodes : u < k /\ k < n => D[n] <= D[k]
      BY <1>3, <1>9, <2>1, <3>1, Levels
    <3>3. u \in 1 .. n - 1
      BY <1>2, <2>1, <3>2
    <3>4. ASSUME NEW k \in u + 1 .. n - 1
          PROVE  E[n] <= E[k]
      <4>1. k \in Nodes /\ u < k /\ k < n
        BY <1>2, <1>3, <1>4, <2>1, <3>2
      <4> QED
        BY <2>1, <3>2, <4>1
    <3> QED
      BY <2>1, <3>2, <3>3, <3>4
  <2>2. CASE n = h
    <3>1. tree'[n].up = x /\ x \in 1 .. n - 1
      BY <1>2, <2>2
    <3>2. E[n] = E[x] + 1
      BY <1>3, <1>6, <2>2
    <3>3. ASSUME NEW k \in x + 1 .. n - 1
          PROVE  E[n] <= E[k]
      <4>1. k \in Nodes /\ k > x
        BY <1>2, <1>3, <1>4, <2>2
      <4>2. D[x] < D[k] /\ E[k] = D[k] /\ E[k] \in Nat
        BY <1>2, <1>6, <1>8, <4>1
      <4> QED
        BY <1>6, <2>2, <4>2
    <3> QED
      BY <3>1, <3>2, <3>3
  <2>3. CASE n = h + 1
    <3>1. tree'[n].up = h /\ h \in 1 .. n - 1 /\ E[n] = E[h] + 1
      BY <1>2, <2>3
    <3>2. h + 1 .. n - 1 = {}
      BY <1>2, <2>3
    <3> QED
      BY <3>1, <3>2
  <2>4. CASE n > h + 1
    <3>0. s.kind = "FUNCTION_DECL" /\ h + 1 \in Nodes' /\ n \in Nat
      BY <1>2, <2>4
    <3>1. tree'[n].up = h + 1 /\ h + 1 \in 1 .. n - 1
      BY <1>2, <2>4, <3>0
    <3>2. E[n] = l + 2 /\ E[h + 1] = l + 1
      BY <2>4, <3>0
    <3>3. ASSUME NEW k \in (h + 1) + 1 .. n - 1
          PROVE  E[n] <= E[k]
      <4>1. k \in Nodes' /\ k > h + 1
        BY <1>2, <1>3, <3>0
      <4>2. E[k] = l + 2
        BY <4>1
      <4> QED
        BY <3>2, <4>2
    <3> QED
      BY <3>1, <3>2, <3>3
  <2> QED
    BY <1>2, <2>1, <2>2, <2>3, <2>4
<1>10. \A k \in Nodes' : k \notin Nodes => E[k] >= l /\ (k # h => E[k] > l)
  <2> SUFFICES ASSUME NEW k \in Nodes', k \notin Nodes
               PROVE  E[k] >= l /\ (k # h => E[k] > l)
    OBVIOUS
  <2>1. CASE k = h
    BY <2>1
  <2>2. CASE k = h + 1
    BY <2>2
  <2>3. CASE k > h + 1
    BY <2>3
  <2> QED
    BY <1>2, <2>1, <2>2, <2>3
<1>11. ASSUME NEW j \in 1 .. l
       PROVE  /\ E[open[j]] + j = l
              /\ \A k \in open[j] + 1 .. Len(tree') : E[open[j]] < E[k]
  <2>1. PICK n \in Nodes : n = open[j]
    BY <1>5
  <2>2. /\ D[n] \in Nat /\ D[n] + j = l /\ E[n] = D[n] /\ n \in Nat /\ n >= 1
        /\ \A k \in Nodes : k > n => D[n] < D[k]
    BY <1>2, <1>5, <2>1
  <2>3. D[n] < l
    BY <2>2
  <2>4. ASSUME NEW k \in n + 1 .. Len(tree')
        PROVE  E[n] < E[k]
    <3>1. k \in Nodes' /\ k > n
      BY <1>3, <2>2
    <3>2. CASE k \in Nodes
      BY <2>2, <3>1, <3>2
    <3>3. CASE k \notin Nodes
      <4>1. E[k] >= l /\ E[k] \in Nat
        BY <1>8, <1>10, <3>1, <3>3
      <4> QED
        BY <2>2, <2>3, <4>1
    <3> QED
      BY <3>2, <3>3
  <2> QED
    BY <2>1, <2>2, <2>4
<1>12. \A j \in DOMAIN open' :
         /\ E[open'[j]] + j = Len(open')
         /\ \A k \in open'[j] + 1 .. Len(tree') : E[open'[j]] < E[k]
  <2>1. CASE s.kind \in Leaves
    BY <1>1, <1>11, <2>1
  <2>2. CASE s.kind \notin Leaves
    <3>1. /\ Len(open') = l + 1 /\ open'[1] = h
          /\ \A j \in 1 .. l : open'[j + 1] = open[j]
      BY <2>2
    <3>2. DOMAIN open' = 1 .. l + 1
      BY <3>1
    <3> SUFFICES ASSUME NEW j \in 1 .. l + 1
                 PROVE  /\ E[open'[j]] + j = l + 1
                        /\ \A k \in open'[j] + 1 .. Len(tree') : E[open'[j]] < E[k]
      BY <3>1, <3>2
    <3>3. CASE j = 1
      <4>1. open'[j] = h /\ E[h] + j = l + 1
        BY <3>1, <3>3
      <4>2. ASSUME NEW k \in h + 1 .. Len(tree')
            PROVE  E[h] < E[k]
        <5>1. k \in Nodes' /\ k \notin Nodes /\ k # h
          BY <1>2, <1>3, <1>4
        <5> QED
          BY <1>10, <5>1
      <4> QED
        BY <4>1, <4>2
    <3>4. CASE j # 1
      <4>1. PICK i \in 1 .. l : j = i + 1
        <5>1. j - 1 \in 1 .. l /\ j = (j - 1) + 1
          BY <3>4
        <5> QED
          BY <5>1
      <4>2. open'[j] = open[i]
        BY <3>1, <4>1
      <4>3. E[open[i]] + i = l /\ E[open[i]] \in Nat
        <5>1. open[i] \in Nodes'
          BY <1>2, <1>5
        <5> QED
          BY <1>8, <1>11, <5>1
      <4>4. E[open[i]] + j = l + 1
        <5>1. PICK e \in Nat : e = E[open[i]]
          BY <4>3
        <5>2. e + i = l /\ i \in Nat
          BY <4>1, <4>3, <5>1
        <5>3. e + j = l + 1
          <6>1. j = i + 1
            BY <4>1
          <6> HIDE <3>4 DEF Opened, MoreLevels
          <6> QED
            BY <5>2, <6>1, NextSum
        <5> QED
          BY <5>1, <5>3
      <4> QED
        BY <1>11, <4>2, <4>4
    <3> QED
      BY <3>3, <3>4
  <2> QED
    BY <2>1, <2>2
<1> QED
  BY <1>7, <1>9, <1>12 DEF LevelsOK

(* A function on the first q numbers is a sequence. *)
LEMMA FunctionSeq ==
  ASSUME NEW S, NEW q \in Nat, NEW f \in [1 .. q -> S]
  PROVE  f \in Seq(S) /\ Len(f) = q
OBVIOUS

LEMMA NoItems ==
  ASSUME NEW S, NEW f \in Seq(S), Len(f) = 0
  PROVE  f = <<>>
BY EmptySeq


(* A line shows only the name, the type and the size. *)
LEMMA LineSame ==
  ASSUME NEW kind, NEW s, NEW t, s.name = t.name, s.type = t.type, s.size = t.size, NEW level
  PROVE  LineOf(kind, s, level) = LineOf(kind, t, level)
BY Zenon DEF LineOf

(* What is written after c lines for a node of shape s at level l: a lines for it *)
(* and one for each of its q parameters.                                          *)
MoreLines(s, l, c, a, q) ==
  /\ Len(lines) = c /\ Len(s.params) = q
  /\ (s.kind \in NoLine => a = 0) /\ (s.kind \notin NoLine => a = 1)
  /\ c \in Nat /\ q \in Nat /\ DOMAIN s.params = 1 .. q
  /\ a \in {0, 1} /\ (s.kind = "FUNCTION_DECL" => a = 1) /\ (s.kind # "FUNCTION_DECL" => q = 0)
  /\ lines' \in Seq(Line) /\ Len(lines') = c + a + q
  /\ \A i \in 1 .. c : lines'[i] = lines[i]
  /\ a = 1 => lines'[c + 1] = LineOf(s.kind, s, l)
  /\ a = 1 => \A k \in 1 .. q :
       lines'[c + 1 + k] = LineOf("PARAM_VAR_DECL", s.params[k], l + 2)

(* The lines that are written. *)
LEMMA LinesGrow ==
  ASSUME source \in Sources, NEW s \in source.shapes, lines \in Seq(Line),
         lines' = lines \o Printed(s),
         NEW l \in Nat, l = Len(open), NEW c, c = Len(lines), NEW q, q = Len(s.params),
         NEW a, a = IF s.kind \in NoLine THEN 0 ELSE 1
  PROVE  MoreLines(s, l, c, a, q)
<1>1. c \in Nat
  OBVIOUS
<1>2. q \in Nat /\ DOMAIN s.params = 1 .. q
  <2>1. PICK p \in Seq(ParamShape) : p = s.params
    BY ShapeType
  <2> QED
    BY <2>1
<1>3. a \in {0, 1} /\ (s.kind = "FUNCTION_DECL" => a = 1)
  BY DEF NoLine
<1>4. s.kind # "FUNCTION_DECL" => q = 0
  <2> SUFFICES ASSUME s.kind # "FUNCTION_DECL"
               PROVE  q = 0
    OBVIOUS
  <2>1. PICK p : p = s.params
    OBVIOUS
  <2>2. p = <<>>
    BY <2>1, ShapeType
  <2>3. Len(p) = 0
    BY <2>2
  <2> QED
    BY <2>1, <2>3
<1>5. PICK first : first = LineOf(s.kind, s, l)
  OBVIOUS
<1>6. first \in Line
  <2>1. /\ s.kind \in NodeKind /\ s.name \in STRING \cup {""}
        /\ s.type \in Type \cup {""} /\ s.size \in Nat
    BY ShapeType
  <2> QED
    BY <1>5, <2>1, LineType
<1>7. PICK ps : ps = [k \in 1 .. q |-> LineOf("PARAM_VAR_DECL", s.params[k], l + 2)]
  OBVIOUS
<1>8. \A k \in 1 .. q : ps[k] = LineOf("PARAM_VAR_DECL", s.params[k], l + 2) /\ ps[k] \in Line
  <2> SUFFICES ASSUME NEW k \in 1 .. q
               PROVE  ps[k] = LineOf("PARAM_VAR_DECL", s.params[k], l + 2) /\ ps[k] \in Line
    OBVIOUS
  <2>1. ps[k] = LineOf("PARAM_VAR_DECL", s.params[k], l + 2)
    BY <1>7
  <2>2. PICK p : p = s.params[k]
    OBVIOUS
  <2>3. /\ p.name \in STRING \cup {""} /\ p.type \in Type \cup {""} /\ p.size \in Nat
    <3>1. k \in DOMAIN s.params
      BY <1>2
    <3> QED
      BY <2>2, <3>1, ParamType
  <2>4. "PARAM_VAR_DECL" \in NodeKind
    BY DEF NodeKind, Decls
  <2>5. PICK m \in Nat : m = l + 2
    OBVIOUS
  <2>6. LineOf("PARAM_VAR_DECL", p, m) \in Line
    BY <2>3, <2>4, LineType
  <2> QED
    BY <2>1, <2>2, <2>5, <2>6
<1>9. ps \in Seq(Line) /\ q = Len(ps)
  <2>1. ps \in [1 .. q -> Line]
    BY <1>7, <1>8
  <2>2. q \in Nat
    BY <1>2
  <2> QED
    BY <2>1, <2>2, FunctionSeq
<1>10. CASE s.kind \notin NoLine
  <2>1. lines' = lines \o (<<first>> \o ps)
    <3>1. Printed(s) = <<LineOf(s.kind, s, Len(open))>>
                       \o [k \in 1 .. Len(s.params) |->
                             LineOf("PARAM_VAR_DECL", s.params[k], Len(open) + 2)]
      BY <1>10 DEF Printed
    <3> QED
      BY <1>5, <1>7, <3>1
  <2>2. PICK u : u = lines'
    OBVIOUS
  <2>3. /\ u \in Seq(Line) /\ Len(u) = c + 1 + q
        /\ \A n \in 1 .. c : u[n] = lines[n]
        /\ u[c + 1] = first
        /\ \A k \in 1 .. q : u[c + 1 + k] = ps[k]
    BY <1>1, <1>2, <1>6, <1>9, <2>1, <2>2, ItemJoined
  <2>4. a = 1
    BY <1>10
  <2>5. \A k \in 1 .. q : u[c + 1 + k] = LineOf("PARAM_VAR_DECL", s.params[k], l + 2)
    BY <1>8, <2>3
  <2> QED
    BY <1>1, <1>2, <1>3, <1>4, <1>5, <2>2, <2>3, <2>4, <2>5 DEF MoreLines
<1>11. CASE s.kind \in NoLine
  <2>1. a = 0
    BY <1>11
  <2>2. q = 0
    BY <1>3, <1>4, <2>1
  <2>3. ps = <<>>
    <3>1. ps \in Seq(Line) /\ Len(ps) = 0
      BY <1>9, <2>2
    <3> QED
      BY <3>1, NoItems
  <2>4. Printed(s) = <<>> \o ps
    BY <1>7, <1>11 DEF Printed
  <2>5. lines' = lines
    BY <2>3, <2>4
  <2> QED
    BY <1>1, <1>2, <1>3, <1>4, <2>1, <2>2, <2>5 DEF MoreLines
<1> QED
  BY <1>10, <1>11

(* The kinds of the nodes that come with a function. *)
LEMMA NewKinds ==
  ASSUME TreeOK, source \in Sources, NEW s, NEW x, NEW h, Growth(s, x, h)
  PROVE  /\ h + 1 \in Nodes' => tree'[h + 1].kind = "PARAM_VAR_DECL"
         /\ \A n \in Nodes' : n > h + 1 =>
              tree'[n].kind = "VAR_DECL" /\ tree'[n].up = h + 1
<1>1. h + 1 \in Nodes' => tree'[h + 1].kind = "PARAM_VAR_DECL"
  BY NewNodes
<1>2. \A n \in Nodes' : n > h + 1 => tree'[n].kind = "VAR_DECL" /\ tree'[n].up = h + 1
  BY NewNodes
<1> QED
  BY <1>1, <1>2

(* The places of the lines, with those of node h and of its parameters. *)
MorePlaces(P, Q, h, c, a) ==
  /\ Q \in [Nodes' -> Nat]
  /\ \A n \in Nodes : Q[n] = P[n]
  /\ Q[h] = c + a
  /\ h + 1 \in Nodes' => Q[h + 1] = c + 1
  /\ \A n \in Nodes' : n > h + 1 => Q[n] = c + 1 + (n - (h + 1))

(* The places go on to be the places of the lines. *)
LEMMA GrownLines ==
  ASSUME TreeOK, source \in Sources, NEW D, LevelsOK(D), NEW P, LinesOK(D, P), NEW s, NEW h,
         NEW x, Growth(s, x, h), NEW k0, s.kind \in Takes(x, k0),
         NEW l \in Nat, NEW c, NEW a, NEW q, MoreLines(s, l, c, a, q),
         NEW E, MoreLevels(D, E, h, l), NEW Q, MorePlaces(P, Q, h, c, a)
  PROVE  LinesOK(E, Q)'
<1> USE DEF MoreLevels, MorePlaces
<1>1. /\ h \in Nat /\ h \in Nodes' /\ h >= 1
      /\ \A n \in Nodes : n \in Nodes' /\ n \in Nat /\ n >= 1 /\ n < h
      /\ \A n \in Nodes' : n \in Nat /\ n >= 1 /\ (n \in Nodes \/ n = h \/ n = h + 1 \/ n > h + 1)
      /\ \A n \in Nodes' : n >= h + 1 => s.kind = "FUNCTION_DECL"
      /\ s.kind = "FUNCTION_DECL" => h + 1 \in Nodes'
  BY NewNodes
<1>A. /\ tree'[h].kind = s.kind /\ tree'[h].name = s.name /\ tree'[h].up = x
       /\ tree'[h].type = s.type /\ tree'[h].size = s.size
  BY NewNodes
<1>B. /\ h + 1 \in Nodes' => tree'[h + 1].kind = "PARAM_VAR_DECL"
       /\ \A n \in Nodes' : n > h + 1 =>
            tree'[n].kind = "VAR_DECL" /\ tree'[n].up = h + 1
  BY NewKinds, Zenon
<1>C. \A n \in Nodes' : n > h + 1 => tree'[n].kind = "VAR_DECL"
  BY NewKinds, Zenon
<1>2. /\ \A n \in Nodes : tree'[n] = tree[n]
      /\ x \in Nodes /\ Nodes' = 1 .. Len(tree') /\ h = Len(tree) + 1 /\ Len(tree) \in Nat
      /\ Len(tree') \in Nat /\ s \in source.shapes
      /\ s.kind # "FUNCTION_DECL" => Len(tree') = h
      /\ s.kind = "FUNCTION_DECL" => Len(tree') = h + 1 + Len(s.params)
      /\ \A n \in Nodes' : n > h + 1 =>
           /\ n - (h + 1) \in DOMAIN s.params
           /\ tree'[n] = NodeOf(s.params[n - (h + 1)], h + 1)
  BY DEF Growth
<1>3. Nodes = 1 .. Len(tree) /\ 1 \in Nodes /\ Len(tree) \in Nodes
  BY <1>2, Places
<1>0. Len(lines) = c
  BY DEF MoreLines
<1>4. /\ P \in [Nodes -> Nat] /\ P[1] = 1 /\ lines \in Seq(Line) /\ c = P[Len(tree)]
      /\ \A n \in Nodes : P[n] \in 1 .. c
      /\ \A n \in Nodes : n # 1 =>
           /\ P[n] = P[n - 1] + IF Kind(n) \in NoLine THEN 0 ELSE 1
           /\ Kind(n) \notin NoLine => lines[P[n]] = LineFor(n, D[n])
  <2>1. lines \in Seq(Line)
    BY DEF LinesOK
  <2>2. DOMAIN lines = 1 .. c
    BY <1>0, <2>1
  <2> QED
    BY <1>0, <2>1, <2>2 DEF LinesOK
<1>5. /\ Len(lines) = c /\ Len(s.params) = q
      /\ (s.kind \in NoLine => a = 0) /\ (s.kind \notin NoLine => a = 1)
  BY DEF MoreLines
<1>6. /\ c \in Nat /\ q \in Nat /\ DOMAIN s.params = 1 .. q
      /\ a \in {0, 1} /\ (s.kind = "FUNCTION_DECL" => a = 1) /\ (s.kind # "FUNCTION_DECL" => q = 0)
      /\ lines' \in Seq(Line) /\ Len(lines') = c + a + q
      /\ \A i \in 1 .. c : lines'[i] = lines[i]
      /\ a = 1 => lines'[c + 1] = LineOf(s.kind, s, l)
      /\ a = 1 => \A k \in 1 .. q :
           lines'[c + 1 + k] = LineOf("PARAM_VAR_DECL", s.params[k], l + 2)
  BY DEF MoreLines
<1>7. DOMAIN lines' = 1 .. c + a + q
  BY <1>6
<1>8. Kind(x) # "PARAM_VAR_DECL"
  BY TakesFacts
<1>9. Q[1] = 1
  BY <1>3, <1>4
<1>10. ASSUME NEW n \in Nodes
       PROVE  /\ Q[n] \in DOMAIN lines'
              /\ n # 1 =>
                   /\ Q[n] = Q[n - 1] + IF Kind(n)' \in NoLine THEN 0 ELSE 1
                   /\ Kind(n)' \notin NoLine => lines'[Q[n]] = LineFor(n, E[n])'
  <2>1. Q[n] = P[n] /\ P[n] \in 1 .. c /\ P[n] \in Nat
    BY <1>4
  <2>2. Q[n] \in DOMAIN lines'
    BY <1>6, <1>7, <2>1
  <2>3. ASSUME n # 1
        PROVE  Q[n] = Q[n - 1] + IF Kind(n)' \in NoLine THEN 0 ELSE 1
    <3>1. n - 1 \in Nodes
      BY <1>2, <1>3, <2>3
    <3>2. Kind(n)' = Kind(n)
      BY <1>2 DEF Kind
    <3> QED
      BY <1>4, <2>1, <2>3, <3>1, <3>2
  <2>4. ASSUME n # 1, Kind(n)' \notin NoLine
        PROVE  lines'[Q[n]] = LineFor(n, E[n])'
    <3>1. Kind(n)' = Kind(n) /\ E[n] = D[n]
      BY <1>2 DEF Kind
    <3>2. IsParameter(n)' = IsParameter(n)
      <4>1. tree[n].up \in Nodes
        BY <2>4, Levels
      <4> QED
        BY <1>2, <4>1 DEF IsParameter, Kind
    <3>3. LineFor(n, E[n])' = LineFor(n, D[n])
      <4>1. tree'[n] = tree[n]
        BY <1>2
      <4> QED
        BY <3>1, <3>2, <4>1 DEF LineFor
    <3>4. lines'[Q[n]] = lines[P[n]]
      BY <1>6, <2>1
    <3> QED
      BY <1>4, <2>4, <3>1, <3>3, <3>4
  <2> QED
    BY <2>2, <2>3, <2>4
<1>11. /\ Q[h] \in DOMAIN lines' /\ h # 1
       /\ Q[h] = Q[h - 1] + IF Kind(h)' \in NoLine THEN 0 ELSE 1
       /\ Kind(h)' \notin NoLine => lines'[Q[h]] = LineFor(h, E[h])'
  <2>1. h - 1 = Len(tree) /\ h # 1 /\ c >= 1
    BY <1>2, <1>3, <1>4
  <2>2. Q[h] = c + a /\ Q[h - 1] = c
    BY <1>3, <1>4, <2>1
  <2>3. Q[h] \in DOMAIN lines'
    BY <1>6, <1>7, <2>1, <2>2
  <2>4. Kind(h)' = s.kind
    BY <1>A DEF Kind
  <2>5. ASSUME s.kind \notin NoLine
        PROVE  lines'[Q[h]] = LineFor(h, E[h])'
    <3>1. a = 1
      BY <1>5, <2>5
    <3>2. lines'[Q[h]] = LineOf(s.kind, s, l)
      BY <1>6, <2>2, <3>1
    <3>3. ~IsParameter(h)'
      BY <1>A, <1>2, <1>8 DEF IsParameter, Kind
    <3>4. LineFor(h, E[h])' = LineOf(s.kind, tree'[h], l)
      BY <2>4, <3>3 DEF LineFor
    <3>5. PICK t : t = tree'[h]
      OBVIOUS
    <3>6. LineOf(s.kind, t, l) = LineOf(s.kind, s, l)
      BY <1>A, <3>5, LineSame
    <3> QED
      BY <3>2, <3>4, <3>5, <3>6
  <2> QED
    BY <1>5, <1>6, <2>1, <2>2, <2>3, <2>4, <2>5
<1>12. ASSUME h + 1 \in Nodes'
       PROVE  /\ Q[h + 1] \in DOMAIN lines' /\ h + 1 # 1
              /\ Q[h + 1] = Q[(h + 1) - 1] + 0
              /\ Kind(h + 1)' \in NoLine
  <2>1. s.kind = "FUNCTION_DECL" /\ a = 1
    BY <1>1, <1>6, <1>12
  <2>2. Q[h + 1] = c + 1 /\ (h + 1) - 1 = h /\ Q[h] = c + 1
    BY <1>1, <1>12, <2>1
  <2>3. Kind(h + 1)' \in NoLine
    BY <1>B, <1>12 DEF Kind, NoLine
  <2> QED
    BY <1>1, <1>6, <1>7, <2>1, <2>2, <2>3
<1>13. ASSUME NEW n \in Nodes', n > h + 1
       PROVE  /\ Q[n] \in DOMAIN lines'
              /\ Q[n] = Q[n - 1] + 1
              /\ Kind(n)' \notin NoLine
              /\ lines'[Q[n]] = LineFor(n, E[n])'
  <2>0. n \in Nat
    BY <1>1
  <2>1. s.kind = "FUNCTION_DECL" /\ a = 1 /\ h + 1 \in Nodes'
    BY <1>1, <1>6, <1>13, <2>0
  <2>2. PICK k : k = n - (h + 1)
    OBVIOUS
  <2>3. k \in 1 .. q /\ Q[n] = c + 1 + k /\ n = h + 1 + k /\ tree'[n] = NodeOf(s.params[k], h + 1)
    <3>1. h \in Nat
      BY <1>1
    <3>2. n = h + 1 + k
      BY <1>13, <2>0, <2>2, <3>1
    <3>3. k \in DOMAIN s.params /\ tree'[n] = NodeOf(s.params[k], h + 1)
      BY <1>2, <1>13, <2>2
    <3>4. k \in 1 .. q
      BY <1>6, <3>3
    <3>5. Q[n] = c + 1 + k
      BY <1>13, <2>2
    <3> QED
      BY <3>2, <3>3, <3>4, <3>5
  <2>4. Q[n - 1] = c + 1 + (k - 1)
    <3>1. CASE k = 1
      BY <1>1, <1>6, <2>1, <2>3, <3>1
    <3>2. CASE k # 1
      <4>1. n - 1 \in Nodes' /\ n - 1 > h + 1 /\ (n - 1) - (h + 1) = k - 1
        <5>1. h \in Nat /\ q \in Nat /\ k \in 1 .. q /\ n = h + 1 + k /\ k # 1
          BY <1>1, <1>6, <2>3, <3>2
        <5>2. PICK m \in Nat : m = Len(tree')
          BY <1>2
        <5>3. n - 1 > h + 1 /\ (n - 1) - (h + 1) = k - 1 /\ n - 1 \in Nat /\ n - 1 >= 1
          BY <5>1
        <5>4. n \in 1 .. m
          BY <1>2, <5>2
        <5>5. n - 1 \in 1 .. m
          BY <2>0, <5>3, <5>4
        <5>6. n - 1 \in Nodes'
          BY <1>2, <5>2, <5>5
        <5> QED
          BY <5>3, <5>6
      <4> QED
        BY <4>1
    <3> QED
      BY <3>1, <3>2
  <2>5. Q[n] = Q[n - 1] + 1
    BY <1>6, <2>3, <2>4
  <2>6. Q[n] \in DOMAIN lines'
    BY <1>6, <1>7, <2>1, <2>3
  <2>7. Kind(n)' = "VAR_DECL"
    <3> HIDE DEF MoreLevels, MorePlaces
    <3>1. tree'[n].kind = "VAR_DECL"
      BY <1>C, <1>13
    <3> QED
      BY <3>1, Zenon DEF Kind
  <2>8. IsParameter(n)'
    <3> HIDE DEF MoreLevels, MorePlaces
    <3>1. tree'[n].up = h + 1 /\ tree'[h + 1].kind = "PARAM_VAR_DECL"
      BY <1>B, <1>13, <2>1
    <3> QED
      BY <3>1, Zenon DEF IsParameter, Kind
  <2>9. PICK p : p = s.params[k]
    OBVIOUS
  <2>10. PICK t : t = tree'[n]
    OBVIOUS
  <2>11. t = NodeOf(p, h + 1)
    BY <2>3, <2>9, <2>10
  <2>12. t.name = p.name /\ t.type = p.type /\ t.size = p.size
    BY <2>11 DEF NodeOf
  <2>13. LineOf("PARAM_VAR_DECL", t, l + 2) = LineOf("PARAM_VAR_DECL", p, l + 2)
    BY <2>12, LineSame
  <2>14. LineFor(n, E[n])' = LineOf("PARAM_VAR_DECL", t, l + 2)
    <3>1. E[n] = l + 2
      BY <1>13
    <3> QED
      BY <2>8, <2>10, <3>1 DEF LineFor
  <2>15. lines'[Q[n]] = LineOf("PARAM_VAR_DECL", p, l + 2)
    BY <1>6, <2>1, <2>3, <2>9
  <2> QED
    BY <2>5, <2>6, <2>7, <2>13, <2>14, <2>15 DEF NoLine
<1>14. Len(lines') = Q[Len(tree')]
  <2>1. CASE s.kind # "FUNCTION_DECL"
    BY <1>2, <1>6, <2>1
  <2>2. CASE s.kind = "FUNCTION_DECL"
    <3>1. Len(tree') = h + 1 + q /\ a = 1 /\ h + 1 \in Nodes'
      BY <1>1, <1>2, <1>5, <1>6, <2>2
    <3>2. CASE q = 0
      BY <1>1, <1>6, <3>1, <3>2
    <3>3. CASE q # 0
      <4>1. PICK n : n = Len(tree')
        OBVIOUS
      <4>2. n \in Nodes' /\ n > h + 1 /\ n - (h + 1) = q
        <5>1. h \in Nat /\ q \in Nat /\ n = h + 1 + q /\ n \in Nat
          BY <1>1, <1>2, <1>6, <3>1, <4>1
        <5>2. n \in 1 .. n /\ n > h + 1 /\ n - (h + 1) = q
          BY <3>3, <5>1
        <5>3. n \in Nodes'
          BY <1>2, <4>1, <5>2
        <5> QED
          BY <5>2, <5>3
      <4>3. Q[n] = c + 1 + q
        BY <4>2
      <4> QED
        BY <1>6, <3>1, <4>1, <4>3
    <3> QED
      BY <3>2, <3>3
  <2> QED
    BY <2>1, <2>2
<1>15. \A n \in Nodes' : Q[n] \in DOMAIN lines'
  BY <1>1, <1>10, <1>11, <1>12, <1>13
<1>16. ASSUME NEW n \in Nodes', n # 1
       PROVE  /\ Q[n] = Q[n - 1] + IF Kind(n)' \in NoLine THEN 0 ELSE 1
              /\ Kind(n)' \notin NoLine => lines'[Q[n]] = LineFor(n, E[n])'
  <2>1. CASE n \in Nodes
    BY <1>10, <1>16, <2>1
  <2>2. CASE n = h
    BY <1>11, <2>2
  <2>3. CASE n = h + 1
    BY <1>12, <2>3
  <2>4. CASE n > h + 1
    BY <1>13, <2>4
  <2> QED
    BY <1>1, <2>1, <2>2, <2>3, <2>4
<1> QED
  BY <1>6, <1>9, <1>14, <1>15, <1>16 DEF LinesOK

(* A node is printed. *)
LEMMA PrintNodeKeepsInvariant ==
  ASSUME FInv, PrintNode
  PROVE  FInv'
<1>1. PICK s \in source.shapes : EnterNew(s) /\ lines' = lines \o Printed(s)
  BY DEF PrintNode
<1>2. status = "printing" /\ status' = "printing"
  BY DEF PrintNode
<1>3. /\ open # <<>> /\ s.kind \in Takes(Head(open), Arity(Head(open)) + 1)
      /\ tree' = Grown(s) /\ source' = source
      /\ open' = IF s.kind \in Leaves THEN open ELSE <<Here>> \o open
  BY <1>1 DEF EnterNew, NextOf
<1>4. TreeOK /\ OpenOK /\ source \in Sources
  BY DEF FInv
<1>5. PICK D, P : FileOK(D, P)
  BY DEF FInv
<1>6. LevelsOK(D) /\ LinesOK(D, P)
  BY <1>5 DEF FileOK
<1>7. PICK x : x = Head(open)
  OBVIOUS
<1>8. PICK h : h = Here
  OBVIOUS
<1>9. open \in Seq(Nodes) /\ lines \in Seq(Line) /\ D \in [Nodes -> Nat] /\ P \in [Nodes -> Nat]
  BY <1>6 DEF LevelsOK, LinesOK
<1>10. x = open[1] /\ x \in Nodes
  <2>1. Head(open) = open[1] /\ Len(open) >= 1 /\ Len(open) \in Nat
    BY <1>3, <1>9, TailElements
  <2>2. open[1] \in Nodes
    BY <1>9, <2>1
  <2> QED
    BY <1>7, <2>1, <2>2
<1>11. Growth(s, x, h)
  BY <1>3, <1>4, <1>7, <1>8, <1>10, TreeGrows
<1>12. /\ s.kind \in Takes(x, Arity(x) + 1)
       /\ open' = IF s.kind \in Leaves THEN open ELSE <<h>> \o open
  BY <1>3, <1>7, <1>8
<1>13. /\ TreeOK' /\ OpenOK'
       /\ s.kind \notin Leaves =>
            /\ Len(open') = Len(open) + 1 /\ open'[1] = h
            /\ \A j \in 1 .. Len(open) : open'[j + 1] = open[j]
       /\ open' \in Seq(Nodes')
  BY <1>3, <1>4, <1>6, <1>10, <1>11, <1>12, GrownTree
<1>14. PICK l \in Nat : l = Len(open)
  BY <1>9
<1>15. \E c, a, q : MoreLines(s, l, c, a, q)
  <2>1. PICK c : c = Len(lines)
    OBVIOUS
  <2>2. PICK q : q = Len(s.params)
    OBVIOUS
  <2>3. PICK a : a = IF s.kind \in NoLine THEN 0 ELSE 1
    OBVIOUS
  <2>4. MoreLines(s, l, c, a, q)
    BY <1>1, <1>4, <1>9, <1>14, <2>1, <2>2, <2>3, LinesGrow
  <2> QED
    BY <2>4
<1>16. PICK c, a, q : MoreLines(s, l, c, a, q)
  BY <1>15
<1>17. c \in Nat /\ a \in {0, 1}
  BY <1>16 DEF MoreLines
<1>18. /\ h \in Nat /\ h \in Nodes'
       /\ \A n \in Nodes : n \in Nodes' /\ n \in Nat /\ n < h
       /\ \A n \in Nodes' : n \in Nat
  BY <1>4, <1>11, NewNodes
<1>19. PICK E : E = [n \in Nodes' |-> IF n \in Nodes THEN D[n]
                                      ELSE IF n = h THEN l ELSE IF n = h + 1 THEN l + 1 ELSE l + 2]
  OBVIOUS
<1>20. PICK Q : Q = [n \in Nodes' |-> IF n \in Nodes THEN P[n]
                                      ELSE IF n = h THEN c + a
                                      ELSE IF n > h THEN c + 1 + (n - (h + 1)) ELSE 0]
  OBVIOUS
<1>21. h \notin Nodes /\ h + 1 \notin Nodes /\ \A n \in Nodes' : n > h + 1 => n \notin Nodes
  BY <1>18
<1>22. MoreLevels(D, E, h, l)
  <2>1. E \in [Nodes' -> Nat]
    BY <1>9, <1>19
  <2>2. \A n \in Nodes : E[n] = D[n]
    BY <1>18, <1>19
  <2>3. E[h] = l
    BY <1>18, <1>19, <1>21
  <2>4. h + 1 \in Nodes' => E[h + 1] = l + 1
    BY <1>18, <1>19, <1>21
  <2>5. \A n \in Nodes' : n > h + 1 => E[n] = l + 2
    BY <1>18, <1>19, <1>21
  <2> QED
    BY <2>1, <2>2, <2>3, <2>4, <2>5 DEF MoreLevels
<1>23. MorePlaces(P, Q, h, c, a)
  <2>1. Q \in [Nodes' -> Nat]
    <3>1. \A n \in Nodes' : n > h => c + 1 + (n - (h + 1)) \in Nat
      BY <1>17, <1>18
    <3>2. c + a \in Nat
      BY <1>17
    <3> QED
      BY <1>9, <1>20, <3>1, <3>2
  <2>2. \A n \in Nodes : Q[n] = P[n]
    BY <1>18, <1>20
  <2>3. Q[h] = c + a
    BY <1>18, <1>20, <1>21
  <2>4. ASSUME h + 1 \in Nodes'
        PROVE  Q[h + 1] = c + 1
    <3>1. h + 1 # h /\ h + 1 > h /\ c + 1 + ((h + 1) - (h + 1)) = c + 1
      BY <1>17, <1>18
    <3>2. Q[h + 1] = c + 1 + ((h + 1) - (h + 1))
      BY <1>20, <1>21, <2>4, <3>1
    <3> QED
      BY <3>1, <3>2
  <2>5. \A n \in Nodes' : n > h + 1 => Q[n] = c + 1 + (n - (h + 1))
    BY <1>18, <1>20, <1>21
  <2> QED
    BY <2>1, <2>2, <2>3, <2>4, <2>5 DEF MorePlaces
<1>24. LevelsOK(E)'
  <2>1. Opened(s, h)
    BY <1>12, <1>13 DEF Opened
  <2> QED
    BY <1>3, <1>4, <1>6, <1>10, <1>11, <1>14, <1>22, <2>1, GrownLevels
<1>25. LinesOK(E, Q)'
  BY <1>4, <1>6, <1>11, <1>12, <1>16, <1>22, <1>23, GrownLines
<1>26. FileOK(E, Q)'
  BY <1>2, <1>24, <1>25 DEF FileOK
<1>27. (\E levels, places : FileOK(levels, places))'
  BY <1>26
<1>28. RoundTrip'
  BY <1>2 DEF RoundTrip
<1> QED
  BY <1>2, <1>3, <1>4, <1>13, <1>27, <1>28 DEF FInv

----------------------------------------------------------------------------
(* Every step keeps the invariant. *)
LEMMA NextKeepsInvariant ==
  ASSUME FInv, [Next]_vars
  PROVE  FInv'
<1>1. CASE PrintNode
  BY <1>1, PrintNodeKeepsInvariant
<1>2. CASE PrintLeave
  BY <1>2, PrintLeaveKeepsInvariant
<1>3. CASE Run
  BY <1>3, RunKeepsInvariant
<1>4. CASE Read
  BY <1>4, ReadKeepsInvariant
<1>5. CASE UNCHANGED vars
  BY <1>5, StutterKeepsInvariant
<1> QED
  BY <1>1, <1>2, <1>3, <1>4, <1>5 DEF Next

(* FInv is an invariant. *)
LEMMA FileInvariant == Spec => []FInv
<1>1. Init => FInv
  BY InitHasInvariant
<1>2. FInv /\ [Next]_vars => FInv'
  BY NextKeepsInvariant
<1> QED
  BY <1>1, <1>2, PTL DEF Spec

(* Reading a file gives back the tree that was printed to it, for every tree  *)
(* that the format can hold, of any shapes, size and nesting, and however     *)
(* often the reader is run.                                                   *)
THEOREM ReadingGivesBackTheTree == Spec => []RoundTrip
<1>1. FInv => RoundTrip
  BY DEF FInv
<1> QED
  BY <1>1, FileInvariant, PTL
============================================================================
