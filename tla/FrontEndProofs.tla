--------------------------- MODULE FrontEndProofs ---------------------------
(***************************************************************************)
(* For every family of programs, of every size: a program that passes the  *)
(* type checker has every call tied to a function it can call, every       *)
(* identifier to the variable it means, and is well typed, and the checker *)
(* dies on no program but those known to be fatal.                         *)
(*                                                                         *)
(* The model's recursive functions (Ancestors, Operands, TrueType) are     *)
(* shown to satisfy their equations by induction on natural numbers, which *)
(* is used in the form of the least element of a set.                      *)
(***************************************************************************)
EXTENDS FrontEnd, FiniteSetTheorems, SequenceTheorems, WellFoundedInduction, TLAPS

----------------------------------------------------------------------------
(* Induction. *)

LEMMA LeastNatural ==
  ASSUME NEW T, T \subseteq Nat, T # {}
  PROVE  \E x \in T : \A y \in T : x <= y
<1>1. PICK x \in T : \A y \in T : ~(<<y, x>> \in OpToRel(<, Nat))
  BY WFMin, NatLessThanWellFounded
<1>2. \A y \in T : ~(y < x)
  BY <1>1, Zenon DEF OpToRel
<1>3. x \in Nat /\ \A y \in T : y \in Nat
  OBVIOUS
<1> QED
  BY <1>2, <1>3

LEMMA GreatestNatural ==
  ASSUME NEW n \in Nat, NEW T, T \subseteq 0 .. n, T # {}
  PROVE  \E x \in T : \A y \in T : y <= x
<1> DEFINE U == {n - y : y \in T}
<1>1. U \subseteq Nat /\ U # {}
  <2>1. ASSUME NEW y \in T PROVE n - y \in Nat
    <3>1. y \in 0 .. n
      OBVIOUS
    <3> QED
      BY <3>1
  <2> QED
    BY <2>1
<1> HIDE DEF U
<1>2. PICK u \in U : \A v \in U : u <= v
  BY <1>1, LeastNatural
<1>3. PICK x \in T : u = n - x
  BY <1>2 DEF U
<1>4. ASSUME NEW y \in T PROVE y <= x
  <2>1. n - x <= n - y
    BY <1>2, <1>3 DEF U
  <2>2. x \in 0 .. n /\ y \in 0 .. n
    OBVIOUS
  <2> QED
    BY <2>1, <2>2
<1> QED
  BY <1>4

(* A set that holds 0, and the successor of each of its members, holds all. *)
LEMMA NaturalsAreInductive ==
  ASSUME NEW S, 0 \in S, \A n \in Nat : n \in S => n + 1 \in S
  PROVE  Nat \subseteq S
<1> SUFFICES ASSUME ~(Nat \subseteq S) PROVE FALSE
  OBVIOUS
<1> DEFINE T == Nat \ S
<1>1. T # {} /\ T \subseteq Nat
  OBVIOUS
<1> HIDE DEF T
<1>2. PICK x \in T : \A y \in T : x <= y
  BY <1>1, LeastNatural
<1>3. x \in Nat /\ x # 0 /\ x \notin S
  BY <1>2 DEF T
<1>4. x - 1 \in Nat /\ x - 1 \notin T
  BY <1>1, <1>2, <1>3
<1> QED
  BY <1>3, <1>4 DEF T

(* Recursion: G[<<f, s>>] is the value at s, from the values of f at places   *)
(* of a lower rank.                                                           *)
IsRecursion(S, V, N, rank, G) ==
  /\ V # {} /\ N \in Nat
  /\ rank \in [S -> 0 .. N]
  /\ G \in [[S -> V] \X S -> V]
  /\ \A s \in S : \A f, g \in [S -> V] :
       (\A r \in S : rank[r] < rank[s] => f[r] = g[r]) => G[<<f, s>>] = G[<<g, s>>]

LEMMA RecursionHasSolution ==
  ASSUME NEW S, NEW V, NEW N, NEW rank, NEW G, IsRecursion(S, V, N, rank, G)
  PROVE  \E f \in [S -> V] : \A s \in S : f[s] = G[<<f, s>>]
<1> USE DEF IsRecursion
<1>v. PICK v \in V : TRUE
  OBVIOUS
<1> DEFINE Upto == {n \in Nat : \E f \in [S -> V] :
                      \A s \in S : rank[s] < n => f[s] = G[<<f, s>>]}
<1>1. 0 \in Upto
  <2>1. [s \in S |-> v] \in [S -> V] /\ \A s \in S : ~(rank[s] < 0)
    OBVIOUS
  <2> QED
    BY <2>1
<1>2. ASSUME NEW n \in Nat, n \in Upto PROVE n + 1 \in Upto
  <2>1. PICK f \in [S -> V] : \A s \in S : rank[s] < n => f[s] = G[<<f, s>>]
    BY <1>2
  <2> DEFINE g == [s \in S |-> IF rank[s] < n THEN f[s] ELSE G[<<f, s>>]]
  <2>2. g \in [S -> V]
    OBVIOUS
  <2>3. \A r \in S : rank[r] < n => f[r] = g[r]
    OBVIOUS
  <2>4. \A s \in S : g[s] = G[<<f, s>>]
    BY <2>1
  <2> HIDE DEF g
  <2>5. ASSUME NEW s \in S, rank[s] < n + 1 PROVE g[s] = G[<<g, s>>]
    <3>1. \A r \in S : rank[r] < rank[s] => rank[r] < n
      BY <2>5
    <3>2. G[<<f, s>>] = G[<<g, s>>]
      BY <2>2, <2>3, <3>1
    <3> QED
      BY <2>4, <3>2
  <2> QED
    BY <2>2, <2>5
<1>3. N + 1 \in Upto
  BY <1>1, <1>2, NaturalsAreInductive
<1>4. PICK f \in [S -> V] : \A s \in S : rank[s] < N + 1 => f[s] = G[<<f, s>>]
  BY <1>3
<1>5. \A s \in S : rank[s] < N + 1
  OBVIOUS
<1> QED
  BY <1>4, <1>5

(* A finite set of numbers has a k-th element. *)
LEMMA KthElement ==
  ASSUME NEW C, C \subseteq Nat, IsFiniteSet(C), NEW k \in 1 .. Cardinality(C)
  PROVE  \E i \in C : Cardinality({j \in C : j < i}) = k - 1
<1> DEFINE Below(i) == {j \in C : j < i}
           S == {n \in Nat : n < Cardinality(C) => \E i \in C : Cardinality(Below(i)) = n}
<1>1. Cardinality(C) \in Nat /\ C # {}
  BY FS_CardinalityType, FS_EmptySet
<1>o. \A x, y \in C : (x <= y => ~(y < x)) /\ (~(x < y) /\ ~(y < x) => x = y) /\ ~(x < x)
  <2>1. \A x, y \in Nat : (x <= y => ~(y < x)) /\ (~(x < y) /\ ~(y < x) => x = y) /\ ~(x < x)
    OBVIOUS
  <2> QED
    BY <2>1, Zenon
<1>t. \A x, y, z \in C : x < y /\ y < z => x < z
  <2>1. \A x, y, z \in Nat : x < y /\ y < z => x < z
    OBVIOUS
  <2> QED
    BY <2>1, Zenon
<1>2. 0 \in S
  <2>1. PICK i \in C : \A j \in C : i <= j
    BY <1>1, LeastNatural
  <2>2. Below(i) = {}
    BY <2>1, <1>o, Zenon
  <2> QED
    BY <2>2, FS_EmptySet
<1>3. ASSUME NEW n \in Nat, n \in S PROVE n + 1 \in S
  <2> SUFFICES ASSUME n + 1 < Cardinality(C)
               PROVE  \E i \in C : Cardinality(Below(i)) = n + 1
    OBVIOUS
  <2>1. PICK i \in C : Cardinality(Below(i)) = n
    BY <1>1, <1>3
  <2>2. Below(i) \subseteq C /\ i \notin Below(i)
    OBVIOUS
  <2>3. IsFiniteSet(Below(i))
    BY <2>2, FS_Subset
  <2>4. Cardinality(Below(i) \cup {i}) = n + 1
    BY <2>1, <2>2, <2>3, FS_AddElement
  <2> DEFINE Above == {j \in C : i < j}
  <2>5. Above # {}
    <3> SUFFICES ASSUME Above = {} PROVE FALSE
      OBVIOUS
    <3>1. \A x \in C : x \in Below(i) \cup {i}
      BY <1>o
    <3>2. C = Below(i) \cup {i}
      BY <3>1, Zenon
    <3> QED
      BY <3>2, <2>4, <1>1
  <2>6. PICK m \in Above : \A j \in Above : m <= j
    BY <2>5, LeastNatural
  <2>7. Below(m) = Below(i) \cup {i}
    <3>1. m \in C /\ i < m
      OBVIOUS
    <3>2. ASSUME NEW x \in C PROVE x < m <=> x < i \/ x = i
      BY <2>6, <3>1, <1>o, <1>t
    <3> QED
      BY <3>2, Zenon
  <2> QED
    BY <2>4, <2>6, <2>7
<1>4. k - 1 \in S /\ k - 1 < Cardinality(C)
  <2>1. k - 1 \in Nat /\ k - 1 < Cardinality(C)
    BY <1>1
  <2> HIDE DEF S
  <2> QED
    BY <2>1, <1>2, <1>3, NaturalsAreInductive
<1> QED
  BY <1>4

----------------------------------------------------------------------------
(* The inductive invariant. *)

Node ==
  [kind : NodeKind, name : STRING \cup {""}, type : Type \cup {""}, size : Nat, up : Nat]

Under(n, kinds) == tree[n].up \in Nodes /\ Kind(tree[n].up) \in kinds

(* The tree: a parent comes before its children, a variable has a type, and *)
(* what a return stands in leads up to a function.                          *)
TreeOK ==
  /\ tree \in Seq(Node)
  /\ \A n \in Nodes :
       /\ tree[n].up < n
       /\ Kind(n) \in {"FUNCTION_DECL", "VAR_DECL"} => tree[n].type \in Type
       /\ Kind(n) \in {"RETURN_STMT", "IF_STMT", "WHILE_STMT"} => Under(n, {"COMPOUND_STMT"})
       /\ Kind(n) = "COMPOUND_STMT" => Under(n, {"FUNCTION_DECL", "IF_STMT", "WHILE_STMT"})

(* A node has all the children it needs, or it is still being visited. *)
OpenOK ==
  /\ open \in Seq(Nodes)
  /\ \A n \in Nodes : (\E i \in DOMAIN open : open[i] = n) \/ Arity(n) >= Needs(n)

FunctionEntry(d) ==
  /\ mTable[d].mIsFunction
  /\ mTable[d].mType \in Seq(Type)
  /\ mTable[d].mType # <<>>

(* The table: its keys are nodes, its functions are declared as such, and   *)
(* unless the collector counted an error it has all functions.              *)
TableOK ==
  /\ DOMAIN mTable \subseteq Nodes
  /\ \A d \in DOMAIN mTable : Kind(d) = "FUNCTION_DECL" => FunctionEntry(d)
  /\ pass = "checking" \/ (pass = "collecting" /\ mErrorCount = 0) =>
       OfKind("FUNCTION_DECL") \subseteq DOMAIN mTable

(* The functions that a call may be tied to. *)
Candidates(c) ==
  {d \in GetOverloadCandidates(tree[c].name) :
     Len(GetFunctionParamTypes(mTable[d])) = Arity(c)}
Resolved(c) == c \in DOMAIN mUseDefs /\ mUseDefs[c] \in Candidates(c)

(* The type checker: a call that it has left is tied to a function or has    *)
(* some left to choose from, unless an error was counted; an argument keeps  *)
(* its set until its call is done.                                           *)
MapOK ==
  \A c \in DOMAIN mOverloadMap :
     c \in OfKind("CALL_EXPR") /\ mOverloadMap[c] \subseteq Candidates(c)
CallOK(c) ==
  /\ OverloadSet(c) # {} \/ Resolved(c)
  /\ tree[c].up \in OfKind("CALL_EXPR") => OverloadSet(c) # {}
CheckOK ==
  pass = "checking" =>
    /\ open = <<>>
    /\ MapOK
    /\ mErrorCount = 0 => \A c \in visited \cap OfKind("CALL_EXPR") : CallOK(c)

IInv ==
  /\ source \in Sources
  /\ mErrorCount \in Nat
  /\ TreeOK
  /\ OpenOK
  /\ TableOK
  /\ CheckOK
  /\ PassedCallsAreResolved

----------------------------------------------------------------------------
(* The tree. *)

LEMMA NodesAreNumbered ==
  ASSUME TreeOK
  PROVE  /\ Len(tree) \in Nat
         /\ Nodes = 1 .. Len(tree)
         /\ Nodes \subseteq Nat
         /\ IsFiniteSet(Nodes)
<1>1. Len(tree) \in Nat /\ Nodes = 1 .. Len(tree)
  BY DEF TreeOK, Nodes
<1>2. IsFiniteSet(1 .. Len(tree))
  BY <1>1, FS_Interval
<1> QED
  BY <1>1, <1>2

LEMMA ChildrenAreFinite ==
  ASSUME TreeOK, NEW n
  PROVE  /\ Children(n) \subseteq Nodes
         /\ IsFiniteSet(Children(n))
         /\ Arity(n) \in Nat
<1>1. Children(n) \subseteq Nodes
  BY DEF Children
<1>2. IsFiniteSet(Children(n))
  BY <1>1, NodesAreNumbered, FS_Subset
<1> QED
  BY <1>1, <1>2, FS_CardinalityType DEF Arity

LEMMA ChildIsChild ==
  ASSUME TreeOK, NEW n \in Nodes, NEW k \in 1 .. Arity(n)
  PROVE  /\ Child(n, k) \in Children(n)
         /\ Child(n, k) \in Nodes
         /\ tree[Child(n, k)].up = n
         /\ n < Child(n, k)
<1>1. Children(n) \subseteq Nat /\ IsFiniteSet(Children(n))
  BY ChildrenAreFinite, NodesAreNumbered
<1>2. \E i \in Children(n) : Cardinality({j \in Children(n) : j < i}) = k - 1
  BY <1>1, KthElement DEF Arity
<1>3. Child(n, k) \in Children(n)
  BY <1>2 DEF Child
<1> QED
  BY <1>3 DEF Children, TreeOK


LEMMA ParentsComeFirst ==
  ASSUME TreeOK, NEW n \in Nodes
  PROVE  /\ n \in 1 .. Len(tree)
         /\ tree[n] \in Node
         /\ tree[n].up \in 0 .. Len(tree)
         /\ tree[n].up < n
         /\ tree[n].up = 0 \/ tree[n].up \in Nodes
<1>1. n \in 1 .. Len(tree) /\ Len(tree) \in Nat /\ tree[n] \in Node
  BY NodesAreNumbered DEF TreeOK
<1>2. tree[n].up \in Nat /\ tree[n].up < n
  BY <1>1 DEF TreeOK, Node
<1> QED
  BY <1>1, <1>2, NodesAreNumbered

(* What holds of a node whenever it holds of all nodes before it, or of all *)
(* nodes after it, holds of all nodes.                                      *)
LEMMA FromParents ==
  ASSUME TreeOK, NEW P, \A n \in Nodes : (\A m \in Nodes : m < n => m \in P) => n \in P
  PROVE  Nodes \subseteq P
<1> SUFFICES ASSUME Nodes \ P # {} PROVE FALSE
  OBVIOUS
<1>1. PICK n \in Nodes \ P : \A m \in Nodes \ P : n <= m
  BY NodesAreNumbered, LeastNatural
<1>2. \A m \in Nodes : m < n => ~(n <= m)
  BY NodesAreNumbered
<1> QED
  BY <1>1, <1>2

LEMMA FromChildren ==
  ASSUME TreeOK, NEW P, \A n \in Nodes : (\A m \in Nodes : n < m => m \in P) => n \in P
  PROVE  Nodes \subseteq P
<1> SUFFICES ASSUME Nodes \ P # {} PROVE FALSE
  OBVIOUS
<1>1. Nodes \ P \subseteq 0 .. Len(tree) /\ Len(tree) \in Nat
  BY NodesAreNumbered
<1>2. PICK n \in Nodes \ P : \A m \in Nodes \ P : m <= n
  BY <1>1, GreatestNatural
<1>3. \A m \in Nodes : n < m => ~(m <= n)
  BY NodesAreNumbered
<1> QED
  BY <1>2, <1>3

(* The walk of the type checker ends when every node has been left. *)
LEMMA NothingReady ==
  ASSUME TreeOK, Ready = {}
  PROVE  \A n \in Nodes : n \in visited \/ Kind(n) = "null"
<1> DEFINE P == {n \in Nodes : n \in visited \/ Kind(n) = "null"}
<1>1. ASSUME NEW n \in Nodes, \A m \in Nodes : n < m => m \in P PROVE n \in P
  <2>1. \A i \in Children(n) : i \in Nodes /\ n < i
    BY DEF Children, TreeOK
  <2>2. \A i \in Children(n) : i \in visited \/ Kind(i) = "null"
    BY <1>1, <2>1
  <2> QED
    BY <2>2 DEF Ready
<1>2. Nodes \subseteq P
  <2> HIDE DEF P
  <2> QED
    BY <1>1, FromChildren
<1> QED
  BY <1>2

----------------------------------------------------------------------------
(* The recursive functions of the model. *)

LEMMA AncestorsEquation ==
  ASSUME TreeOK
  PROVE  /\ Ancestors[0] = {}
         /\ \A n \in Nodes : Ancestors[n] = {n} \cup Ancestors[tree[n].up]
<1> DEFINE S == 0 .. Len(tree)
           V == SUBSET Nodes
           rank == [n \in S |-> n]
           G == [p \in [S -> V] \X S |->
                   IF p[2] = 0 THEN {} ELSE {p[2]} \cup p[1][tree[p[2]].up]]
<1>1. Len(tree) \in Nat /\ S \ {0} = Nodes
  BY NodesAreNumbered
<1>2. ASSUME NEW n \in S, n # 0 PROVE tree[n].up \in S /\ tree[n].up < n
  BY <1>1, <1>2, ParentsComeFirst
<1>3. {} \in V /\ rank \in [S -> 0 .. Len(tree)]
  OBVIOUS
<1>4. G \in [[S -> V] \X S -> V]
  <2>1. ASSUME NEW p \in [S -> V] \X S, p[2] # 0
        PROVE  {p[2]} \cup p[1][tree[p[2]].up] \in V
    BY <2>1, <1>1, <1>2
  <2> QED
    BY <2>1, <1>3
<1>5. ASSUME NEW s \in S, NEW f \in [S -> V], NEW g \in [S -> V],
             \A r \in S : rank[r] < rank[s] => f[r] = g[r]
      PROVE  G[<<f, s>>] = G[<<g, s>>]
  BY <1>2, <1>5
<1>6. \E f \in [S -> V] : \A s \in S : f[s] = G[<<f, s>>]
  <2> HIDE DEF S, V, rank, G
  <2>1. \A s \in S : \A f, g \in [S -> V] :
          (\A r \in S : rank[r] < rank[s] => f[r] = g[r]) => G[<<f, s>>] = G[<<g, s>>]
    BY <1>5, Zenon
  <2>2. IsRecursion(S, V, Len(tree), rank, G)
    BY <1>1, <1>3, <1>4, <2>1 DEF IsRecursion
  <2> QED
    BY <2>2, RecursionHasSolution
<1>7. PICK f \in [S -> V] : \A s \in S : f[s] = G[<<f, s>>]
  BY <1>6
<1>8. \A s \in S : G[<<f, s>>] = IF s = 0 THEN {} ELSE {s} \cup f[tree[s].up]
  OBVIOUS
<1>9. f = [n \in 0 .. Len(tree) |-> IF n = 0 THEN {} ELSE {n} \cup f[tree[n].up]]
  BY <1>7, <1>8
<1>10. Ancestors = [n \in 0 .. Len(tree) |->
                      IF n = 0 THEN {} ELSE {n} \cup Ancestors[tree[n].up]]
  <2> HIDE DEF S, V, rank, G
  <2> QED
    BY <1>9, Zenon DEF Ancestors
<1>11. \A n \in 0 .. Len(tree) : Ancestors[n] = IF n = 0 THEN {} ELSE {n} \cup Ancestors[tree[n].up]
  BY <1>10, Zenon
<1> QED
  BY <1>1, <1>11

(* Whatever may return stands in a function. *)
LEMMA ReturnsAreInFunctions ==
  ASSUME TreeOK, NEW n \in OfKind("RETURN_STMT")
  PROVE  FunctionAround(n) \in OfKind("FUNCTION_DECL")
<1> DEFINE Inside == {"RETURN_STMT", "IF_STMT", "WHILE_STMT", "COMPOUND_STMT"}
           Good(m) == /\ m \in Nodes => Ancestors[m] \subseteq Nodes
                      /\ Kind(m) \in Inside \cup {"FUNCTION_DECL"} =>
                           \E f \in Ancestors[m] : Kind(f) = "FUNCTION_DECL"
           P == {m \in Nodes : Good(m)}
<1>1. ASSUME NEW m \in Nodes, \A l \in Nodes : l < m => l \in P PROVE m \in P
  <2>1. Ancestors[m] = {m} \cup Ancestors[tree[m].up]
    BY AncestorsEquation
  <2>2. tree[m].up \in Nodes \/ tree[m].up = 0
    BY ParentsComeFirst
  <2>3. tree[m].up \in Nodes => tree[m].up \in P
    BY <1>1 DEF TreeOK
  <2>4. Ancestors[m] \subseteq Nodes
    BY <2>1, <2>2, <2>3, AncestorsEquation
  <2>5. CASE Kind(m) = "FUNCTION_DECL"
    BY <2>1, <2>4, <2>5
  <2>6. CASE Kind(m) \in Inside
    <3>1. tree[m].up \in Nodes /\ Kind(tree[m].up) \in Inside \cup {"FUNCTION_DECL"}
      BY <2>6 DEF TreeOK, Under
    <3> QED
      BY <2>1, <2>3, <2>4, <3>1
  <2> QED
    BY <2>4, <2>5, <2>6
<1>2. Nodes \subseteq P
  <2> HIDE DEF P
  <2> QED
    BY <1>1, FromParents
<1>3. n \in P /\ Kind(n) \in Inside
  BY <1>2 DEF OfKind
<1>4. Ancestors[n] \subseteq Nodes /\ \E f \in Ancestors[n] : Kind(f) = "FUNCTION_DECL"
  BY <1>3
<1> QED
  BY <1>4 DEF FunctionAround, OfKind


(* The type checker runs on trees in which every node has its children. *)
TreeComplete == \A n \in Nodes : Arity(n) >= Needs(n)

LEMMA SidesComeLater ==
  ASSUME TreeOK, TreeComplete, NEW o \in Nodes \X Type, Kind(o[1]) = "BINARY_EXPR",
         NEW k \in 1 .. 2
  PROVE  /\ Side(o, k) \in Nodes \X Type
         /\ o[1] < Side(o, k)[1]
         /\ tree[Side(o, k)[1]].up = o[1]
<1>1. o[1] \in Nodes /\ o[2] \in Type /\ "NUMBER" \in Type
  BY DEF Type
<1>2. Arity(o[1]) \in Nat /\ Arity(o[1]) >= 2
  BY <1>1, ChildrenAreFinite DEF TreeComplete, Needs
<1>3. k \in 1 .. Arity(o[1])
  BY <1>2
<1>4. Child(o[1], k) \in Nodes /\ tree[Child(o[1], k)].up = o[1] /\ o[1] < Child(o[1], k)
  BY <1>1, <1>3, ChildIsChild
<1> QED
  BY <1>1, <1>4 DEF Side

LEMMA OperandsEquation ==
  ASSUME TreeOK, TreeComplete, NEW o \in Nodes \X Type
  PROVE  Operands[o] = IF Kind(o[1]) # "BINARY_EXPR" \/ o[1] \in DOMAIN mNodeTypes THEN {o}
                       ELSE Operands[Side(o, 1)] \cup Operands[Side(o, 2)]
<1> DEFINE S == Nodes \X Type
           V == SUBSET S
           Whole(p) == Kind(p[1]) # "BINARY_EXPR" \/ p[1] \in DOMAIN mNodeTypes
           rank == [p \in S |-> Len(tree) - p[1]]
           G == [q \in [S -> V] \X S |->
                   IF Whole(q[2]) THEN {q[2]} ELSE q[1][Side(q[2], 1)] \cup q[1][Side(q[2], 2)]]
<1>1. Len(tree) \in Nat /\ \A p \in S : p[1] \in 1 .. Len(tree)
  BY NodesAreNumbered
<1>2. V # {} /\ rank \in [S -> 0 .. Len(tree)]
  <2>1. \A p \in S : Len(tree) - p[1] \in 0 .. Len(tree)
    BY <1>1
  <2> HIDE DEF S
  <2> QED
    BY <2>1
<1>3. ASSUME NEW p \in S, ~Whole(p)
      PROVE  /\ Side(p, 1) \in S /\ Side(p, 2) \in S
             /\ rank[Side(p, 1)] < rank[p] /\ rank[Side(p, 2)] < rank[p]
  <2>1. 1 \in 1 .. 2 /\ 2 \in 1 .. 2
    OBVIOUS
  <2>2. /\ Side(p, 1) \in S /\ p[1] < Side(p, 1)[1]
        /\ Side(p, 2) \in S /\ p[1] < Side(p, 2)[1]
    BY <1>3, <2>1, SidesComeLater
  <2>3. /\ rank[Side(p, 1)] = Len(tree) - Side(p, 1)[1]
        /\ rank[Side(p, 2)] = Len(tree) - Side(p, 2)[1]
        /\ rank[p] = Len(tree) - p[1]
    BY <2>2
  <2>4. p[1] \in Nat /\ Side(p, 1)[1] \in Nat /\ Side(p, 2)[1] \in Nat
    BY <1>1, <2>2
  <2> HIDE DEF rank, S
  <2> QED
    BY <1>1, <2>2, <2>3, <2>4
<1>4. G \in [[S -> V] \X S -> V]
  <2>1. ASSUME NEW q \in [S -> V] \X S
        PROVE  (IF Whole(q[2]) THEN {q[2]} ELSE q[1][Side(q[2], 1)] \cup q[1][Side(q[2], 2)]) \in V
    <3>1. q[2] \in S /\ q[1] \in [S -> V]
      OBVIOUS
    <3>2. ~Whole(q[2]) => Side(q[2], 1) \in S /\ Side(q[2], 2) \in S
      BY <1>3, <3>1
    <3> HIDE DEF S, Whole
    <3> QED
      BY <3>1, <3>2
  <2> HIDE DEF S, V, Whole
  <2> QED
    BY <2>1
<1>5. ASSUME NEW s \in S, NEW f \in [S -> V], NEW g \in [S -> V],
             \A r \in S : rank[r] < rank[s] => f[r] = g[r]
      PROVE  G[<<f, s>>] = G[<<g, s>>]
  <2>1. ~Whole(s) => f[Side(s, 1)] = g[Side(s, 1)] /\ f[Side(s, 2)] = g[Side(s, 2)]
    <3> HIDE DEF S, V, rank, Whole
    <3> QED
      BY <1>3, <1>5
  <2> HIDE DEF S, V, rank, Whole
  <2> QED
    BY <2>1
<1>6. \E f \in [S -> V] : \A s \in S : f[s] = G[<<f, s>>]
  <2> HIDE DEF S, V, rank, G
  <2>1. \A s \in S : \A f, g \in [S -> V] :
          (\A r \in S : rank[r] < rank[s] => f[r] = g[r]) => G[<<f, s>>] = G[<<g, s>>]
    BY <1>5, Zenon
  <2>2. IsRecursion(S, V, Len(tree), rank, G)
    BY <1>1, <1>2, <1>4, <2>1 DEF IsRecursion
  <2> QED
    BY <2>2, RecursionHasSolution
<1>7. PICK f \in [S -> V] : \A s \in S : f[s] = G[<<f, s>>]
  BY <1>6
<1>8. \A s \in S : G[<<f, s>>] = IF Whole(s) THEN {s} ELSE f[Side(s, 1)] \cup f[Side(s, 2)]
  <2> HIDE DEF S, V, Whole
  <2> QED
    OBVIOUS
<1>9. f = [p \in S |-> IF Whole(p) THEN {p} ELSE f[Side(p, 1)] \cup f[Side(p, 2)]]
  <2> HIDE DEF S, V, Whole, G
  <2> QED
    BY <1>7, <1>8
<1>10. Operands = [p \in Nodes \X Type |->
                     IF Kind(p[1]) # "BINARY_EXPR" \/ p[1] \in DOMAIN mNodeTypes THEN {p}
                     ELSE Operands[Side(p, 1)] \cup Operands[Side(p, 2)]]
  <2> HIDE DEF V, rank, G
  <2> QED
    BY <1>9, Zenon DEF Operands
<1> QED
  BY <1>10, Zenon

IsSide(e) == \E b \in OfKind("BINARY_EXPR"), k \in 1 .. 2 : e = Child(b, k)

(* An operand is a node of the tree, the one asked about or one side of a   *)
(* binary expression, and it is not opened up itself.  What holds the one    *)
(* asked about and, with an expression, its children, holds the operands.    *)
LEMMA OperandsInside ==
  ASSUME TreeOK, TreeComplete, NEW W, \A b \in W \cap OfKind("BINARY_EXPR") : Children(b) \subseteq W,
         NEW n \in Nodes, NEW t \in Type
  PROVE  \A o \in Operands[<<n, t>>] :
            /\ o \in Nodes \X Type
            /\ o[1] = n \/ (Under(o[1], {"BINARY_EXPR"}) /\ IsSide(o[1]))
            /\ Kind(o[1]) # "BINARY_EXPR" \/ o[1] \in DOMAIN mNodeTypes
            /\ n \in W => o[1] \in W
<1> DEFINE Good(m, p) == /\ p \in Nodes \X Type
                         /\ p[1] = m \/ (Under(p[1], {"BINARY_EXPR"}) /\ IsSide(p[1]))
                         /\ Kind(p[1]) # "BINARY_EXPR" \/ p[1] \in DOMAIN mNodeTypes
                         /\ m \in W => p[1] \in W
           P == {m \in Nodes : \A s \in Type : \A p \in Operands[<<m, s>>] : Good(m, p)}
<1>1. ASSUME NEW m \in Nodes, \A l \in Nodes : m < l => l \in P PROVE m \in P
  <2> SUFFICES ASSUME NEW s \in Type, NEW p \in Operands[<<m, s>>] PROVE Good(m, p)
    OBVIOUS
  <2> DEFINE o == <<m, s>>
  <2>1. o \in Nodes \X Type /\ o[1] = m
    OBVIOUS
  <2>2. CASE Kind(m) # "BINARY_EXPR" \/ m \in DOMAIN mNodeTypes
    <3>1. Operands[o] = {o}
      BY <2>1, <2>2, OperandsEquation
    <3> QED
      BY <2>1, <2>2, <3>1
  <2>3. CASE ~(Kind(m) # "BINARY_EXPR" \/ m \in DOMAIN mNodeTypes)
    <3>1. Operands[o] = Operands[Side(o, 1)] \cup Operands[Side(o, 2)]
      BY <2>1, <2>3, OperandsEquation
    <3>2. PICK k \in 1 .. 2 : p \in Operands[Side(o, k)]
      <4>1. p \in Operands[Side(o, 1)] \/ p \in Operands[Side(o, 2)]
        BY <3>1
      <4>2. 1 \in 1 .. 2 /\ 2 \in 1 .. 2
        OBVIOUS
      <4> QED
        BY <4>1, <4>2, Zenon
    <3>3. /\ Side(o, k) \in Nodes \X Type
          /\ m < Side(o, k)[1]
          /\ tree[Side(o, k)[1]].up = m
      BY <2>1, <2>3, SidesComeLater
    <3> DEFINE l == Side(o, k)[1]
               r == Side(o, k)[2]
    <3>4. Side(o, k) = <<l, r>> /\ l \in Nodes /\ r \in Type
      BY <3>3
    <3>5. l \in P
      BY <1>1, <3>3, <3>4
    <3>6. Good(l, p)
      <4> HIDE DEF l, r, o
      <4> QED
        BY <3>2, <3>4, <3>5
    <3>7. Under(l, {"BINARY_EXPR"}) /\ IsSide(l)
      <4>1. l = Child(m, k) /\ m \in OfKind("BINARY_EXPR")
        BY <2>3 DEF Side, OfKind
      <4> QED
        BY <2>3, <3>3, <4>1 DEF Under, IsSide
    <3>8. m \in W => l \in W
      <4>1. l \in Children(m) /\ m \in OfKind("BINARY_EXPR")
        BY <2>3, <3>3, <3>4 DEF Children, OfKind
      <4> HIDE DEF l
      <4> QED
        BY <4>1
    <3> QED
      BY <3>6, <3>7, <3>8
  <2> QED
    BY <2>2, <2>3
<1>2. Nodes \subseteq P
  <2> HIDE DEF P
  <2> QED
    BY <1>1, FromChildren
<1> QED
  BY <1>2

LEMMA OperandsAreSides ==
  ASSUME TreeOK, TreeComplete, NEW n \in Nodes, NEW t \in Type
  PROVE  \A o \in Operands[<<n, t>>] :
            /\ o \in Nodes \X Type
            /\ o[1] = n \/ Under(o[1], {"BINARY_EXPR"})
<1>1. \A b \in Nodes \cap OfKind("BINARY_EXPR") : Children(b) \subseteq Nodes
  BY DEF Children
<1> QED
  BY <1>1, OperandsInside

----------------------------------------------------------------------------
(* The collector. *)

LEMMA ShapeType ==
  ASSUME source \in Sources, NEW shape \in source.shapes
  PROVE  /\ shape.kind \in NodeKind
         /\ shape.name \in STRING
         /\ shape.type \in Type \cup {""}
         /\ shape.size \in Nat
         /\ shape.params \in Seq(ParamShape)
         /\ shape.kind \in {"FUNCTION_DECL", "VAR_DECL"} => shape.type \in Type
<1>1. shape \in NodeShape
  BY SourcesAssumption
<1>2. shape.kind \in {"FUNCTION_DECL", "VAR_DECL"} => shape.type \in Type
  BY SourcesAssumption
<1> QED
  BY <1>1, <1>2 DEF NodeShape

LEMMA NodeOfType ==
  ASSUME NEW shape, shape.kind \in NodeKind, shape.name \in STRING \cup {""},
         shape.type \in Type \cup {""}, shape.size \in Nat, NEW up \in Nat
  PROVE  NodeOf(shape, up) \in Node
BY DEF NodeOf, Node

(* What entering a node adds to the tree. *)
LEMMA GrownTree ==
  ASSUME TreeOK, OpenOK, source \in Sources, NEW shape \in source.shapes, EnterNew(shape)
  PROVE  /\ tree' \in Seq(Node)
         /\ Here \in Nat /\ Here \in Nodes' /\ Here \notin Nodes
         /\ tree'[Here] = NodeOf(shape, Head(open))
         /\ Head(open) \in Nodes /\ Head(open) < Here
         /\ Nodes \subseteq Nodes'
         /\ \A n \in Nodes : tree'[n] = tree[n] /\ n < Here
         /\ \A n \in Nodes' \ (Nodes \cup {Here}) :
              /\ shape.kind = "FUNCTION_DECL" /\ Here < n
              /\ tree'[n].up \in {Here, Here + 1} /\ tree'[n].up < n
              /\ tree'[n].kind \in {"PARAM_VAR_DECL", "VAR_DECL"}
              /\ tree'[n].kind = "VAR_DECL" => tree'[n].type \in Type
         /\ shape.kind = "FUNCTION_DECL" =>
              /\ tree'[Here + 1].kind = "PARAM_VAR_DECL"
              /\ \A k \in DOMAIN shape.params :
                   Here + 1 + k \in Nodes' /\ tree'[Here + 1 + k].kind = "VAR_DECL"
<1> DEFINE top == NodeOf(shape, Head(open))
           first == NodeOf(Plain("PARAM_VAR_DECL"), Here)
           params == [k \in 1 .. Len(shape.params) |-> NodeOf(shape.params[k], Here + 1)]
           rest == IF shape.kind = "FUNCTION_DECL" THEN <<first>> \o params ELSE <<>>
<1>1. /\ tree' = Append(tree, top) \o rest
      /\ Here = Len(tree) + 1 /\ Len(tree) \in Nat /\ Nodes = 1 .. Len(tree)
      /\ tree \in Seq(Node)
  BY NodesAreNumbered DEF EnterNew, Grown, Here, TreeOK
<1>2. Head(open) \in Nodes /\ Head(open) < Here
  <2>1. open \in Seq(Nodes) /\ open # <<>>
    BY DEF OpenOK, EnterNew, NextOf
  <2>2. Head(open) \in Nodes
    BY <2>1
  <2> QED
    BY <1>1, <2>2
<1>3. top \in Node
  <2>1. Head(open) \in Nat
    BY <1>1, <1>2
  <2> QED
    BY <2>1, ShapeType, NodeOfType
<1>4. /\ first \in Node /\ first.up = Here /\ first.kind = "PARAM_VAR_DECL"
  <2>1. Here \in Nat
    BY <1>1
  <2>2. "PARAM_VAR_DECL" \in NodeKind
    BY DEF NodeKind, Decls
  <2> QED
    BY <2>1, <2>2 DEF NodeOf, Node, Plain, Shape
<1>5. /\ Len(shape.params) \in Nat /\ DOMAIN shape.params = 1 .. Len(shape.params)
      /\ \A k \in 1 .. Len(shape.params) : shape.params[k] \in ParamShape
  <2>1. shape.params \in Seq(ParamShape)
    BY ShapeType
  <2> HIDE DEF top, first, params, rest
  <2> QED
    BY <2>1
<1>6. ASSUME NEW k \in 1 .. Len(shape.params)
      PROVE  /\ params[k] \in Node
             /\ params[k].up = Here + 1 /\ params[k].kind = "VAR_DECL" /\ params[k].type \in Type
  <2>1. shape.params[k] \in ParamShape
    BY <1>5
  <2>2. "VAR_DECL" \in NodeKind /\ Here + 1 \in Nat
    BY <1>1 DEF NodeKind, Decls
  <2> QED
    BY <2>1, <2>2 DEF ParamShape, NodeOf, Node
<1>7. params \in Seq(Node) /\ Len(params) = Len(shape.params)
  <2>1. params = [k \in 1 .. Len(shape.params) |-> params[k]]
    OBVIOUS
  <2>2. \A k \in 1 .. Len(shape.params) : params[k] \in Node
    BY <1>6
  <2> HIDE DEF params
  <2>3. params \in [1 .. Len(shape.params) -> Node] /\ Len(shape.params) \in Nat
    BY <1>5, <2>1, <2>2
  <2> QED
    BY <2>3
<1> HIDE DEF top, first, params
<1>8. rest \in Seq(Node)
  BY <1>4, <1>7
<1>9. ASSUME NEW j \in 1 .. Len(rest)
      PROVE  /\ shape.kind = "FUNCTION_DECL"
             /\ j = 1 => rest[j] = first
             /\ j # 1 => j - 1 \in 1 .. Len(shape.params) /\ rest[j] = params[j - 1]
  <2>1. shape.kind = "FUNCTION_DECL" /\ rest = <<first>> \o params
    OBVIOUS
  <2> QED
    BY <2>1, <1>4, <1>5, <1>7
<1>10. shape.kind = "FUNCTION_DECL" => Len(rest) = 1 + Len(shape.params)
  BY <1>4, <1>5, <1>7
<1> HIDE DEF rest
<1>11. /\ tree' \in Seq(Node) /\ Len(tree') = Here + Len(rest) /\ Len(rest) \in Nat
       /\ \A n \in 1 .. Len(tree) : tree'[n] = tree[n]
       /\ tree'[Here] = top
       /\ \A j \in 1 .. Len(rest) : tree'[Here + j] = rest[j]
  BY <1>1, <1>3, <1>8
<1>12. Nodes' = 1 .. Here + Len(rest)
  BY <1>11 DEF Nodes
<1>13. ASSUME NEW n \in Nodes' \ (Nodes \cup {Here})
       PROVE  /\ shape.kind = "FUNCTION_DECL" /\ Here < n
              /\ tree'[n].up \in {Here, Here + 1} /\ tree'[n].up < n
              /\ tree'[n].kind \in {"PARAM_VAR_DECL", "VAR_DECL"}
              /\ tree'[n].kind = "VAR_DECL" => tree'[n].type \in Type
  <2>1. n \in Nat /\ Here < n /\ n - Here \in 1 .. Len(rest) /\ Here \in Nat
    BY <1>1, <1>11, <1>12
  <2>2. tree'[n] = rest[n - Here] /\ shape.kind = "FUNCTION_DECL"
    <3>1. Here + (n - Here) = n
      BY <2>1
    <3> QED
      BY <1>9, <1>11, <2>1, <3>1
  <2>3. CASE n - Here = 1
    BY <1>4, <1>9, <2>1, <2>2, <2>3
  <2>4. CASE n - Here # 1
    <3>1. n - Here - 1 \in 1 .. Len(shape.params) /\ tree'[n] = params[n - Here - 1]
      BY <1>9, <2>1, <2>2, <2>4
    <3>2. /\ tree'[n].up = Here + 1 /\ tree'[n].kind = "VAR_DECL" /\ tree'[n].type \in Type
      BY <1>6, <3>1
    <3> QED
      BY <2>1, <2>2, <2>4, <3>2
  <2> QED
    BY <2>3, <2>4
<1>14. ASSUME shape.kind = "FUNCTION_DECL", NEW k \in DOMAIN shape.params
       PROVE  Here + 1 + k \in Nodes' /\ tree'[Here + 1 + k].kind = "VAR_DECL"
  <2>1. k \in 1 .. Len(shape.params) /\ k + 1 \in 1 .. Len(rest) /\ k \in Nat
    BY <1>5, <1>10, <1>14
  <2>2. k + 1 # 1 /\ k + 1 - 1 = k /\ Here + (k + 1) = Here + 1 + k
    <3>1. Here \in Nat /\ k \in Nat /\ k # 0
      BY <1>1, <2>1
    <3> QED
      BY <3>1
  <2>3. rest[k + 1] = params[k]
    BY <1>9, <2>1, <2>2
  <2>4. tree'[Here + 1 + k] = params[k]
    BY <1>11, <2>1, <2>2, <2>3
  <2>5. Here + 1 + k \in 1 .. Here + Len(rest)
    BY <1>1, <1>11, <2>1
  <2> QED
    BY <1>6, <1>12, <2>1, <2>4, <2>5
<1>15. Here \in Nat /\ Here \in Nodes' /\ Here \notin Nodes /\ Nodes \subseteq Nodes'
  BY <1>1, <1>11, <1>12
<1>16. \A n \in Nodes : tree'[n] = tree[n] /\ n < Here
  BY <1>1, <1>11
<1>17. shape.kind = "FUNCTION_DECL" => tree'[Here + 1].kind = "PARAM_VAR_DECL"
  BY <1>4, <1>5, <1>9, <1>10, <1>11
<1> QED
  BY <1>2, <1>11, <1>13, <1>14, <1>15, <1>16, <1>17 DEF top


LEMMA EnteredNode ==
  ASSUME TreeOK, OpenOK, source \in Sources, NEW shape \in source.shapes, EnterNew(shape)
  PROVE  /\ tree'[Here].kind = shape.kind
         /\ tree'[Here].name = shape.name
         /\ tree'[Here].type = shape.type
         /\ tree'[Here].up = Head(open)
<1>1. tree'[Here] = NodeOf(shape, Head(open))
  BY GrownTree
<1> QED
  BY <1>1 DEF NodeOf

LEMMA EnterKeepsTree ==
  ASSUME TreeOK, OpenOK, source \in Sources, NEW shape \in source.shapes, EnterNew(shape)
  PROVE  TreeOK'
<1>1. shape.kind \in Takes(Head(open), Arity(Head(open)) + 1)
  BY DEF EnterNew, NextOf
<1>2. tree'[Here].kind = shape.kind /\ tree'[Here].type = shape.type /\ tree'[Here].up = Head(open)
  BY EnteredNode
<1>3. /\ tree'[Head(open)] = tree[Head(open)] /\ Head(open) \in Nodes /\ Head(open) \in Nodes'
      /\ Head(open) < Here
  BY GrownTree
<1>4. shape.kind \in {"RETURN_STMT", "IF_STMT", "WHILE_STMT"} =>
        tree[Head(open)].kind = "COMPOUND_STMT"
  BY <1>1 DEF Takes, Exprs, Stmts, Kind
<1>5. shape.kind = "COMPOUND_STMT" =>
        tree[Head(open)].kind \in {"FUNCTION_DECL", "IF_STMT", "WHILE_STMT"}
  BY <1>1 DEF Takes, Exprs, Stmts, Kind
<1>6. ASSUME NEW n \in Nodes'
      PROVE  /\ tree'[n].up < n
             /\ tree'[n].kind \in {"FUNCTION_DECL", "VAR_DECL"} => tree'[n].type \in Type
             /\ tree'[n].kind \in {"RETURN_STMT", "IF_STMT", "WHILE_STMT"} =>
                  tree'[n].up \in Nodes' /\ tree'[tree'[n].up].kind = "COMPOUND_STMT"
             /\ tree'[n].kind = "COMPOUND_STMT" =>
                  /\ tree'[n].up \in Nodes'
                  /\ tree'[tree'[n].up].kind \in {"FUNCTION_DECL", "IF_STMT", "WHILE_STMT"}
  <2>1. CASE n \in Nodes
    <3>1. tree'[n] = tree[n] /\ tree[n].up < n
      BY <2>1, GrownTree DEF TreeOK
    <3>2. \A m \in Nodes : tree'[m] = tree[m] /\ m \in Nodes'
      BY GrownTree
    <3> QED
      BY <2>1, <3>1, <3>2 DEF TreeOK, Under, Kind
  <2>2. CASE n = Here
    <3>1. shape.kind \in {"FUNCTION_DECL", "VAR_DECL"} => shape.type \in Type
      BY ShapeType
    <3> QED
      BY <2>2, <1>2, <1>3, <1>4, <1>5, <3>1
  <2>3. CASE n \in Nodes' \ (Nodes \cup {Here})
    BY <2>3, GrownTree
  <2> QED
    BY <2>1, <2>2, <2>3
<1> QED
  BY <1>6, GrownTree DEF TreeOK, Under, Kind, Nodes

LEMMA ChildrenGrow ==
  ASSUME TreeOK, TreeOK', Nodes \subseteq Nodes', \A i \in Nodes : tree'[i] = tree[i], NEW n
  PROVE  /\ Children(n) \subseteq Children(n)'
         /\ Arity(n) \in Nat /\ Arity(n)' \in Nat
         /\ Arity(n) <= Arity(n)'
<1>1. Children(n) \subseteq Children(n)'
  BY DEF Children
<1>2. IsFiniteSet(Children(n)')
  <2>1. Children(n)' \subseteq Nodes'
    BY DEF Children
  <2>2. IsFiniteSet(Nodes')
    <3>1. Len(tree') \in Nat /\ Nodes' = 1 .. Len(tree')
      BY DEF TreeOK, Nodes
    <3> QED
      BY <3>1, FS_Interval
  <2> QED
    BY <2>1, <2>2, FS_Subset
<1>3. Arity(n) = Cardinality(Children(n)) /\ Arity(n)' = Cardinality(Children(n)')
  BY DEF Arity
<1>4. Cardinality(Children(n)') \in Nat
  BY <1>2, FS_CardinalityType
<1>5. Cardinality(Children(n)) <= Cardinality(Children(n)')
  BY <1>1, <1>2, FS_Subset
<1> QED
  BY <1>1, <1>3, <1>4, <1>5, ChildrenAreFinite

LEMMA EnterKeepsOpen ==
  ASSUME TreeOK, OpenOK, source \in Sources, NEW shape \in source.shapes, EnterNew(shape)
  PROVE  OpenOK'
<1>1. TreeOK'
  BY EnterKeepsTree
<1>2. open \in Seq(Nodes) /\ Here \in Nodes' /\ Nodes \subseteq Nodes'
  BY GrownTree DEF OpenOK
<1>3. /\ shape.kind \in Leaves => open' = open
      /\ shape.kind \notin Leaves => open' = <<Here>> \o open
  BY DEF EnterNew
<1>4. /\ open' \in Seq(Nodes')
      /\ \A i \in DOMAIN open : \E j \in DOMAIN open' : open'[j] = open[i]
      /\ shape.kind \notin Leaves => \E j \in DOMAIN open' : open'[j] = Here
  <2>1. open \in Seq(Nodes')
    BY <1>2
  <2>2. CASE shape.kind \in Leaves
    BY <2>1, <2>2, <1>3
  <2>3. CASE shape.kind \notin Leaves
    <3>1. /\ open' = <<Here>> \o open
          /\ Len(open) \in Nat /\ DOMAIN open = 1 .. Len(open)
      BY <2>1, <2>3, <1>3
    <3>2. /\ open' \in Seq(Nodes') /\ Len(open') = Len(open) + 1
          /\ DOMAIN open' = 1 .. Len(open) + 1
          /\ open'[1] = Here /\ \A i \in 1 .. Len(open) : open'[i + 1] = open[i]
      BY <2>1, <3>1, <1>2
    <3>3. \A i \in 1 .. Len(open) : i + 1 \in DOMAIN open'
      BY <3>1, <3>2
    <3>4. 1 \in DOMAIN open'
      BY <3>1, <3>2
    <3> QED
      BY <3>1, <3>2, <3>3, <3>4
  <2> QED
    BY <2>2, <2>3
<1>5. ASSUME NEW n \in Nodes'
      PROVE  (\E j \in DOMAIN open' : open'[j] = n) \/ Arity(n)' >= Needs(n)'
  <2>a. Arity(n)' \in Nat /\ Arity(n) \in Nat /\ Arity(n) <= Arity(n)'
    BY <1>1, <1>2, GrownTree, ChildrenGrow
  <2>1. CASE n \in Nodes
    <3>1. Needs(n)' = Needs(n) /\ Needs(n) \in Nat
      <4>1. tree'[n] = tree[n]
        BY <2>1, GrownTree
      <4> QED
        BY <4>1 DEF Needs, Kind
    <3>2. (\E i \in DOMAIN open : open[i] = n) \/ Arity(n) >= Needs(n)
      BY <2>1 DEF OpenOK
    <3> QED
      BY <1>4, <2>a, <3>1, <3>2
  <2>2. CASE n = Here
    <3>1. Needs(n)' = 0 \/ shape.kind \notin Leaves
      <4>1. tree'[n].kind = shape.kind
        BY <2>2, EnteredNode
      <4> QED
        BY <4>1 DEF Needs, Kind, Leaves
    <3> QED
      BY <1>4, <2>a, <2>2, <3>1
  <2>3. CASE n \in Nodes' \ (Nodes \cup {Here})
    <3>1. tree'[n].kind \in {"PARAM_VAR_DECL", "VAR_DECL"}
      BY <2>3, GrownTree
    <3>2. Needs(n)' = 0
      BY <3>1 DEF Needs, Kind
    <3> QED
      BY <2>a, <3>2
  <2> QED
    BY <2>1, <2>2, <2>3
<1> QED
  BY <1>4, <1>5 DEF OpenOK

LEMMA LeaveKeepsOpen ==
  ASSUME TreeOK, OpenOK, LeaveNew
  PROVE  TreeOK' /\ OpenOK'
<1>1. open \in Seq(Nodes) /\ open # <<>> /\ open' = Tail(open) /\ tree' = tree
  BY DEF OpenOK, LeaveNew, Complete
<1>2. /\ open' \in Seq(Nodes) /\ Len(open) \in Nat /\ Len(open) # 0
      /\ DOMAIN open = 1 .. Len(open) /\ DOMAIN open' = 1 .. Len(open) - 1
      /\ \A j \in 1 .. Len(open) - 1 : open'[j] = open[j + 1]
      /\ Head(open) = open[1]
  BY <1>1
<1>3. \A i \in DOMAIN open : i = 1 \/ (i - 1 \in DOMAIN open' /\ open'[i - 1] = open[i])
  <2>1. ASSUME NEW i \in DOMAIN open, i # 1
        PROVE  i - 1 \in 1 .. Len(open) - 1 /\ i - 1 + 1 = i
    BY <1>2, <2>1
  <2> QED
    BY <1>2, <2>1
<1>4. Arity(Head(open)) >= Needs(Head(open))
  BY DEF LeaveNew, Complete
<1>5. \A n \in Nodes : (\E j \in DOMAIN open' : open'[j] = n) \/ Arity(n) >= Needs(n)
  <2> SUFFICES ASSUME NEW n \in Nodes, ~(Arity(n) >= Needs(n))
               PROVE  \E j \in DOMAIN open' : open'[j] = n
    OBVIOUS
  <2>1. PICK i \in DOMAIN open : open[i] = n
    BY DEF OpenOK
  <2>2. i # 1
    BY <1>2, <1>4, <2>1
  <2> QED
    BY <1>3, <2>1, <2>2
<1> QED
  BY <1>1, <1>2, <1>5 DEF TreeOK, OpenOK, Under, Kind, Nodes, Arity, Children, Needs


(* What a step of the collector may do to the table. *)
TableStep(shape) ==
  /\ DOMAIN mTable \subseteq DOMAIN mTable'
  /\ \A d \in DOMAIN mTable : mTable'[d] = mTable[d]
  /\ \A d \in DOMAIN mTable' \ DOMAIN mTable :
       /\ d \in Nodes' /\ d \notin Nodes
       /\ mTable'[d].mIsFunction <=> tree'[d].kind = "FUNCTION_DECL"
       /\ tree'[d].kind = "FUNCTION_DECL" =>
            /\ mTable'[d].mType \in Seq(Type) /\ mTable'[d].mType # <<>>
            /\ Head(mTable'[d].mType) = tree'[d].type
  /\ mErrorCount' \in Nat
  /\ mErrorCount' = 0 =>
       mErrorCount = 0 /\ (shape.kind = "FUNCTION_DECL" => Here \in DOMAIN mTable')

(* The table grows with the tree. *)
LEMMA TableGrows ==
  ASSUME IInv, pass = "collecting", pass' = pass,
         NEW shape \in source.shapes, EnterNew(shape), TableStep(shape)
  PROVE  IInv'
<1> USE DEF TableStep
<1>1. TreeOK' /\ OpenOK' /\ source' \in Sources
  BY EnterKeepsTree, EnterKeepsOpen DEF IInv, EnterNew
<1>2. \A n \in Nodes : tree'[n] = tree[n] /\ n \in Nodes'
  BY GrownTree DEF IInv
<1>3. DOMAIN mTable' \subseteq Nodes'
  BY <1>2 DEF IInv, TableOK
<1>4. ASSUME NEW d \in DOMAIN mTable', tree'[d].kind = "FUNCTION_DECL" PROVE FunctionEntry(d)'
  <2>1. CASE d \in DOMAIN mTable
    <3>1. mTable'[d] = mTable[d] /\ FunctionEntry(d)
      BY <2>1, <1>2, <1>4 DEF IInv, TableOK, Kind
    <3> QED
      BY <3>1 DEF FunctionEntry
  <2>2. CASE d \notin DOMAIN mTable
    BY <1>4, <2>2 DEF FunctionEntry
  <2> QED
    BY <2>1, <2>2
<1>5. ASSUME mErrorCount' = 0, NEW f \in Nodes', tree'[f].kind = "FUNCTION_DECL"
      PROVE  f \in DOMAIN mTable'
  <2>1. CASE f \in Nodes
    BY <2>1, <1>2, <1>5 DEF IInv, TableOK, OfKind, Kind
  <2>2. CASE f = Here
    BY <2>2, <1>5, EnteredNode DEF IInv
  <2>3. CASE f \in Nodes' \ (Nodes \cup {Here})
    BY <2>3, <1>5, GrownTree DEF IInv
  <2> QED
    BY <2>1, <2>2, <2>3
<1>6. TableOK'
  BY <1>3, <1>4, <1>5 DEF TableOK, OfKind, Kind
<1>7. CheckOK' /\ PassedCallsAreResolved'
  BY DEF CheckOK, PassedCallsAreResolved, Passed
<1> QED
  BY <1>1, <1>6, <1>7 DEF IInv

LEMMA TableStays ==
  ASSUME IInv, NEW shape, shape.kind # "FUNCTION_DECL", mTable' = mTable,
         mErrorCount' \in {mErrorCount, mErrorCount + 1}
  PROVE  TableStep(shape)
<1>1. mErrorCount' \in Nat /\ (mErrorCount' = 0 => mErrorCount = 0)
  BY DEF IInv
<1> QED
  BY <1>1 DEF TableStep

LEMMA FunctionIsFiled ==
  ASSUME IInv, NEW shape \in source.shapes, CollectFunctionDecl(shape)
  PROVE  TableStep(shape)
<1> DEFINE types == <<shape.type>> \o [k \in DOMAIN shape.params |-> shape.params[k].type]
           fnSym == FunctionSymbol(types, shape.name)
           Param(k) == VariableSymbol(shape.params[k].type, mCurrentScopeID + 1,
                                      shape.params[k].name, shape.params[k].size)
           table == AddSymbol(mTable, Here, fnSym)
           clashes == {k \in DOMAIN shape.params :
                         \/ ~CanAddSymbol(table, Param(k))
                         \/ \E j \in 1..k - 1 : Redefines(Param(k), Param(j))}
           added == {Here + 1 + k : k \in DOMAIN shape.params \ clashes}
<1>1. /\ EnterNew(shape) /\ shape.kind = "FUNCTION_DECL"
      /\ mTable' = [d \in DOMAIN table \cup added |->
                      IF d \in added THEN Param(d - Here - 1) ELSE table[d]]
      /\ mErrorCount' = mErrorCount + (IF CanAddSymbol(mTable, fnSym) THEN 0 ELSE 1)
                                    + Cardinality(clashes)
  BY DEF CollectFunctionDecl
<1>2. shape.params \in Seq(ParamShape) /\ shape.type \in Type
  BY <1>1, ShapeType DEF IInv
<1>3. fnSym.mIsFunction /\ fnSym.mType = types
  BY DEF FunctionSymbol
<1>4. types \in Seq(Type) /\ types # <<>> /\ Head(types) = shape.type
  <2> DEFINE rest == [k \in DOMAIN shape.params |-> shape.params[k].type]
  <2>1. Len(shape.params) \in Nat /\ DOMAIN shape.params = 1 .. Len(shape.params)
    BY <1>2
  <2>2. \A k \in DOMAIN shape.params : shape.params[k].type \in Type
    <3>1. \A k \in DOMAIN shape.params : shape.params[k] \in ParamShape
      BY <1>2
    <3> QED
      BY <3>1 DEF ParamShape
  <2>3. rest \in [1 .. Len(shape.params) -> Type]
    BY <2>1, <2>2
  <2> HIDE DEF rest
  <2>4. rest \in Seq(Type)
    BY <2>1, <2>3
  <2>5. /\ <<shape.type>> \o rest \in Seq(Type) /\ <<shape.type>> \o rest # <<>>
        /\ Head(<<shape.type>> \o rest) = shape.type
    BY <1>2, <2>4
  <2> QED
    BY <2>5 DEF rest
<1>5. IsFiniteSet(clashes)
  <2>1. clashes \subseteq DOMAIN shape.params
    OBVIOUS
  <2>2. IsFiniteSet(DOMAIN shape.params)
    <3>1. Len(shape.params) \in Nat /\ DOMAIN shape.params = 1 .. Len(shape.params)
      BY <1>2
    <3> HIDE DEF clashes
    <3> QED
      BY <3>1, FS_Interval
  <2> HIDE DEF clashes
  <2> QED
    BY <2>1, <2>2, FS_Subset
<1>6. Cardinality(clashes) \in Nat
  <2> HIDE DEF clashes
  <2> QED
    BY <1>5, FS_CardinalityType
<1>7. /\ mErrorCount' \in Nat
      /\ mErrorCount' = 0 => mErrorCount = 0 /\ CanAddSymbol(mTable, fnSym)
  <2> HIDE DEF clashes, fnSym
  <2> QED
    BY <1>1, <1>6 DEF IInv
<1>8. \A k \in DOMAIN shape.params :
        /\ Here + 1 + k \in Nodes' /\ tree'[Here + 1 + k].kind = "VAR_DECL"
        /\ Here + 1 + k \notin Nodes /\ Here + 1 + k # Here
  <2>1. ASSUME NEW k \in DOMAIN shape.params PROVE Here < Here + 1 + k
    <3>1. k \in Nat
      BY <1>2
    <3> QED
      BY <3>1, <1>1, GrownTree DEF IInv
  <2>2. \A n \in Nodes : ~(Here < n) /\ ~(Here < Here)
    BY <1>1, GrownTree, NodesAreNumbered DEF IInv
  <2>3. ~(Here < Here)
    BY <1>1, GrownTree DEF IInv
  <2> QED
    BY <1>1, <2>1, <2>2, <2>3, GrownTree DEF IInv
<1>9. \A d \in added : d \in Nodes' /\ d \notin Nodes /\ d # Here /\ tree'[d].kind = "VAR_DECL"
  BY <1>8
<1>10. DOMAIN mTable \subseteq Nodes /\ Here \in Nodes' /\ Here \notin Nodes
  BY <1>1, GrownTree DEF IInv, TableOK
<1>11. /\ DOMAIN mTable \subseteq DOMAIN table
       /\ DOMAIN table \subseteq DOMAIN mTable \cup {Here}
       /\ \A d \in DOMAIN mTable : table[d] = mTable[d]
       /\ Here \in DOMAIN table => table[Here] = fnSym
       /\ CanAddSymbol(mTable, fnSym) => Here \in DOMAIN table
  <2> HIDE DEF fnSym
  <2> QED
    BY <1>10 DEF AddSymbol, With
<1>p. \A d \in added : mTable'[d].mIsFunction = FALSE
  <2> DEFINE Q(d) == Param(d - Here - 1)
  <2>1. \A d : Q(d).mIsFunction = FALSE
    BY DEF VariableSymbol
  <2>2. \A d \in added : mTable'[d] = Q(d)
    <3> HIDE DEF table, added
    <3> QED
      BY <1>1
  <2> HIDE DEF added, Q
  <2> QED
    BY <2>1, <2>2
<1> HIDE DEF table, fnSym, added, types
<1>12. /\ DOMAIN mTable \subseteq DOMAIN mTable'
       /\ \A d \in DOMAIN mTable : mTable'[d] = mTable[d]
       /\ \A d \in DOMAIN mTable' \ DOMAIN mTable : d \in added \/ d = Here
       /\ Here \in DOMAIN mTable' => mTable'[Here] = fnSym
       /\ CanAddSymbol(mTable, fnSym) => Here \in DOMAIN mTable'
  <2>1. /\ DOMAIN mTable' = DOMAIN table \cup added
        /\ \A d \in DOMAIN table \ added : mTable'[d] = table[d]
    BY <1>1
  <2> QED
    BY <2>1, <1>9, <1>10, <1>11
<1>13. ASSUME NEW d \in DOMAIN mTable' \ DOMAIN mTable
       PROVE  /\ d \in Nodes' /\ d \notin Nodes
              /\ mTable'[d].mIsFunction <=> tree'[d].kind = "FUNCTION_DECL"
              /\ tree'[d].kind = "FUNCTION_DECL" =>
                   /\ mTable'[d].mType \in Seq(Type) /\ mTable'[d].mType # <<>>
                   /\ Head(mTable'[d].mType) = tree'[d].type
  <2>1. CASE d \in added
    BY <2>1, <1>9, <1>p
  <2>2. CASE d = Here
    <3>1. mTable'[d] = fnSym
      BY <2>2, <1>12, <1>13
    <3>2. tree'[d].kind = "FUNCTION_DECL" /\ tree'[d].type = shape.type
      BY <2>2, <1>1, EnteredNode DEF IInv
    <3> QED
      BY <2>2, <3>1, <3>2, <1>3, <1>4, <1>10
  <2> QED
    BY <2>1, <2>2, <1>12
<1> QED
  BY <1>1, <1>7, <1>12, <1>13 DEF TableStep

LEMMA VariableIsFiled ==
  ASSUME IInv, NEW shape \in source.shapes, CollectVarDecl(shape)
  PROVE  TableStep(shape)
<1> DEFINE sym == VariableSymbol(shape.type, mCurrentScopeID, shape.name, shape.size)
<1>1. /\ shape.kind = "VAR_DECL" /\ EnterNew(shape)
      /\ mTable' = AddSymbol(mTable, Here, sym)
      /\ mErrorCount' = mErrorCount + IF CanAddSymbol(mTable, sym) THEN 0 ELSE 1
  BY DEF CollectVarDecl
<1>s. sym.mIsFunction = FALSE
  BY DEF VariableSymbol
<1> HIDE DEF sym
<1>2. mErrorCount' \in Nat /\ (mErrorCount' = 0 => mErrorCount = 0)
  BY <1>1 DEF IInv
<1>3. /\ DOMAIN mTable \subseteq Nodes /\ Here \in Nodes' /\ Here \notin Nodes
      /\ tree'[Here].kind = "VAR_DECL"
  BY <1>1, GrownTree, EnteredNode DEF IInv, TableOK
<1>4. /\ DOMAIN mTable \subseteq DOMAIN mTable'
      /\ DOMAIN mTable' \subseteq DOMAIN mTable \cup {Here}
      /\ \A d \in DOMAIN mTable : mTable'[d] = mTable[d]
      /\ Here \in DOMAIN mTable' => mTable'[Here] = sym
  BY <1>1, <1>3 DEF AddSymbol, With
<1> QED
  BY <1>1, <1>2, <1>3, <1>4, <1>s DEF TableStep

(* What it may do to the uses. *)
UseStep(shape) ==
  /\ \A i \in DOMAIN mUseDefs : i # Here => i \in DOMAIN mUseDefs' /\ mUseDefs'[i] = mUseDefs[i]
  /\ shape.kind = "IDENTIFIER_EXPR" /\ mErrorCount' = 0 =>
       /\ Here \in DOMAIN mUseDefs' /\ mUseDefs'[Here] \in DOMAIN mTable
       /\ mTable[mUseDefs'[Here]].mName = shape.name

LEMMA IdentifierIsTied ==
  ASSUME IInv, NEW shape \in source.shapes, CollectIdentifierExpr(shape)
  PROVE  UseStep(shape)
<1>1. CASE FoundOn(mCurrentScopesPath, shape.name) = {}
  <2>1. mErrorCount' = mErrorCount + 1 /\ mUseDefs' = mUseDefs
    BY <1>1 DEF CollectIdentifierExpr
  <2>2. mErrorCount' # 0
    BY <2>1 DEF IInv
  <2> QED
    BY <2>1, <2>2 DEF UseStep
<1>2. CASE FoundOn(mCurrentScopesPath, shape.name) # {}
  <2>1. PICK d \in FoundOn(mCurrentScopesPath, shape.name) : mUseDefs' = With(mUseDefs, Here, d)
    BY <1>2 DEF CollectIdentifierExpr
  <2>2. PICK scopeID : d \in NamedIn(scopeID, shape.name)
    BY Zenon DEF FoundOn
  <2>3. d \in DOMAIN mTable /\ mTable[d].mName = shape.name
    BY <2>2 DEF NamedIn
  <2>4. /\ Here \in DOMAIN mUseDefs' /\ mUseDefs'[Here] = d
        /\ \A i \in DOMAIN mUseDefs : i # Here => i \in DOMAIN mUseDefs' /\ mUseDefs'[i] = mUseDefs[i]
    BY <2>1 DEF With
  <2> QED
    BY <2>3, <2>4 DEF UseStep
<1> QED
  BY <1>1, <1>2

LEMMA CollectStep ==
  ASSUME IInv, Collect
  PROVE  /\ pass = "collecting" /\ pass' = pass
         /\ \E shape \in source.shapes :
              EnterNew(shape) /\ TableStep(shape) /\ UseStep(shape)
<1>1. PICK shape \in source.shapes :
        \/ CollectFunctionDecl(shape)
        \/ CollectVarDecl(shape)
        \/ CollectCallExpr(shape)
        \/ CollectIdentifierExpr(shape)
        \/ CollectCompoundStmt(shape)
        \/ CollectOther(shape)
  BY DEF Collect
<1>2. pass = "collecting" /\ pass' = pass /\ mErrorCount \in Nat
  BY DEF Collect, IInv
<1>3. CASE CollectFunctionDecl(shape)
  <2>1. EnterNew(shape) /\ shape.kind # "IDENTIFIER_EXPR" /\ mUseDefs' = mUseDefs
    BY <1>3 DEF CollectFunctionDecl
  <2> QED
    BY <1>2, <1>3, <2>1, FunctionIsFiled DEF UseStep
<1>4. CASE CollectVarDecl(shape)
  <2>1. EnterNew(shape) /\ shape.kind # "IDENTIFIER_EXPR" /\ mUseDefs' = mUseDefs
    BY <1>4 DEF CollectVarDecl
  <2> QED
    BY <1>2, <1>4, <2>1, VariableIsFiled DEF UseStep
<1>5. CASE CollectCallExpr(shape)
  <2>1. /\ shape.kind = "CALL_EXPR" /\ EnterNew(shape)
        /\ mTable' = mTable /\ mUseDefs' = mUseDefs
        /\ mErrorCount' = mErrorCount + IF IsFunctionNameValid(shape.name) THEN 0 ELSE 1
    BY <1>5 DEF CollectCallExpr
  <2>2. mErrorCount' \in {mErrorCount, mErrorCount + 1}
    BY <1>2, <2>1
  <2> QED
    BY <1>2, <2>1, <2>2, TableStays DEF UseStep
<1>6. CASE CollectIdentifierExpr(shape)
  <2>1. /\ shape.kind = "IDENTIFIER_EXPR" /\ EnterNew(shape) /\ mTable' = mTable
        /\ mErrorCount' \in {mErrorCount, mErrorCount + 1}
    BY <1>6 DEF CollectIdentifierExpr
  <2> QED
    BY <1>2, <1>6, <2>1, TableStays, IdentifierIsTied
<1>7. CASE CollectCompoundStmt(shape)
  BY <1>2, <1>7, TableStays DEF CollectCompoundStmt, UseStep
<1>8. CASE CollectOther(shape)
  BY <1>2, <1>8, TableStays DEF CollectOther, UseStep
<1> QED
  BY <1>1, <1>2, <1>3, <1>4, <1>5, <1>6, <1>7, <1>8

LEMMA CollectKeepsInvariant ==
  ASSUME IInv, Collect
  PROVE  IInv'
BY CollectStep, TableGrows

LEMMA ProgramNode == Program \in Node /\ Program.kind = "PROGRAM_DECL" /\ Program.up = 0
BY DEF Program, NodeOf, Node, Plain, Shape, NodeKind, Decls

LEMMA InitHasInvariant ==
  ASSUME Init
  PROVE  IInv
<1>1. tree = <<Program>> /\ open = <<1>> /\ mTable = <<>> /\ source \in Sources
  BY DEF Init
<1>2. Program \in Node /\ Program.kind = "PROGRAM_DECL" /\ Program.up = 0
  BY ProgramNode
<1>3. Nodes = {1} /\ tree[1] = Program /\ tree \in Seq(Node) /\ open[1] = 1
      /\ DOMAIN open = {1} /\ open \in Seq(Nodes)
  BY <1>1, <1>2 DEF Nodes
<1>4. TreeOK
  BY <1>2, <1>3 DEF TreeOK, Kind
<1>5. OpenOK
  BY <1>3 DEF OpenOK
<1>6. TableOK
  BY <1>1, <1>2, <1>3 DEF TableOK, OfKind, Kind
<1> QED
  BY <1>1, <1>4, <1>5, <1>6 DEF Init, IInv, CheckOK, PassedCallsAreResolved, Passed

LEMMA LeaveKeepsInvariant ==
  ASSUME IInv, Leave
  PROVE  IInv'
<1>1. /\ LeaveNew /\ pass = "collecting"
      /\ UNCHANGED <<source, tree, mTable, mErrorCount, pass>>
  BY DEF Leave, CollectLeave, LeaveNew
<1>2. TreeOK' /\ OpenOK'
  BY <1>1, LeaveKeepsOpen DEF IInv
<1>3. TableOK'
  BY <1>1 DEF IInv, TableOK, FunctionEntry, Nodes, OfKind, Kind
<1> QED
  BY <1>1, <1>2, <1>3 DEF IInv, CheckOK, PassedCallsAreResolved, Passed

LEMMA EndCollectingKeepsInvariant ==
  ASSUME IInv, EndCollecting
  PROVE  IInv'
<1>1. /\ pass = "collecting" /\ open = <<>> /\ open' = open
      /\ UNCHANGED <<source, tree, mTable>>
  BY DEF EndCollecting
<1>2. TreeOK' /\ OpenOK'
  BY <1>1 DEF IInv, TreeOK, OpenOK, Under, Kind, Nodes, Arity, Children, Needs
<1>3. \/ pass' = "rejected" /\ mErrorCount' = mErrorCount
      \/ mErrorCount = 0 /\ pass' = "checking" /\ mErrorCount' = 0
         /\ visited' = {} /\ mOverloadMap' = <<>>
  BY DEF EndCollecting, StartChecking
<1>4. TableOK'
  BY <1>1, <1>3 DEF IInv, TableOK, FunctionEntry, Nodes, OfKind, Kind
<1>5. CheckOK'
  BY <1>1, <1>3 DEF CheckOK, MapOK
<1> QED
  BY <1>1, <1>2, <1>3, <1>4, <1>5 DEF IInv, PassedCallsAreResolved, Passed

LEMMA NextProgramKeepsInvariant ==
  ASSUME IInv, NextProgram
  PROVE  IInv'
<1>1. /\ tree' = <<Program>> /\ open' = <<1>> /\ mTable' = <<>> /\ source' = source
      /\ pass' = "collecting" /\ mErrorCount' = 0
  BY DEF NextProgram, StartCollecting
<1>2. Program \in Node /\ Program.kind = "PROGRAM_DECL" /\ Program.up = 0
  BY ProgramNode
<1>3. Nodes' = {1} /\ tree'[1] = Program /\ tree' \in Seq(Node) /\ open'[1] = 1
      /\ DOMAIN open' = {1} /\ open' \in Seq(Nodes')
  BY <1>1, <1>2 DEF Nodes
<1>4. TreeOK'
  BY <1>2, <1>3 DEF TreeOK, Kind
<1>5. OpenOK'
  BY <1>3 DEF OpenOK
<1>6. TableOK'
  BY <1>1, <1>2, <1>3 DEF TableOK, OfKind, Kind
<1> QED
  BY <1>1, <1>4, <1>5, <1>6 DEF IInv, CheckOK, PassedCallsAreResolved, Passed

----------------------------------------------------------------------------
(* The type checker. *)

LEMMA TypeIsFinite == IsFiniteSet(Type)
<1>0. IsFiniteSet({})
  BY FS_EmptySet
<1>1. IsFiniteSet({} \cup {"ERROR"})
  BY <1>0, FS_AddElement
<1>2. IsFiniteSet({} \cup {"ERROR"} \cup {"BOOL"})
  BY <1>1, FS_AddElement
<1>3. IsFiniteSet({} \cup {"ERROR"} \cup {"BOOL"} \cup {"NUMBER"})
  BY <1>2, FS_AddElement
<1>4. IsFiniteSet({"ERROR", "BOOL", "NUMBER"} \cup {"STRING"})
  <2>1. {} \cup {"ERROR"} \cup {"BOOL"} \cup {"NUMBER"} = {"ERROR", "BOOL", "NUMBER"}
    OBVIOUS
  <2> QED
    BY <1>3, <2>1, FS_AddElement
<1>5. IsFiniteSet({"ERROR", "BOOL", "NUMBER"} \cup {"STRING"} \cup {"VOID"})
  BY <1>4, FS_AddElement
<1>6. IsFiniteSet({"ERROR", "BOOL", "NUMBER", "STRING", "VOID"} \cup {"BOOL_ARRAY"})
  <2>1. {"ERROR", "BOOL", "NUMBER"} \cup {"STRING"} \cup {"VOID"}
          = {"ERROR", "BOOL", "NUMBER", "STRING", "VOID"}
    OBVIOUS
  <2> QED
    BY <1>5, <2>1, FS_AddElement
<1>7. IsFiniteSet({"ERROR", "BOOL", "NUMBER", "STRING", "VOID"} \cup {"BOOL_ARRAY"}
                  \cup {"NUMBER_ARRAY"})
  BY <1>6, FS_AddElement
<1>8. IsFiniteSet({"ERROR", "BOOL", "NUMBER", "STRING", "VOID"} \cup {"BOOL_ARRAY"}
                  \cup {"NUMBER_ARRAY"} \cup {"STRING_ARRAY"})
  BY <1>7, FS_AddElement
<1>9. IsFiniteSet({"ERROR", "BOOL", "NUMBER", "STRING", "VOID"} \cup {"BOOL_ARRAY"}
                  \cup {"NUMBER_ARRAY"} \cup {"STRING_ARRAY"} \cup {"UNKNOWN"})
  BY <1>8, FS_AddElement
<1>10. Type = {"ERROR", "BOOL", "NUMBER", "STRING", "VOID"} \cup {"BOOL_ARRAY"}
                  \cup {"NUMBER_ARRAY"} \cup {"STRING_ARRAY"} \cup {"UNKNOWN"}
  BY DEF Type
<1> QED
  BY <1>9, <1>10

(* While the type checker runs the tree is complete. *)
LEMMA CheckedTreeIsComplete ==
  ASSUME IInv, pass = "checking"
  PROVE  TreeComplete
BY DEF IInv, OpenOK, CheckOK, TreeComplete

LEMMA SameCandidates ==
  ASSUME UNCHANGED <<tree, mTable>>, NEW c
  PROVE  /\ Candidates(c)' = Candidates(c)
         /\ OfKind("CALL_EXPR")' = OfKind("CALL_EXPR")
<1>1. Arity(c)' = Arity(c)
  BY DEF Arity, Children, Nodes
<1>2. \A name : GetOverloadCandidates(name)' = GetOverloadCandidates(name)
  BY DEF GetOverloadCandidates, Kind
<1>3. GetOverloadCandidates(tree[c].name)' = GetOverloadCandidates(tree[c].name)
  BY <1>2 DEF GetOverloadCandidates, Kind
<1> QED
  BY <1>1, <1>3 DEF Candidates, GetFunctionParamTypes, OfKind, Nodes, Kind

(* A crash, or a step that leaves the program alone and does right by the   *)
(* calls.                                                                   *)
LEMMA CrashKeepsInvariant ==
  ASSUME IInv, pass = "checking", Crash, UNCHANGED <<source, tree, open, mTable>>
  PROVE  IInv'
<1>1. TreeOK' /\ OpenOK'
  BY DEF IInv, TreeOK, OpenOK, Under, Kind, Nodes, Arity, Children, Needs
<1>2. TableOK'
  BY DEF Crash, IInv, TableOK, FunctionEntry, Nodes, OfKind, Kind
<1> QED
  BY <1>1, <1>2 DEF Crash, IInv, CheckOK, PassedCallsAreResolved, Passed

LEMMA CallsKeepInvariant ==
  ASSUME IInv, pass = "checking", pass' = pass, UNCHANGED <<source, tree, open, mTable>>,
         NEW n \in Ready, visited' = visited \cup {n},
         mErrorCount' \in Nat, mErrorCount' = 0 => mErrorCount = 0,
         MapOK',
         mErrorCount' = 0 =>
           /\ \A c \in visited \cap OfKind("CALL_EXPR") : CallOK(c)'
           /\ n \in OfKind("CALL_EXPR") => CallOK(n)'
  PROVE  IInv'
<1>1. TreeOK' /\ OpenOK'
  BY DEF IInv, TreeOK, OpenOK, Under, Kind, Nodes, Arity, Children, Needs
<1>2. TableOK'
  BY DEF IInv, TableOK, FunctionEntry, Nodes, OfKind, Kind
<1>3. \A c \in visited' \cap OfKind("CALL_EXPR")' :
        c \in visited \cap OfKind("CALL_EXPR") \/ (c = n /\ n \in OfKind("CALL_EXPR"))
  BY DEF OfKind, Nodes, Kind
<1>4. CheckOK'
  BY <1>3 DEF IInv, CheckOK
<1> QED
  BY <1>1, <1>2, <1>4 DEF IInv, PassedCallsAreResolved, Passed

(* A step that leaves the calls alone. *)
LEMMA QuietKeepsInvariant ==
  ASSUME IInv, pass = "checking", pass' = pass, UNCHANGED <<source, tree, open, mTable>>,
         NEW n \in Ready, visited' = visited \cup {n}, Kind(n) # "CALL_EXPR",
         UNCHANGED <<mUseDefs, mOverloadMap>>,
         mErrorCount' \in {mErrorCount, mErrorCount + 1}
  PROVE  IInv'
<1>1. mErrorCount' \in Nat /\ (mErrorCount' = 0 => mErrorCount = 0)
  BY DEF IInv
<1>2. MapOK'
  BY SameCandidates DEF IInv, CheckOK, MapOK
<1>3. \A c : CallOK(c)' <=> CallOK(c)
  BY SameCandidates DEF CallOK, OverloadSet, Resolved
<1>4. mErrorCount = 0 => \A c \in visited \cap OfKind("CALL_EXPR") : CallOK(c)
  BY DEF IInv, CheckOK
<1> QED
  BY <1>1, <1>2, <1>3, <1>4, CallsKeepInvariant DEF OfKind


(* What a context settles is taken from the set of the call, and it is not   *)
(* the argument of a call.                                                   *)
LEMMA SettleDoesRight ==
  ASSUME IInv, pass = "checking", UNCHANGED <<tree, mTable>>,
         NEW m \in Nodes, NEW t \in Type, tree[m].up \notin OfKind("CALL_EXPR"), Settle(m, t)
  PROVE  MapOK' /\ \A c \in OfKind("CALL_EXPR") : CallOK(c) => CallOK(c)'
<1> DEFINE calls == {o[1] : o \in Matched(m, t)}
<1>1. PICK choice :
        /\ \A c \in calls : choice[c] \in OverloadSet(c)
        /\ mUseDefs' = [u \in DOMAIN mUseDefs \cup calls |->
                          IF u \in calls THEN choice[u] ELSE mUseDefs[u]]
  BY DEF Settle
<1>2. mOverloadMap' = [c \in DOMAIN mOverloadMap \ calls |-> mOverloadMap[c]]
  BY DEF Settle
<1>3. ASSUME NEW c \in calls PROVE tree[c].up \notin OfKind("CALL_EXPR")
  <2>1. PICK o \in Operands[<<m, t>>] : o[1] = c
    BY DEF Matched, Calls
  <2>2. c = m \/ Under(c, {"BINARY_EXPR"})
    BY <2>1, CheckedTreeIsComplete, OperandsAreSides DEF IInv
  <2> QED
    BY <2>2 DEF Under, OfKind
<1> HIDE DEF calls
<1>4. MapOK
  BY DEF IInv, CheckOK
<1>5. MapOK'
  BY <1>2, <1>4, SameCandidates DEF MapOK
<1>6. ASSUME NEW c \in OfKind("CALL_EXPR"), CallOK(c) PROVE CallOK(c)'
  <2>1. tree' = tree /\ OfKind("CALL_EXPR")' = OfKind("CALL_EXPR")
        /\ Candidates(c)' = Candidates(c)
    BY SameCandidates
  <2>2. CASE c \in calls
    <3>1. choice[c] \in OverloadSet(c)
      BY <1>1, <2>2
    <3>2. choice[c] \in Candidates(c)
      BY <1>4, <3>1 DEF MapOK, OverloadSet
    <3>3. c \in DOMAIN mUseDefs' /\ mUseDefs'[c] = choice[c]
      BY <1>1, <2>2
    <3> QED
      BY <1>3, <2>1, <2>2, <3>2, <3>3 DEF CallOK, Resolved
  <2>3. CASE c \notin calls
    <3>1. OverloadSet(c)' = OverloadSet(c)
      BY <1>2, <2>3 DEF OverloadSet
    <3>2. c \in DOMAIN mUseDefs => c \in DOMAIN mUseDefs' /\ mUseDefs'[c] = mUseDefs[c]
      BY <1>1, <2>3
    <3> QED
      BY <1>6, <2>1, <3>1, <3>2 DEF CallOK, Resolved
  <2> QED
    BY <2>2, <2>3
<1> QED
  BY <1>5, <1>6

LEMMA EvaluationKeepsInvariant ==
  ASSUME IInv, pass = "checking", UNCHANGED <<source, tree, open, mTable>>,
         NEW n \in Ready, visited' = visited \cup {n}, Kind(n) # "CALL_EXPR",
         NEW m \in Children(n), NEW t \in Type, NEW errors \in Nat, NEW found \in Nat,
         CheckExprEvaluateToType(m, t, errors, found)
  PROVE  IInv'
<1>1. CASE Throws(m, t)
  BY <1>1, CrashKeepsInvariant DEF CheckExprEvaluateToType
<1>2. CASE ~Throws(m, t)
  <2>1. /\ Settle(m, t) /\ pass' = pass
        /\ mErrorCount' = mErrorCount + found + Cardinality(Unmatched(m, t))
                          + IF Evaluates(m, t) THEN 0 ELSE errors
    BY <1>2 DEF CheckExprEvaluateToType
  <2>2. m \in Nodes /\ tree[m].up = n
    BY DEF Children
  <2>3. IsFiniteSet(Unmatched(m, t))
    <3>1. Unmatched(m, t) \subseteq Nodes \X Type
      BY <2>2, CheckedTreeIsComplete, OperandsAreSides DEF IInv, Unmatched, Calls
    <3>2. IsFiniteSet(Nodes \X Type)
      BY NodesAreNumbered, TypeIsFinite, FS_Product DEF IInv
    <3> QED
      BY <3>1, <3>2, FS_Subset
  <2>4. Cardinality(Unmatched(m, t)) \in Nat
    BY <2>3, FS_CardinalityType
  <2>5. mErrorCount' \in Nat /\ (mErrorCount' = 0 => mErrorCount = 0)
    BY <2>1, <2>4 DEF IInv
  <2>6. MapOK' /\ \A c \in OfKind("CALL_EXPR") : CallOK(c) => CallOK(c)'
    BY <2>1, <2>2, SettleDoesRight DEF OfKind
  <2>7. mErrorCount = 0 => \A c \in visited \cap OfKind("CALL_EXPR") : CallOK(c)
    BY DEF IInv, CheckOK
  <2> QED
    BY <2>1, <2>5, <2>6, <2>7, CallsKeepInvariant DEF OfKind
<1> QED
  BY <1>1, <1>2

LEMMA CallKeepsInvariant ==
  ASSUME IInv, pass = "checking", UNCHANGED <<source, tree, open, mTable>>,
         NEW n \in Ready, visited' = visited \cup {n}, Kind(n) = "CALL_EXPR",
         HandleCallExpr(n)
  PROVE  IInv'
<1> DEFINE sameLength == {d \in GetOverloadCandidates(tree[n].name) :
                            Len(GetFunctionParamTypes(mTable[d])) = Arity(n)}
           stops == {k \in 1..Arity(n) :
                       \/ Kind(Child(n, k)) = "null"
                       \/ Kind(Child(n, k)) = "CALL_EXPR" /\ OverloadSet(Child(n, k)) = {}}
           first == CHOOSE k \in stops : \A l \in stops : k <= l
           candidates == {d \in sameLength : \A k \in 1..Arity(n) : Accepts(d, n, k)}
           Entry(fns, errors) ==
             /\ mOverloadMap' = With(mOverloadMap, n, fns)
             /\ mErrorCount' = mErrorCount + errors
             /\ UNCHANGED <<pass, mUseDefs, mNodeTypes>>
<1>1. IF sameLength = {} THEN Entry({}, 1)
      ELSE IF stops # {} THEN IF Kind(Child(n, first)) = "null" THEN Crash ELSE Passes
      ELSE Entry(candidates, IF candidates = {} THEN 1 ELSE 0)
  BY DEF HandleCallExpr
<1>2. /\ n \in Nodes /\ n \in OfKind("CALL_EXPR")
      /\ \A i \in Children(n) : i \in visited \/ Kind(i) = "null"
  BY DEF Ready, OfKind
<1>3. /\ MapOK /\ mErrorCount \in Nat
      /\ mErrorCount = 0 => \A c \in visited \cap OfKind("CALL_EXPR") : CallOK(c)
  BY DEF IInv, CheckOK
<1>4. sameLength = Candidates(n) /\ candidates \subseteq Candidates(n)
  BY DEF Candidates
<1>5. ASSUME NEW fns \in SUBSET Candidates(n), NEW errors \in {0, 1}, Entry(fns, errors),
             errors = 0 => fns # {}
      PROVE  IInv'
  <2>1. /\ mErrorCount' \in Nat
        /\ mErrorCount' = 0 => mErrorCount = 0 /\ errors = 0
    BY <1>3, <1>5
  <2>2. /\ OverloadSet(n)' = fns
        /\ \A c : c # n => OverloadSet(c)' = OverloadSet(c)
    BY <1>5 DEF OverloadSet, With
  <2>3. MapOK'
    <3>1. /\ DOMAIN mOverloadMap' = DOMAIN mOverloadMap \cup {n}
          /\ mOverloadMap'[n] = fns
          /\ \A c \in DOMAIN mOverloadMap : c # n => mOverloadMap'[c] = mOverloadMap[c]
      BY <1>5 DEF With
    <3> QED
      BY <3>1, <1>2, <1>3, SameCandidates DEF MapOK
  <2>4. \A c : c # n /\ CallOK(c) => CallOK(c)'
    BY <1>5, <2>2, SameCandidates DEF CallOK, Resolved
  <2>5. n \notin visited
    BY DEF Ready
  <2>6. fns # {} => CallOK(n)'
    BY <2>2 DEF CallOK
  <2> HIDE DEF sameLength, stops, first, candidates
  <2>7. mErrorCount' = 0 =>
          /\ \A c \in visited \cap OfKind("CALL_EXPR") : CallOK(c)'
          /\ n \in OfKind("CALL_EXPR") => CallOK(n)'
    BY <1>3, <1>5, <2>1, <2>4, <2>5, <2>6
  <2> QED
    BY <1>5, <2>1, <2>3, <2>7, CallsKeepInvariant
<1>6. CASE sameLength = {}
  <2>1. Entry({}, 1)
    BY <1>1, <1>6
  <2> HIDE DEF Entry
  <2> QED
    BY <1>5, <2>1
<1>7. CASE sameLength # {} /\ stops # {}
  <2>1. first \in stops
    <3>1. stops \subseteq Nat
      BY ChildrenAreFinite DEF IInv
    <3> HIDE DEF stops
    <3> QED
      BY <1>7, <3>1, LeastNatural
  <2>2. CASE Kind(Child(n, first)) = "null"
    BY <1>1, <1>7, <2>2, CrashKeepsInvariant
  <2>3. CASE Kind(Child(n, first)) # "null"
    <3> DEFINE arg == Child(n, first)
    <3>1. arg \in Children(n) /\ arg \in Nodes /\ tree[arg].up = n
      <4>1. first \in 1 .. Arity(n)
        BY <2>1
      <4> HIDE DEF first
      <4> QED
        BY <1>2, <4>1, ChildIsChild DEF IInv
    <3>2. Kind(arg) = "CALL_EXPR" /\ OverloadSet(arg) = {}
      BY <2>1, <2>3
    <3>3. Passes
      BY <1>1, <1>7, <2>3
    <3> HIDE DEF first, stops, sameLength, candidates, arg
    <3>4. arg \in visited \cap OfKind("CALL_EXPR")
      BY <1>2, <3>1, <3>2 DEF OfKind
    <3>5. mErrorCount # 0
      BY <1>2, <1>3, <3>1, <3>2, <3>4 DEF CallOK
    <3>6. MapOK'
      BY <1>3, <3>3, SameCandidates DEF MapOK, Passes
    <3> QED
      BY <1>3, <3>3, <3>5, <3>6, CallsKeepInvariant DEF Passes
  <2> QED
    BY <2>2, <2>3
<1>8. CASE sameLength # {} /\ stops = {}
  <2>1. Entry(candidates, IF candidates = {} THEN 1 ELSE 0)
    BY <1>1, <1>8
  <2> HIDE DEF Entry, candidates, sameLength
  <2> QED
    BY <1>4, <1>5, <2>1
<1> QED
  BY <1>6, <1>7, <1>8


(* The handlers that only give a type, or count one error. *)
LEMMA QuietHandlers ==
  ASSUME NEW n,
         \/ HandleArrayExpr(n)
         \/ HandleBinaryExpr(n)
         \/ HandleIdentifierExpr(n)
         \/ Kind(n) \in DOMAIN LiteralType /\ Gives(n, LiteralType[Kind(n)])
         \/ Kind(n) \in NotHandled /\ Passes
  PROVE  \/ Crash
         \/ /\ UNCHANGED <<pass, mUseDefs, mOverloadMap>>
            /\ mErrorCount' = mErrorCount \/ mErrorCount' = mErrorCount + 1
<1> DEFINE Quiet == /\ UNCHANGED <<pass, mUseDefs, mOverloadMap>>
                    /\ mErrorCount' = mErrorCount \/ mErrorCount' = mErrorCount + 1
<1>1. Fails => Quiet
  BY DEF Fails
<1>2. Passes => Quiet
  BY DEF Passes
<1>3. \A type : Gives(n, type) => Quiet
  BY DEF Gives
<1> HIDE DEF Quiet
<1>4. HandleArrayExpr(n) => Crash \/ Quiet
  BY <1>1, <1>3, Zenon DEF HandleArrayExpr
<1>5. HandleBinaryExpr(n) => Crash \/ Quiet
  BY <1>1, <1>3, Zenon DEF HandleBinaryExpr
<1>6. HandleIdentifierExpr(n) => Crash \/ Quiet
  BY <1>3, Zenon DEF HandleIdentifierExpr
<1>7. Crash \/ Quiet
  BY <1>2, <1>3, <1>4, <1>5, <1>6, Zenon
<1> QED
  BY <1>7 DEF Quiet

LEMMA CheckKeepsInvariant ==
  ASSUME IInv, Check
  PROVE  IInv'
<1>1. /\ pass = "checking" /\ UNCHANGED <<source, tree, open, mTable>>
  BY DEF Check, CheckNode
<1>2. PICK n \in Ready : DispatchNode(n) /\ visited' = visited \cup {n}
  BY DEF Check, CheckNode, mCurrentNode
<1>3. n \in Nodes /\ TreeOK /\ TreeComplete /\ Arity(n) \in Nat /\ mErrorCount \in Nat
  BY <1>1, CheckedTreeIsComplete, ChildrenAreFinite DEF IInv, Ready
<1>4. Arity(n) # 0 => Child(n, 1) \in Children(n)
  BY <1>3, ChildIsChild
<1>5. CASE Kind(n) = "VAR_DECL" /\ HandleVarDecl(n)
  <2> DEFINE wrongType == IF Kind(Child(n, 1)) = "CALL_EXPR" THEN 0 ELSE 1
             wrongLength == IF /\ tree[n].size # 0
                               /\ Kind(Child(n, 1)) = "ARRAY_EXPR"
                               /\ tree[n].size # Arity(Child(n, 1)) THEN 1 ELSE 0
  <2>1. IF Arity(n) = 0 THEN Passes
        ELSE CheckExprEvaluateToType(Child(n, 1), tree[n].type, wrongType, wrongLength)
    BY <1>5 DEF HandleVarDecl
  <2>2. wrongType \in Nat /\ wrongLength \in Nat /\ tree[n].type \in Type
    BY <1>3, <1>5 DEF TreeOK
  <2> HIDE DEF wrongType, wrongLength
  <2>3. CASE Arity(n) = 0
    BY <1>1, <1>2, <1>5, <2>1, <2>3, QuietKeepsInvariant DEF Passes
  <2>4. CASE Arity(n) # 0
    BY <1>1, <1>2, <1>4, <1>5, <2>1, <2>2, <2>4, EvaluationKeepsInvariant
  <2> QED
    BY <2>3, <2>4
<1>6. CASE Kind(n) \in {"IF_STMT", "WHILE_STMT"} /\ HandleCond(n)
  <2>1. Arity(n) # 0
    BY <1>3, <1>6 DEF TreeComplete, Needs
  <2>2. CheckExprEvaluateToType(Child(n, 1), "BOOL", 1, 0) /\ "BOOL" \in Type
    BY <1>6 DEF HandleCond, Type
  <2>3. Kind(n) # "CALL_EXPR" /\ 1 \in Nat /\ 0 \in Nat
    BY <1>6
  <2> QED
    BY <1>1, <1>2, <1>4, <2>1, <2>2, <2>3, EvaluationKeepsInvariant
<1>7. CASE Kind(n) = "RETURN_STMT" /\ HandleReturnStmt(n)
  <2> DEFINE type == GetReturnType(mTable[FunctionAround(n)])
  <2>1. type \in Type
    <3>1. FunctionAround(n) \in OfKind("FUNCTION_DECL")
      BY <1>3, <1>7, ReturnsAreInFunctions DEF OfKind
    <3>2. FunctionEntry(FunctionAround(n))
      BY <1>1, <3>1 DEF IInv, TableOK, OfKind
    <3> QED
      BY <3>2 DEF FunctionEntry, GetReturnType
  <2>2. IF type = "VOID" THEN IF Arity(n) = 0 THEN Passes ELSE Fails
        ELSE IF Arity(n) = 0 THEN Crash
        ELSE CheckExprEvaluateToType(Child(n, 1), type, 1, 0)
    BY <1>7 DEF HandleReturnStmt
  <2> HIDE DEF type
  <2>3. Kind(n) # "CALL_EXPR" /\ 1 \in Nat /\ 0 \in Nat
    BY <1>7
  <2>4. CASE Passes \/ Fails
    BY <1>1, <1>2, <2>3, <2>4, QuietKeepsInvariant DEF Passes, Fails
  <2>5. CASE Crash
    BY <1>1, <2>5, CrashKeepsInvariant
  <2>6. CASE Arity(n) # 0 /\ CheckExprEvaluateToType(Child(n, 1), type, 1, 0)
    BY <1>1, <1>2, <1>4, <2>1, <2>3, <2>6, EvaluationKeepsInvariant
  <2> QED
    BY <2>2, <2>4, <2>5, <2>6
<1>8. CASE Kind(n) = "CALL_EXPR" /\ HandleCallExpr(n)
  BY <1>1, <1>2, <1>8, CallKeepsInvariant
<1>9. CASE /\ Kind(n) # "CALL_EXPR"
           /\ \/ HandleArrayExpr(n)
              \/ HandleBinaryExpr(n)
              \/ HandleIdentifierExpr(n)
              \/ Kind(n) \in DOMAIN LiteralType /\ Gives(n, LiteralType[Kind(n)])
              \/ Kind(n) \in NotHandled /\ Passes
  <2>1. \/ Crash
        \/ /\ UNCHANGED <<pass, mUseDefs, mOverloadMap>>
           /\ mErrorCount' = mErrorCount \/ mErrorCount' = mErrorCount + 1
    BY <1>9, QuietHandlers
  <2> QED
    BY <1>1, <1>2, <1>9, <2>1, CrashKeepsInvariant, QuietKeepsInvariant
<1>10. "CALL_EXPR" \notin NotHandled /\ "CALL_EXPR" \notin DOMAIN LiteralType
  BY DEF NotHandled, LiteralType, Decls, Stmts
<1> QED
  BY <1>2, <1>5, <1>6, <1>7, <1>8, <1>9, <1>10 DEF DispatchNode

(* What is left is settled: when the program passes, a call with functions   *)
(* left to choose from is tied to one of them, and no other is touched.      *)
LEMMA LeftoversAreSettled ==
  ASSUME IInv, EndChecking, pass' # "rejected"
  PROVE  /\ mErrorCount = 0
         /\ \A c \in OfKind("CALL_EXPR") : OverloadSet(c) # {} =>
              c \in DOMAIN mUseDefs' /\ mUseDefs'[c] \in OverloadSet(c)
         /\ \A u : u \notin OfKind("CALL_EXPR") \/ OverloadSet(u) = {} =>
              /\ u \in DOMAIN mUseDefs' <=> u \in DOMAIN mUseDefs
              /\ u \in DOMAIN mUseDefs => mUseDefs'[u] = mUseDefs[u]
<1>1. /\ pass = "checking"
      /\ mErrorCount' = mErrorCount + Cardinality(Ambiguous) /\ mErrorCount' = 0
      /\ mUseDefs' = [u \in DOMAIN mUseDefs \cup Leftover(1) |->
                        IF u \in Leftover(1) THEN CHOOSE d \in mOverloadMap[u] : TRUE
                        ELSE mUseDefs[u]]
  BY DEF EndChecking, Errors, SettleLeftovers
<1>2. MapOK /\ mErrorCount \in Nat
  BY <1>1 DEF IInv, CheckOK
<1>3. IsFiniteSet(Ambiguous) /\ Cardinality(Ambiguous) \in Nat
  <2>1. Ambiguous \subseteq Nodes
    BY <1>2 DEF Ambiguous, MapOK, OfKind
  <2> QED
    BY <2>1, NodesAreNumbered, FS_Subset, FS_CardinalityType DEF IInv
<1>4. mErrorCount = 0 /\ Ambiguous = {}
  <2>1. mErrorCount = 0 /\ Cardinality(Ambiguous) = 0
    BY <1>1, <1>2, <1>3
  <2> QED
    BY <1>3, <2>1, FS_EmptySet
<1>5. ASSUME NEW c \in OfKind("CALL_EXPR"), OverloadSet(c) # {}
      PROVE  c \in DOMAIN mUseDefs' /\ mUseDefs'[c] \in OverloadSet(c)
  <2>1. c \in DOMAIN mOverloadMap /\ mOverloadMap[c] = OverloadSet(c)
    BY <1>5 DEF OverloadSet
  <2>2. IsFiniteSet(mOverloadMap[c])
    <3>1. mOverloadMap[c] \subseteq Nodes
      BY <1>2, <2>1 DEF MapOK, Candidates, GetOverloadCandidates, IInv, TableOK
    <3> QED
      BY <3>1, NodesAreNumbered, FS_Subset DEF IInv
  <2>3. Cardinality(mOverloadMap[c]) \in Nat /\ Cardinality(mOverloadMap[c]) # 0
    BY <1>5, <2>1, <2>2, FS_CardinalityType, FS_EmptySet
  <2>4. ~(Cardinality(mOverloadMap[c]) > 1)
    BY <1>4, <2>1 DEF Ambiguous
  <2>5. Cardinality(mOverloadMap[c]) = 1
    BY <2>3, <2>4
  <2>6. c \in Leftover(1)
    BY <2>1, <2>5 DEF Leftover
  <2> QED
    BY <1>1, <1>5, <2>1, <2>6
<1>6. ASSUME NEW u, u \notin OfKind("CALL_EXPR") \/ OverloadSet(u) = {} PROVE u \notin Leftover(1)
  <2>1. Cardinality({}) = 0
    BY FS_EmptySet
  <2> QED
    BY <1>2, <1>6, <2>1 DEF Leftover, OverloadSet, MapOK
<1> QED
  BY <1>1, <1>4, <1>5, <1>6

LEMMA EndCheckingKeepsInvariant ==
  ASSUME IInv, EndChecking
  PROVE  IInv'
<1>1. /\ pass = "checking" /\ Ready = {} /\ SettleLeftovers
      /\ mErrorCount' = mErrorCount + Cardinality(Ambiguous)
      /\ pass' \in {"rejected", "nomain", "accepted"}
      /\ pass' # "rejected" => mErrorCount' = 0
      /\ UNCHANGED <<source, tree, open, mTable, visited, mOverloadMap>>
  BY DEF EndChecking, Errors, checkerVars
<1>2. TreeOK' /\ OpenOK'
  BY <1>1 DEF IInv, TreeOK, OpenOK, Under, Kind, Nodes, Arity, Children, Needs
<1>3. TableOK'
  BY <1>1 DEF IInv, TableOK, FunctionEntry, Nodes, OfKind, Kind
<1>4. MapOK /\ mErrorCount \in Nat
  BY <1>1 DEF IInv, CheckOK
<1>5. IsFiniteSet(Ambiguous)
  <2>1. Ambiguous \subseteq Nodes
    BY <1>4 DEF Ambiguous, MapOK, OfKind
  <2> QED
    BY <2>1, NodesAreNumbered, FS_Subset DEF IInv
<1>6. Cardinality(Ambiguous) \in Nat
  BY <1>5, FS_CardinalityType
<1>7. mErrorCount' \in Nat
  BY <1>1, <1>4, <1>6
<1>8. ASSUME pass' # "rejected", NEW c \in OfKind("CALL_EXPR")
      PROVE  c \in DOMAIN mUseDefs' /\ mUseDefs'[c] \in Candidates(c)
  <2>1. /\ mErrorCount = 0
        /\ OverloadSet(c) # {} => c \in DOMAIN mUseDefs' /\ mUseDefs'[c] \in OverloadSet(c)
        /\ OverloadSet(c) = {} /\ c \in DOMAIN mUseDefs =>
             c \in DOMAIN mUseDefs' /\ mUseDefs'[c] = mUseDefs[c]
    BY <1>8, LeftoversAreSettled
  <2>2. c \in visited
    BY <1>1, <1>8, NothingReady DEF IInv, OfKind
  <2>3. OverloadSet(c) # {} \/ Resolved(c)
    BY <1>1, <1>8, <2>1, <2>2 DEF IInv, CheckOK, CallOK
  <2>4. OverloadSet(c) \subseteq Candidates(c)
    BY <1>4 DEF MapOK, OverloadSet
  <2> QED
    BY <2>1, <2>3, <2>4 DEF Resolved
<1>9. PassedCallsAreResolved'
  <2> SUFFICES ASSUME Passed', NEW c \in OfKind("CALL_EXPR")'
               PROVE  (/\ HasSymbol(c)
                       /\ SymbolOf(c).mIsFunction
                       /\ SymbolOf(c).mName = tree[c].name
                       /\ Len(GetFunctionParamTypes(SymbolOf(c))) = Arity(c))'
    BY DEF PassedCallsAreResolved
  <2>1. pass' # "rejected" /\ c \in OfKind("CALL_EXPR")
    BY <1>1, SameCandidates DEF Passed
  <2>2. c \in DOMAIN mUseDefs' /\ mUseDefs'[c] \in Candidates(c)
    BY <1>8, <2>1
  <2> DEFINE d == mUseDefs'[c]
  <2>3. /\ d \in DOMAIN mTable /\ Kind(d) = "FUNCTION_DECL" /\ mTable[d].mName = tree[c].name
        /\ Len(GetFunctionParamTypes(mTable[d])) = Arity(c)
    BY <2>2 DEF Candidates, GetOverloadCandidates
  <2>4. mTable[d].mIsFunction
    BY <2>3 DEF IInv, TableOK, FunctionEntry
  <2>5. Arity(c)' = Arity(c) /\ tree' = tree /\ mTable' = mTable
    BY <1>1 DEF Arity, Children, Nodes
  <2> QED
    BY <2>2, <2>3, <2>4, <2>5 DEF HasSymbol, SymbolOf, GetFunctionParamTypes
<1> QED
  BY <1>1, <1>2, <1>3, <1>7, <1>9 DEF IInv, CheckOK

LEMMA StutterKeepsInvariant ==
  ASSUME IInv, UNCHANGED vars
  PROVE  IInv'
<1>1. UNCHANGED <<source, tree, open, mTable, mUseDefs, pass, mErrorCount, visited, mOverloadMap>>
  BY DEF vars, checkerVars
<1>2. TreeOK' /\ OpenOK'
  BY <1>1 DEF IInv, TreeOK, OpenOK, Under, Kind, Nodes, Arity, Children, Needs
<1>3. TableOK'
  BY <1>1 DEF IInv, TableOK, FunctionEntry, Nodes, OfKind, Kind
<1>4. CheckOK'
  <2>1. MapOK' <=> MapOK
    BY <1>1, SameCandidates DEF MapOK
  <2>2. \A c : CallOK(c)' <=> CallOK(c)
    BY <1>1, SameCandidates DEF CallOK, OverloadSet, Resolved
  <2>3. OfKind("CALL_EXPR")' = OfKind("CALL_EXPR")
    BY <1>1, SameCandidates
  <2> QED
    BY <1>1, <2>1, <2>2, <2>3 DEF IInv, CheckOK
<1>5. PassedCallsAreResolved'
  BY <1>1 DEF IInv, PassedCallsAreResolved, Passed, OfKind, Nodes, Kind, HasSymbol, SymbolOf,
              GetFunctionParamTypes, Arity, Children
<1> QED
  BY <1>1, <1>2, <1>3, <1>4, <1>5 DEF IInv

----------------------------------------------------------------------------
LEMMA Invariance == Spec => []IInv
<1>1. Init => IInv
  BY InitHasInvariant
<1>2. IInv /\ [Next]_vars => IInv'
  <2> SUFFICES ASSUME IInv, [Next]_vars PROVE IInv'
    OBVIOUS
  <2>1. CASE Collect
    BY <2>1, CollectKeepsInvariant
  <2>2. CASE Leave
    BY <2>2, LeaveKeepsInvariant
  <2>3. CASE EndCollecting
    BY <2>3, EndCollectingKeepsInvariant
  <2>4. CASE Check
    BY <2>4, CheckKeepsInvariant
  <2>5. CASE EndChecking
    BY <2>5, EndCheckingKeepsInvariant
  <2>6. CASE NextProgram
    BY <2>6, NextProgramKeepsInvariant
  <2>7. CASE UNCHANGED vars
    BY <2>7, StutterKeepsInvariant
  <2> QED
    BY <2>1, <2>2, <2>3, <2>4, <2>5, <2>6, <2>7 DEF Next
<1> QED
  BY <1>1, <1>2, PTL DEF Spec

(* Whatever the program, of whatever size, and whatever program was run      *)
(* before it: once it has passed the type checker (typechecker.cpp:47-71),   *)
(* each of its calls is tied to a function of its own table that has the     *)
(* name and the number of parameters of the call.                            *)
THEOREM PassedCallsResolved == Spec => []PassedCallsAreResolved
<1>1. IInv => PassedCallsAreResolved
  BY DEF IInv
<1> QED
  BY <1>1, Invariance, PTL


----------------------------------------------------------------------------
(* What the type checker may die on: the invariant that it takes. *)

Literals == {"BOOLEAN_EXPR", "NUMBER_EXPR", "STRING_EXPR"}

First(n) == \A i \in Children(tree[n].up) : n <= i

(* What stands where a value is asked for is an expression, and the left     *)
(* operand of a binary expression is no binary expression itself.            *)
PlacesOK ==
  \A n \in Nodes :
     /\ Under(n, {"VAR_DECL", "RETURN_STMT", "BINARY_EXPR"}) => Kind(n) \in Exprs
     /\ Under(n, {"IF_STMT", "WHILE_STMT"}) /\ First(n) => Kind(n) \in Exprs
     /\ Under(n, {"BINARY_EXPR"}) /\ First(n) => Kind(n) # "BINARY_EXPR"

(* Only functions are filed as functions, with the types they declare.       *)
SymbolsOK ==
  \A d \in DOMAIN mTable :
     /\ mTable[d].mIsFunction => Kind(d) = "FUNCTION_DECL"
     /\ Kind(d) = "FUNCTION_DECL" => Head(mTable[d].mType) = tree[d].type

(* Unless the collector counted an error, identifiers are tied to a symbol   *)
(* of their name.                                                            *)
UsesOK ==
  pass = "checking" \/ (pass = "collecting" /\ mErrorCount = 0) =>
    \A i \in Identifiers : HasSymbol(i) /\ SymbolOf(i).mName = tree[i].name

(* The walk is in post-order, and has given a type to the expressions that   *)
(* are certain to get one.                                                   *)
Sure(n) ==
  \/ Kind(n) \in Literals \cup {"IDENTIFIER_EXPR"}
  \/ Kind(n) = "ARRAY_EXPR" /\ OfOneKind(n, DOMAIN LiteralType)
  \/ /\ Kind(n) = "BINARY_EXPR" /\ tree[n].name # "ASSIGNMENT"
     /\ OfOneKind(n, {"BOOLEAN_EXPR", "NUMBER_EXPR"})
Left(n) ==
  /\ n \in Nodes
  /\ \A i \in Children(n) : i \in visited \/ Kind(i) = "null"
  /\ Sure(n) => n \in DOMAIN mNodeTypes
  /\ Kind(n) \in Literals => mNodeTypes[n] = LiteralType[Kind(n)]
WalkOK == pass = "checking" => \A n \in visited : Left(n)

JInv == PlacesOK /\ SymbolsOK /\ UsesOK /\ WalkOK /\ CrashesAreKnown

LEMMA EnterKeepsPlaces ==
  ASSUME TreeOK, OpenOK, source \in Sources, NEW shape \in source.shapes, EnterNew(shape),
         PlacesOK
  PROVE  PlacesOK'
<1>1. /\ Nodes \subseteq Nodes' /\ Here \in Nodes' /\ Here \notin Nodes
      /\ \A n \in Nodes : tree'[n] = tree[n] /\ n < Here
      /\ Head(open) \in Nodes /\ Here \in Nat
  BY GrownTree
<1>2. /\ shape.kind \in Takes(Head(open), Arity(Head(open)) + 1)
      /\ tree'[Here].kind = shape.kind /\ tree'[Here].up = Head(open)
  BY EnteredNode DEF EnterNew, NextOf
<1>3. Arity(Head(open)) + 1 = 2 => \E i \in Children(Head(open)) : TRUE
  <2>1. Arity(Head(open)) \in Nat
    BY ChildrenAreFinite
  <2>2. Children(Head(open)) = {} => Arity(Head(open)) = 0
    BY FS_EmptySet DEF Arity
  <2> QED
    BY <2>1, <2>2
<1>4. ASSUME NEW n \in Nodes'
      PROVE  /\ Under(n, {"VAR_DECL", "RETURN_STMT", "BINARY_EXPR"})' => tree'[n].kind \in Exprs
             /\ Under(n, {"IF_STMT", "WHILE_STMT"})' /\ First(n)' => tree'[n].kind \in Exprs
             /\ Under(n, {"BINARY_EXPR"})' /\ First(n)' => tree'[n].kind # "BINARY_EXPR"
  <2>1. CASE n \in Nodes
    <3>1. tree'[n] = tree[n] /\ (tree[n].up = 0 \/ tree[n].up \in Nodes)
      BY <1>1, <2>1, ParentsComeFirst
    <3>2. \A kinds : Under(n, kinds)' => tree[n].up \in Nodes /\ Under(n, kinds)
      <4>1. tree[n].up # 0 => tree'[tree[n].up] = tree[tree[n].up]
        BY <1>1, <3>1
      <4>2. 0 \notin Nodes'
        <5>1. tree' \in Seq(Node)
          BY GrownTree
        <5> QED
          BY <5>1 DEF Nodes
      <4> QED
        BY <3>1, <4>1, <4>2 DEF Under, Kind
    <3>3. First(n)' => First(n)
      BY <1>1, <3>1 DEF First, Children
    <3> QED
      BY <2>1, <3>1, <3>2, <3>3 DEF PlacesOK, Kind
  <2>2. CASE n = Here
    <3>1. \A kinds : Under(n, kinds)' => tree[Head(open)].kind \in kinds
      BY <1>1, <1>2, <2>2 DEF Under, Kind
    <3>2. Arity(Head(open)) + 1 = 2 => ~First(n)'
      <4> SUFFICES ASSUME Arity(Head(open)) + 1 = 2 PROVE ~First(n)'
        OBVIOUS
      <4>1. PICK i \in Children(Head(open)) : TRUE
        BY <1>3
      <4>2. i \in Nodes /\ i \in Nodes' /\ tree'[i].up = tree'[n].up /\ i < n
        BY <1>1, <1>2, <2>2 DEF Children
      <4>3. i \in Nat /\ n \in Nat
        BY <1>1, <2>2, <4>2, NodesAreNumbered
      <4>4. ~(n <= i)
        BY <4>2, <4>3
      <4> QED
        BY <4>2, <4>4 DEF First, Children
    <3>3. /\ tree[Head(open)].kind \in {"VAR_DECL", "RETURN_STMT", "BINARY_EXPR"} =>
               shape.kind \in Exprs
          /\ tree[Head(open)].kind \in {"IF_STMT", "WHILE_STMT"} =>
               shape.kind \in Exprs \/ Arity(Head(open)) + 1 = 2
          /\ tree[Head(open)].kind = "BINARY_EXPR" =>
               shape.kind # "BINARY_EXPR" \/ Arity(Head(open)) + 1 = 2
      BY <1>2 DEF Takes, Kind, Exprs
    <3> QED
      BY <1>2, <2>2, <3>1, <3>2, <3>3
  <2>3. CASE n \in Nodes' \ (Nodes \cup {Here})
    <3>1. /\ tree'[n].up \in {Here, Here + 1} /\ shape.kind = "FUNCTION_DECL"
          /\ tree'[Here + 1].kind = "PARAM_VAR_DECL"
      BY <2>3, GrownTree
    <3>2. tree'[tree'[n].up].kind \in {"FUNCTION_DECL", "PARAM_VAR_DECL"}
      BY <1>2, <3>1
    <3> QED
      BY <3>2 DEF Under, Kind
  <2> QED
    BY <2>1, <2>2, <2>3
<1> QED
  BY <1>4 DEF PlacesOK, Kind

LEMMA InitHasJ ==
  ASSUME Init
  PROVE  JInv
<1>1. tree = <<Program>> /\ mTable = <<>> /\ pass = "collecting"
  BY DEF Init
<1>2. Nodes = {1} /\ tree[1].up = 0 /\ tree[1].kind = "PROGRAM_DECL"
  BY <1>1, ProgramNode DEF Nodes
<1> QED
  BY <1>1, <1>2 DEF JInv, PlacesOK, SymbolsOK, UsesOK, WalkOK, CrashesAreKnown, Under,
                    Identifiers, OfKind, Kind

LEMMA NextProgramKeepsJ ==
  ASSUME NextProgram
  PROVE  JInv'
<1>1. tree' = <<Program>> /\ mTable' = <<>> /\ pass' = "collecting"
  BY DEF NextProgram, StartCollecting
<1>2. Nodes' = {1} /\ tree'[1].up = 0 /\ tree'[1].kind = "PROGRAM_DECL"
  BY <1>1, ProgramNode DEF Nodes
<1> QED
  BY <1>1, <1>2 DEF JInv, PlacesOK, SymbolsOK, UsesOK, WalkOK, CrashesAreKnown, Under,
                    Identifiers, OfKind, Kind

LEMMA CollectKeepsJ ==
  ASSUME IInv, JInv, Collect
  PROVE  JInv'
<1>1. PICK shape \in source.shapes : EnterNew(shape) /\ TableStep(shape) /\ UseStep(shape)
  BY CollectStep
<1>2. pass = "collecting" /\ pass' = pass
  BY CollectStep
<1>3. PlacesOK'
  BY <1>1, EnterKeepsPlaces DEF IInv, JInv
<1>4. /\ Nodes \subseteq Nodes' /\ Here \notin Nodes
      /\ \A n \in Nodes : tree'[n] = tree[n]
      /\ DOMAIN mTable \subseteq Nodes
  BY <1>1, GrownTree DEF IInv, TableOK
<1>5. SymbolsOK'
  BY <1>1, <1>4 DEF SymbolsOK, JInv, TableStep, Kind
<1>6. ASSUME mErrorCount' = 0, NEW i \in Nodes', tree'[i].kind = "IDENTIFIER_EXPR"
      PROVE  /\ i \in DOMAIN mUseDefs' /\ mUseDefs'[i] \in DOMAIN mTable'
             /\ mTable'[mUseDefs'[i]].mName = tree'[i].name
  <2>1. CASE i \in Nodes
    <3>1. i \in Identifiers /\ mErrorCount = 0 /\ i # Here
      BY <1>1, <1>4, <1>6, <2>1 DEF Identifiers, OfKind, Kind, TableStep
    <3>2. /\ i \in DOMAIN mUseDefs /\ mUseDefs[i] \in DOMAIN mTable
          /\ mTable[mUseDefs[i]].mName = tree[i].name
      BY <1>2, <3>1 DEF JInv, UsesOK, HasSymbol, SymbolOf
    <3> QED
      BY <1>1, <1>4, <2>1, <3>1, <3>2 DEF UseStep, TableStep
  <2>2. CASE i = Here
    <3>1. shape.kind = "IDENTIFIER_EXPR" /\ tree'[i].name = shape.name
      BY <1>1, <1>6, <2>2, EnteredNode DEF IInv
    <3> QED
      BY <1>1, <1>6, <2>2, <3>1 DEF UseStep, TableStep
  <2>3. CASE i \in Nodes' \ (Nodes \cup {Here})
    BY <1>1, <1>6, <2>3, GrownTree DEF IInv
  <2> QED
    BY <2>1, <2>2, <2>3
<1>7. UsesOK'
  BY <1>2, <1>6 DEF UsesOK, Identifiers, OfKind, Kind, HasSymbol, SymbolOf
<1> QED
  BY <1>2, <1>3, <1>5, <1>7 DEF JInv, WalkOK, CrashesAreKnown

(* Leaving a node, or ending a pass, keeps the program and its table. *)
LEMMA SameProgram ==
  ASSUME UNCHANGED <<tree, mTable>>
  PROVE  /\ PlacesOK' <=> PlacesOK
         /\ SymbolsOK' <=> SymbolsOK
         /\ Identifiers' = Identifiers
<1>1. \A n : First(n)' <=> First(n)
  BY DEF First, Children, Nodes
<1>2. \A n, kinds : Under(n, kinds)' <=> Under(n, kinds)
  BY DEF Under, Nodes, Kind
<1>3. PlacesOK' <=> PlacesOK
  BY <1>1, <1>2 DEF PlacesOK, Nodes, Kind
<1> QED
  BY <1>3 DEF SymbolsOK, Identifiers, OfKind, Nodes, Kind

LEMMA LeaveKeepsJ ==
  ASSUME JInv, Leave
  PROVE  JInv'
<1>1. pass = "collecting" /\ UNCHANGED <<tree, mTable, mUseDefs, mErrorCount, pass>>
  BY DEF Leave, CollectLeave, LeaveNew
<1> QED
  BY <1>1, SameProgram DEF JInv, UsesOK, WalkOK, CrashesAreKnown, HasSymbol, SymbolOf

LEMMA EndCollectingKeepsJ ==
  ASSUME JInv, EndCollecting
  PROVE  JInv'
<1>1. /\ pass = "collecting" /\ UNCHANGED <<tree, mTable, mUseDefs>>
      /\ \/ pass' = "rejected"
         \/ mErrorCount = 0 /\ pass' = "checking" /\ visited' = {}
  BY DEF EndCollecting, StartChecking
<1> QED
  BY <1>1, SameProgram DEF JInv, UsesOK, WalkOK, CrashesAreKnown, HasSymbol, SymbolOf

LEMMA EndCheckingKeepsJ ==
  ASSUME JInv, EndChecking
  PROVE  JInv'
<1>1. UNCHANGED <<tree, mTable>> /\ pass' \in {"rejected", "nomain", "accepted"}
  BY DEF EndChecking
<1> QED
  BY <1>1, SameProgram DEF JInv, UsesOK, WalkOK, CrashesAreKnown


----------------------------------------------------------------------------
(* The steps of the type checker. *)

LEMMA FirstChild ==
  ASSUME TreeOK, NEW n \in Nodes, Arity(n) # 0
  PROVE  /\ Child(n, 1) \in Children(n) /\ Child(n, 1) \in Nodes
         /\ tree[Child(n, 1)].up = n
         /\ First(Child(n, 1))
<1> DEFINE c == Child(n, 1)
           Before == {j \in Children(n) : j < c}
<1>1. Arity(n) \in Nat /\ 1 \in 1 .. Arity(n)
  BY ChildrenAreFinite
<1>2. c \in Children(n) /\ c \in Nodes /\ tree[c].up = n
  BY <1>1, ChildIsChild
<1>3. Cardinality(Before) = 0
  <2>1. \E i \in Children(n) : Cardinality({j \in Children(n) : j < i}) = 1 - 1
    BY <1>1, ChildrenAreFinite, NodesAreNumbered, KthElement DEF Arity
  <2>2. Cardinality(Before) = 1 - 1
    BY <2>1 DEF Child
  <2> QED
    BY <2>2
<1>4. Before = {}
  <2>1. IsFiniteSet(Before)
    BY ChildrenAreFinite, FS_Subset
  <2> HIDE DEF Before
  <2> QED
    BY <1>3, <2>1, FS_EmptySet
<1>5. \A i \in Children(n) : i \in Nat /\ c \in Nat /\ ~(i < c)
  BY <1>2, <1>4, ChildrenAreFinite, NodesAreNumbered
<1>6. \A i \in Children(n) : c <= i
  <2> HIDE DEF c
  <2> QED
    BY <1>5
<1> QED
  BY <1>2, <1>6 DEF First

LEMMA LiteralTypes ==
  /\ DOMAIN LiteralType = Literals
  /\ LiteralType["BOOLEAN_EXPR"] = "BOOL"
  /\ LiteralType["NUMBER_EXPR"] = "NUMBER"
  /\ LiteralType["STRING_EXPR"] = "STRING"
  /\ DOMAIN GetArrayVersion = {"BOOL", "NUMBER", "STRING"}
BY DEF LiteralType, Literals, GetArrayVersion

(* What may be said of the handling of node n. *)
HandlerOK(n) ==
  /\ pass' = pass \/ (pass' = "crashed" /\ Fatal)
  /\ \A i \in Identifiers : i \in DOMAIN mUseDefs =>
       i \in DOMAIN mUseDefs' /\ mUseDefs'[i] = mUseDefs[i]
  /\ mNodeTypes' = mNodeTypes \/ \E type : mNodeTypes' = With(mNodeTypes, n, type)
  /\ pass' = pass =>
       /\ Sure(n) => n \in DOMAIN mNodeTypes'
       /\ Kind(n) \in Literals => mNodeTypes'[n] = LiteralType[Kind(n)]

LEMMA CrashIsHandled ==
  ASSUME NEW n, pass = "checking", Crash, Fatal
  PROVE  HandlerOK(n)
BY DEF HandlerOK, Crash

LEMMA QuietIsHandled ==
  ASSUME NEW n, UNCHANGED <<pass, mUseDefs, mNodeTypes>>, ~Sure(n), Kind(n) \notin Literals
  PROVE  HandlerOK(n)
BY DEF HandlerOK

LEMMA GivesIsHandled ==
  ASSUME NEW n, NEW type, Gives(n, type), Kind(n) \in Literals => type = LiteralType[Kind(n)]
  PROVE  HandlerOK(n)
BY DEF HandlerOK, Gives, With

(* The value that is asked for can only lack a type if it, or one of its     *)
(* operands, is a spawn or an array that is not made of literals of one kind.*)
LEMMA ThrowsIsFatal ==
  ASSUME IInv, JInv, pass = "checking", NEW n \in Ready, Arity(n) # 0,
         Kind(n) \in {"VAR_DECL", "IF_STMT", "WHILE_STMT", "RETURN_STMT"},
         NEW t \in Type, Throws(Child(n, 1), t)
  PROVE  Fatal
<1> DEFINE m == Child(n, 1)
           W == visited \cup OfKind("null")
<1>1. TreeOK /\ TreeComplete /\ n \in Nodes
  BY CheckedTreeIsComplete DEF IInv, Ready
<1>2. m \in Children(n) /\ m \in Nodes /\ tree[m].up = n /\ First(m)
  BY <1>1, FirstChild
<1>3. \A b \in W \cap OfKind("BINARY_EXPR") : Children(b) \subseteq W
  <2>1. \A b \in OfKind("null") : b \notin OfKind("BINARY_EXPR")
    BY DEF OfKind
  <2>2. \A b \in visited : Children(b) \subseteq W
    BY DEF JInv, WalkOK, Left, OfKind, Children
  <2> QED
    BY <2>1, <2>2
<1>4. m \in W
  BY <1>2 DEF Ready, OfKind
<1>5. PICK o \in Operands[<<m, t>>] : Kind(o[1]) # "CALL_EXPR" /\ o[1] \notin DOMAIN mNodeTypes
  BY DEF Throws
<1> DEFINE e == o[1]
<1> HIDE DEF W, m
<1>6. /\ e \in Nodes /\ e \in W
      /\ e = m \/ Under(e, {"BINARY_EXPR"})
      /\ Kind(e) # "BINARY_EXPR"
  BY <1>1, <1>2, <1>3, <1>4, <1>5, OperandsInside
<1> HIDE DEF e
<1>7. Kind(e) \in Exprs /\ tree[e].up \in Nodes /\ Kind(tree[e].up) # "COMPOUND_STMT"
  <2>1. CASE e = m
    <3>1. Under(m, {"VAR_DECL", "RETURN_STMT", "BINARY_EXPR"}) \/ Under(m, {"IF_STMT", "WHILE_STMT"})
      BY <1>1, <1>2 DEF Under
    <3> QED
      BY <1>1, <1>2, <2>1, <3>1 DEF JInv, PlacesOK
  <2>2. CASE Under(e, {"BINARY_EXPR"})
    BY <1>6, <2>2 DEF JInv, PlacesOK, Under
  <2> QED
    BY <1>6, <2>1, <2>2
<1>8. e \in visited
  BY <1>6, <1>7 DEF W, OfKind, Exprs
<1>9. ~Sure(e)
  BY <1>5, <1>8 DEF JInv, WalkOK, Left, e
<1>10. Kind(e) \in {"ARRAY_EXPR", "SPAWN_EXPR"}
  BY <1>5, <1>6, <1>7, <1>9 DEF Exprs, Sure, Literals, e
<1> QED
  BY <1>6, <1>7, <1>9, <1>10 DEF Fatal, Sure, OfKind

LEMMA EvaluationIsHandled ==
  ASSUME IInv, JInv, pass = "checking", NEW n \in Ready, Arity(n) # 0,
         Kind(n) \in {"VAR_DECL", "IF_STMT", "WHILE_STMT", "RETURN_STMT"},
         NEW t \in Type, NEW errors, NEW found,
         CheckExprEvaluateToType(Child(n, 1), t, errors, found)
  PROVE  HandlerOK(n)
<1>1. ~Sure(n) /\ Kind(n) \notin Literals
  BY DEF Sure, Literals
<1>2. CASE Throws(Child(n, 1), t)
  BY <1>2, ThrowsIsFatal, CrashIsHandled DEF CheckExprEvaluateToType
<1>3. CASE ~Throws(Child(n, 1), t)
  <2> DEFINE calls == {o[1] : o \in Matched(Child(n, 1), t)}
  <2>1. UNCHANGED <<pass, mNodeTypes>> /\ Settle(Child(n, 1), t)
    BY <1>3 DEF CheckExprEvaluateToType
  <2>2. PICK choice : mUseDefs' = [u \in DOMAIN mUseDefs \cup calls |->
                                     IF u \in calls THEN choice[u] ELSE mUseDefs[u]]
    BY <2>1 DEF Settle
  <2>3. \A c \in calls : Kind(c) = "CALL_EXPR"
    BY DEF Matched, Calls
  <2>4. \A i \in Identifiers : i \notin calls
    BY <2>3 DEF Identifiers, OfKind
  <2> HIDE DEF calls
  <2>5. \A i \in Identifiers : i \in DOMAIN mUseDefs =>
          i \in DOMAIN mUseDefs' /\ mUseDefs'[i] = mUseDefs[i]
    BY <2>2, <2>4
  <2> QED
    BY <1>1, <2>1, <2>5 DEF HandlerOK
<1> QED
  BY <1>2, <1>3

LEMMA ArrayIsHandled ==
  ASSUME IInv, JInv, pass = "checking", NEW n \in Ready, Kind(n) = "ARRAY_EXPR",
         HandleArrayExpr(n)
  PROVE  HandlerOK(n)
<1> DEFINE elements == {TypeOf(c) : c \in Children(n)}
           type == CHOOSE t \in elements : TRUE
<1>1. IF Cardinality(elements) # 1 THEN Fails
      ELSE IF type \in DOMAIN GetArrayVersion THEN Gives(n, GetArrayVersion[type]) ELSE Crash
  BY DEF HandleArrayExpr
<1>2. Kind(n) \notin Literals /\ n \in Nodes
  BY DEF Literals, Ready
<1>3. ASSUME OfOneKind(n, DOMAIN LiteralType)
      PROVE  Cardinality(elements) = 1 /\ type \in DOMAIN GetArrayVersion
  <2>1. PICK k \in Literals : \A i \in Children(n) : Kind(i) = k
    BY <1>3, LiteralTypes DEF OfOneKind
  <2>2. PICK i \in Children(n) : TRUE
    <3>1. Children(n) # {}
      BY <1>3, FS_EmptySet DEF OfOneKind, Arity
    <3> QED
      BY <3>1
  <2>3. ASSUME NEW c \in Children(n) PROVE TypeOf(c) = LiteralType[k]
    <3>1. Kind(c) = k /\ c \in visited
      BY <2>1 DEF Ready, Literals
    <3>2. Sure(c)
      BY <3>1 DEF Sure
    <3> QED
      BY <3>1, <3>2 DEF JInv, WalkOK, Left, TypeOf
  <2>4. elements = {LiteralType[k]}
    BY <2>2, <2>3
  <2>5. Cardinality(elements) = 1
    BY <2>4, FS_Singleton
  <2>6. type = LiteralType[k]
    BY <2>4
  <2> HIDE DEF elements, type
  <2> QED
    BY <2>5, <2>6, LiteralTypes DEF Literals
<1> HIDE DEF elements, type
<1>4. ~OfOneKind(n, DOMAIN LiteralType) => Fatal /\ ~Sure(n)
  BY <1>2 DEF Fatal, Sure, OfKind, Literals
<1>5. CASE Fails
  <2>1. ~OfOneKind(n, DOMAIN LiteralType)
    <3>1. mErrorCount' # mErrorCount /\ pass' = pass
      BY <1>5 DEF Fails, IInv
    <3>2. ~\E t : Gives(n, t)
      BY <3>1 DEF Gives
    <3> QED
      BY <1>1, <1>3, <3>2
  <2> QED
    BY <1>2, <1>4, <1>5, <2>1, QuietIsHandled DEF Fails
<1>6. CASE \E t : Gives(n, t)
  BY <1>2, <1>6, GivesIsHandled
<1>7. CASE Crash
  <2>1. ~OfOneKind(n, DOMAIN LiteralType)
    <3>1. ~\E t : Gives(n, t)
      BY <1>7 DEF Crash, Gives
    <3> QED
      BY <1>1, <1>3, <3>1
  <2> QED
    BY <1>4, <1>7, <2>1, CrashIsHandled
<1> QED
  BY <1>1, <1>5, <1>6, <1>7


LEMMA BinaryIsHandled ==
  ASSUME IInv, JInv, pass = "checking", NEW n \in Ready, Kind(n) = "BINARY_EXPR",
         HandleBinaryExpr(n)
  PROVE  HandlerOK(n)
<1> DEFINE lhs == Child(n, 1)
           rhs == Child(n, 2)
           Typed(l) == Gives(n, IF tree[n].name \in {"EQUAL", "GREATER_THAN", "LESS_THAN"}
                                THEN "BOOL" ELSE l)
<1>1. IF tree[n].name = "ASSIGNMENT" /\ Kind(lhs) # "IDENTIFIER_EXPR" THEN Fails
      ELSE IF Kind(rhs) = "BINARY_EXPR" /\ rhs \notin DOMAIN mNodeTypes THEN Crash
      ELSE \E l \in OperandTypes(lhs), r \in OperandTypes(rhs) :
             IF l # r THEN Fails ELSE Typed(l)
  BY DEF HandleBinaryExpr
<1>2. Kind(n) \notin Literals /\ n \in Nodes
  BY DEF Literals, Ready
<1>3. /\ lhs \in Children(n) /\ rhs \in Children(n) /\ rhs \in Nodes /\ tree[rhs].up = n
  <2>1. Arity(n) \in Nat /\ Arity(n) >= 2
    BY <1>2, CheckedTreeIsComplete, ChildrenAreFinite DEF IInv, TreeComplete, Needs
  <2>2. 1 \in 1 .. Arity(n) /\ 2 \in 1 .. Arity(n)
    BY <2>1
  <2> QED
    BY <1>2, <2>2, ChildIsChild DEF IInv
<1> HIDE DEF lhs, rhs
<1>4. CASE tree[n].name = "ASSIGNMENT" /\ Kind(lhs) # "IDENTIFIER_EXPR"
  <2>1. ~Sure(n)
    BY <1>4 DEF Sure, Literals
  <2> QED
    BY <1>1, <1>2, <1>4, <2>1, QuietIsHandled DEF Fails
<1>5. CASE Crash /\ Kind(rhs) = "BINARY_EXPR" /\ rhs \notin DOMAIN mNodeTypes
  <2>1. rhs \in visited
    BY <1>3, <1>5 DEF Ready
  <2>2. ~Sure(rhs)
    BY <1>5, <2>1 DEF JInv, WalkOK, Left
  <2>3. Fatal
    BY <1>3, <1>5, <2>2 DEF Fatal, Sure, OfKind
  <2> QED
    BY <1>5, <2>3, CrashIsHandled
<1>6. CASE \E l \in OperandTypes(lhs), r \in OperandTypes(rhs) :
             IF l # r THEN Fails ELSE Typed(l)
  <2>1. PICK l \in OperandTypes(lhs), r \in OperandTypes(rhs) :
          IF l # r THEN Fails ELSE Typed(l)
    BY <1>6
  <2>2. CASE l = r
    BY <1>2, <2>1, <2>2, GivesIsHandled
  <2>3. CASE l # r
    <3>1. ~Sure(n)
      <4> SUFFICES ASSUME Sure(n) PROVE FALSE
        OBVIOUS
      <4>1. PICK k \in {"BOOLEAN_EXPR", "NUMBER_EXPR"} : \A i \in Children(n) : Kind(i) = k
        BY DEF Sure, OfOneKind, Literals
      <4>2. Kind(lhs) = k /\ Kind(rhs) = k
        BY <1>3, <4>1
      <4>3. OperandTypes(lhs) = OperandTypes(rhs) /\ \E t : OperandTypes(lhs) = {t}
        BY <4>1, <4>2 DEF OperandTypes
      <4> QED
        BY <2>3, <4>3
    <3> QED
      BY <1>2, <2>1, <2>3, <3>1, QuietIsHandled DEF Fails
  <2> QED
    BY <2>2, <2>3
<1> QED
  BY <1>1, <1>4, <1>5, <1>6

LEMMA IdentifierIsHandled ==
  ASSUME IInv, JInv, pass = "checking", NEW n \in Ready, Kind(n) = "IDENTIFIER_EXPR",
         HandleIdentifierExpr(n)
  PROVE  HandlerOK(n)
<1>1. n \in Identifiers /\ Kind(n) \notin Literals
  BY DEF Identifiers, OfKind, Ready, Literals
<1>2. HasSymbol(n) /\ SymbolOf(n).mName = tree[n].name
  BY <1>1 DEF JInv, UsesOK
<1>3. CASE SymbolOf(n).mIsFunction
  <2> DEFINE d == mUseDefs[n]
  <2>1. d \in DOMAIN mTable /\ mTable[d].mIsFunction /\ mTable[d].mName = tree[n].name
    BY <1>2, <1>3 DEF HasSymbol, SymbolOf
  <2>2. d \in GetOverloadCandidates(tree[n].name)
    BY <2>1 DEF JInv, SymbolsOK, GetOverloadCandidates
  <2>3. Fatal
    BY <1>1, <2>2 DEF Fatal, IsFunctionNameValid
  <2> QED
    BY <1>3, <2>3, CrashIsHandled DEF HandleIdentifierExpr
<1>4. CASE ~SymbolOf(n).mIsFunction
  BY <1>1, <1>2, <1>4, GivesIsHandled DEF HandleIdentifierExpr
<1> QED
  BY <1>3, <1>4

LEMMA CallIsHandled ==
  ASSUME IInv, JInv, pass = "checking", NEW n \in Ready, Kind(n) = "CALL_EXPR",
         HandleCallExpr(n)
  PROVE  HandlerOK(n)
<1> DEFINE sameLength == {d \in GetOverloadCandidates(tree[n].name) :
                            Len(GetFunctionParamTypes(mTable[d])) = Arity(n)}
           stops == {k \in 1..Arity(n) :
                       \/ Kind(Child(n, k)) = "null"
                       \/ Kind(Child(n, k)) = "CALL_EXPR" /\ OverloadSet(Child(n, k)) = {}}
           first == CHOOSE k \in stops : \A l \in stops : k <= l
           candidates == {d \in sameLength : \A k \in 1..Arity(n) : Accepts(d, n, k)}
           Entry(fns, errors) ==
             /\ mOverloadMap' = With(mOverloadMap, n, fns)
             /\ mErrorCount' = mErrorCount + errors
             /\ UNCHANGED <<pass, mUseDefs, mNodeTypes>>
<1>1. IF sameLength = {} THEN Entry({}, 1)
      ELSE IF stops # {} THEN IF Kind(Child(n, first)) = "null" THEN Crash ELSE Passes
      ELSE Entry(candidates, IF candidates = {} THEN 1 ELSE 0)
  BY DEF HandleCallExpr
<1>2. n \in Nodes /\ ~Sure(n) /\ Kind(n) \notin Literals
  BY DEF Ready, Sure, Literals
<1>3. CASE stops # {} /\ Kind(Child(n, first)) = "null" /\ Crash
  <2>1. stops \subseteq Nat
    BY ChildrenAreFinite DEF IInv
  <2>2. first \in stops
    <3> HIDE DEF stops
    <3> QED
      BY <1>3, <2>1, LeastNatural
  <2>3. first \in 1 .. Arity(n)
    BY <2>2
  <2> HIDE DEF first
  <2>4. Child(n, first) \in OfKind("null")
    BY <1>2, <1>3, <2>3, ChildIsChild DEF IInv, OfKind
  <2>5. Fatal
    BY <2>4 DEF Fatal
  <2> QED
    BY <1>3, <2>5, CrashIsHandled
<1>4. CASE UNCHANGED <<pass, mUseDefs, mNodeTypes>>
  BY <1>2, <1>4, QuietIsHandled
<1>5. \/ stops # {} /\ Kind(Child(n, first)) = "null" /\ Crash
      \/ UNCHANGED <<pass, mUseDefs, mNodeTypes>>
  <2> HIDE DEF sameLength, stops, first, candidates
  <2> QED
    BY <1>1 DEF Passes
<1> QED
  BY <1>3, <1>4, <1>5

LEMMA ReturnIsHandled ==
  ASSUME IInv, JInv, pass = "checking", NEW n \in Ready, Kind(n) = "RETURN_STMT",
         HandleReturnStmt(n)
  PROVE  HandlerOK(n)
<1> DEFINE f == FunctionAround(n)
           type == GetReturnType(mTable[f])
<1>1. n \in Nodes /\ n \in OfKind("RETURN_STMT") /\ ~Sure(n) /\ Kind(n) \notin Literals
  BY DEF Ready, Sure, Literals, OfKind
<1>2. f \in OfKind("FUNCTION_DECL")
  BY <1>1, ReturnsAreInFunctions DEF IInv
<1>3. FunctionEntry(f) /\ f \in DOMAIN mTable /\ Head(mTable[f].mType) = tree[f].type
  BY <1>2 DEF IInv, TableOK, OfKind, JInv, SymbolsOK
<1>4. type \in Type /\ type = tree[f].type
  BY <1>3 DEF FunctionEntry, GetReturnType
<1>5. IF type = "VOID" THEN IF Arity(n) = 0 THEN Passes ELSE Fails
      ELSE IF Arity(n) = 0 THEN Crash
      ELSE CheckExprEvaluateToType(Child(n, 1), type, 1, 0)
  BY DEF HandleReturnStmt
<1>6. CASE Passes \/ Fails
  BY <1>1, <1>6, QuietIsHandled DEF Passes, Fails
<1>7. CASE type # "VOID" /\ Arity(n) = 0 /\ Crash
  <2>1. Fatal
    BY <1>1, <1>4, <1>7 DEF Fatal
  <2> QED
    BY <1>7, <2>1, CrashIsHandled
<1>8. CASE Arity(n) # 0 /\ CheckExprEvaluateToType(Child(n, 1), type, 1, 0)
  <2> HIDE DEF type
  <2> QED
    BY <1>4, <1>8, EvaluationIsHandled
<1> QED
  BY <1>5, <1>6, <1>7, <1>8

LEMMA NodeIsHandled ==
  ASSUME IInv, JInv, pass = "checking", NEW n \in Ready, DispatchNode(n)
  PROVE  HandlerOK(n)
<1>1. n \in Nodes
  BY DEF Ready
<1>2. CASE Kind(n) = "VAR_DECL" /\ HandleVarDecl(n)
  <2>1. CASE Arity(n) = 0
    <3>1. Passes /\ ~Sure(n) /\ Kind(n) \notin Literals
      BY <1>2, <2>1 DEF HandleVarDecl, Sure, Literals
    <3> QED
      BY <3>1, QuietIsHandled DEF Passes
  <2>2. CASE Arity(n) # 0
    <3>1. tree[n].type \in Type
      BY <1>1, <1>2 DEF IInv, TreeOK
    <3>2. \E errors, found : CheckExprEvaluateToType(Child(n, 1), tree[n].type, errors, found)
      BY <1>2, <2>2, Zenon DEF HandleVarDecl
    <3> QED
      BY <1>2, <2>2, <3>1, <3>2, EvaluationIsHandled
  <2> QED
    BY <2>1, <2>2
<1>3. CASE Kind(n) \in {"IF_STMT", "WHILE_STMT"} /\ HandleCond(n)
  <2>1. Arity(n) # 0
    <3>1. Arity(n) \in Nat /\ Arity(n) >= 2
      BY <1>1, <1>3, CheckedTreeIsComplete, ChildrenAreFinite DEF IInv, TreeComplete, Needs
    <3> QED
      BY <3>1
  <2>2. CheckExprEvaluateToType(Child(n, 1), "BOOL", 1, 0) /\ "BOOL" \in Type
    BY <1>3 DEF HandleCond, Type
  <2> QED
    BY <1>3, <2>1, <2>2, EvaluationIsHandled
<1>4. CASE Kind(n) \in DOMAIN LiteralType /\ Gives(n, LiteralType[Kind(n)])
  BY <1>4, GivesIsHandled
<1>5. CASE Kind(n) \in NotHandled /\ Passes
  <2>1. ~Sure(n) /\ Kind(n) \notin Literals
    BY <1>5 DEF Sure, Literals, NotHandled, Decls, Stmts
  <2> QED
    BY <1>5, <2>1, QuietIsHandled DEF Passes
<1>6. CASE Kind(n) = "ARRAY_EXPR" /\ HandleArrayExpr(n)
  BY <1>6, ArrayIsHandled
<1>7. CASE Kind(n) = "BINARY_EXPR" /\ HandleBinaryExpr(n)
  BY <1>7, BinaryIsHandled
<1>8. CASE Kind(n) = "CALL_EXPR" /\ HandleCallExpr(n)
  BY <1>8, CallIsHandled
<1>9. CASE Kind(n) = "IDENTIFIER_EXPR" /\ HandleIdentifierExpr(n)
  BY <1>9, IdentifierIsHandled
<1>10. CASE Kind(n) = "RETURN_STMT" /\ HandleReturnStmt(n)
  BY <1>10, ReturnIsHandled
<1> QED
  BY <1>2, <1>3, <1>4, <1>5, <1>6, <1>7, <1>8, <1>9, <1>10 DEF DispatchNode

LEMMA SameFatal ==
  ASSUME UNCHANGED <<tree, mTable>>, Fatal
  PROVE  Fatal'
<1>1. /\ \A kind : OfKind(kind)' = OfKind(kind)
      /\ \A name : IsFunctionNameValid(name)' = IsFunctionNameValid(name)
      /\ \A n : Children(n)' = Children(n) /\ Arity(n)' = Arity(n) /\ Kind(n)' = Kind(n)
  BY DEF OfKind, Nodes, Kind, IsFunctionNameValid, GetOverloadCandidates, Children, Arity
<1>2. /\ \A n, kinds : OfOneKind(n, kinds)' <=> OfOneKind(n, kinds)
      /\ Identifiers' = Identifiers
  BY <1>1 DEF OfOneKind, Identifiers
<1>3. Ancestors' = Ancestors
  BY DEF Ancestors
<1>4. \A n : FunctionAround(n)' = FunctionAround(n)
  BY <1>1, <1>3 DEF FunctionAround
<1> QED
  BY <1>1, <1>2, <1>4 DEF Fatal

LEMMA CheckKeepsJ ==
  ASSUME IInv, JInv, Check
  PROVE  JInv'
<1>1. pass = "checking" /\ UNCHANGED <<tree, mTable>>
  BY DEF Check, CheckNode
<1>2. PICK n \in Ready : DispatchNode(n) /\ visited' = visited \cup {n}
  BY DEF Check, CheckNode, mCurrentNode
<1>3. HandlerOK(n)
  BY <1>1, <1>2, NodeIsHandled
<1>4. CrashesAreKnown'
  BY <1>1, <1>3, SameFatal DEF HandlerOK, CrashesAreKnown
<1>5. UsesOK'
  BY <1>1, <1>3, SameProgram DEF JInv, UsesOK, HandlerOK, HasSymbol, SymbolOf
<1>6. ASSUME pass' = pass, NEW m \in visited' PROVE Left(m)'
  <2>1. /\ Children(m)' = Children(m) /\ Nodes' = Nodes /\ \A i : Kind(i)' = Kind(i)
        /\ Sure(m)' <=> Sure(m)
    BY <1>1 DEF Children, Nodes, Kind, Sure, OfOneKind, Arity
  <2>2. CASE m = n
    <3>1. n \in Nodes /\ \A i \in Children(n) : i \in visited \/ Kind(i) = "null"
      BY DEF Ready
    <3> QED
      BY <1>2, <1>3, <1>6, <2>1, <2>2, <3>1 DEF Left, HandlerOK
  <2>3. CASE m # n
    <3>1. m \in visited /\ Left(m)
      BY <1>1, <1>2, <2>3 DEF JInv, WalkOK
    <3>2. m \in DOMAIN mNodeTypes => m \in DOMAIN mNodeTypes' /\ mNodeTypes'[m] = mNodeTypes[m]
      BY <1>3, <2>3 DEF HandlerOK, With
    <3>3. Kind(m) \in Literals => m \in DOMAIN mNodeTypes
      BY <3>1 DEF Left, Sure
    <3> QED
      BY <1>2, <2>1, <3>1, <3>2, <3>3 DEF Left
  <2> QED
    BY <2>2, <2>3
<1>7. WalkOK'
  BY <1>1, <1>6 DEF WalkOK
<1> QED
  BY <1>1, <1>4, <1>5, <1>7, SameProgram DEF JInv

LEMMA StutterKeepsJ ==
  ASSUME JInv, UNCHANGED vars
  PROVE  JInv'
<1>1. UNCHANGED <<tree, mTable, mUseDefs, pass, mErrorCount, visited, mNodeTypes>>
  BY DEF vars, checkerVars
<1>2. \A n : Left(n)' <=> Left(n)
  BY <1>1 DEF Left, Children, Nodes, Kind, Sure, OfOneKind, Arity
<1>3. WalkOK'
  BY <1>1, <1>2 DEF JInv, WalkOK
<1>4. CrashesAreKnown'
  BY <1>1, SameFatal DEF JInv, CrashesAreKnown
<1> QED
  BY <1>1, <1>3, <1>4, SameProgram DEF JInv, UsesOK, HasSymbol, SymbolOf

LEMMA InvarianceJ == Spec => []JInv
<1>1. Init => JInv
  BY InitHasJ
<1>2. IInv /\ JInv /\ [Next]_vars => JInv'
  BY CollectKeepsJ, LeaveKeepsJ, EndCollectingKeepsJ, CheckKeepsJ, EndCheckingKeepsJ,
     NextProgramKeepsJ, StutterKeepsJ DEF Next
<1> QED
  BY <1>1, <1>2, Invariance, PTL DEF Spec

(* Whatever the program, the type checker gets through without a failed      *)
(* assertion, an exception that nobody catches or a null pointer             *)
(* (typechecker.cpp:78-506), unless the program has one of the constructs    *)
(* that are listed as fatal.                                                 *)
THEOREM OnlyKnownCrashes == Spec => []CrashesAreKnown
<1>1. JInv => CrashesAreKnown
  BY DEF JInv
<1> QED
  BY <1>1, InvarianceJ, PTL

----------------------------------------------------------------------------
(* What passes is well typed: the invariant that it takes. *)

Values == Literals \cup {"ARRAY_EXPR", "BINARY_EXPR", "IDENTIFIER_EXPR"}
Comparisons == {"EQUAL", "GREATER_THAN", "LESS_THAN"}

(* An expression that was given a type has the one that follows from the     *)
(* types of what is under it.                                                *)
TypedRight(n) ==
  /\ n \in visited /\ Kind(n) \in Values
  /\ Kind(n) \in Literals => mNodeTypes[n] = LiteralType[Kind(n)]
  /\ Kind(n) = "IDENTIFIER_EXPR" => mNodeTypes[n] = Head(SymbolOf(n).mType)
  /\ Kind(n) = "ARRAY_EXPR" =>
       /\ Arity(n) # 0 /\ Child(n, 1) \in DOMAIN mNodeTypes
       /\ mNodeTypes[n] = GetArrayVersion[mNodeTypes[Child(n, 1)]]
  /\ Kind(n) = "BINARY_EXPR" =>
       /\ Child(n, 1) \in DOMAIN mNodeTypes /\ Child(n, 2) \in DOMAIN mNodeTypes
       /\ mNodeTypes[Child(n, 1)] = mNodeTypes[Child(n, 2)]
       /\ mNodeTypes[n] = IF tree[n].name \in Comparisons THEN "BOOL"
                          ELSE mNodeTypes[Child(n, 1)]

(* Whether value i is known to have type t, and for a call, to be settled;   *)
(* whether function d takes the arguments of call c that are no calls.       *)
Has(i, t) ==
  IF Kind(i) = "CALL_EXPR" THEN HasSymbol(i) /\ Head(SymbolOf(i).mType) = t
  ELSE i \in DOMAIN mNodeTypes /\ mNodeTypes[i] = t
Fits(i, t) == Has(i, t) /\ (Kind(i) = "CALL_EXPR" => OverloadSet(i) = {})
TakesArgs(d, c) ==
  \A k \in 1 .. Arity(c) :
     Kind(Child(c, k)) # "CALL_EXPR" => GetFunctionParamTypes(mTable[d])[k] = TypeOf(Child(c, k))

(* What a node has shown when the walk leaves it without an error. *)
ChecksOut(n) ==
  /\ Kind(n) \in Values => n \in DOMAIN mNodeTypes
  /\ Kind(n) = "VAR_DECL" /\ Arity(n) = 1 => Fits(Child(n, 1), tree[n].type)
  /\ Kind(n) \in {"IF_STMT", "WHILE_STMT"} => Fits(Child(n, 1), "BOOL")
  /\ Kind(n) = "RETURN_STMT" =>
       LET type == tree[FunctionAround(n)].type
       IN  IF Arity(n) = 0 THEN type = "VOID" ELSE Fits(Child(n, 1), type)
  /\ Kind(n) = "CALL_EXPR" =>
       /\ \A d \in OverloadSet(n) : TakesArgs(d, n)
       /\ OverloadSet(n) = {} => n \in DOMAIN mUseDefs /\ TakesArgs(mUseDefs[n], n)
       /\ tree[n].up \notin visited => OverloadSet(n) # {}
TypingOK ==
  /\ \A n \in DOMAIN mNodeTypes : TypedRight(n)
  /\ mErrorCount = 0 => \A n \in visited : ChecksOut(n)
TypesOK == pass = "checking" /\ DefinedOperands => TypingOK
KInv == TypesOK /\ PassedIsWellTyped

----------------------------------------------------------------------------
LEMMA SameTree ==
  ASSUME UNCHANGED tree
  PROVE  /\ Nodes' = Nodes
         /\ \A n : /\ Kind(n)' = Kind(n) /\ Children(n)' = Children(n) /\ Arity(n)' = Arity(n)
                   /\ FunctionAround(n)' = FunctionAround(n)
         /\ \A n, k : Child(n, k)' = Child(n, k)
         /\ DefinedOperands' <=> DefinedOperands
<1>1. /\ Nodes' = Nodes
      /\ \A n : Kind(n)' = Kind(n) /\ Children(n)' = Children(n) /\ Arity(n)' = Arity(n)
  BY DEF Nodes, Kind, Children, Arity
<1>2. \A n, k : Child(n, k)' = Child(n, k)
  BY <1>1 DEF Child
<1>3. Ancestors' = Ancestors
  BY DEF Ancestors
<1>4. \A n : FunctionAround(n)' = FunctionAround(n)
  BY <1>1, <1>3 DEF FunctionAround
<1>5. DefinedOperands' <=> DefinedOperands
  BY <1>1, <1>2 DEF DefinedOperands, OfKind
<1> QED
  BY <1>1, <1>2, <1>4, <1>5

(* What may be said of the handling of node n: the types are right, and      *)
(* without an error the calls stay as they are or are settled by n.          *)
SameCall(c) ==
  /\ OverloadSet(c)' = OverloadSet(c)
  /\ c \in DOMAIN mUseDefs' <=> c \in DOMAIN mUseDefs
  /\ c \in DOMAIN mUseDefs => mUseDefs'[c] = mUseDefs[c]
SettledBy(c, n) ==
  /\ tree[c].up = n /\ OverloadSet(c)' = {}
  /\ c \in DOMAIN mUseDefs' /\ mUseDefs'[c] \in OverloadSet(c)
HandledRight(n) ==
  /\ n \in DOMAIN mNodeTypes' => TypedRight(n)'
  /\ mErrorCount' = 0 =>
       /\ mErrorCount = 0
       /\ ChecksOut(n)'
       /\ \A c \in OfKind("CALL_EXPR") : c # n => SameCall(c) \/ SettledBy(c, n)

(* A value is looked at alone, unless it is a binary expression without type.*)
LEMMA OneOperand ==
  ASSUME IInv, pass = "checking", NEW m \in Nodes, NEW t \in Type,
         Kind(m) = "BINARY_EXPR" => m \in DOMAIN mNodeTypes
  PROVE  Operands[<<m, t>>] = {<<m, t>>}
<1> DEFINE o == <<m, t>>
<1>1. o \in Nodes \X Type /\ o[1] = m /\ TreeOK /\ TreeComplete
  BY CheckedTreeIsComplete DEF IInv
<1>2. Kind(o[1]) # "BINARY_EXPR" \/ o[1] \in DOMAIN mNodeTypes
  BY <1>1
<1> HIDE DEF o
<1>3. Operands[o] = {o}
  BY <1>1, <1>2, OperandsEquation
<1> QED
  BY <1>3 DEF o

(* A value that a handler asks for, without an error, has the type that is   *)
(* asked for; if it is a call, it is settled by that, and nothing else is.   *)
LEMMA EvaluationFits ==
  ASSUME IInv, JInv, TypingOK, pass = "checking", pass' = pass, UNCHANGED <<tree, mTable>>,
         NEW n \in Ready, NEW m \in Children(n), Kind(m) \in Exprs, NEW t \in Type,
         NEW errors \in Nat, NEW found \in Nat, Kind(m) # "CALL_EXPR" => errors # 0,
         CheckExprEvaluateToType(m, t, errors, found), mErrorCount' = 0
  PROVE  /\ mErrorCount = 0
         /\ Fits(m, t)'
         /\ \A c : SameCall(c) \/ SettledBy(c, n)
<1>1. m \in Nodes /\ tree[m].up = n /\ m \in visited /\ n \notin visited
  BY DEF Children, Ready, Exprs
<1>2. ~Throws(m, t)
  BY DEF CheckExprEvaluateToType, Crash
<1>3. /\ Settle(m, t) /\ mNodeTypes' = mNodeTypes
      /\ mErrorCount' = mErrorCount + found + Cardinality(Unmatched(m, t))
                        + IF Evaluates(m, t) THEN 0 ELSE errors
  BY <1>2 DEF CheckExprEvaluateToType
<1>4. IsFiniteSet(Unmatched(m, t)) /\ Cardinality(Unmatched(m, t)) \in Nat
  <2>1. Unmatched(m, t) \subseteq Nodes \X Type
    BY <1>1, CheckedTreeIsComplete, OperandsAreSides DEF IInv, Unmatched, Calls
  <2>2. IsFiniteSet(Nodes \X Type)
    BY NodesAreNumbered, TypeIsFinite, FS_Product DEF IInv
  <2> QED
    BY <2>1, <2>2, FS_Subset, FS_CardinalityType
<1>5. /\ mErrorCount = 0 /\ Cardinality(Unmatched(m, t)) = 0
      /\ Evaluates(m, t) \/ errors = 0
  BY <1>3, <1>4 DEF IInv
<1>6. Unmatched(m, t) = {}
  BY <1>4, <1>5, FS_EmptySet
<1>7. ChecksOut(m)
  BY <1>1, <1>5 DEF TypingOK
<1>8. Operands[<<m, t>>] = {<<m, t>>}
  BY <1>1, <1>7, OneOperand DEF ChecksOut, Values
<1> DEFINE o == <<m, t>>
<1>9. o[1] = m /\ o[2] = t
  OBVIOUS
<1> HIDE DEF o
<1>10. CASE Kind(m) = "CALL_EXPR"
  <2>1. Calls(m, t) = {o}
    BY <1>8, <1>9, <1>10 DEF Calls, o
  <2>2. OverloadSet(m) # {}
    BY <1>1, <1>7, <1>10 DEF ChecksOut
  <2>3. Matched(m, t) = {o}
    <3>1. o \notin Unmatched(m, t)
      BY <1>6
    <3>2. o \in Matched(m, t)
      BY <1>9, <2>1, <2>2, <3>1 DEF Unmatched
    <3> QED
      BY <2>1, <3>2 DEF Matched
  <2> DEFINE calls == {p[1] : p \in Matched(m, t)}
             wanted == [c \in calls |-> (CHOOSE p \in Matched(m, t) : p[1] = c)[2]]
  <2>4. calls = {m}
    BY <1>9, <2>3
  <2>5. wanted[m] = t
    <3>1. (CHOOSE p \in Matched(m, t) : p[1] = m) = o
      BY <1>9, <2>3
    <3> QED
      BY <1>9, <2>4, <3>1
  <2>6. PICK choice \in [calls -> DOMAIN mTable] :
          /\ \A c \in calls : /\ choice[c] \in OverloadSet(c)
                              /\ GetReturnType(mTable[choice[c]]) = wanted[c]
          /\ mUseDefs' = [u \in DOMAIN mUseDefs \cup calls |->
                            IF u \in calls THEN choice[u] ELSE mUseDefs[u]]
    BY <1>3, Zenon DEF Settle
  <2>7. mOverloadMap' = [c \in DOMAIN mOverloadMap \ calls |-> mOverloadMap[c]]
    BY <1>3, Zenon DEF Settle
  <2> HIDE DEF calls, wanted
  <2>8. /\ m \in DOMAIN mUseDefs' /\ mUseDefs'[m] = choice[m]
        /\ choice[m] \in DOMAIN mTable /\ choice[m] \in OverloadSet(m)
        /\ Head(mTable[choice[m]].mType) = t
    BY <2>4, <2>5, <2>6 DEF GetReturnType
  <2>9. OverloadSet(m)' = {}
    BY <2>4, <2>7 DEF OverloadSet
  <2>10. \A c : c # m => SameCall(c)
    <3> SUFFICES ASSUME NEW c, c # m PROVE SameCall(c)
      OBVIOUS
    <3>1. OverloadSet(c)' = OverloadSet(c)
      BY <2>4, <2>7 DEF OverloadSet
    <3>2. c \in DOMAIN mUseDefs' <=> c \in DOMAIN mUseDefs
      BY <2>4, <2>6
    <3>3. c \in DOMAIN mUseDefs => mUseDefs'[c] = mUseDefs[c]
      BY <2>4, <2>6
    <3> QED
      BY <3>1, <3>2, <3>3 DEF SameCall
  <2>11. SettledBy(m, n)
    BY <1>1, <2>8, <2>9 DEF SettledBy
  <2>12. Fits(m, t)'
    BY <1>10, <2>8, <2>9, SameTree DEF Fits, Has, HasSymbol, SymbolOf
  <2> QED
    BY <1>5, <2>10, <2>11, <2>12
<1>11. CASE Kind(m) # "CALL_EXPR"
  <2>1. Matched(m, t) = {}
    BY <1>8, <1>11 DEF Matched, Calls
  <2>2. mUseDefs' = [u \in DOMAIN mUseDefs |-> mUseDefs[u]]
        /\ mOverloadMap' = [c \in DOMAIN mOverloadMap |-> mOverloadMap[c]]
    BY <1>3, <2>1 DEF Settle
  <2>3. \A c : SameCall(c)
    BY <2>2 DEF SameCall, OverloadSet
  <2>4. m \in DOMAIN mNodeTypes /\ mNodeTypes[m] = t
    BY <1>2, <1>5, <1>8, <1>9, <1>11 DEF Throws, Evaluates, o
  <2>5. Fits(m, t)'
    BY <1>3, <1>11, <2>4, SameTree DEF Fits, Has
  <2> QED
    BY <1>5, <2>3, <2>5
<1> QED
  BY <1>10, <1>11

(* A step of the walk over a program whose operands the checker reads. *)
Handling(n) ==
  /\ IInv /\ JInv /\ TypingOK /\ DefinedOperands
  /\ pass = "checking" /\ pass' = pass /\ UNCHANGED <<tree, mTable>>
  /\ n \in Ready /\ visited' = visited \cup {n}

LEMMA NewNode ==
  ASSUME NEW n, Handling(n)
  PROVE  /\ n \in Nodes /\ n \notin visited /\ n \notin DOMAIN mNodeTypes /\ n \in visited'
         /\ mErrorCount \in Nat
         /\ \A i \in Children(n) : i \in visited \/ Kind(i) = "null"
         /\ \A k \in 1 .. Arity(n) : Child(n, k) \in Children(n) /\ Child(n, k) # n
         /\ Arity(n) \in Nat /\ Arity(n) >= Needs(n)
<1>1. /\ n \in Nodes /\ n \notin visited /\ n \in visited' /\ TreeOK /\ TreeComplete
      /\ mErrorCount \in Nat
      /\ \A i \in Children(n) : i \in visited \/ Kind(i) = "null"
  BY CheckedTreeIsComplete DEF Handling, Ready, IInv
<1>2. n \notin DOMAIN mNodeTypes
  BY <1>1 DEF Handling, TypingOK, TypedRight
<1>3. \A k \in 1 .. Arity(n) : Child(n, k) \in Children(n) /\ n < Child(n, k) /\ Child(n, k) \in Nat
  BY <1>1, ChildIsChild, NodesAreNumbered
<1>4. \A k \in 1 .. Arity(n) : Child(n, k) # n
  BY <1>3
<1> QED
  BY <1>1, <1>2, <1>3, <1>4, ChildrenAreFinite DEF TreeComplete

LEMMA FailsIsRight ==
  ASSUME NEW n, Handling(n), Fails
  PROVE  HandledRight(n)
BY NewNode DEF Fails, HandledRight

LEMMA PassesIsRight ==
  ASSUME NEW n, Handling(n), Passes, ChecksOut(n)'
  PROVE  HandledRight(n)
BY NewNode DEF Passes, HandledRight, SameCall, OverloadSet

LEMMA GivesIsRight ==
  ASSUME NEW n, Handling(n), NEW type, Gives(n, type), TypedRight(n)'
  PROVE  HandledRight(n)
<1>1. Kind(n)' \in Values
  BY DEF TypedRight
<1>2. ChecksOut(n)'
  BY <1>1 DEF ChecksOut, Gives, With, Values, Literals
<1> QED
  BY <1>2 DEF Gives, HandledRight, SameCall, OverloadSet

LEMMA LiteralIsRight ==
  ASSUME NEW n, Handling(n), Kind(n) \in DOMAIN LiteralType, Gives(n, LiteralType[Kind(n)])
  PROVE  HandledRight(n)
<1>1. Kind(n)' = Kind(n) /\ Kind(n) \in Literals /\ n \in visited'
  BY NewNode, SameTree, LiteralTypes DEF Handling
<1>2. mNodeTypes'[n] = LiteralType[Kind(n)]
  BY DEF Gives, With
<1>3. TypedRight(n)'
  BY <1>1, <1>2 DEF TypedRight, Values, Literals
<1> QED
  BY <1>3, GivesIsRight

LEMMA IdentifierIsRight ==
  ASSUME NEW n, Handling(n), Kind(n) = "IDENTIFIER_EXPR", HandleIdentifierExpr(n)
  PROVE  HandledRight(n)
<1>1. Gives(n, Head(SymbolOf(n).mType))
  BY DEF HandleIdentifierExpr, Crash, Handling
<1>2. mNodeTypes'[n] = Head(SymbolOf(n).mType) /\ mUseDefs' = mUseDefs
  BY <1>1 DEF Gives, With
<1>3. SymbolOf(n)' = SymbolOf(n)
  BY <1>2 DEF SymbolOf, Handling
<1>4. Kind(n)' = Kind(n) /\ n \in visited'
  BY NewNode, SameTree DEF Handling
<1>5. TypedRight(n)'
  BY <1>2, <1>3, <1>4 DEF TypedRight, Values, Literals
<1> QED
  BY <1>1, <1>5, GivesIsRight

LEMMA ArrayIsRight ==
  ASSUME NEW n, Handling(n), Kind(n) = "ARRAY_EXPR", HandleArrayExpr(n)
  PROVE  HandledRight(n)
<1> DEFINE elements == {TypeOf(c) : c \in Children(n)}
           type == CHOOSE t \in elements : TRUE
<1>1. IF Cardinality(elements) # 1 THEN Fails
      ELSE IF type \in DOMAIN GetArrayVersion THEN Gives(n, GetArrayVersion[type]) ELSE Crash
  BY DEF HandleArrayExpr
<1>2. ~Crash
  BY DEF Crash, Handling
<1>3. CASE Fails
  BY <1>3, FailsIsRight
<1>4. CASE /\ Cardinality(elements) = 1 /\ type \in DOMAIN GetArrayVersion
           /\ Gives(n, GetArrayVersion[type])
  <2>1. PICK x : elements = {x}
    <3>1. IsFiniteSet(elements)
      <4> DEFINE f == [c \in Children(n) |-> TypeOf(c)]
      <4>1. f \in Surjection(Children(n), elements)
        BY DEF Surjection
      <4>2. IsFiniteSet(Children(n))
        BY ChildrenAreFinite DEF Handling, IInv
      <4> HIDE DEF f, elements
      <4> QED
        BY <4>1, <4>2, FS_Surjection
    <3> HIDE DEF elements
    <3> QED
      BY <1>4, <3>1, FS_Singleton
  <2>2. type = x
    BY <2>1
  <2>3. Arity(n) # 0
    <3>1. Children(n) # {}
      BY <2>1
    <3> QED
      BY <3>1, ChildrenAreFinite, FS_EmptySet DEF Handling, IInv, Arity
  <2> DEFINE c == Child(n, 1)
  <2>4. c \in Children(n) /\ c # n
    BY <2>3, NewNode
  <2>5. TypeOf(c) = x
    BY <2>1, <2>4
  <2> HIDE DEF elements, type
  <2>6. c \in DOMAIN mNodeTypes /\ mNodeTypes[c] = type
    BY <1>4, <2>2, <2>5, LiteralTypes DEF TypeOf
  <2>7. /\ c \in DOMAIN mNodeTypes' /\ mNodeTypes'[c] = type
        /\ mNodeTypes'[n] = GetArrayVersion[type]
    BY <1>4, <2>4, <2>6 DEF Gives, With
  <2>8. /\ Kind(n)' = Kind(n) /\ n \in visited' /\ Arity(n)' = Arity(n)
        /\ Child(n, 1)' = Child(n, 1)
    BY NewNode, SameTree DEF Handling
  <2>9. TypedRight(n)'
    BY <2>3, <2>7, <2>8 DEF TypedRight, Values, Literals
  <2> QED
    BY <1>4, <2>9, GivesIsRight
<1> QED
  BY <1>1, <1>2, <1>3, <1>4

(* The operands of a binary expression have been given types, the right one  *)
(* perhaps not if it is a binary expression itself.                          *)
LEMMA OperandIsTyped ==
  ASSUME NEW n, Handling(n), Kind(n) = "BINARY_EXPR", NEW k \in 1 .. 2,
         Kind(Child(n, k)) # "BINARY_EXPR" \/ Child(n, k) \in DOMAIN mNodeTypes
  PROVE  /\ Child(n, k) \in DOMAIN mNodeTypes
         /\ OperandTypes(Child(n, k)) = {mNodeTypes[Child(n, k)]}
<1> DEFINE c == Child(n, k)
<1>1. n \in OfKind("BINARY_EXPR")
  BY NewNode DEF OfKind
<1>2. Kind(c) \in {"BINARY_EXPR", "BOOLEAN_EXPR", "IDENTIFIER_EXPR", "NUMBER_EXPR"}
  BY <1>1 DEF Handling, DefinedOperands
<1>3. c \in Children(n)
  <2>1. k \in 1 .. Arity(n)
    BY NewNode DEF Needs
  <2> QED
    BY <2>1, NewNode
<1> HIDE DEF c
<1>4. c \in visited
  BY <1>2, <1>3, NewNode
<1>5. Left(c)
  BY <1>4 DEF Handling, JInv, WalkOK
<1>6. c \in DOMAIN mNodeTypes
  BY <1>2, <1>5 DEF Left, Sure, Literals, c
<1>7. OperandTypes(c) = {mNodeTypes[c]}
  BY <1>2, <1>5, LiteralTypes DEF Left, OperandTypes, Literals
<1> QED
  BY <1>6, <1>7 DEF c

LEMMA BinaryIsRight ==
  ASSUME NEW n, Handling(n), Kind(n) = "BINARY_EXPR", HandleBinaryExpr(n)
  PROVE  HandledRight(n)
<1> DEFINE lhs == Child(n, 1)
           rhs == Child(n, 2)
           Typed(l) == Gives(n, IF tree[n].name \in {"EQUAL", "GREATER_THAN", "LESS_THAN"}
                                THEN "BOOL" ELSE l)
<1>1. IF tree[n].name = "ASSIGNMENT" /\ Kind(lhs) # "IDENTIFIER_EXPR" THEN Fails
      ELSE IF Kind(rhs) = "BINARY_EXPR" /\ rhs \notin DOMAIN mNodeTypes THEN Crash
      ELSE \E l \in OperandTypes(lhs), r \in OperandTypes(rhs) :
             IF l # r THEN Fails ELSE Typed(l)
  BY DEF HandleBinaryExpr
<1>2. ~Crash
  BY DEF Crash, Handling
<1>3. CASE Fails
  BY <1>3, FailsIsRight
<1>4. CASE /\ ~Fails
           /\ Kind(rhs) = "BINARY_EXPR" => rhs \in DOMAIN mNodeTypes
           /\ \E l \in OperandTypes(lhs), r \in OperandTypes(rhs) :
                IF l # r THEN Fails ELSE Typed(l)
  <2>1. Kind(lhs) # "BINARY_EXPR"
    <3>1. Arity(n) # 0 /\ n \in Nodes /\ TreeOK
      BY NewNode DEF Needs, Handling, IInv
    <3>2. Under(lhs, {"BINARY_EXPR"}) /\ First(lhs) /\ lhs \in Nodes
      BY <3>1, FirstChild DEF Under
    <3> QED
      BY <3>2 DEF Handling, JInv, PlacesOK
  <2>2. 1 \in 1 .. 2 /\ 2 \in 1 .. 2
    OBVIOUS
  <2>3. lhs \in DOMAIN mNodeTypes /\ OperandTypes(lhs) = {mNodeTypes[lhs]}
    BY <2>1, <2>2, OperandIsTyped
  <2>4. rhs \in DOMAIN mNodeTypes /\ OperandTypes(rhs) = {mNodeTypes[rhs]}
    BY <1>4, <2>2, OperandIsTyped
  <2> HIDE DEF Typed
  <2>5. mNodeTypes[lhs] = mNodeTypes[rhs] /\ Typed(mNodeTypes[lhs])
    BY <1>4, <2>3, <2>4
  <2>6. n \notin DOMAIN mNodeTypes
    BY NewNode
  <2> DEFINE type == IF tree[n].name \in Comparisons THEN "BOOL" ELSE mNodeTypes[lhs]
  <2>7. Gives(n, type)
    BY <2>5 DEF Typed, Comparisons
  <2> HIDE DEF type
  <2>8. /\ mNodeTypes'[n] = type
        /\ lhs \in DOMAIN mNodeTypes' /\ mNodeTypes'[lhs] = mNodeTypes[lhs]
        /\ rhs \in DOMAIN mNodeTypes' /\ mNodeTypes'[rhs] = mNodeTypes[rhs]
    BY <2>3, <2>4, <2>6, <2>7 DEF Gives, With
  <2>9. /\ Kind(n)' = Kind(n) /\ n \in visited' /\ tree' = tree
        /\ Child(n, 1)' = Child(n, 1) /\ Child(n, 2)' = Child(n, 2)
    BY NewNode, SameTree DEF Handling
  <2>10. TypedRight(n)'
    BY <2>5, <2>8, <2>9 DEF TypedRight, Values, Literals, type
  <2> QED
    BY <2>7, <2>10, GivesIsRight
<1> QED
  BY <1>1, <1>2, <1>3, <1>4

LEMMA CallIsRight ==
  ASSUME NEW n, Handling(n), Kind(n) = "CALL_EXPR", HandleCallExpr(n)
  PROVE  HandledRight(n)
<1> DEFINE sameLength == {d \in GetOverloadCandidates(tree[n].name) :
                            Len(GetFunctionParamTypes(mTable[d])) = Arity(n)}
           stops == {k \in 1..Arity(n) :
                       \/ Kind(Child(n, k)) = "null"
                       \/ Kind(Child(n, k)) = "CALL_EXPR" /\ OverloadSet(Child(n, k)) = {}}
           first == CHOOSE k \in stops : \A l \in stops : k <= l
           candidates == {d \in sameLength : \A k \in 1..Arity(n) : Accepts(d, n, k)}
           Entry(fns, errors) ==
             /\ mOverloadMap' = With(mOverloadMap, n, fns)
             /\ mErrorCount' = mErrorCount + errors
             /\ UNCHANGED <<pass, mUseDefs, mNodeTypes>>
<1>1. IF sameLength = {} THEN Entry({}, 1)
      ELSE IF stops # {} THEN IF Kind(Child(n, first)) = "null" THEN Crash ELSE Passes
      ELSE Entry(candidates, IF candidates = {} THEN 1 ELSE 0)
  BY DEF HandleCallExpr
<1>2. ~Crash
  BY DEF Crash, Handling
<1>3. /\ n \in Nodes /\ n \notin visited /\ n \notin DOMAIN mNodeTypes /\ mErrorCount \in Nat
      /\ \A i \in Children(n) : i \in visited \/ Kind(i) = "null"
      /\ \A k \in 1 .. Arity(n) : Child(n, k) \in Children(n)
  BY NewNode
<1>4. CASE Entry({}, 1)
  BY <1>3, <1>4 DEF HandledRight
<1>5. CASE /\ stops # {} /\ Kind(Child(n, first)) # "null" /\ Passes
  <2>1. first \in stops
    <3>1. stops \subseteq Nat
      BY ChildrenAreFinite DEF Handling, IInv
    <3> HIDE DEF stops
    <3> QED
      BY <1>5, <3>1, LeastNatural
  <2> DEFINE arg == Child(n, first)
  <2>2. arg \in Children(n) /\ Kind(arg) = "CALL_EXPR" /\ OverloadSet(arg) = {}
    BY <1>3, <1>5, <2>1
  <2> HIDE DEF arg
  <2>3. arg \in visited /\ tree[arg].up \notin visited
    BY <1>3, <2>2 DEF Children
  <2>4. mErrorCount # 0
    BY <2>2, <2>3 DEF Handling, TypingOK, ChecksOut
  <2> QED
    BY <1>3, <1>5, <2>4 DEF HandledRight, Passes
<1>6. CASE Entry(candidates, IF candidates = {} THEN 1 ELSE 0)
  <2>1. ASSUME NEW d \in candidates PROVE TakesArgs(d, n)'
    <3>1. \A k \in 1..Arity(n) : Accepts(d, n, k)
      OBVIOUS
    <3>2. \A k \in 1..Arity(n) : Kind(Child(n, k)) # "CALL_EXPR" =>
            GetFunctionParamTypes(mTable[d])[k] = TypeOf(Child(n, k))
      BY <3>1 DEF Accepts
    <3>3. mNodeTypes' = mNodeTypes /\ mTable' = mTable /\ UNCHANGED tree
      BY <1>6 DEF Handling
    <3> HIDE DEF candidates
    <3> QED
      BY <3>2, <3>3, SameTree DEF TakesArgs, TypeOf, GetFunctionParamTypes
  <2> HIDE DEF candidates
  <2>2. /\ mErrorCount' = 0 => mErrorCount = 0 /\ candidates # {}
        /\ UNCHANGED <<mUseDefs, mNodeTypes>>
        /\ OverloadSet(n)' = candidates
        /\ \A c : c # n => OverloadSet(c)' = OverloadSet(c)
    BY <1>3, <1>6 DEF OverloadSet, With
  <2>3. Kind(n)' = "CALL_EXPR"
    BY SameTree DEF Handling
  <2>4. candidates # {} => ChecksOut(n)'
    BY <2>1, <2>2, <2>3 DEF ChecksOut, Values, Literals
  <2> QED
    BY <1>3, <2>2, <2>4 DEF HandledRight, SameCall
<1> QED
  <2> HIDE DEF sameLength, stops, first, candidates, Entry
  <2> QED
    BY <1>1, <1>2, <1>4, <1>5, <1>6

LEMMA ValueIsRight ==
  ASSUME NEW n, Handling(n), Kind(n) \in {"VAR_DECL", "IF_STMT", "WHILE_STMT", "RETURN_STMT"},
         Arity(n) # 0, NEW t \in Type, NEW errors \in Nat, NEW found \in Nat,
         Kind(Child(n, 1)) # "CALL_EXPR" => errors # 0,
         CheckExprEvaluateToType(Child(n, 1), t, errors, found),
         Fits(Child(n, 1), t)' => ChecksOut(n)'
  PROVE  HandledRight(n)
<1>0. PICK m : m = Child(n, 1)
  OBVIOUS
<1>1. n \in Nodes /\ n \notin DOMAIN mNodeTypes /\ TreeOK
  BY NewNode DEF Handling, IInv
<1>2. m \in Children(n) /\ m \in Nodes /\ tree[m].up = n /\ First(m)
  BY <1>0, <1>1, FirstChild
<1>3. Kind(m) \in Exprs
  <2>1. Under(m, {"VAR_DECL", "RETURN_STMT", "BINARY_EXPR"}) \/ Under(m, {"IF_STMT", "WHILE_STMT"})
    BY <1>1, <1>2 DEF Under
  <2> QED
    BY <1>2, <2>1 DEF Handling, JInv, PlacesOK
<1>4. mNodeTypes' = mNodeTypes
  BY DEF CheckExprEvaluateToType, Crash
<1>5. ASSUME mErrorCount' = 0
      PROVE  /\ mErrorCount = 0 /\ Fits(m, t)'
             /\ \A c : SameCall(c) \/ SettledBy(c, n)
  <2>1. CheckExprEvaluateToType(m, t, errors, found) /\ (Kind(m) # "CALL_EXPR" => errors # 0)
    BY <1>0
  <2>2. /\ IInv /\ JInv /\ TypingOK /\ pass = "checking" /\ pass' = pass
        /\ UNCHANGED <<tree, mTable>> /\ n \in Ready
    BY DEF Handling
  <2> QED
    BY <1>2, <1>3, <1>5, <2>1, <2>2, EvaluationFits
<1>6. Fits(m, t)' => ChecksOut(n)'
  <2>1. Child(n, 1)' = m
    BY <1>0, SameTree DEF Handling
  <2> QED
    BY <2>1
<1> QED
  BY <1>1, <1>4, <1>5, <1>6 DEF HandledRight

LEMMA VarDeclIsRight ==
  ASSUME NEW n, Handling(n), Kind(n) = "VAR_DECL", HandleVarDecl(n)
  PROVE  HandledRight(n)
<1> DEFINE wrongType == IF Kind(Child(n, 1)) = "CALL_EXPR" THEN 0 ELSE 1
           wrongLength == IF /\ tree[n].size # 0
                             /\ Kind(Child(n, 1)) = "ARRAY_EXPR"
                             /\ tree[n].size # Arity(Child(n, 1)) THEN 1 ELSE 0
<1>1. IF Arity(n) = 0 THEN Passes
      ELSE CheckExprEvaluateToType(Child(n, 1), tree[n].type, wrongType, wrongLength)
  BY DEF HandleVarDecl
<1>2. /\ wrongType \in Nat /\ wrongLength \in Nat /\ (Kind(Child(n, 1)) # "CALL_EXPR" => wrongType # 0)
      /\ tree[n].type \in Type
  BY NewNode DEF Handling, IInv, TreeOK
<1> HIDE DEF wrongType, wrongLength
<1>3. /\ Kind(n)' = Kind(n) /\ Arity(n)' = Arity(n) /\ Child(n, 1)' = Child(n, 1) /\ tree' = tree
  BY SameTree DEF Handling
<1>4. CASE Arity(n) = 0
  <2>1. ChecksOut(n)'
    BY <1>3, <1>4 DEF ChecksOut, Values, Literals
  <2> QED
    BY <1>1, <1>4, <2>1, PassesIsRight
<1>5. CASE Arity(n) # 0
  <2> SUFFICES ASSUME NEW t, t = tree[n].type PROVE HandledRight(n)
    OBVIOUS
  <2>1. Fits(Child(n, 1), t)' => ChecksOut(n)'
    BY <1>3 DEF ChecksOut, Values, Literals
  <2>2. CheckExprEvaluateToType(Child(n, 1), t, wrongType, wrongLength)
    BY <1>1, <1>5
  <2> QED
    BY <1>2, <1>5, <2>1, <2>2, ValueIsRight
<1> QED
  BY <1>4, <1>5

LEMMA CondIsRight ==
  ASSUME NEW n, Handling(n), Kind(n) \in {"IF_STMT", "WHILE_STMT"}, HandleCond(n)
  PROVE  HandledRight(n)
<1>1. Kind(n)' = Kind(n) /\ Arity(n) # 0 /\ "BOOL" \in Type /\ 1 \in Nat /\ 0 \in Nat /\ 1 # 0
  BY NewNode, SameTree DEF Handling, Needs, Type
<1>2. Fits(Child(n, 1), "BOOL")' => ChecksOut(n)'
  BY <1>1 DEF ChecksOut, Values, Literals
<1>3. CheckExprEvaluateToType(Child(n, 1), "BOOL", 1, 0)
  BY DEF HandleCond
<1> QED
  BY <1>1, <1>2, <1>3, ValueIsRight

LEMMA ReturnIsRight ==
  ASSUME NEW n, Handling(n), Kind(n) = "RETURN_STMT", HandleReturnStmt(n)
  PROVE  HandledRight(n)
<1> DEFINE f == FunctionAround(n)
           type == tree[f].type
<1>1. n \in Nodes /\ n \in OfKind("RETURN_STMT")
  BY NewNode DEF OfKind
<1>2. f \in OfKind("FUNCTION_DECL")
  BY <1>1, ReturnsAreInFunctions DEF Handling, IInv
<1>3. FunctionEntry(f) /\ f \in DOMAIN mTable /\ Head(mTable[f].mType) = type
  BY <1>2 DEF Handling, IInv, TableOK, OfKind, JInv, SymbolsOK
<1>4. type \in Type /\ GetReturnType(mTable[f]) = type
  BY <1>3 DEF FunctionEntry, GetReturnType
<1>5. IF type = "VOID" THEN IF Arity(n) = 0 THEN Passes ELSE Fails
      ELSE IF Arity(n) = 0 THEN Crash
      ELSE CheckExprEvaluateToType(Child(n, 1), type, 1, 0)
  BY <1>4 DEF HandleReturnStmt
<1>6. ~Crash
  BY DEF Crash, Handling
<1>7. Kind(n)' = Kind(n) /\ Arity(n)' = Arity(n) /\ type' = type
  BY SameTree DEF Handling
<1>8. CASE Fails
  BY <1>8, FailsIsRight
<1>9. CASE type = "VOID" /\ Arity(n) = 0 /\ Passes
  <2>1. ChecksOut(n)'
    BY <1>7, <1>9 DEF ChecksOut, Values, Literals
  <2> QED
    BY <1>9, <2>1, PassesIsRight
<1>10. CASE Arity(n) # 0 /\ CheckExprEvaluateToType(Child(n, 1), type, 1, 0)
  <2> SUFFICES ASSUME NEW t, t = type PROVE HandledRight(n)
    OBVIOUS
  <2>1. Fits(Child(n, 1), t)' => ChecksOut(n)'
    BY <1>7, <1>10 DEF ChecksOut, Values, Literals
  <2>2. 1 \in Nat /\ 0 \in Nat /\ 1 # 0 /\ t \in Type
    BY <1>4
  <2>3. CheckExprEvaluateToType(Child(n, 1), t, 1, 0)
    BY <1>10
  <2> HIDE DEF type
  <2> QED
    BY <1>10, <2>1, <2>2, <2>3, ValueIsRight
<1> QED
  BY <1>5, <1>6, <1>8, <1>9, <1>10

LEMMA NodeIsRight ==
  ASSUME NEW n, Handling(n), DispatchNode(n)
  PROVE  HandledRight(n)
<1>1. CASE Kind(n) \in NotHandled /\ Passes
  <2>1. Kind(n)' = Kind(n)
    BY SameTree DEF Handling
  <2>2. ChecksOut(n)'
    BY <1>1, <2>1 DEF ChecksOut, Values, Literals, NotHandled, Decls, Stmts
  <2> QED
    BY <1>1, <2>2, PassesIsRight
<1>2. CASE Kind(n) \in DOMAIN LiteralType /\ Gives(n, LiteralType[Kind(n)])
  BY <1>2, LiteralIsRight
<1>3. CASE Kind(n) = "IDENTIFIER_EXPR" /\ HandleIdentifierExpr(n)
  BY <1>3, IdentifierIsRight
<1>4. CASE Kind(n) = "ARRAY_EXPR" /\ HandleArrayExpr(n)
  BY <1>4, ArrayIsRight
<1>5. CASE Kind(n) = "BINARY_EXPR" /\ HandleBinaryExpr(n)
  BY <1>5, BinaryIsRight
<1>6. CASE Kind(n) = "CALL_EXPR" /\ HandleCallExpr(n)
  BY <1>6, CallIsRight
<1>7. CASE Kind(n) = "VAR_DECL" /\ HandleVarDecl(n)
  BY <1>7, VarDeclIsRight
<1>8. CASE Kind(n) \in {"IF_STMT", "WHILE_STMT"} /\ HandleCond(n)
  BY <1>8, CondIsRight
<1>9. CASE Kind(n) = "RETURN_STMT" /\ HandleReturnStmt(n)
  BY <1>9, ReturnIsRight
<1> QED
  BY <1>1, <1>2, <1>3, <1>4, <1>5, <1>6, <1>7, <1>8, <1>9 DEF DispatchNode

(* What was said of the nodes that had been left before stays true. *)
LEMMA TypesStay ==
  ASSUME NEW n, Handling(n), HandlerOK(n), NEW m \in DOMAIN mNodeTypes
  PROVE  TypedRight(m)' /\ m \in DOMAIN mNodeTypes' /\ mNodeTypes'[m] = mNodeTypes[m]
<1>1. n \notin DOMAIN mNodeTypes
  BY NewNode
<1>2. \A i \in DOMAIN mNodeTypes : i \in DOMAIN mNodeTypes' /\ mNodeTypes'[i] = mNodeTypes[i]
  BY <1>1 DEF HandlerOK, With
<1>3. TypedRight(m) /\ m \in visited'
  BY DEF Handling, TypingOK, TypedRight
<1>4. tree' = tree /\ mTable' = mTable
  BY DEF Handling
<1>5. /\ Kind(m)' = Kind(m) /\ Arity(m)' = Arity(m)
      /\ Child(m, 1)' = Child(m, 1) /\ Child(m, 2)' = Child(m, 2)
  BY <1>4, SameTree
<1>6. Kind(m) = "IDENTIFIER_EXPR" => SymbolOf(m)' = SymbolOf(m)
  <2> SUFFICES ASSUME Kind(m) = "IDENTIFIER_EXPR" PROVE SymbolOf(m)' = SymbolOf(m)
    OBVIOUS
  <2>1. m \in Identifiers
    BY <1>3 DEF TypedRight, Handling, JInv, WalkOK, Left, Identifiers, OfKind
  <2>2. m \in DOMAIN mUseDefs
    BY <2>1 DEF Handling, JInv, UsesOK, HasSymbol
  <2> QED
    BY <1>4, <2>1, <2>2 DEF HandlerOK, SymbolOf
<1>7. CASE Kind(m) \in Literals
  BY <1>2, <1>3, <1>5, <1>7 DEF TypedRight, Literals
<1>8. CASE Kind(m) = "IDENTIFIER_EXPR"
  BY <1>2, <1>3, <1>5, <1>6, <1>8 DEF TypedRight, Literals
<1>9. CASE Kind(m) = "ARRAY_EXPR"
  BY <1>2, <1>3, <1>5, <1>9 DEF TypedRight, Literals
<1>10. CASE Kind(m) = "BINARY_EXPR"
  BY <1>2, <1>3, <1>4, <1>5, <1>10 DEF TypedRight, Literals
<1> QED
  BY <1>2, <1>3, <1>7, <1>8, <1>9, <1>10 DEF TypedRight, Values

LEMMA ChecksStay ==
  ASSUME NEW n, Handling(n), HandlerOK(n), HandledRight(n), mErrorCount' = 0, NEW m \in visited
  PROVE  ChecksOut(m)'
<1>1. /\ ChecksOut(m) /\ Left(m) /\ m \in Nodes /\ m # n
  BY NewNode DEF HandledRight, Handling, TypingOK, JInv, WalkOK, Left
<1>2. tree' = tree /\ mTable' = mTable /\ n \notin visited /\ Kind(n) # "null"
  BY DEF Handling, Ready
<1>3. /\ \A i : Kind(i)' = Kind(i) /\ Arity(i)' = Arity(i) /\ FunctionAround(i)' = FunctionAround(i)
      /\ \A i, k : Child(i, k)' = Child(i, k)
  BY <1>2, SameTree
<1>4. ASSUME NEW i, i # n
      PROVE  /\ i \in DOMAIN mNodeTypes' <=> i \in DOMAIN mNodeTypes
             /\ i \in DOMAIN mNodeTypes => mNodeTypes'[i] = mNodeTypes[i]
             /\ TypeOf(i)' = TypeOf(i)
  BY <1>4 DEF HandlerOK, With, TypeOf
<1>5. ASSUME NEW k \in 1 .. Arity(m)
      PROVE  /\ Child(m, k) \in Nodes /\ Child(m, k) # n /\ tree[Child(m, k)].up = m
  <2>1. Child(m, k) \in Children(m) /\ Child(m, k) \in Nodes /\ tree[Child(m, k)].up = m
    BY <1>1, ChildIsChild DEF Handling, IInv
  <2> QED
    BY <1>1, <1>2, <2>1 DEF Left
<1>6. ASSUME NEW k \in 1 .. Arity(m), NEW t, Fits(Child(m, k), t)
      PROVE  Fits(Child(m, k), t)'
  <2>0. PICK i : i = Child(m, k)
    OBVIOUS
  <2>1. i \in Nodes /\ i # n /\ tree[i].up # n /\ Fits(i, t) /\ Child(m, k)' = i
    BY <1>1, <1>3, <1>5, <1>6, <2>0
  <2>2. CASE Kind(i) = "CALL_EXPR"
    <3>1. SameCall(i)
      BY <2>1, <2>2 DEF HandledRight, SettledBy, OfKind
    <3>2. Fits(i, t)'
      BY <1>2, <1>3, <2>1, <2>2, <3>1 DEF SameCall, Fits, Has, HasSymbol, SymbolOf
    <3> QED
      BY <2>1, <3>2
  <2>3. CASE Kind(i) # "CALL_EXPR"
    <3>1. Fits(i, t)'
      BY <1>3, <1>4, <2>1, <2>3 DEF Fits, Has
    <3> QED
      BY <2>1, <3>1
  <2> QED
    BY <2>2, <2>3
<1>7. ASSUME NEW d, TakesArgs(d, m) PROVE TakesArgs(d, m)'
  BY <1>2, <1>3, <1>4, <1>5, <1>7 DEF TakesArgs, GetFunctionParamTypes
<1>8. Arity(m) \in Nat /\ Arity(m) >= Needs(m)
  BY <1>1, CheckedTreeIsComplete, ChildrenAreFinite DEF Handling, IInv, TreeComplete
<1>9. CASE Kind(m) \in Values
  BY <1>1, <1>3, <1>4, <1>9 DEF ChecksOut, Values, Literals
<1>10. CASE Kind(m) = "VAR_DECL"
  <2> SUFFICES ASSUME Arity(m) = 1, NEW t, t = tree[m].type PROVE Fits(Child(m, 1), t)'
    BY <1>2, <1>3, <1>10 DEF ChecksOut, Values, Literals
  <2>1. Fits(Child(m, 1), t) /\ 1 \in 1 .. Arity(m)
    BY <1>1, <1>10 DEF ChecksOut
  <2> QED
    BY <1>6, <2>1
<1>11. CASE Kind(m) \in {"IF_STMT", "WHILE_STMT"}
  <2>1. Fits(Child(m, 1), "BOOL") /\ 1 \in 1 .. Arity(m)
    BY <1>1, <1>8, <1>11 DEF ChecksOut, Needs
  <2>2. Fits(Child(m, 1), "BOOL")'
    BY <1>6, <2>1
  <2> QED
    BY <1>3, <1>11, <2>2 DEF ChecksOut, Values, Literals
<1>12. CASE Kind(m) = "RETURN_STMT"
  <2>0. PICK t : t = tree[FunctionAround(m)].type
    OBVIOUS
  <2>1. t = (tree[FunctionAround(m)].type)'
    BY <1>2, <1>3, <2>0
  <2>2. Arity(m) # 0 => Fits(Child(m, 1), t) /\ 1 \in 1 .. Arity(m)
    BY <1>1, <1>8, <1>12, <2>0 DEF ChecksOut
  <2>3. Arity(m) # 0 => Fits(Child(m, 1), t)'
    BY <1>6, <2>2
  <2>4. Arity(m) = 0 => t = "VOID"
    BY <1>1, <1>12, <2>0 DEF ChecksOut
  <2> QED
    BY <1>3, <1>12, <2>1, <2>3, <2>4 DEF ChecksOut, Values, Literals
<1>13. CASE Kind(m) = "CALL_EXPR"
  <2>1. SameCall(m) \/ SettledBy(m, n)
    BY <1>1, <1>13 DEF HandledRight, OfKind
  <2>2. /\ \A d \in OverloadSet(m) : TakesArgs(d, m)
        /\ OverloadSet(m) = {} => m \in DOMAIN mUseDefs /\ TakesArgs(mUseDefs[m], m)
        /\ tree[m].up \notin visited => OverloadSet(m) # {}
    BY <1>1, <1>13 DEF ChecksOut
  <2>3. Kind(m)' = "CALL_EXPR" /\ visited' = visited \cup {n}
    BY <1>3, <1>13 DEF Handling
  <2>4. CASE SameCall(m)
    <3>1. \A d \in OverloadSet(m)' : TakesArgs(d, m)'
      BY <1>7, <2>2, <2>4 DEF SameCall
    <3>2. OverloadSet(m)' = {} => m \in DOMAIN mUseDefs' /\ TakesArgs(mUseDefs[m], m)'
      <4> SUFFICES ASSUME OverloadSet(m)' = {}, NEW d, d = mUseDefs[m]
                   PROVE  m \in DOMAIN mUseDefs' /\ mUseDefs'[m] = d /\ TakesArgs(d, m)'
        BY DEF TakesArgs
      <4> QED
        BY <1>7, <2>2, <2>4 DEF SameCall
    <3> QED
      BY <1>2, <2>2, <2>3, <2>4, <3>1, <3>2 DEF ChecksOut, SameCall, Values, Literals
  <2>5. CASE SettledBy(m, n)
    <3>1. m \in DOMAIN mUseDefs' /\ TakesArgs(mUseDefs[m], m)'
      <4> SUFFICES ASSUME NEW d, d = mUseDefs'[m] PROVE m \in DOMAIN mUseDefs' /\ TakesArgs(d, m)'
        BY DEF TakesArgs
      <4> QED
        BY <1>7, <2>2, <2>5 DEF SettledBy
    <3> QED
      BY <1>2, <2>3, <2>5, <3>1 DEF ChecksOut, SettledBy, Values, Literals
  <2> QED
    BY <2>1, <2>4, <2>5
<1> QED
  <2> SUFFICES ASSUME Kind(m) \notin Values \cup {"VAR_DECL", "IF_STMT", "WHILE_STMT", "RETURN_STMT", "CALL_EXPR"}
               PROVE  ChecksOut(m)'
    BY <1>9, <1>10, <1>11, <1>12, <1>13
  <2> QED
    BY <1>3 DEF ChecksOut

LEMMA CheckKeepsTypes ==
  ASSUME IInv, JInv, TypesOK, Check
  PROVE  TypesOK'
<1>1. pass = "checking" /\ UNCHANGED <<tree, mTable>>
  BY DEF Check, CheckNode
<1>2. PICK n \in Ready : DispatchNode(n) /\ visited' = visited \cup {n}
  BY DEF Check, CheckNode, mCurrentNode
<1> SUFFICES ASSUME pass' = pass, DefinedOperands PROVE TypingOK'
  BY <1>1, SameTree DEF TypesOK
<1>3. Handling(n)
  BY <1>1, <1>2 DEF Handling, TypesOK
<1>4. HandlerOK(n) /\ HandledRight(n)
  BY <1>1, <1>2, <1>3, NodeIsHandled, NodeIsRight
<1>5. ASSUME NEW m \in DOMAIN mNodeTypes' PROVE TypedRight(m)'
  <2>1. m = n \/ m \in DOMAIN mNodeTypes
    BY <1>4 DEF HandlerOK, With
  <2> QED
    BY <1>3, <1>4, <2>1, TypesStay DEF HandledRight
<1>6. ASSUME mErrorCount' = 0, NEW m \in visited' PROVE ChecksOut(m)'
  BY <1>2, <1>3, <1>4, <1>6, ChecksStay DEF HandledRight
<1> QED
  BY <1>5, <1>6 DEF TypingOK

----------------------------------------------------------------------------
(* The end of the walk. *)

(* When every value has been given a type, these are the true types. *)
LEMMA TypesAreTrue ==
  ASSUME TreeOK, TreeComplete,
         \A n \in DOMAIN mNodeTypes : TypedRight(n),
         \A n \in Nodes : Kind(n) \in Values => n \in DOMAIN mNodeTypes
  PROVE  \A n \in Nodes :
            TrueType[n] = IF Kind(n) = "CALL_EXPR" THEN Head(SymbolOf(n).mType) ELSE TypeOf(n)
<1> DEFINE E(f, n) ==
             CASE Kind(n) \in DOMAIN LiteralType -> LiteralType[Kind(n)]
               [] Kind(n) \in {"IDENTIFIER_EXPR", "CALL_EXPR"} -> Head(SymbolOf(n).mType)
               [] Kind(n) = "ARRAY_EXPR" -> GetArrayVersion[f[Child(n, 1)]]
               [] Kind(n) = "BINARY_EXPR" ->
                    IF tree[n].name \in {"EQUAL", "GREATER_THAN", "LESS_THAN"} THEN "BOOL"
                    ELSE f[Child(n, 1)]
               [] OTHER -> "ERROR"
           Known(n) == IF Kind(n) = "CALL_EXPR" THEN Head(SymbolOf(n).mType) ELSE TypeOf(n)
           h == [n \in Nodes |-> Known(n)]
<1>1. ASSUME NEW n \in Nodes, NEW f,
             Kind(n) \in {"ARRAY_EXPR", "BINARY_EXPR"} => f[Child(n, 1)] = Known(Child(n, 1))
      PROVE  E(f, n) = Known(n)
  <2> DEFINE c == Child(n, 1)
  <2>1. \A i \in DOMAIN mNodeTypes : Kind(i) # "CALL_EXPR" /\ Known(i) = mNodeTypes[i]
    BY DEF TypedRight, Values, Literals, TypeOf
  <2>2. CASE Kind(n) \in Literals
    <3>1. n \in DOMAIN mNodeTypes /\ mNodeTypes[n] = LiteralType[Kind(n)]
      BY <2>2 DEF Values, TypedRight
    <3>2. E(f, n) = LiteralType[Kind(n)]
      BY <2>2, LiteralTypes DEF Literals
    <3> QED
      BY <2>1, <3>1, <3>2
  <2>3. CASE Kind(n) = "IDENTIFIER_EXPR"
    <3>1. n \in DOMAIN mNodeTypes /\ mNodeTypes[n] = Head(SymbolOf(n).mType)
      BY <2>3 DEF Values, TypedRight
    <3>2. E(f, n) = Head(SymbolOf(n).mType)
      BY <2>3, LiteralTypes DEF Literals
    <3> QED
      BY <2>1, <3>1, <3>2
  <2>4. CASE Kind(n) = "CALL_EXPR"
    BY <2>4, LiteralTypes DEF Literals
  <2>5. CASE Kind(n) = "ARRAY_EXPR"
    <3>1. /\ n \in DOMAIN mNodeTypes /\ c \in DOMAIN mNodeTypes
          /\ mNodeTypes[n] = GetArrayVersion[mNodeTypes[c]]
      BY <2>5 DEF Values, TypedRight
    <3>2. E(f, n) = GetArrayVersion[Known(c)]
      BY <1>1, <2>5, LiteralTypes DEF Literals
    <3> HIDE DEF E, Known, c
    <3> QED
      BY <2>1, <3>1, <3>2
  <2>6. CASE Kind(n) = "BINARY_EXPR"
    <3>1. /\ n \in DOMAIN mNodeTypes /\ c \in DOMAIN mNodeTypes
          /\ mNodeTypes[n] = IF tree[n].name \in Comparisons THEN "BOOL" ELSE mNodeTypes[c]
      BY <2>6 DEF Values, TypedRight
    <3>2. E(f, n) = IF tree[n].name \in Comparisons THEN "BOOL" ELSE Known(c)
      BY <1>1, <2>6, LiteralTypes DEF Literals, Comparisons
    <3> HIDE DEF E, Known, c
    <3> QED
      BY <2>1, <3>1, <3>2
  <2>7. CASE Kind(n) \notin Values \cup {"CALL_EXPR"}
    <3>1. n \notin DOMAIN mNodeTypes
      BY <2>7 DEF TypedRight
    <3>2. E(f, n) = "ERROR"
      BY <2>7, LiteralTypes DEF Values, Literals
    <3> QED
      BY <2>7, <3>1, <3>2 DEF TypeOf
  <2> QED
    BY <2>2, <2>3, <2>4, <2>5, <2>6, <2>7 DEF Values
<1>2. ASSUME NEW n \in Nodes, Kind(n) \in {"ARRAY_EXPR", "BINARY_EXPR"}
      PROVE  Child(n, 1) \in Nodes /\ n < Child(n, 1)
  <2>1. Arity(n) \in Nat /\ Arity(n) # 0
    <3>1. CASE Kind(n) = "ARRAY_EXPR"
      BY <3>1, ChildrenAreFinite DEF Values, TypedRight
    <3>2. CASE Kind(n) = "BINARY_EXPR"
      BY <3>2, ChildrenAreFinite DEF TreeComplete, Needs
    <3> QED
      BY <1>2, <3>1, <3>2
  <2>2. 1 \in 1 .. Arity(n)
    BY <2>1
  <2> QED
    BY <2>2, ChildIsChild
<1> HIDE DEF Known
<1>3. \A n \in Nodes : h[n] = E(h, n)
  <2> SUFFICES ASSUME NEW n \in Nodes PROVE h[n] = E(h, n)
    OBVIOUS
  <2>1. Kind(n) \in {"ARRAY_EXPR", "BINARY_EXPR"} => h[Child(n, 1)] = Known(Child(n, 1))
    BY <1>2
  <2>2. E(h, n) = Known(n)
    <3> HIDE DEF E, h
    <3> QED
      BY <1>1, <2>1
  <2> HIDE DEF E
  <2> QED
    BY <2>2
<1>4. h = [n \in Nodes |-> E(h, n)]
  <2> HIDE DEF E
  <2>1. DOMAIN h = Nodes /\ h = [n \in Nodes |-> h[n]]
    OBVIOUS
  <2> HIDE DEF h
  <2> QED
    BY <1>3, <2>1
<1>5. TrueType = [n \in Nodes |-> E(TrueType, n)]
  <2> HIDE DEF h
  <2> QED
    BY <1>4, SMT DEF TrueType
<1> DEFINE P == {n \in Nodes : TrueType[n] = Known(n)}
<1>6. ASSUME NEW n \in Nodes, \A m \in Nodes : n < m => m \in P PROVE n \in P
  <2>1. TrueType[n] = E(TrueType, n)
    <3> HIDE DEF E
    <3> QED
      BY <1>5
  <2>2. Kind(n) \in {"ARRAY_EXPR", "BINARY_EXPR"} => TrueType[Child(n, 1)] = Known(Child(n, 1))
    BY <1>2, <1>6
  <2> HIDE DEF E
  <2>3. E(TrueType, n) = Known(n)
    BY <1>1, <2>2
  <2> QED
    BY <2>1, <2>3
<1>7. Nodes \subseteq P
  <2> HIDE DEF P
  <2> QED
    BY <1>6, FromChildren
<1> QED
  BY <1>7 DEF Known

(* What holds of a program that has passed. *)
InPlace(n) ==
  /\ Kind(n) \in Values => n \in DOMAIN mNodeTypes
  /\ Kind(n) = "VAR_DECL" /\ Arity(n) = 1 => Has(Child(n, 1), tree[n].type)
  /\ Kind(n) \in {"IF_STMT", "WHILE_STMT"} => Has(Child(n, 1), "BOOL")
  /\ Kind(n) = "RETURN_STMT" =>
       LET type == tree[FunctionAround(n)].type
       IN  IF Arity(n) = 0 THEN type = "VOID" ELSE Has(Child(n, 1), type)
  /\ Kind(n) = "CALL_EXPR" => TakesArgs(mUseDefs[n], n)
Finished ==
  /\ TreeOK /\ TreeComplete
  /\ \A n \in DOMAIN mNodeTypes : TypedRight(n)
  /\ \A n \in Nodes : InPlace(n)

LEMMA FinishedIsWellTyped == Finished => PassedIsWellTyped
<1> SUFFICES ASSUME Finished PROVE PassedIsWellTyped
  OBVIOUS
<1>1. \A n \in Nodes :
        TrueType[n] = IF Kind(n) = "CALL_EXPR" THEN Head(SymbolOf(n).mType) ELSE TypeOf(n)
  BY TypesAreTrue DEF Finished, InPlace
<1>2. ASSUME NEW n \in Nodes, NEW t, Has(n, t) PROVE TrueType[n] = t
  BY <1>1, <1>2 DEF Has, TypeOf
<1>3. ASSUME NEW n \in Nodes, NEW k \in 1 .. Arity(n) PROVE Child(n, k) \in Nodes
  BY ChildIsChild DEF Finished
<1>4. \A n \in Nodes : Arity(n) \in Nat /\ Arity(n) >= Needs(n)
  BY ChildrenAreFinite DEF Finished, TreeComplete
<1>5. ASSUME NEW v \in OfKind("VAR_DECL"), Arity(v) = 1 PROVE TrueType[Child(v, 1)] = tree[v].type
  <2>1. v \in Nodes /\ Child(v, 1) \in Nodes /\ Has(Child(v, 1), tree[v].type)
    BY <1>3, <1>5 DEF OfKind, Finished, InPlace
  <2> QED
    BY <1>2, <2>1
<1>6. ASSUME NEW s \in OfKind("IF_STMT") \cup OfKind("WHILE_STMT")
      PROVE  TrueType[Child(s, 1)] = "BOOL"
  <2>1. s \in Nodes /\ 1 \in 1 .. Arity(s) /\ Has(Child(s, 1), "BOOL")
    BY <1>4 DEF OfKind, Finished, InPlace, Needs
  <2> QED
    BY <1>2, <1>3, <2>1
<1>7. ASSUME NEW r \in OfKind("RETURN_STMT")
      PROVE  LET type == tree[FunctionAround(r)].type
             IN  IF Arity(r) = 0 THEN type = "VOID" ELSE TrueType[Child(r, 1)] = type
  <2> DEFINE type == tree[FunctionAround(r)].type
  <2>1. r \in Nodes /\ IF Arity(r) = 0 THEN type = "VOID" ELSE Has(Child(r, 1), type)
    BY DEF OfKind, Finished, InPlace
  <2>2. Arity(r) # 0 => 1 \in 1 .. Arity(r)
    BY <1>4, <2>1
  <2> HIDE DEF type
  <2>3. IF Arity(r) = 0 THEN type = "VOID" ELSE TrueType[Child(r, 1)] = type
    BY <1>2, <1>3, <2>1, <2>2
  <2> QED
    BY <2>3 DEF type
<1>8. ASSUME NEW b \in OfKind("BINARY_EXPR") PROVE TrueType[Child(b, 1)] = TrueType[Child(b, 2)]
  <2> DEFINE lhs == Child(b, 1)
             rhs == Child(b, 2)
  <2>1. b \in Nodes /\ Kind(b) = "BINARY_EXPR" /\ Arity(b) \in Nat /\ Arity(b) >= 2
    BY <1>4 DEF OfKind, Needs
  <2>2. lhs \in Nodes /\ rhs \in Nodes
    BY <1>3, <2>1
  <2>3. /\ lhs \in DOMAIN mNodeTypes /\ rhs \in DOMAIN mNodeTypes
        /\ mNodeTypes[lhs] = mNodeTypes[rhs]
    BY <2>1 DEF Finished, InPlace, TypedRight, Values
  <2>4. Kind(lhs) # "CALL_EXPR" /\ Kind(rhs) # "CALL_EXPR"
    BY <2>3 DEF Finished, TypedRight, Values, Literals
  <2> HIDE DEF lhs, rhs
  <2>5. TrueType[lhs] = TrueType[rhs]
    BY <1>1, <2>2, <2>3, <2>4 DEF TypeOf
  <2> QED
    BY <2>5 DEF lhs, rhs
<1>9. ASSUME NEW c \in OfKind("CALL_EXPR"), NEW k \in 1 .. Arity(c), Kind(Child(c, k)) # "CALL_EXPR"
      PROVE  TrueType[Child(c, k)] = GetFunctionParamTypes(SymbolOf(c))[k]
  <2>1. c \in Nodes /\ TakesArgs(mUseDefs[c], c)
    BY DEF OfKind, Finished, InPlace
  <2>2. GetFunctionParamTypes(mTable[mUseDefs[c]])[k] = TypeOf(Child(c, k))
    BY <1>9, <2>1 DEF TakesArgs
  <2> QED
    BY <1>1, <1>3, <1>9, <2>1, <2>2 DEF SymbolOf
<1> QED
  BY <1>5, <1>6, <1>7, <1>8, <1>9 DEF PassedIsWellTyped

LEMMA NextFinishedIsWellTyped == Finished' => PassedIsWellTyped'
BY FinishedIsWellTyped, PTL

LEMMA EndCheckingFinishes ==
  ASSUME IInv, JInv, TypesOK, EndChecking, pass' # "rejected", DefinedOperands
  PROVE  Finished'
<1>1. /\ pass = "checking" /\ Ready = {} /\ UNCHANGED <<tree, mTable, visited, mNodeTypes>>
  BY DEF EndChecking, checkerVars
<1>2. TreeOK /\ TreeComplete /\ TypingOK
  BY <1>1, CheckedTreeIsComplete DEF IInv, TypesOK
<1>3. /\ \A n : /\ Kind(n)' = Kind(n) /\ Arity(n)' = Arity(n)
                /\ FunctionAround(n)' = FunctionAround(n)
      /\ \A n, k : Child(n, k)' = Child(n, k)
      /\ Nodes' = Nodes
  BY <1>1, SameTree
<1>4. TreeOK' /\ TreeComplete'
  BY <1>1, <1>2, <1>3 DEF TreeOK, TreeComplete, Needs, Under, Kind, Nodes
<1>5. /\ mErrorCount = 0
      /\ \A c \in OfKind("CALL_EXPR") : OverloadSet(c) # {} =>
           c \in DOMAIN mUseDefs' /\ mUseDefs'[c] \in OverloadSet(c)
      /\ \A u : u \notin OfKind("CALL_EXPR") \/ OverloadSet(u) = {} =>
           /\ u \in DOMAIN mUseDefs' <=> u \in DOMAIN mUseDefs
           /\ u \in DOMAIN mUseDefs => mUseDefs'[u] = mUseDefs[u]
  BY LeftoversAreSettled
<1>6. ASSUME NEW n \in DOMAIN mNodeTypes' PROVE TypedRight(n)'
  <2>1. TypedRight(n) /\ n \in Nodes
    BY <1>1, <1>2 DEF TypingOK, TypedRight, JInv, WalkOK, Left
  <2>2. Kind(n) = "IDENTIFIER_EXPR" => SymbolOf(n)' = SymbolOf(n)
    <3>1. Kind(n) = "IDENTIFIER_EXPR" => n \in DOMAIN mUseDefs /\ n \notin OfKind("CALL_EXPR")
      BY <1>1, <2>1 DEF JInv, UsesOK, HasSymbol, Identifiers, OfKind
    <3> QED
      BY <1>1, <1>5, <3>1 DEF SymbolOf
  <2> QED
    BY <1>1, <1>3, <2>1, <2>2 DEF TypedRight
<1>7. ASSUME NEW n, NEW t, Fits(n, t), n \in Nodes PROVE Has(n, t)'
  <2>1. CASE Kind(n) = "CALL_EXPR"
    <3>1. n \in DOMAIN mUseDefs' /\ mUseDefs'[n] = mUseDefs[n]
      BY <1>5, <1>7, <2>1 DEF Fits, Has, HasSymbol
    <3> QED
      BY <1>1, <1>3, <1>7, <2>1, <3>1 DEF Fits, Has, HasSymbol, SymbolOf
  <2>2. CASE Kind(n) # "CALL_EXPR"
    BY <1>1, <1>3, <1>7, <2>2 DEF Fits, Has
  <2> QED
    BY <2>1, <2>2
<1>8. ASSUME NEW d, NEW c, TakesArgs(d, c) PROVE TakesArgs(d, c)'
  BY <1>1, <1>3, <1>8 DEF TakesArgs, GetFunctionParamTypes, TypeOf
<1>9. ASSUME NEW n \in Nodes PROVE InPlace(n)'
  <2>1. n \in visited \/ Kind(n) = "null"
    BY <1>1, <1>2, NothingReady
  <2>2. n \in visited => ChecksOut(n)
    BY <1>2, <1>5 DEF TypingOK
  <2>3. Arity(n) \in Nat /\ Arity(n) >= Needs(n)
    BY <1>2, ChildrenAreFinite DEF TreeComplete
  <2>4. PICK i : i = Child(n, 1)
    OBVIOUS
  <2>5. Child(n, 1)' = i /\ (Arity(n) # 0 => i \in Nodes)
    <3>1. Arity(n) # 0 => 1 \in 1 .. Arity(n)
      BY <2>3
    <3> QED
      BY <1>2, <1>3, <2>4, <3>1, ChildIsChild
  <2>6. ASSUME NEW t, Fits(Child(n, 1), t), Arity(n) # 0 PROVE Has(Child(n, 1), t)'
    <3>1. Has(i, t)'
      BY <1>7, <2>4, <2>5, <2>6
    <3> QED
      BY <2>5, <3>1
  <2>7. CASE Kind(n) \in Values
    BY <1>1, <1>3, <2>1, <2>2, <2>7 DEF ChecksOut, InPlace, Values, Literals
  <2>8. CASE Kind(n) = "VAR_DECL"
    <3> SUFFICES ASSUME Arity(n) = 1, NEW t, t = tree[n].type PROVE Has(Child(n, 1), t)'
      BY <1>1, <1>3, <2>8 DEF InPlace, Values, Literals
    <3> QED
      BY <2>1, <2>2, <2>6, <2>8 DEF ChecksOut
  <2>9. CASE Kind(n) \in {"IF_STMT", "WHILE_STMT"}
    <3>1. Fits(Child(n, 1), "BOOL") /\ Arity(n) # 0
      BY <2>1, <2>2, <2>3, <2>9 DEF ChecksOut, Needs
    <3>2. Has(Child(n, 1), "BOOL")'
      BY <2>6, <3>1
    <3> QED
      BY <1>3, <2>9, <3>2 DEF InPlace, Values, Literals
  <2>10. CASE Kind(n) = "RETURN_STMT"
    <3>1. PICK t : t = tree[FunctionAround(n)].type
      OBVIOUS
    <3>2. t = (tree[FunctionAround(n)].type)'
      BY <1>1, <1>3, <3>1
    <3>3. IF Arity(n) = 0 THEN t = "VOID" ELSE Fits(Child(n, 1), t)
      BY <2>1, <2>2, <2>10, <3>1 DEF ChecksOut
    <3>4. IF Arity(n) = 0 THEN t = "VOID" ELSE Has(Child(n, 1), t)'
      BY <2>6, <3>3
    <3> QED
      BY <1>3, <2>10, <3>2, <3>4 DEF InPlace, Values, Literals
  <2>11. CASE Kind(n) = "CALL_EXPR"
    <3>1. /\ n \in OfKind("CALL_EXPR")
          /\ \A d \in OverloadSet(n) : TakesArgs(d, n)
          /\ OverloadSet(n) = {} => n \in DOMAIN mUseDefs /\ TakesArgs(mUseDefs[n], n)
      BY <2>1, <2>2, <2>11 DEF ChecksOut, OfKind
    <3>2. PICK d : d = mUseDefs'[n]
      OBVIOUS
    <3>3. TakesArgs(d, n)
      BY <1>5, <3>1, <3>2
    <3>4. TakesArgs(d, n)'
      BY <1>8, <3>3
    <3>5. TakesArgs(mUseDefs[n], n)'
      BY <3>2, <3>4 DEF TakesArgs
    <3> QED
      BY <1>3, <2>11, <3>5 DEF InPlace, Values, Literals
  <2> QED
    <3> SUFFICES ASSUME Kind(n) \notin Values
                          \cup {"VAR_DECL", "IF_STMT", "WHILE_STMT", "RETURN_STMT", "CALL_EXPR"}
                 PROVE  InPlace(n)'
      BY <2>7, <2>8, <2>9, <2>10, <2>11
    <3> QED
      BY <1>3 DEF InPlace
<1> QED
  BY <1>3, <1>4, <1>6, <1>9 DEF Finished

LEMMA StutterKeepsTypes ==
  ASSUME TypesOK, UNCHANGED <<tree, mTable, mUseDefs, pass, mErrorCount, visited, mNodeTypes, mOverloadMap>>
  PROVE  TypesOK'
<1>1. /\ \A n : /\ Kind(n)' = Kind(n) /\ Arity(n)' = Arity(n)
                /\ FunctionAround(n)' = FunctionAround(n)
      /\ \A n, k : Child(n, k)' = Child(n, k)
      /\ DefinedOperands' <=> DefinedOperands
  BY SameTree
<1>2. /\ \A n : TypeOf(n)' = TypeOf(n) /\ OverloadSet(n)' = OverloadSet(n)
      /\ \A n, t : Fits(n, t)' <=> Fits(n, t)
  BY <1>1 DEF TypeOf, OverloadSet, Fits, Has, HasSymbol, SymbolOf
<1>3. \A d, c : TakesArgs(d, c)' <=> TakesArgs(d, c)
  BY <1>1, <1>2 DEF TakesArgs, GetFunctionParamTypes
<1>4. \A n : TypedRight(n)' <=> TypedRight(n)
  BY <1>1 DEF TypedRight, SymbolOf
<1>5. ASSUME NEW n PROVE ChecksOut(n)' <=> ChecksOut(n)
  <2>1. PICK i, t, u, d : /\ i = Child(n, 1) /\ t = tree[n].type
                          /\ u = tree[FunctionAround(n)].type /\ d = mUseDefs[n]
    OBVIOUS
  <2>2. /\ Fits(Child(n, 1), tree[n].type)' <=> Fits(Child(n, 1), tree[n].type)
        /\ Fits(Child(n, 1), "BOOL")' <=> Fits(Child(n, 1), "BOOL")
        /\ Fits(Child(n, 1), tree[FunctionAround(n)].type)'
             <=> Fits(Child(n, 1), tree[FunctionAround(n)].type)
        /\ TakesArgs(mUseDefs[n], n)' <=> TakesArgs(mUseDefs[n], n)
    BY <1>1, <1>2, <1>3, <2>1
  <2> QED
    BY <1>1, <1>2, <1>3, <2>2 DEF ChecksOut
<1> QED
  BY <1>1, <1>4, <1>5 DEF TypesOK, TypingOK

LEMMA InvarianceK == Spec => []KInv
<1>1. Init => KInv
  BY DEF Init, KInv, TypesOK, PassedIsWellTyped, Passed
<1>2. IInv /\ JInv /\ KInv /\ [Next]_vars => KInv'
  <2> SUFFICES ASSUME IInv, JInv, KInv, [Next]_vars PROVE KInv'
    OBVIOUS
  <2>1. CASE pass' = "collecting" \/ pass' = "rejected" \/ pass' = "crashed"
    BY <2>1 DEF KInv, TypesOK, PassedIsWellTyped, Passed
  <2>2. CASE Collect \/ Leave
    BY <2>1, <2>2 DEF Collect, Leave
  <2>3. CASE EndCollecting
    <3>1. pass' = "rejected" \/ (pass' = "checking" /\ visited' = {} /\ mNodeTypes' = <<>>)
      BY <2>3 DEF EndCollecting, StartChecking
    <3>2. CASE pass' = "checking" /\ visited' = {} /\ mNodeTypes' = <<>>
      <4>1. DOMAIN mNodeTypes' = {}
        BY <3>2
      <4> QED
        BY <3>2, <4>1 DEF KInv, TypesOK, TypingOK, PassedIsWellTyped, Passed
    <3> QED
      BY <2>1, <3>1, <3>2
  <2>4. CASE Check
    <3>1. pass = "checking" /\ \E n \in Ready : DispatchNode(n)
      BY <2>4 DEF Check, CheckNode, mCurrentNode
    <3>2. pass' = "checking" \/ pass' = "crashed"
      BY <3>1, NodeIsHandled DEF HandlerOK
    <3>3. TypesOK'
      BY <2>4, CheckKeepsTypes DEF KInv
    <3> QED
      BY <2>1, <3>2, <3>3 DEF KInv, PassedIsWellTyped, Passed
  <2>5. CASE EndChecking
    <3>1. pass' \in {"rejected", "nomain", "accepted"} /\ UNCHANGED tree
      BY <2>5 DEF EndChecking
    <3>2. CASE pass' # "rejected" /\ DefinedOperands
      <4>1. PassedIsWellTyped'
        BY <2>5, <3>2, EndCheckingFinishes, NextFinishedIsWellTyped DEF KInv
      <4> QED
        BY <3>1, <4>1 DEF KInv, TypesOK
    <3>3. CASE ~DefinedOperands
      BY <3>1, <3>3, SameTree DEF KInv, TypesOK, PassedIsWellTyped
    <3> QED
      BY <2>1, <3>2, <3>3
  <2>6. CASE NextProgram
    BY <2>1, <2>6 DEF NextProgram
  <2>7. CASE UNCHANGED vars
    <3>1. UNCHANGED <<tree, mTable, mUseDefs, pass, mErrorCount, visited, mNodeTypes, mOverloadMap>>
      BY <2>7 DEF vars, checkerVars
    <3>2. TypesOK'
      BY <3>1, StutterKeepsTypes DEF KInv
    <3>3. PassedIsWellTyped'
      <4>1. TrueType' = TrueType
        BY <3>1 DEF TrueType, Nodes, Kind, SymbolOf, Child, Children
      <4>2. /\ \A n : Kind(n)' = Kind(n) /\ Arity(n)' = Arity(n) /\ FunctionAround(n)' = FunctionAround(n)
            /\ \A n, k : Child(n, k)' = Child(n, k)
            /\ DefinedOperands' <=> DefinedOperands
            /\ Nodes' = Nodes
        BY <3>1, SameTree
      <4>3. \A kind : OfKind(kind)' = OfKind(kind)
        BY <4>2 DEF OfKind
      <4> QED
        BY <3>1, <4>1, <4>2, <4>3 DEF KInv, PassedIsWellTyped, Passed, SymbolOf, GetFunctionParamTypes
    <3> QED
      BY <3>2, <3>3 DEF KInv
  <2> QED
    BY <2>2, <2>3, <2>4, <2>5, <2>6, <2>7 DEF Next
<1> QED
  BY <1>1, <1>2, Invariance, InvarianceJ, PTL DEF Spec

(* Whatever the program, of whatever size: if it passes and the checker reads *)
(* the types of all its operands (typechecker.cpp:280), then initial values,  *)
(* conditions, returned values, operands, and arguments that are no calls     *)
(* have the types their places ask for, by the declarations that names are    *)
(* tied to and not by what the checker noted (typechecker.cpp:78-531).        *)
THEOREM PassedIsTyped == Spec => []PassedIsWellTyped
<1>1. KInv => PassedIsWellTyped
  BY DEF KInv
<1> QED
  BY <1>1, InvarianceK, PTL

----------------------------------------------------------------------------
(* Scopes: the invariant that ties the numbers on the path to the blocks    *)
(* that are open.                                                            *)

(* The order of the tree's nodes, and what functions have under them: their  *)
(* ParamVarDecl, right after them, and a body.                               *)
ShapeOK ==
  \A n \in Nodes :
     /\ Kind(n) = "PROGRAM_DECL" <=> n = 1
     /\ Kind(n) = "VAR_DECL" =>
          Under(n, {"PROGRAM_DECL", "COMPOUND_STMT", "PARAM_VAR_DECL"})
     /\ Kind(n) = "PARAM_VAR_DECL" => tree[n].up + 1 = n /\ Under(n, {"FUNCTION_DECL"})
     /\ Kind(n) = "FUNCTION_DECL" =>
          n + 1 \in Nodes /\ tree[n + 1].up = n /\ Kind(n + 1) = "PARAM_VAR_DECL"
     /\ Under(n, {"FUNCTION_DECL"}) =>
          Kind(n) \in {"PARAM_VAR_DECL", "COMPOUND_STMT", "null"}
     /\ Under(n, {"FUNCTION_DECL"}) /\ Kind(n) # "PARAM_VAR_DECL" =>
          \A m \in Children(tree[n].up) : m = n \/ Kind(m) = "PARAM_VAR_DECL"

(* The open nodes lead from the one being visited up to the program. *)
PathOK ==
  /\ \A k \in DOMAIN open :
       /\ Ancestors[open[k]] = {open[j] : j \in k .. Len(open)}
       /\ Kind(open[k]) \notin {"PARAM_VAR_DECL", "null"}
       /\ k < Len(open) => tree[open[k]].up = open[k + 1]
  /\ open # <<>> => open[Len(open)] = 1
  /\ pass # "collecting" => open = <<>>

IsOpen(n) == \E k \in DOMAIN open : open[k] = n
OpenBlocks == {1} \cup {c \in OfKind("COMPOUND_STMT") : IsOpen(c)}

Variables == {d \in DOMAIN mTable : ~mTable[d].mIsFunction}
ScopeOf(d) == mTable[d].mScopeID
NoBody(f) == \A i \in Children(f) : Kind(i) = "PARAM_VAR_DECL"
Bodies == \A n \in OfKind("null") : ~Under(n, {"FUNCTION_DECL"})

(* The block that a variable belongs to: for a parameter, the body.          *)
InBlock(d, c) == Region(d) = IF IsParameter(d) THEN tree[c].up ELSE c

(* Parameters wait for the body of their function to be opened.              *)
Pending(d) == IsParameter(d) /\ open # <<>> /\ Region(d) = Head(open) /\ NoBody(Head(open))

(* N numbers the open blocks, which makes up the path. *)
Numbering(N) ==
  /\ N \in [OpenBlocks -> 0 .. mCurrentScopeID]
  /\ N[1] = 0
  /\ \A b, c \in OpenBlocks : b < c => N[b] < N[c]
  /\ {mCurrentScopesPath[k] : k \in DOMAIN mCurrentScopesPath} = {N[c] : c \in OpenBlocks}
  /\ \A c \in OpenBlocks : N[c] # mCurrentScopeID =>
       \E b \in OfKind("COMPOUND_STMT") : b # c /\ c \in Ancestors[b]

(* What is filed under the number of an open block is of that block; what is *)
(* of an open block is filed under its number, unless it is declared after a *)
(* block inside its own.                                                     *)
Filed(d, N) ==
  /\ ScopeOf(d) \in 0 .. mCurrentScopeID \/ (ScopeOf(d) = mCurrentScopeID + 1 /\ Pending(d))
  /\ Pending(d) => ScopeOf(d) = mCurrentScopeID + 1
  /\ \A c \in OpenBlocks :
       /\ ScopeOf(d) = N[c] => InBlock(d, c)
       /\ InBlock(d, c) /\ (IsParameter(d) \/ DeclaredBeforeBlocks) => ScopeOf(d) = N[c]

Numbers(N) == Numbering(N) /\ (Bodies => \A d \in Variables : Filed(d, N))

ScopesOK ==
  /\ mCurrentScopeID \in Nat
  /\ mCurrentScopesPath \in Seq(Nat)
  /\ \A j, k \in DOMAIN mCurrentScopesPath :
       j < k => mCurrentScopesPath[k] < mCurrentScopesPath[j]
  /\ \E N : Numbers(N)

Flawless == pass = "checking" \/ (pass = "collecting" /\ mErrorCount = 0)

VariablesOK ==
  /\ \A d \in Variables :
       d \in OfKind("VAR_DECL") /\ mTable[d].mName = tree[d].name /\ mTable[d].mIsFunction = FALSE
  /\ \A d, e \in Variables :
       mTable[d].mName = mTable[e].mName /\ ScopeOf(d) = ScopeOf(e) => d = e
  /\ Flawless => OfKind("VAR_DECL") \subseteq Variables

Means(i) ==
  /\ mUseDefs[i] \in Visible(i)
  /\ DeclaredBeforeBlocks => mUseDefs[i] \in Innermost(i)
MeaningsOK ==
  /\ Flawless /\ Bodies =>
       \A i \in Identifiers : ~SymbolOf(i).mIsFunction => Means(i)
  /\ pass = "checking" => \A i \in Identifiers \cap visited : ~SymbolOf(i).mIsFunction

TreeInv == source \in Sources /\ TreeOK /\ OpenOK /\ ShapeOK /\ PathOK

----------------------------------------------------------------------------
(* The tree of the collector only grows. *)

LEMMA AncestorsAreNodes ==
  ASSUME TreeOK
  PROVE  \A n \in Nodes :
           /\ n \in Ancestors[n]
           /\ Ancestors[n] \subseteq Nodes
           /\ \A m \in Ancestors[n] : m <= n /\ Ancestors[m] \subseteq Ancestors[n]
<1> DEFINE Good(n) == /\ n \in Ancestors[n]
                      /\ Ancestors[n] \subseteq Nodes
                      /\ \A m \in Ancestors[n] : m <= n /\ Ancestors[m] \subseteq Ancestors[n]
           P == {n \in Nodes : Good(n)}
<1>1. ASSUME NEW n \in Nodes, \A m \in Nodes : m < n => m \in P PROVE n \in P
  <2>1. Ancestors[n] = {n} \cup Ancestors[tree[n].up]
    BY AncestorsEquation
  <2>2. CASE tree[n].up = 0
    <3>1. Ancestors[n] = {n}
      BY <2>1, <2>2, AncestorsEquation
    <3>2. n <= n
      BY NodesAreNumbered
    <3> QED
      BY <3>1, <3>2
  <2>3. CASE tree[n].up # 0
    <3>1. PICK u \in Nodes : u = tree[n].up /\ u < n
      BY <2>3, ParentsComeFirst
    <3>2. Good(u)
      BY <1>1, <3>1
    <3>3. Ancestors[n] = {n} \cup Ancestors[u] /\ Ancestors[n] \subseteq Nodes /\ n \in Ancestors[n]
      BY <2>1, <3>1, <3>2
    <3>4. ASSUME NEW m \in Ancestors[n] PROVE m <= n /\ Ancestors[m] \subseteq Ancestors[n]
      <4>1. m \in Nat /\ u \in Nat /\ n \in Nat
        BY <3>3, NodesAreNumbered
      <4>2. CASE m = n
        BY <4>1, <4>2
      <4>3. CASE m \in Ancestors[u]
        BY <3>1, <3>2, <3>3, <4>1, <4>3
      <4> QED
        BY <3>3, <4>2, <4>3
    <3> QED
      BY <3>3, <3>4
  <2> QED
    BY <2>2, <2>3
<1>2. Nodes \subseteq P
  <2> HIDE DEF P
  <2> QED
    BY <1>1, FromParents
<1> QED
  BY <1>2

LEMMA NextAncestorsAreNodes ==
  TreeOK' => (\A n \in Nodes :
                /\ n \in Ancestors[n]
                /\ Ancestors[n] \subseteq Nodes
                /\ \A m \in Ancestors[n] : m <= n /\ Ancestors[m] \subseteq Ancestors[n])'
BY AncestorsAreNodes, PTL

LEMMA NextAncestorsEquation ==
  TreeOK' => (Ancestors[0] = {} /\ \A n \in Nodes : Ancestors[n] = {n} \cup Ancestors[tree[n].up])'
BY AncestorsEquation, PTL

(* A tree that grows, as it does: its nodes stay as they are.                *)
TreeGrows ==
  /\ TreeOK /\ TreeOK'
  /\ Nodes \subseteq Nodes'
  /\ \A n \in Nodes : tree'[n] = tree[n]

LEMMA AncestorsStay ==
  ASSUME TreeGrows
  PROVE  \A n \in Nodes : Ancestors'[n] = Ancestors[n]
<1> DEFINE P == {n \in Nodes : Ancestors'[n] = Ancestors[n]}
<1>0. TreeOK /\ TreeOK' /\ Nodes \subseteq Nodes' /\ \A n \in Nodes : tree'[n] = tree[n]
  BY DEF TreeGrows
<1>1. ASSUME NEW n \in Nodes, \A m \in Nodes : m < n => m \in P PROVE n \in P
  <2>1. Ancestors[n] = {n} \cup Ancestors[tree[n].up] /\ Ancestors[0] = {}
    BY <1>0, AncestorsEquation
  <2>2. Ancestors'[n] = {n} \cup Ancestors'[tree[n].up] /\ Ancestors'[0] = {}
    <3>1. Ancestors'[n] = {n} \cup Ancestors'[tree'[n].up] /\ Ancestors'[0] = {}
      BY <1>0, NextAncestorsEquation
    <3> QED
      BY <1>0, <3>1
  <2>3. tree[n].up = 0 \/ tree[n].up \in P
    BY <1>0, <1>1, ParentsComeFirst
  <2> QED
    BY <2>1, <2>2, <2>3
<1>2. Nodes \subseteq P
  <2> HIDE DEF P
  <2> QED
    BY <1>0, <1>1, FromParents
<1> QED
  BY <1>2

(* A function brings its ParamVarDecl and its parameters into the tree.      *)
LEMMA GrownFunction ==
  ASSUME TreeOK, OpenOK, source \in Sources, NEW shape \in source.shapes, EnterNew(shape),
         shape.kind = "FUNCTION_DECL"
  PROVE  /\ Len(shape.params) \in Nat /\ DOMAIN shape.params = 1 .. Len(shape.params)
         /\ Nodes' = 1 .. Here + 1 + Len(shape.params)
         /\ tree'[Here + 1].kind = "PARAM_VAR_DECL" /\ tree'[Here + 1].up = Here
         /\ \A k \in DOMAIN shape.params :
              /\ tree'[Here + 1 + k].kind = "VAR_DECL"
              /\ tree'[Here + 1 + k].up = Here + 1
              /\ tree'[Here + 1 + k].name = shape.params[k].name
<1> DEFINE top == NodeOf(shape, Head(open))
           first == NodeOf(Plain("PARAM_VAR_DECL"), Here)
           params == [k \in 1 .. Len(shape.params) |-> NodeOf(shape.params[k], Here + 1)]
<1>1. /\ tree' = Append(tree, top) \o (<<first>> \o params)
      /\ Here = Len(tree) + 1 /\ Len(tree) \in Nat /\ tree \in Seq(Node)
  BY NodesAreNumbered DEF EnterNew, Grown, Here, TreeOK
<1>2. shape.params \in Seq(ParamShape)
  BY ShapeType
<1> DEFINE X == {top, first} \cup {params[k] : k \in 1 .. Len(shape.params)} \cup Node
<1>3. Len(shape.params) \in Nat /\ DOMAIN shape.params = 1 .. Len(shape.params)
  <2> HIDE DEF top, first, params
  <2> QED
    BY <1>2
<1>4. params \in [1 .. Len(shape.params) -> X]
  OBVIOUS
<1>5. \A k \in 1 .. Len(shape.params) : params[k] = NodeOf(shape.params[k], Here + 1)
  OBVIOUS
<1>6. tree \in Seq(X) /\ top \in X /\ first \in X
  BY <1>1
<1> HIDE DEF top, first, params, X
<1>7. params \in Seq(X) /\ Len(params) = Len(shape.params)
  BY <1>3, <1>4
<1> DEFINE rest == <<first>> \o params
<1>8. /\ rest \in Seq(X) /\ Len(rest) = 1 + Len(shape.params) /\ rest[1] = first
      /\ \A k \in 1 .. Len(shape.params) : rest[1 + k] = params[k]
  BY <1>3, <1>6, <1>7
<1> HIDE DEF rest
<1>l. Here \in Nat
  BY <1>1
<1>r. rest \in Seq(X) /\ Len(rest) = 1 + Len(shape.params)
  BY <1>8
<1> DEFINE front == Append(tree, top)
<1>n. front \in Seq(X) /\ Len(front) = Here /\ Len(rest) \in Nat
  BY <1>1, <1>6, <1>r
<1>9. /\ tree' \in Seq(X) /\ Len(tree') = Here + Len(rest)
      /\ \A j \in 1 .. Len(rest) : tree'[Here + j] = rest[j]
  <2>1. tree' = front \o rest
    BY <1>1 DEF rest
  <2> HIDE DEF front
  <2>2. PICK Y, f, r : Y = X /\ f = front /\ r = rest
    OBVIOUS
  <2>s. f \in Seq(Y) /\ r \in Seq(Y)
    BY <1>n, <1>r, <2>2
  <2>3. Len(f) = Here /\ tree' = f \o r
    BY <1>n, <1>r, <2>1, <2>2
  <2>4. /\ f \o r \in Seq(Y)
        /\ Len(f \o r) = Len(f) + Len(r)
        /\ \A j \in 1 .. Len(r) : (f \o r)[Len(f) + j] = r[j]
    BY <2>s
  <2> QED
    BY <1>n, <2>2, <2>s, <2>3, <2>4
<1>10. Nodes' = 1 .. Here + 1 + Len(shape.params)
  <2>1. Here + Len(rest) = Here + 1 + Len(shape.params)
    <3>1. \A h, l \in Nat : h + (1 + l) = h + 1 + l
      OBVIOUS
    <3> QED
      BY <3>1, <1>3, <1>l, <1>r, Zenon
  <2> QED
    BY <1>9, <2>1 DEF Nodes
<1>11. tree'[Here + 1] = first
  BY <1>3, <1>8, <1>9
<1>12. ASSUME NEW k \in 1 .. Len(shape.params)
       PROVE  tree'[Here + 1 + k] = NodeOf(shape.params[k], Here + 1)
  <2>1. 1 + k \in 1 .. Len(rest) /\ Here + (1 + k) = Here + 1 + k
    BY <1>1, <1>3, <1>8
  <2> QED
    BY <1>5, <1>8, <1>9, <2>1
<1>13. \A k \in 1 .. Len(shape.params) : shape.params[k].kind = "VAR_DECL"
  <2>1. \A k \in 1 .. Len(shape.params) : shape.params[k] \in ParamShape
    BY <1>2, <1>3
  <2> QED
    BY <2>1 DEF ParamShape
<1>14. first.kind = "PARAM_VAR_DECL" /\ first.up = Here
  BY DEF first, NodeOf, Plain, Shape
<1>15. ASSUME NEW k \in 1 .. Len(shape.params)
       PROVE  /\ tree'[Here + 1 + k].kind = "VAR_DECL"
              /\ tree'[Here + 1 + k].up = Here + 1
              /\ tree'[Here + 1 + k].name = shape.params[k].name
  <2>1. tree'[Here + 1 + k] = NodeOf(shape.params[k], Here + 1) /\ shape.params[k].kind = "VAR_DECL"
    BY <1>12, <1>13
  <2> QED
    BY <2>1 DEF NodeOf
<1> QED
  BY <1>3, <1>10, <1>11, <1>14, <1>15

(* What a node that is new in the tree is. *)
LEMMA NewNodes ==
  ASSUME TreeOK, OpenOK, source \in Sources, NEW shape \in source.shapes, EnterNew(shape),
         NEW n \in Nodes', n \notin Nodes, n # Here
  PROVE  /\ shape.kind = "FUNCTION_DECL"
         /\ \/ /\ n = Here + 1
               /\ tree'[n].kind = "PARAM_VAR_DECL" /\ tree'[n].up = Here
            \/ \E k \in DOMAIN shape.params :
                 /\ n = Here + 1 + k /\ n # Here + 1
                 /\ tree'[n].kind = "VAR_DECL" /\ tree'[n].up = Here + 1
                 /\ tree'[n].name = shape.params[k].name
<1>1. shape.kind = "FUNCTION_DECL" /\ Here < n /\ Here \in Nat
  BY GrownTree
<1>2. /\ Len(shape.params) \in Nat /\ DOMAIN shape.params = 1 .. Len(shape.params)
      /\ Nodes' = 1 .. Here + 1 + Len(shape.params)
  BY <1>1, GrownFunction
<1>3. CASE n = Here + 1
  BY <1>1, <1>3, GrownFunction
<1>4. CASE n # Here + 1
  <2>1. PICK h \in Nat, l \in Nat : h = Here /\ l = Len(shape.params)
    BY <1>1, <1>2
  <2>2. n \in 1 .. h + 1 + l /\ h < n /\ n # h + 1
    BY <1>1, <1>2, <1>4, <2>1
  <2>3. PICK k \in 1 .. l : n = h + 1 + k
    <3>1. n - h - 1 \in 1 .. l /\ n = h + 1 + (n - h - 1)
      BY <2>2
    <3> QED
      BY <3>1
  <2>4. k \in DOMAIN shape.params /\ n = Here + 1 + k
    BY <1>2, <2>1, <2>3
  <2> QED
    BY <1>1, <1>4, <2>4, GrownFunction
<1> QED
  BY <1>3, <1>4

LEMMA TreeIsGrowing ==
  ASSUME TreeOK, OpenOK, source \in Sources, NEW shape \in source.shapes, EnterNew(shape)
  PROVE  TreeGrows
BY GrownTree, EnterKeepsTree DEF TreeGrows

LEMMA UnderStays ==
  ASSUME TreeGrows, NEW n \in Nodes
  PROVE  /\ \A kinds : Under(n, kinds)' <=> Under(n, kinds)
         /\ Kind(n)' = Kind(n) /\ tree'[n] = tree[n]
         /\ tree[n].up \in Nodes => Kind(tree[n].up)' = Kind(tree[n].up)
<1>1. TreeOK /\ TreeOK' /\ Nodes \subseteq Nodes' /\ \A m \in Nodes : tree'[m] = tree[m]
  BY DEF TreeGrows
<1>2. tree[n].up = 0 \/ tree[n].up \in Nodes
  BY <1>1, ParentsComeFirst
<1>3. 0 \notin Nodes /\ 0 \notin Nodes'
  <2>1. Nodes = 1 .. Len(tree) /\ Len(tree) \in Nat
    BY <1>1, NodesAreNumbered
  <2>2. tree' \in Seq(Node)
    BY <1>1 DEF TreeOK
  <2>3. 0 \notin DOMAIN tree'
    BY <2>2
  <2> QED
    BY <2>1, <2>3 DEF Nodes
<1> QED
  BY <1>1, <1>2, <1>3 DEF Under, Kind

(* What the parser may put under what. *)
LEMMA TakenUnder ==
  ASSUME NEW n, NEW k, NEW kind \in Takes(n, k)
  PROVE  /\ kind \notin {"PROGRAM_DECL", "PARAM_VAR_DECL"}
         /\ kind = "VAR_DECL" => Kind(n) \in {"PROGRAM_DECL", "COMPOUND_STMT"}
         /\ kind = "FUNCTION_DECL" => Kind(n) = "PROGRAM_DECL"
         /\ Kind(n) = "FUNCTION_DECL" => k = 2 /\ kind \in {"COMPOUND_STMT", "null"}
BY DEF Takes, Exprs, Stmts

(* A function that takes a body has its ParamVarDecl only. *)
LEMMA BodyIsMissing ==
  ASSUME TreeOK, ShapeOK, NEW f \in OfKind("FUNCTION_DECL"), Arity(f) + 1 = 2
  PROVE  Children(f) = {f + 1} /\ NoBody(f)
<1>1. f + 1 \in Children(f) /\ Kind(f + 1) = "PARAM_VAR_DECL"
  BY DEF ShapeOK, OfKind, Children
<1>2. Arity(f) \in Nat /\ IsFiniteSet(Children(f))
  BY ChildrenAreFinite
<1>3. Cardinality(Children(f)) = 1
  BY <1>2 DEF Arity
<1>4. PICK x : Children(f) = {x}
  BY <1>2, <1>3, FS_Singleton
<1> QED
  BY <1>1, <1>4 DEF NoBody

LEMMA EnterKeepsShape ==
  ASSUME TreeOK, OpenOK, source \in Sources, NEW shape \in source.shapes, EnterNew(shape), ShapeOK
  PROVE  ShapeOK'
<1> DEFINE h == Head(open)
<1>1. TreeGrows
  BY TreeIsGrowing
<1>2. /\ Nodes \subseteq Nodes' /\ Here \in Nodes' /\ Here \notin Nodes /\ Here \in Nat
      /\ \A n \in Nodes : tree'[n] = tree[n] /\ n < Here
      /\ h \in Nodes /\ tree'[h] = tree[h]
      /\ tree'[Here].kind = shape.kind /\ tree'[Here].up = h
  BY GrownTree, EnteredNode
<1>3. shape.kind \in Takes(h, Arity(h) + 1)
  BY DEF EnterNew, NextOf
<1>4. /\ shape.kind \notin {"PROGRAM_DECL", "PARAM_VAR_DECL"}
      /\ shape.kind = "VAR_DECL" => tree[h].kind \in {"PROGRAM_DECL", "COMPOUND_STMT"}
      /\ tree[h].kind = "FUNCTION_DECL" =>
           Children(h) = {h + 1} /\ Kind(h + 1) = "PARAM_VAR_DECL"
           /\ shape.kind \in {"COMPOUND_STMT", "null"}
  <2>1. /\ shape.kind \notin {"PROGRAM_DECL", "PARAM_VAR_DECL"}
        /\ shape.kind = "VAR_DECL" => Kind(h) \in {"PROGRAM_DECL", "COMPOUND_STMT"}
        /\ Kind(h) = "FUNCTION_DECL" =>
             Arity(h) + 1 = 2 /\ shape.kind \in {"COMPOUND_STMT", "null"}
    BY <1>3, TakenUnder
  <2>2. Kind(h) = "FUNCTION_DECL" => Children(h) = {h + 1} /\ Kind(h + 1) = "PARAM_VAR_DECL"
    BY <1>2, <2>1, BodyIsMissing DEF OfKind, ShapeOK
  <2> QED
    BY <2>1, <2>2 DEF Kind
<1>5. 1 \in Nodes /\ Here # 1
  <2>1. Nodes = 1 .. Len(tree) /\ Len(tree) \in Nat /\ Here = Len(tree) + 1
    BY NodesAreNumbered DEF Here
  <2>2. h \in 1 .. Len(tree)
    BY <1>2, <2>1
  <2> QED
    BY <2>1, <2>2
<1>6. ASSUME NEW m \in Nodes', m \notin Nodes, m # Here
      PROVE  /\ shape.kind = "FUNCTION_DECL" /\ tree[h].kind # "FUNCTION_DECL"
             /\ \/ m = Here + 1 /\ tree'[m].kind = "PARAM_VAR_DECL" /\ tree'[m].up = Here
                \/ m # Here + 1 /\ tree'[m].kind = "VAR_DECL" /\ tree'[m].up = Here + 1
  BY <1>4, <1>6, NewNodes
<1>7. shape.kind = "FUNCTION_DECL" =>
        Here + 1 \in Nodes' /\ tree'[Here + 1].kind = "PARAM_VAR_DECL" /\ tree'[Here + 1].up = Here
  <2>1. ASSUME shape.kind = "FUNCTION_DECL" PROVE Here + 1 \in Nodes'
    <3>1. Nodes' = 1 .. Here + 1 + Len(shape.params) /\ Len(shape.params) \in Nat
      BY <2>1, GrownFunction
    <3>2. \A i, l \in Nat : i + 1 \in 1 .. i + 1 + l
      OBVIOUS
    <3> QED
      BY <1>2, <3>1, <3>2
  <2> QED
    BY <2>1, GrownFunction
<1>8. \A m \in Nodes : Here + 1 # m /\ Here # m
  BY <1>2, NodesAreNumbered
<1> DEFINE Good(n) ==
       /\ tree'[n].kind = "PROGRAM_DECL" <=> n = 1
       /\ tree'[n].kind = "VAR_DECL" =>
            Under(n, {"PROGRAM_DECL", "COMPOUND_STMT", "PARAM_VAR_DECL"})'
       /\ tree'[n].kind = "PARAM_VAR_DECL" => tree'[n].up + 1 = n /\ Under(n, {"FUNCTION_DECL"})'
       /\ tree'[n].kind = "FUNCTION_DECL" =>
            n + 1 \in Nodes' /\ tree'[n + 1].up = n /\ tree'[n + 1].kind = "PARAM_VAR_DECL"
       /\ Under(n, {"FUNCTION_DECL"})' =>
            tree'[n].kind \in {"PARAM_VAR_DECL", "COMPOUND_STMT", "null"}
       /\ Under(n, {"FUNCTION_DECL"})' /\ tree'[n].kind # "PARAM_VAR_DECL" =>
            \A m \in Nodes' : tree'[m].up = tree'[n].up => m = n \/ tree'[m].kind = "PARAM_VAR_DECL"
<1>9. ASSUME NEW n \in Nodes PROVE Good(n)
  <2>1. \A kinds : Under(n, kinds)' <=> Under(n, kinds)
    BY <1>1, UnderStays
  <2>2. tree'[n] = tree[n]
    BY <1>2
  <2>3. ASSUME Under(n, {"FUNCTION_DECL"}), tree[n].kind # "PARAM_VAR_DECL",
               NEW m \in Nodes', tree'[m].up = tree[n].up
        PROVE  m = n \/ tree'[m].kind = "PARAM_VAR_DECL"
    <3>1. tree[n].up \in Nodes
      BY <2>3 DEF Under
    <3>2. CASE m \in Nodes
      BY <1>2, <2>3, <3>2 DEF ShapeOK, Children, Kind
    <3>3. CASE m = Here
      BY <1>2, <1>4, <2>3, <3>3 DEF Under, Children, Kind
    <3>4. CASE m \notin Nodes /\ m # Here
      BY <1>6, <1>8, <2>3, <3>1, <3>4
    <3> QED
      BY <3>2, <3>3, <3>4
  <2>4. /\ tree[n].kind = "PROGRAM_DECL" <=> n = 1
        /\ tree[n].kind = "VAR_DECL" =>
             Under(n, {"PROGRAM_DECL", "COMPOUND_STMT", "PARAM_VAR_DECL"})
        /\ tree[n].kind = "PARAM_VAR_DECL" => tree[n].up + 1 = n /\ Under(n, {"FUNCTION_DECL"})
        /\ Under(n, {"FUNCTION_DECL"}) =>
             tree[n].kind \in {"PARAM_VAR_DECL", "COMPOUND_STMT", "null"}
    BY DEF ShapeOK, Kind
  <2>5. tree[n].kind = "FUNCTION_DECL" =>
          n + 1 \in Nodes' /\ tree'[n + 1].up = n /\ tree'[n + 1].kind = "PARAM_VAR_DECL"
    BY <1>2 DEF ShapeOK, Kind
  <2> QED
    BY <2>1, <2>2, <2>3, <2>4, <2>5
<1>10. ASSUME NEW n \in Nodes', n = Here PROVE Good(n)
  <2>1. \A kinds : Under(n, kinds)' <=> tree[h].kind \in kinds
    BY <1>2, <1>10 DEF Under, Kind
  <2>2. ASSUME tree[h].kind = "FUNCTION_DECL", NEW m \in Nodes', tree'[m].up = h
        PROVE  m = Here \/ tree'[m].kind = "PARAM_VAR_DECL"
    <3>1. CASE m \in Nodes
      <4>1. m \in Children(h)
        BY <1>2, <2>2, <3>1 DEF Children
      <4> QED
        BY <1>2, <1>4, <2>2, <3>1, <4>1 DEF Kind
    <3>2. CASE m \notin Nodes /\ m # Here
      BY <1>6, <2>2, <3>2
    <3> QED
      BY <3>1, <3>2
  <2> QED
    BY <1>2, <1>4, <1>5, <1>7, <1>10, <2>1, <2>2
<1>11. ASSUME NEW n \in Nodes', n \notin Nodes, n # Here PROVE Good(n)
  <2>1. CASE n = Here + 1
    <3>1. shape.kind = "FUNCTION_DECL" /\ tree'[n].kind = "PARAM_VAR_DECL" /\ tree'[n].up = Here
      BY <1>6, <1>11, <2>1
    <3>2. Under(n, {"FUNCTION_DECL"})'
      BY <1>2, <3>1 DEF Under, Kind
    <3> QED
      BY <1>5, <1>11, <2>1, <3>1, <3>2
  <2>2. CASE n # Here + 1
    <3>1. shape.kind = "FUNCTION_DECL" /\ tree'[n].kind = "VAR_DECL" /\ tree'[n].up = Here + 1
      BY <1>6, <1>11, <2>2
    <3>2. \A kinds : Under(n, kinds)' <=> "PARAM_VAR_DECL" \in kinds
      BY <1>7, <3>1 DEF Under, Kind
    <3> QED
      BY <1>5, <1>11, <3>1, <3>2
  <2> QED
    BY <2>1, <2>2
<1>12. \A n \in Nodes' : Good(n)
  BY <1>9, <1>10, <1>11
<1> HIDE DEF h
<1> QED
  BY <1>12 DEF ShapeOK, Kind, Children

----------------------------------------------------------------------------
(* The walk keeps the path from the node it is at up to the program. *)

(* What pushing and popping does to the suffixes of a sequence. *)
Pushed(x, s, t) ==
  /\ Len(s) \in Nat /\ Len(t) = Len(s) + 1
  /\ DOMAIN s = 1 .. Len(s) /\ DOMAIN t = 1 .. Len(s) + 1
  /\ t[1] = x /\ \A i \in 1 .. Len(s) : t[i + 1] = s[i]
  /\ {t[j] : j \in 1 .. Len(t)} = {x} \cup {s[j] : j \in 1 .. Len(s)}
  /\ \A i \in 1 .. Len(s) : {t[j] : j \in i + 1 .. Len(t)} = {s[j] : j \in i .. Len(s)}
Popped(s, t) ==
  /\ Len(s) \in Nat \ {0} /\ DOMAIN s = 1 .. Len(s)
  /\ Len(t) = Len(s) - 1 /\ DOMAIN t = 1 .. Len(s) - 1
  /\ Head(s) = s[1]
  /\ \A i \in 1 .. Len(t) :
       /\ t[i] = s[i + 1]
       /\ {t[j] : j \in i .. Len(t)} = {s[j] : j \in i + 1 .. Len(s)}
  /\ {s[j] : j \in 1 .. Len(s)} = {s[1]} \cup {t[j] : j \in 1 .. Len(t)}

LEMMA PushedSuffixes ==
  ASSUME NEW S, NEW s \in Seq(S), NEW x \in S, NEW t, t = <<x>> \o s
  PROVE  Pushed(x, s, t)
<1>1. /\ Len(s) \in Nat /\ DOMAIN s = 1 .. Len(s) /\ Len(t) = Len(s) + 1
      /\ DOMAIN t = 1 .. Len(s) + 1
      /\ t[1] = x /\ \A i \in 1 .. Len(s) : t[i + 1] = s[i]
  OBVIOUS
<1>2. ASSUME NEW i \in 0 .. Len(s)
      PROVE  /\ \A j \in i + 1 .. Len(t) : j = 1 \/ (j - 1 \in 1 .. Len(s) /\ j - 1 \in i .. Len(s) /\ t[j] = s[j - 1])
             /\ \A j \in i .. Len(s) : j = 0 \/ (j + 1 \in i + 1 .. Len(t) /\ t[j + 1] = s[j])
  <2>1. ASSUME NEW j \in i + 1 .. Len(t), j # 1
        PROVE  j - 1 \in 1 .. Len(s) /\ j - 1 \in i .. Len(s) /\ t[j] = s[j - 1]
    <3>1. j - 1 \in 1 .. Len(s) /\ j - 1 \in i .. Len(s) /\ j - 1 + 1 = j
      BY <1>1, <2>1
    <3> QED
      BY <1>1, <3>1
  <2>2. ASSUME NEW j \in i .. Len(s), j # 0
        PROVE  j + 1 \in i + 1 .. Len(t) /\ t[j + 1] = s[j]
    <3>1. j \in 1 .. Len(s) /\ j + 1 \in i + 1 .. Len(t)
      BY <1>1, <2>2
    <3> QED
      BY <1>1, <3>1
  <2> QED
    BY <2>1, <2>2
<1>3. {t[j] : j \in 1 .. Len(t)} = {x} \cup {s[j] : j \in 1 .. Len(s)}
  <2>1. 0 \in 0 .. Len(s) /\ 1 \in 1 .. Len(t) /\ 0 + 1 = 1
    BY <1>1
  <2>2. \A j \in 1 .. Len(t) : j = 1 \/ (j - 1 \in 1 .. Len(s) /\ t[j] = s[j - 1])
    BY <1>2, <2>1
  <2>3. \A j \in 1 .. Len(s) : j + 1 \in 1 .. Len(t) /\ t[j + 1] = s[j]
    BY <1>1
  <2>4. ASSUME NEW y \in {t[j] : j \in 1 .. Len(t)} PROVE y \in {x} \cup {s[j] : j \in 1 .. Len(s)}
    <3>1. PICK j \in 1 .. Len(t) : y = t[j]
      OBVIOUS
    <3> QED
      BY <1>1, <2>2, <3>1
  <2>5. {x} \subseteq {t[j] : j \in 1 .. Len(t)}
    BY <1>1, <2>1
  <2>6. {s[j] : j \in 1 .. Len(s)} \subseteq {t[j] : j \in 1 .. Len(t)}
    BY <2>3
  <2> QED
    BY <2>4, <2>5, <2>6
<1>4. ASSUME NEW i \in 1 .. Len(s)
      PROVE  {t[j] : j \in i + 1 .. Len(t)} = {s[j] : j \in i .. Len(s)}
  <2>1. i \in 0 .. Len(s) /\ \A j \in i + 1 .. Len(t) : j # 1
    BY <1>1
  <2>2. \A j \in i .. Len(s) : j # 0
    BY <1>1
  <2>3. /\ \A j \in i + 1 .. Len(t) : j - 1 \in i .. Len(s) /\ t[j] = s[j - 1]
        /\ \A j \in i .. Len(s) : j + 1 \in i + 1 .. Len(t) /\ t[j + 1] = s[j]
    BY <1>2, <2>1, <2>2
  <2> QED
    BY <2>3
<1> QED
  BY <1>1, <1>3, <1>4 DEF Pushed

LEMMA PoppedSuffixes ==
  ASSUME NEW S, NEW s \in Seq(S), s # <<>>, NEW t, t = Tail(s)
  PROVE  Popped(s, t)
<1>1. /\ Len(s) \in Nat \ {0} /\ DOMAIN s = 1 .. Len(s)
      /\ t \in Seq(S) /\ Len(t) = Len(s) - 1 /\ DOMAIN t = 1 .. Len(s) - 1
      /\ Head(s) = s[1] /\ s[1] \in S
      /\ \A i \in 1 .. Len(t) : t[i] = s[i + 1]
  OBVIOUS
<1>2. s = <<s[1]>> \o t
  BY <1>1
<1>3. /\ {s[j] : j \in 1 .. Len(s)} = {s[1]} \cup {t[j] : j \in 1 .. Len(t)}
      /\ \A i \in 1 .. Len(t) : {s[j] : j \in i + 1 .. Len(s)} = {t[j] : j \in i .. Len(t)}
  <2>1. PICK x \in S : x = s[1]
    BY <1>1
  <2>2. t \in Seq(S) /\ s = <<x>> \o t
    BY <1>1, <1>2, <2>1
  <2>3. Pushed(x, t, s)
    BY <2>2, PushedSuffixes
  <2> QED
    BY <2>1, <2>3 DEF Pushed
<1> QED
  BY <1>1, <1>3 DEF Popped

LEMMA EnterKeepsPath ==
  ASSUME TreeOK, OpenOK, source \in Sources, NEW shape \in source.shapes, EnterNew(shape),
         PathOK, pass' = pass
  PROVE  PathOK'
<1>1. TreeGrows /\ TreeOK'
  BY TreeIsGrowing, EnterKeepsTree
<1>2. /\ Nodes \subseteq Nodes' /\ Here \in Nodes' /\ Here \notin Nodes /\ Here \in Nat
      /\ Head(open) \in Nodes
      /\ tree'[Here].kind = shape.kind /\ tree'[Here].up = Head(open)
  BY GrownTree, EnteredNode
<1>3. open \in Seq(Nodes) /\ open # <<>>
  BY DEF OpenOK, EnterNew, NextOf
<1>4. /\ Len(open) \in Nat \ {0} /\ DOMAIN open = 1 .. Len(open) /\ Head(open) = open[1]
      /\ \A k \in 1 .. Len(open) : open[k] \in Nodes
  BY <1>3
<1>5. /\ open[Len(open)] = 1 /\ pass = "collecting"
      /\ \A k \in 1 .. Len(open) :
           /\ Ancestors'[open[k]] = {open[j] : j \in k .. Len(open)}
           /\ tree'[open[k]].kind \notin {"PARAM_VAR_DECL", "null"}
           /\ k < Len(open) => tree'[open[k]].up = open[k + 1]
  <2>1. \A k \in 1 .. Len(open) :
          Ancestors'[open[k]] = Ancestors[open[k]] /\ tree'[open[k]] = tree[open[k]]
    BY <1>1, <1>4, AncestorsStay DEF TreeGrows
  <2> QED
    BY <1>3, <1>4, <2>1 DEF PathOK, Kind
<1>6. CASE shape.kind \in Leaves
  <2>1. open' = open
    BY <1>6 DEF EnterNew
  <2> QED
    BY <1>4, <1>5, <2>1 DEF PathOK, Kind
<1>7. CASE shape.kind \notin Leaves
  <2>1. open' = <<Here>> \o open
    BY <1>7 DEF EnterNew
  <2>2. /\ Len(open') = Len(open) + 1 /\ DOMAIN open' = 1 .. Len(open) + 1
        /\ open'[1] = Here /\ \A i \in 1 .. Len(open) : open'[i + 1] = open[i]
        /\ {open'[j] : j \in 1 .. Len(open')} = {Here} \cup {open[j] : j \in 1 .. Len(open)}
        /\ \A i \in 1 .. Len(open) :
             {open'[j] : j \in i + 1 .. Len(open')} = {open[j] : j \in i .. Len(open)}
    <3>1. PICK S : S = Nodes'
      OBVIOUS
    <3>2. Nodes \subseteq S /\ Here \in S
      BY <1>2, <3>1
    <3>3. open \in Seq(S)
      BY <1>3, <3>2
    <3>4. Pushed(Here, open, open')
      BY <2>1, <3>2, <3>3, PushedSuffixes
    <3> QED
      BY <3>4 DEF Pushed
  <2>3. Ancestors'[Here] = {Here} \cup {open[j] : j \in 1 .. Len(open)}
    <3>1. Ancestors'[Here] = {Here} \cup Ancestors'[tree'[Here].up]
      BY <1>1, <1>2, NextAncestorsEquation
    <3>2. 1 \in 1 .. Len(open)
      BY <1>4
    <3> QED
      BY <1>2, <1>4, <1>5, <3>1, <3>2
  <2>4. ASSUME NEW k \in 1 .. Len(open) + 1
        PROVE  /\ Ancestors'[open'[k]] = {open'[j] : j \in k .. Len(open')}
               /\ tree'[open'[k]].kind \notin {"PARAM_VAR_DECL", "null"}
               /\ k < Len(open') => tree'[open'[k]].up = open'[k + 1]
    <3>1. CASE k = 1
      <4>1. shape.kind \notin {"PARAM_VAR_DECL", "null"}
        BY <1>7, TakenUnder DEF Leaves, EnterNew, NextOf
      <4>2. 1 \in 1 .. Len(open)
        BY <1>4
      <4>3. open'[1 + 1] = open[1]
        BY <2>2, <4>2
      <4> QED
        BY <1>2, <1>4, <2>2, <2>3, <3>1, <4>1, <4>3
    <3>2. CASE k # 1
      <4>1. PICK i \in 1 .. Len(open) : k = i + 1
        <5>1. k - 1 \in 1 .. Len(open) /\ k = k - 1 + 1
          BY <1>4, <3>2
        <5> QED
          BY <5>1
      <4>2. /\ open'[k] = open[i]
            /\ {open'[j] : j \in k .. Len(open')} = {open[j] : j \in i .. Len(open)}
        BY <2>2, <4>1
      <4>3. k < Len(open') => i < Len(open) /\ i + 1 \in 1 .. Len(open) /\ k + 1 = (i + 1) + 1
        BY <1>4, <2>2, <4>1
      <4>4. k < Len(open') => open'[k + 1] = open[i + 1]
        BY <2>2, <4>3
      <4> QED
        BY <1>5, <4>2, <4>3, <4>4
    <3> QED
      BY <3>1, <3>2
  <2>5. open'[Len(open')] = 1
    <3>1. Len(open) \in 1 .. Len(open)
      BY <1>4
    <3> QED
      BY <1>5, <2>2, <3>1
  <2> QED
    BY <1>5, <2>2, <2>4, <2>5 DEF PathOK, Kind
<1> QED
  BY <1>6, <1>7

LEMMA LeaveKeepsPath ==
  ASSUME TreeOK, OpenOK, LeaveNew, PathOK, pass' = pass
  PROVE  PathOK'
<1>1. open \in Seq(Nodes) /\ open # <<>> /\ open' = Tail(open) /\ tree' = tree
  BY DEF OpenOK, LeaveNew, Complete
<1>2. /\ Len(open) \in Nat \ {0} /\ DOMAIN open = 1 .. Len(open)
      /\ Len(open') = Len(open) - 1 /\ DOMAIN open' = 1 .. Len(open) - 1
      /\ \A i \in 1 .. Len(open') :
           /\ open'[i] = open[i + 1]
           /\ {open'[j] : j \in i .. Len(open')} = {open[j] : j \in i + 1 .. Len(open)}
      /\ open' \in Seq(Nodes)
  <2>1. open \in Seq(Nodes) /\ open # <<>> /\ open' = Tail(open)
    BY <1>1
  <2>2. Popped(open, open')
    BY <2>1, PoppedSuffixes
  <2>3. open' \in Seq(Nodes)
    BY <2>1
  <2> QED
    BY <2>2, <2>3 DEF Popped
<1>3. Ancestors' = Ancestors
  BY <1>1 DEF Ancestors
<1>4. ASSUME NEW i \in 1 .. Len(open) - 1
      PROVE  /\ Ancestors[open'[i]] = {open'[j] : j \in i .. Len(open')}
             /\ tree[open'[i]].kind \notin {"PARAM_VAR_DECL", "null"}
             /\ i < Len(open') => tree[open'[i]].up = open'[i + 1]
  <2>1. i \in 1 .. Len(open') /\ i + 1 \in 1 .. Len(open)
    BY <1>2
  <2>2. i < Len(open') => i + 1 \in 1 .. Len(open') /\ i + 1 < Len(open)
    BY <1>2
  <2>3. i < Len(open') => open'[i + 1] = open[i + 1 + 1]
    BY <1>2, <2>2
  <2> QED
    BY <1>2, <2>1, <2>2, <2>3 DEF PathOK, Kind
<1>5. open' # <<>> => open'[Len(open')] = 1
  <2> SUFFICES ASSUME open' # <<>> PROVE open'[Len(open')] = 1
    OBVIOUS
  <2>1. Len(open') \in 1 .. Len(open') /\ Len(open') + 1 = Len(open)
    BY <1>2
  <2> QED
    BY <1>1, <1>2, <2>1 DEF PathOK
<1>6. pass' = "collecting"
  BY <1>1 DEF PathOK
<1> QED
  BY <1>1, <1>2, <1>3, <1>4, <1>5, <1>6 DEF PathOK, Kind

LEMMA OpenChain ==
  ASSUME TreeOK, OpenOK, PathOK, open # <<>>
  PROVE  /\ IsOpen(Head(open)) /\ IsOpen(1)
         /\ \A n : IsOpen(n) => n \in Nodes /\ n <= Head(open)
         /\ \A n : n \in Ancestors[Head(open)] <=> IsOpen(n)
         /\ \A m, n : IsOpen(m) /\ IsOpen(n) /\ m <= n => m \in Ancestors[n]
         /\ \A n : IsOpen(n) /\ n # Head(open) =>
              \E m : /\ IsOpen(m) /\ tree[m].up = n
                     /\ Kind(m) \notin {"PARAM_VAR_DECL", "null"}
<1>1. /\ open \in Seq(Nodes) /\ Len(open) \in Nat \ {0} /\ DOMAIN open = 1 .. Len(open)
      /\ Head(open) = open[1] /\ \A k \in 1 .. Len(open) : open[k] \in Nodes
  BY DEF OpenOK
<1>2. /\ 1 \in 1 .. Len(open) /\ Len(open) \in 1 .. Len(open)
      /\ \A k \in 1 .. Len(open) : k \in 1 .. Len(open)
  BY <1>1
<1>3. IsOpen(Head(open)) /\ IsOpen(1)
  BY <1>1, <1>2 DEF IsOpen, PathOK
<1>4. \A k \in 1 .. Len(open) : Ancestors[open[k]] = {open[j] : j \in k .. Len(open)}
  BY <1>1 DEF PathOK
<1>5. \A n : n \in Ancestors[Head(open)] <=> IsOpen(n)
  BY <1>1, <1>2, <1>4 DEF IsOpen
<1>6. \A n : IsOpen(n) => n \in Nodes /\ n <= Head(open)
  BY <1>1, <1>2, <1>5, AncestorsAreNodes
<1>7. ASSUME NEW m, NEW n, IsOpen(m), IsOpen(n), m <= n PROVE m \in Ancestors[n]
  <2>1. PICK a \in 1 .. Len(open), b \in 1 .. Len(open) : m = open[a] /\ n = open[b]
    BY <1>1, <1>7 DEF IsOpen
  <2>2. m \in Nat /\ n \in Nat /\ m \in Nodes /\ n \in Nodes
    BY <1>6, <1>7, NodesAreNumbered
  <2>3. CASE b <= a
    <3>1. a \in b .. Len(open)
      BY <1>1, <2>3
    <3> QED
      BY <1>4, <2>1, <3>1
  <2>4. CASE ~(b <= a)
    <3>1. b \in a .. Len(open)
      BY <1>1, <2>4
    <3>2. n \in Ancestors[m]
      BY <1>4, <2>1, <3>1
    <3>3. n <= m
      BY <2>2, <3>2, AncestorsAreNodes
    <3>4. m = n
      BY <1>7, <2>2, <3>3
    <3> QED
      BY <2>2, <3>4, AncestorsAreNodes
  <2> QED
    BY <2>3, <2>4
<1>8. ASSUME NEW n, IsOpen(n), n # Head(open)
      PROVE  \E m : /\ IsOpen(m) /\ tree[m].up = n
                    /\ Kind(m) \notin {"PARAM_VAR_DECL", "null"}
  <2>1. PICK b \in 1 .. Len(open) : n = open[b]
    BY <1>1, <1>8 DEF IsOpen
  <2>2. b # 1
    BY <1>1, <1>8, <2>1
  <2>3. PICK a \in 1 .. Len(open) : a + 1 = b /\ a < Len(open)
    <3>1. b - 1 \in 1 .. Len(open) /\ b - 1 + 1 = b /\ b - 1 < Len(open)
      BY <1>1, <2>2
    <3> QED
      BY <3>1
  <2>4. tree[open[a]].up = open[a + 1] /\ Kind(open[a]) \notin {"PARAM_VAR_DECL", "null"}
    BY <1>1, <2>3 DEF PathOK
  <2>5. IsOpen(open[a])
    BY <1>1 DEF IsOpen
  <2> QED
    BY <2>1, <2>3, <2>4, <2>5
<1> QED
  BY <1>3, <1>5, <1>6, <1>7, <1>8

LEMMA RegionOK ==
  ASSUME TreeOK, ShapeOK, NEW d \in OfKind("VAR_DECL")
  PROVE  /\ d \in Nodes /\ tree[d].up \in Nodes
         /\ Region(d) \in Nodes /\ Region(d) < d
         /\ ~IsParameter(d) =>
              Region(d) = tree[d].up /\ Kind(Region(d)) \in {"PROGRAM_DECL", "COMPOUND_STMT"}
         /\ IsParameter(d) =>
              /\ Region(d) = tree[tree[d].up].up /\ Kind(Region(d)) = "FUNCTION_DECL"
              /\ tree[d].up = Region(d) + 1
<1>1. /\ d \in Nodes /\ tree[d].up \in Nodes /\ tree[d].up < d
      /\ Kind(tree[d].up) \in {"PROGRAM_DECL", "COMPOUND_STMT", "PARAM_VAR_DECL"}
  BY DEF OfKind, ShapeOK, Under, TreeOK
<1>2. CASE ~IsParameter(d)
  BY <1>1, <1>2 DEF Region, IsParameter
<1>3. CASE IsParameter(d)
  <2>1. PICK p \in Nodes : p = tree[d].up /\ p < d /\ Kind(p) = "PARAM_VAR_DECL"
    BY <1>1, <1>3 DEF IsParameter
  <2>2. tree[p].up \in Nodes /\ Kind(tree[p].up) = "FUNCTION_DECL" /\ tree[p].up + 1 = p
    BY <2>1 DEF ShapeOK, Under
  <2>3. tree[p].up \in Nat /\ p \in Nat /\ d \in Nat
    BY <1>1, <2>1, <2>2, NodesAreNumbered
  <2>4. tree[p].up < d
    BY <2>1, <2>2, <2>3
  <2> QED
    BY <1>1, <1>3, <2>1, <2>2, <2>4 DEF Region
<1> QED
  BY <1>2, <1>3

LEMMA RegionStays ==
  ASSUME TreeGrows, ShapeOK, NEW d \in OfKind("VAR_DECL")
  PROVE  /\ Region(d)' = Region(d)
         /\ IsParameter(d)' <=> IsParameter(d)
         /\ d \in OfKind("VAR_DECL")'
<1>1. TreeOK /\ Nodes \subseteq Nodes' /\ \A n \in Nodes : tree'[n] = tree[n]
  BY DEF TreeGrows
<1>2. d \in Nodes /\ tree[d].up \in Nodes
  BY <1>1, RegionOK
<1>3. tree'[d] = tree[d] /\ tree'[tree[d].up] = tree[tree[d].up]
  BY <1>1, <1>2
<1> QED
  BY <1>1, <1>2, <1>3 DEF Region, IsParameter, Kind, OfKind

LEMMA BlocksStay ==
  ASSUME TreeGrows, ShapeOK
  PROVE  /\ DeclaredBeforeBlocks' => DeclaredBeforeBlocks
         /\ Bodies' => Bodies
         /\ \A n \in Nodes : n \in OfKind("COMPOUND_STMT")' <=> n \in OfKind("COMPOUND_STMT")
<1>1. TreeOK /\ Nodes \subseteq Nodes' /\ \A n \in Nodes : tree'[n] = tree[n]
  BY DEF TreeGrows
<1>2. \A n \in Nodes : Ancestors'[n] = Ancestors[n]
  BY AncestorsStay
<1>3. \A n \in Nodes : n \in OfKind("COMPOUND_STMT")' <=> n \in OfKind("COMPOUND_STMT")
  BY <1>1 DEF OfKind, Kind
<1>4. Bodies' => Bodies
  <2> SUFFICES ASSUME Bodies', NEW n \in OfKind("null") PROVE ~Under(n, {"FUNCTION_DECL"})
    BY DEF Bodies
  <2>1. n \in Nodes /\ n \in OfKind("null")'
    BY <1>1 DEF OfKind, Kind
  <2>2. ~Under(n, {"FUNCTION_DECL"})'
    BY <2>1 DEF Bodies
  <2> QED
    BY <2>1, <2>2, UnderStays
<1>5. DeclaredBeforeBlocks' => DeclaredBeforeBlocks
  <2> SUFFICES ASSUME DeclaredBeforeBlocks', NEW d \in OfKind("VAR_DECL"),
                      NEW c \in OfKind("COMPOUND_STMT"), c < d, c # Region(d)
               PROVE  Region(d) \notin Ancestors[c]
    BY DEF DeclaredBeforeBlocks
  <2>1. c \in Nodes /\ c \in OfKind("COMPOUND_STMT")'
    BY <1>3 DEF OfKind
  <2>2. d \in OfKind("VAR_DECL")' /\ Region(d)' = Region(d)
    BY RegionStays
  <2>3. Region(d) \notin Ancestors'[c]
    <3>1. c # Region(d)'
      BY <2>2
    <3>2. Region(d)' \notin Ancestors'[c]
      BY <2>1, <2>2, <3>1 DEF DeclaredBeforeBlocks
    <3> QED
      BY <2>2, <3>2
  <2> QED
    BY <1>2, <2>1, <2>3
<1> QED
  BY <1>3, <1>4, <1>5

----------------------------------------------------------------------------
(* Entering a node, as far as the scopes go. *)

LEMMA EnterKeepsTreeInv ==
  ASSUME TreeInv, NEW shape \in source.shapes, EnterNew(shape), pass' = pass
  PROVE  TreeInv'
BY EnterKeepsTree, EnterKeepsOpen, EnterKeepsShape, EnterKeepsPath DEF TreeInv, EnterNew

(* What is open after a node has been entered. *)
LEMMA EnterOpens ==
  ASSUME TreeInv, NEW shape \in source.shapes, EnterNew(shape)
  PROVE  /\ open # <<>> /\ open' # <<>>
         /\ Here \in Nodes' /\ Here \notin Nodes /\ Here \in Nat
         /\ tree'[Here].kind = shape.kind /\ tree'[Here].up = Head(open)
         /\ tree'[Here].name = shape.name
         /\ TreeGrows
         /\ Head(open) \in Nodes /\ Head(open) < Here
         /\ \A n : IsOpen(n)' <=> IsOpen(n) \/ (n = Here /\ shape.kind \notin Leaves)
         /\ Head(open') = IF shape.kind \in Leaves THEN Head(open) ELSE Here
<1>1. /\ Here \in Nodes' /\ Here \notin Nodes /\ Here \in Nat
      /\ tree'[Here].kind = shape.kind /\ tree'[Here].up = Head(open)
      /\ tree'[Here].name = shape.name
      /\ TreeGrows
      /\ Head(open) \in Nodes /\ Head(open) < Here
  BY GrownTree, EnteredNode, TreeIsGrowing DEF TreeInv
<1>2. open \in Seq(Nodes) /\ open # <<>>
  BY DEF TreeInv, OpenOK, EnterNew, NextOf
<1>3. CASE shape.kind \in Leaves
  <2>1. open' = open
    BY <1>3 DEF EnterNew
  <2> QED
    BY <1>1, <1>2, <1>3, <2>1 DEF IsOpen
<1>4. CASE shape.kind \notin Leaves
  <2>1. open' = <<Here>> \o open
    BY <1>4 DEF EnterNew
  <2>2. open' # <<>> /\ Head(open') = Here
    BY <1>2, <2>1
  <2>3. Pushed(Here, open, open')
    <3>1. PICK S : S = Nodes'
      OBVIOUS
    <3>2. Nodes \subseteq S /\ Here \in S
      BY <1>1, <3>1 DEF TreeGrows
    <3>3. open \in Seq(S)
      BY <1>2, <3>2
    <3> QED
      BY <2>1, <3>2, <3>3, PushedSuffixes
  <2>4. \A n : (\E k \in DOMAIN open' : open'[k] = n) <=>
               n = Here \/ \E k \in DOMAIN open : open[k] = n
    <3>1. /\ DOMAIN open' = 1 .. Len(open') /\ DOMAIN open = 1 .. Len(open)
          /\ {open'[j] : j \in 1 .. Len(open')} = {Here} \cup {open[j] : j \in 1 .. Len(open)}
      BY <2>3 DEF Pushed
    <3>2. \A n : n \in {open'[j] : j \in 1 .. Len(open')} <=> \E k \in DOMAIN open' : open'[k] = n
      BY <3>1
    <3>3. \A n : n \in {open[j] : j \in 1 .. Len(open)} <=> \E k \in DOMAIN open : open[k] = n
      BY <3>1
    <3> QED
      BY <3>1, <3>2, <3>3
  <2> QED
    BY <1>1, <1>2, <1>4, <2>2, <2>4 DEF IsOpen
<1> QED
  BY <1>3, <1>4

LEMMA OpenBlocksAreNodes ==
  ASSUME TreeInv, open # <<>>
  PROVE  /\ OpenBlocks \subseteq Nodes
         /\ \A c \in OpenBlocks : IsOpen(c) /\ c <= Head(open) /\ c \in Nat
         /\ Kind(Head(open)) \in {"PROGRAM_DECL", "COMPOUND_STMT"} => Head(open) \in OpenBlocks
<1>1. \A c \in OpenBlocks : IsOpen(c) /\ c \in Nodes /\ c <= Head(open)
  BY OpenChain DEF OpenBlocks, OfKind, TreeInv
<1>2. Head(open) \in Nodes /\ IsOpen(Head(open))
  BY OpenChain DEF TreeInv
<1> QED
  BY <1>1, <1>2, NodesAreNumbered DEF TreeInv, OpenBlocks, OfKind, ShapeOK

LEMMA EnterOpensBlock ==
  ASSUME TreeInv, NEW shape \in source.shapes, EnterNew(shape)
  PROVE  OpenBlocks' = IF shape.kind = "COMPOUND_STMT" THEN OpenBlocks \cup {Here} ELSE OpenBlocks
<1>1. /\ \A n : IsOpen(n)' <=> IsOpen(n) \/ (n = Here /\ shape.kind \notin Leaves)
      /\ Here \in Nodes' /\ Here \notin Nodes /\ tree'[Here].kind = shape.kind
      /\ TreeGrows /\ open # <<>>
  BY EnterOpens
<1>2. \A n : IsOpen(n) => n \in Nodes
  BY <1>1, OpenChain DEF TreeInv
<1>3. \A n \in Nodes : n \in OfKind("COMPOUND_STMT")' <=> n \in OfKind("COMPOUND_STMT")
  BY <1>1, BlocksStay DEF TreeInv
<1>4. Here \in OfKind("COMPOUND_STMT")' <=> shape.kind = "COMPOUND_STMT"
  <2>1. PICK h : h = Here
    OBVIOUS
  <2> QED
    BY <1>1 DEF OfKind, Kind
<1>5. "COMPOUND_STMT" \notin Leaves
  BY DEF Leaves
<1>6. \A n : n \in OpenBlocks' <=> n = 1 \/ (n \in OfKind("COMPOUND_STMT")' /\ IsOpen(n)')
  BY DEF OpenBlocks
<1>7. \A n : n \in OpenBlocks <=> n = 1 \/ (n \in OfKind("COMPOUND_STMT") /\ IsOpen(n))
  BY DEF OpenBlocks
<1>8. \A n : n \in OpenBlocks' <=> n \in OpenBlocks \/ (n = Here /\ shape.kind = "COMPOUND_STMT")
  BY <1>1, <1>2, <1>3, <1>4, <1>5, <1>6, <1>7
<1> QED
  BY <1>8

(* No parameters wait for a body while anything else is entered.            *)
LEMMA NonePending ==
  ASSUME TreeInv, NEW shape \in source.shapes, EnterNew(shape),
         shape.kind = "COMPOUND_STMT" \/ Bodies', NEW d \in OfKind("VAR_DECL")
  PROVE  /\ shape.kind # "COMPOUND_STMT" => ~Pending(d)
         /\ ~Pending(d)'
<1>1. /\ Here \in Nodes' /\ Here \notin Nodes /\ TreeGrows /\ Head(open) \in Nodes
      /\ tree'[Here].kind = shape.kind /\ tree'[Here].up = Head(open)
      /\ Head(open') = IF shape.kind \in Leaves THEN Head(open) ELSE Here
  BY EnterOpens
<1>2. Kind(Head(open)) = "FUNCTION_DECL" => shape.kind = "COMPOUND_STMT"
  <2> SUFFICES ASSUME Kind(Head(open)) = "FUNCTION_DECL", shape.kind # "COMPOUND_STMT" PROVE FALSE
    OBVIOUS
  <2>1. shape.kind = "null"
    BY TakenUnder DEF EnterNew, NextOf
  <2>2. PICK n : n = Here
    OBVIOUS
  <2>3. n \in OfKind("null")' /\ Under(n, {"FUNCTION_DECL"})'
    BY <1>1, <2>1, <2>2 DEF OfKind, Under, Kind, TreeGrows
  <2> QED
    BY <2>3 DEF Bodies
<1>3. /\ Region(d) \in Nodes /\ (IsParameter(d) => Kind(Region(d)) = "FUNCTION_DECL")
  BY RegionOK DEF TreeInv
<1>4. Region(d)' = Region(d) /\ (IsParameter(d)' <=> IsParameter(d))
  BY <1>1, RegionStays DEF TreeInv
<1>5. "COMPOUND_STMT" \notin Leaves
  BY DEF Leaves
<1> QED
  BY <1>1, <1>2, <1>3, <1>4, <1>5 DEF Pending

LEMMA InBlockStays ==
  ASSUME TreeInv, TreeGrows, NEW d \in OfKind("VAR_DECL"), NEW c \in Nodes
  PROVE  InBlock(d, c)' <=> InBlock(d, c)
<1>1. Region(d)' = Region(d) /\ (IsParameter(d)' <=> IsParameter(d))
  BY RegionStays DEF TreeInv
<1>2. tree'[c] = tree[c]
  BY DEF TreeGrows
<1> QED
  BY <1>1, <1>2 DEF InBlock

LEMMA FiledStays ==
  ASSUME TreeInv, NEW shape \in source.shapes, EnterNew(shape), shape.kind # "COMPOUND_STMT",
         mCurrentScopeID' = mCurrentScopeID, Bodies',
         NEW d \in Variables, d \in OfKind("VAR_DECL"), mTable'[d] = mTable[d],
         NEW N, Filed(d, N)
  PROVE  Filed(d, N)'
<1>1. OpenBlocks' = OpenBlocks /\ TreeGrows /\ open # <<>>
  BY EnterOpensBlock, EnterOpens
<1>2. ~Pending(d) /\ ~Pending(d)'
  BY NonePending
<1>3. /\ IsParameter(d)' <=> IsParameter(d)
      /\ DeclaredBeforeBlocks' => DeclaredBeforeBlocks
      /\ ScopeOf(d)' = ScopeOf(d)
  BY <1>1, RegionStays, BlocksStay DEF TreeInv, ScopeOf
<1>4. \A c \in OpenBlocks : InBlock(d, c)' <=> InBlock(d, c)
  BY <1>1, InBlockStays, OpenBlocksAreNodes
<1> QED
  BY <1>1, <1>2, <1>3, <1>4 DEF Filed

LEMMA NumberingStays ==
  ASSUME TreeInv, NEW shape \in source.shapes, EnterNew(shape), shape.kind # "COMPOUND_STMT",
         UNCHANGED <<mCurrentScopeID, mCurrentScopesPath>>, NEW N, Numbering(N)
  PROVE  Numbering(N)'
<1>1. OpenBlocks' = OpenBlocks /\ TreeGrows
  BY EnterOpensBlock, EnterOpens
<1>2. ASSUME NEW c, NEW b \in OfKind("COMPOUND_STMT"), c \in Ancestors[b]
      PROVE  b \in OfKind("COMPOUND_STMT")' /\ c \in Ancestors'[b]
  <2>1. b \in Nodes
    BY DEF OfKind
  <2> QED
    BY <1>1, <1>2, <2>1, AncestorsStay, BlocksStay DEF TreeInv
<1> QED
  BY <1>1, <1>2 DEF Numbering

(* A block gets the next number, and so do the parameters that wait for it.  *)
LEMMA BlockIsNumbered ==
  ASSUME TreeInv, NEW shape \in source.shapes, EnterNew(shape), shape.kind = "COMPOUND_STMT",
         mCurrentScopeID' = mCurrentScopeID + 1,
         mCurrentScopesPath' = <<mCurrentScopeID'>> \o mCurrentScopesPath,
         mTable' = mTable, ScopesOK, VariablesOK
  PROVE  ScopesOK'
<1>1. PICK N : Numbering(N) /\ (Bodies => \A d \in Variables : Filed(d, N))
  BY DEF ScopesOK, Numbers
<1>2. PICK id \in Nat : id = mCurrentScopeID
  BY DEF ScopesOK
<1>3. PICK b : b = Here /\ b \in Nodes' /\ b \notin Nodes /\ b \in Nat
  BY EnterOpens
<1>4. /\ open # <<>> /\ tree'[b].kind = shape.kind /\ tree'[b].up = Head(open) /\ TreeGrows
      /\ Head(open) \in Nodes /\ Head(open) < b
      /\ Head(open') = b /\ open' # <<>>
  BY <1>3, EnterOpens DEF Leaves
<1>5. OpenBlocks' = OpenBlocks \cup {b} /\ OpenBlocks \subseteq Nodes
  BY <1>3, <1>4, EnterOpensBlock, OpenBlocksAreNodes
<1>6. \A c \in OpenBlocks : c # b /\ c < b /\ c \in Nat /\ IsOpen(c)
  <2>1. \A c \in OpenBlocks : IsOpen(c) /\ c <= Head(open) /\ c \in Nat
    BY <1>4, OpenBlocksAreNodes
  <2>2. Head(open) \in Nat
    BY <1>4, NodesAreNumbered DEF TreeInv
  <2> QED
    BY <1>3, <1>4, <2>1, <2>2
<1>m. PICK M : M = [c \in OpenBlocks \cup {b} |-> IF c = b THEN id + 1 ELSE N[c]]
  OBVIOUS
<1>7. /\ N \in [OpenBlocks -> 0 .. id] /\ N[1] = 0 /\ 1 \in OpenBlocks
      /\ \A a, c \in OpenBlocks : a < c => N[a] < N[c]
      /\ {mCurrentScopesPath[k] : k \in DOMAIN mCurrentScopesPath} = {N[c] : c \in OpenBlocks}
  BY <1>1, <1>2 DEF Numbering, OpenBlocks
<1>8. \A c \in OpenBlocks : N[c] \in Nat /\ N[c] <= id /\ N[c] < id + 1 /\ N[c] \in 0 .. id + 1
  BY <1>7
<1>9. /\ M \in [OpenBlocks' -> 0 .. id + 1]
      /\ M[b] = id + 1 /\ \A c \in OpenBlocks : M[c] = N[c]
  BY <1>m, <1>5, <1>6, <1>8
<1>10. Numbering(M)'
  <2>1. M[1] = 0
    BY <1>7, <1>9
  <2>2. ASSUME NEW a \in OpenBlocks', NEW c \in OpenBlocks', a < c PROVE M[a] < M[c]
    <3>1. CASE c = b
      <4>1. a # b
        BY <1>3, <2>2, <3>1
      <4> QED
        BY <1>5, <1>8, <1>9, <3>1, <4>1
    <3>2. CASE c # b
      <4>1. c \in OpenBlocks /\ c < b /\ c \in Nat
        BY <1>5, <1>6, <3>2
      <4>2. a # b
        BY <1>3, <2>2, <4>1
      <4> QED
        BY <1>5, <1>7, <1>9, <2>2, <4>1, <4>2
    <3> QED
      BY <3>1, <3>2
  <2>3. {mCurrentScopesPath'[k] : k \in DOMAIN mCurrentScopesPath'} = {M[c] : c \in OpenBlocks'}
    <3>1. Pushed(id + 1, mCurrentScopesPath, mCurrentScopesPath')
      <4>1. mCurrentScopesPath \in Seq(Nat) /\ id + 1 \in Nat
        BY DEF ScopesOK
      <4> QED
        BY <1>2, <4>1, PushedSuffixes
    <3>2. {mCurrentScopesPath'[k] : k \in DOMAIN mCurrentScopesPath'}
            = {id + 1} \cup {mCurrentScopesPath[k] : k \in DOMAIN mCurrentScopesPath}
      BY <3>1 DEF Pushed
    <3>3. {M[c] : c \in OpenBlocks'} = {id + 1} \cup {N[c] : c \in OpenBlocks}
      BY <1>5, <1>9
    <3> QED
      BY <1>7, <3>2, <3>3
  <2>4. ASSUME NEW c \in OpenBlocks', M[c] # id + 1
        PROVE  \E a \in OfKind("COMPOUND_STMT")' : a # c /\ c \in Ancestors'[a]
    <3>1. c \in OpenBlocks /\ c # b
      BY <1>5, <1>9, <2>4
    <3>2. b \in OfKind("COMPOUND_STMT")'
      BY <1>3, <1>4 DEF OfKind, Kind
    <3>3. Ancestors'[b] = {b} \cup Ancestors'[Head(open)]
      <4>1. TreeOK'
        BY <1>4 DEF TreeGrows
      <4> QED
        BY <1>3, <1>4, <4>1, NextAncestorsEquation
    <3>4. c \in Ancestors'[Head(open)]
      BY <1>4, <1>6, <3>1, OpenChain, AncestorsStay DEF TreeInv
    <3> QED
      BY <3>1, <3>2, <3>3, <3>4
  <2> QED
    BY <1>2, <1>9, <2>1, <2>2, <2>3, <2>4 DEF Numbering
<1>11. ASSUME Bodies', NEW d \in Variables' PROVE Filed(d, M)'
  <2>1. d \in Variables /\ d \in OfKind("VAR_DECL") /\ ScopeOf(d)' = ScopeOf(d)
    BY DEF Variables, VariablesOK, ScopeOf
  <2>2. Filed(d, N)
    BY <1>1, <1>4, <1>11, <2>1, BlocksStay DEF TreeInv
  <2>3. ~Pending(d)'
    BY <2>1, NonePending
  <2>4. /\ Region(d)' = Region(d) /\ Region(d) \in Nodes
        /\ IsParameter(d)' <=> IsParameter(d)
        /\ IsParameter(d) => Kind(Region(d)) = "FUNCTION_DECL"
        /\ DeclaredBeforeBlocks' => DeclaredBeforeBlocks
    BY <1>4, <2>1, RegionOK, RegionStays, BlocksStay DEF TreeInv
  <2>5. \A c \in OpenBlocks : InBlock(d, c)' <=> InBlock(d, c)
    BY <1>4, <1>5, <2>1, InBlockStays
  <2>6. InBlock(d, b)' <=> IsParameter(d) /\ Region(d) = Head(open)
    BY <1>3, <1>4, <2>4 DEF InBlock
  <2>7. IsParameter(d) /\ Region(d) = Head(open) => Pending(d)
    <3> SUFFICES ASSUME IsParameter(d), Region(d) = Head(open) PROVE Pending(d)
      OBVIOUS
    <3>1. Head(open) \in OfKind("FUNCTION_DECL")
      BY <2>4 DEF OfKind
    <3>2. Arity(Head(open)) + 1 = 2
      BY <3>1, TakenUnder DEF EnterNew, NextOf, OfKind
    <3> QED
      BY <1>4, <3>1, <3>2, BodyIsMissing DEF Pending, TreeInv
  <2>8. ScopeOf(d) \in 0 .. id \/ (ScopeOf(d) = id + 1 /\ Pending(d))
    BY <1>2, <2>2 DEF Filed
  <2>9. Pending(d) => ScopeOf(d) = id + 1 /\ IsParameter(d) /\ Region(d) = Head(open)
    BY <1>2, <2>2 DEF Filed, Pending
  <2>10. ASSUME NEW c \in OpenBlocks'
         PROVE  /\ ScopeOf(d) = M[c] => InBlock(d, c)'
                /\ InBlock(d, c)' /\ (IsParameter(d) \/ DeclaredBeforeBlocks) => ScopeOf(d) = M[c]
    <3>1. CASE c = b
      <4>1. ScopeOf(d) = id + 1 => Pending(d)
        BY <2>8
      <4> QED
        BY <1>9, <2>6, <2>7, <2>9, <3>1, <4>1
    <3>2. CASE c # b
      BY <1>5, <1>9, <2>2, <2>5, <3>2 DEF Filed
    <3> QED
      BY <3>1, <3>2
  <2>11. ScopeOf(d) \in 0 .. id + 1
    BY <2>8
  <2> QED
    BY <1>2, <2>1, <2>3, <2>4, <2>10, <2>11 DEF Filed
<1>12. /\ mCurrentScopeID' \in Nat /\ mCurrentScopesPath' \in Seq(Nat)
       /\ \A j, k \in DOMAIN mCurrentScopesPath' :
            j < k => mCurrentScopesPath'[k] < mCurrentScopesPath'[j]
  <2>1. mCurrentScopesPath \in Seq(Nat) /\ id + 1 \in Nat
    BY DEF ScopesOK
  <2>2. mCurrentScopesPath' = <<id + 1>> \o mCurrentScopesPath
    BY <1>2
  <2>3. Pushed(id + 1, mCurrentScopesPath, mCurrentScopesPath')
    BY <2>1, <2>2, PushedSuffixes
  <2>4. \A k \in DOMAIN mCurrentScopesPath :
          mCurrentScopesPath[k] \in Nat /\ mCurrentScopesPath[k] < id + 1
    <3>1. \A k \in DOMAIN mCurrentScopesPath : mCurrentScopesPath[k] \in {N[c] : c \in OpenBlocks}
      BY <1>7
    <3> QED
      BY <1>8, <3>1
  <2>5. ASSUME NEW j \in DOMAIN mCurrentScopesPath', NEW k \in DOMAIN mCurrentScopesPath', j < k
        PROVE  mCurrentScopesPath'[k] < mCurrentScopesPath'[j]
    <3>1. PICK l \in Nat : /\ l = Len(mCurrentScopesPath)
                           /\ DOMAIN mCurrentScopesPath = 1 .. l
                           /\ DOMAIN mCurrentScopesPath' = 1 .. l + 1
      BY <2>3 DEF Pushed
    <3>2. /\ mCurrentScopesPath'[1] = id + 1
          /\ \A i \in 1 .. l : mCurrentScopesPath'[i + 1] = mCurrentScopesPath[i]
      BY <2>3, <3>1 DEF Pushed
    <3>3. k - 1 \in 1 .. l /\ k - 1 + 1 = k
      BY <2>5, <3>1
    <3>4. mCurrentScopesPath'[k] = mCurrentScopesPath[k - 1]
      BY <3>2, <3>3
    <3>5. CASE j = 1
      BY <2>4, <3>1, <3>2, <3>3, <3>4, <3>5
    <3>6. CASE j # 1
      <4>1. j - 1 \in 1 .. l /\ j - 1 + 1 = j /\ j - 1 < k - 1
        BY <2>5, <3>1, <3>6
      <4>2. mCurrentScopesPath'[j] = mCurrentScopesPath[j - 1]
        BY <3>2, <4>1
      <4> QED
        BY <3>1, <3>3, <3>4, <4>1, <4>2 DEF ScopesOK
    <3> QED
      BY <3>5, <3>6
  <2>6. mCurrentScopesPath' \in Seq(Nat)
    BY <2>1, <2>2
  <2> QED
    BY <1>2, <2>5, <2>6
<1> QED
  BY <1>10, <1>11, <1>12 DEF ScopesOK, Numbers

----------------------------------------------------------------------------
(* The variables of the table. *)

(* What a step other than one into a block does to the table, as far as the  *)
(* variables go: those that are new are named after their nodes, clash with  *)
(* none, and all are there unless an error is counted.                       *)
Clash(d, e) == mTable[d].mName = mTable[e].mName /\ ScopeOf(d) = ScopeOf(e)
Kept == {d \in Variables : d \in DOMAIN mTable' /\ mTable'[d] = mTable[d]}
VariablesStep ==
  /\ Kept = Variables
  /\ \A d \in Variables' \ Variables :
       /\ d \in OfKind("VAR_DECL")' /\ d \notin Nodes
       /\ mTable'[d].mName = tree'[d].name /\ mTable'[d].mIsFunction = FALSE
       /\ \A e \in Variables' : Clash(d, e)' => d = e
  /\ Flawless' => Flawless /\ OfKind("VAR_DECL")' \ Nodes \subseteq Variables'

LEMMA VariablesGrow ==
  ASSUME TreeInv, NEW shape \in source.shapes, EnterNew(shape), shape.kind # "COMPOUND_STMT",
         UNCHANGED <<mCurrentScopeID, mCurrentScopesPath>>,
         ScopesOK, VariablesOK, VariablesStep,
         \A N, d : Numbering(N) /\ Bodies' /\ d \in Variables' \ Variables => Filed(d, N)'
  PROVE  ScopesOK' /\ VariablesOK'
<1>1. PICK N : Numbering(N) /\ (Bodies => \A d \in Variables : Filed(d, N))
  BY DEF ScopesOK, Numbers
<1>2. TreeGrows
  BY EnterOpens
<1>3. \A d \in Variables : d \in Variables' /\ mTable'[d] = mTable[d]
  BY DEF VariablesStep, Kept, Variables
<1>4. Numbering(N)'
  BY <1>1, NumberingStays
<1>5. ASSUME Bodies', NEW d \in Variables' PROVE Filed(d, N)'
  <2>1. CASE d \in Variables
    <3>1. Bodies /\ d \in OfKind("VAR_DECL")
      BY <1>2, <1>5, <2>1, BlocksStay DEF TreeInv, VariablesOK
    <3> QED
      BY <1>1, <1>3, <1>5, <2>1, <3>1, FiledStays
  <2>2. CASE d \notin Variables
    BY <1>1, <1>5, <2>2
  <2> QED
    BY <2>1, <2>2
<1>6. ScopesOK'
  BY <1>4, <1>5 DEF ScopesOK, Numbers
<1>7. ASSUME NEW d \in Variables'
      PROVE  /\ d \in OfKind("VAR_DECL")'
             /\ mTable'[d].mName = tree'[d].name /\ mTable'[d].mIsFunction = FALSE
  <2>1. CASE d \in Variables
    <3>1. d \in OfKind("VAR_DECL") /\ mTable[d].mName = tree[d].name /\ mTable[d].mIsFunction = FALSE
      BY <2>1 DEF VariablesOK
    <3>2. d \in OfKind("VAR_DECL")' /\ tree'[d] = tree[d]
      BY <1>2, <3>1, RegionStays DEF TreeGrows, TreeInv, OfKind
    <3> QED
      BY <1>3, <2>1, <3>1, <3>2
  <2>2. CASE d \notin Variables
    BY <2>2 DEF VariablesStep
  <2> QED
    BY <2>1, <2>2
<1>8. ASSUME NEW d \in Variables', NEW e \in Variables', Clash(d, e)' PROVE d = e
  <2>1. CASE d \in Variables /\ e \in Variables
    <3>1. Clash(d, e)
      BY <1>3, <1>8, <2>1 DEF Clash, ScopeOf
    <3> QED
      BY <2>1, <3>1 DEF VariablesOK, Clash
  <2>2. CASE d \notin Variables
    BY <1>8, <2>2 DEF VariablesStep
  <2>3. CASE e \notin Variables
    <3>1. Clash(e, d)'
      BY <1>8 DEF Clash
    <3> QED
      BY <2>3, <3>1 DEF VariablesStep
  <2> QED
    BY <2>1, <2>2, <2>3
<1>9. ASSUME Flawless', NEW d \in OfKind("VAR_DECL")' PROVE d \in Variables'
  <2>1. CASE d \in Nodes
    <3>1. d \in OfKind("VAR_DECL")
      BY <1>2, <2>1 DEF OfKind, Kind, TreeGrows
    <3> QED
      BY <1>3, <1>9, <3>1 DEF VariablesStep, VariablesOK
  <2>2. CASE d \notin Nodes
    BY <1>9, <2>2 DEF VariablesStep
  <2> QED
    BY <2>1, <2>2
<1>10. VariablesOK'
  BY <1>7, <1>8, <1>9 DEF VariablesOK, Clash
<1> QED
  BY <1>6, <1>10

(* A variable is filed under the number given out last. *)
LEMMA VariableIsScoped ==
  ASSUME TreeInv, NEW shape \in source.shapes, EnterNew(shape), shape.kind = "VAR_DECL",
         UNCHANGED <<mCurrentScopeID, mCurrentScopesPath>>, mCurrentScopeID \in Nat,
         NEW d, d = Here, mTable'[d].mScopeID = mCurrentScopeID,
         NEW N, Numbering(N)
  PROVE  Filed(d, N)'
<1>1. /\ open # <<>> /\ TreeGrows /\ Head(open) \in Nodes
      /\ d \in Nodes' /\ d \notin Nodes /\ d \in Nat
      /\ tree'[d].kind = "VAR_DECL" /\ tree'[d].up = Head(open) /\ Head(open) < d
  BY EnterOpens
<1>2. PICK h : h = Head(open)
  OBVIOUS
<1>3. Kind(h) \in {"PROGRAM_DECL", "COMPOUND_STMT"} /\ tree'[h] = tree[h]
  BY <1>1, <1>2, TakenUnder DEF EnterNew, NextOf, TreeGrows
<1>4. h \in OpenBlocks /\ h \in Nat /\ \A c \in OpenBlocks : c \in Nat /\ c <= h
  BY <1>1, <1>2, <1>3, OpenBlocksAreNodes
<1>5. OpenBlocks' = OpenBlocks
  BY EnterOpensBlock
<1>6. ~IsParameter(d)' /\ Region(d)' = h
  BY <1>1, <1>2, <1>3 DEF IsParameter, Region, Kind
<1>7. \A c : InBlock(d, c)' <=> c = h
  BY <1>6 DEF InBlock
<1>8. ~Pending(d)'
  BY <1>6 DEF Pending
<1>9. PICK id \in Nat : id = mCurrentScopeID
  OBVIOUS
<1>10. /\ N \in [OpenBlocks -> 0 .. id]
       /\ \A a, c \in OpenBlocks : a < c => N[a] < N[c]
  BY <1>9 DEF Numbering
<1>11. ASSUME NEW c \in OpenBlocks, N[c] = id PROVE c = h
  <2> SUFFICES ASSUME c # h PROVE FALSE
    OBVIOUS
  <2>1. c < h
    BY <1>4
  <2>2. N[c] < N[h] /\ N[h] \in 0 .. id
    BY <1>4, <1>10, <2>1
  <2> QED
    BY <1>11, <2>2
<1>12. DeclaredBeforeBlocks' => N[h] = id
  <2> SUFFICES ASSUME DeclaredBeforeBlocks', N[h] # id PROVE FALSE
    OBVIOUS
  <2>1. PICK b \in OfKind("COMPOUND_STMT") : b # h /\ h \in Ancestors[b]
    BY <1>4, <1>9 DEF Numbering
  <2>2. b \in Nodes /\ b < d
    BY GrownTree DEF OfKind, TreeInv
  <2>3. b \in OfKind("COMPOUND_STMT")' /\ h \in Ancestors'[b]
    BY <1>1, <2>1, <2>2, AncestorsStay, BlocksStay DEF TreeInv
  <2>4. d \in OfKind("VAR_DECL")'
    BY <1>1 DEF OfKind, Kind
  <2>5. Region(d)' \notin Ancestors'[b]
    <3>1. b # Region(d)'
      BY <1>6, <2>1
    <3> QED
      BY <2>2, <2>3, <2>4, <3>1 DEF DeclaredBeforeBlocks
  <2> QED
    BY <1>6, <2>3, <2>5
<1>13. ScopeOf(d)' = id /\ id \in 0 .. id
  BY <1>9 DEF ScopeOf
<1> QED
  BY <1>5, <1>6, <1>7, <1>8, <1>9, <1>11, <1>12, <1>13 DEF Filed

(* A parameter is filed under the number of the body to come. *)
LEMMA ParameterIsScoped ==
  ASSUME TreeInv, NEW shape \in source.shapes, EnterNew(shape), shape.kind = "FUNCTION_DECL",
         UNCHANGED <<mCurrentScopeID, mCurrentScopesPath>>, mCurrentScopeID \in Nat,
         NEW k \in DOMAIN shape.params,
         NEW d, d = Here + 1 + k, mTable'[d].mScopeID = mCurrentScopeID + 1,
         NEW N, Numbering(N)
  PROVE  Filed(d, N)'
<1>1. /\ open # <<>> /\ open' # <<>> /\ TreeGrows
      /\ Here \in Nodes' /\ Here \notin Nodes /\ Here \in Nat
      /\ tree'[Here].kind = "FUNCTION_DECL"
      /\ Head(open') = Here
  BY EnterOpens DEF Leaves
<1>2. PICK f : f = Here
  OBVIOUS
<1>3. /\ tree'[d].kind = "VAR_DECL" /\ tree'[d].up = f + 1
      /\ tree'[f + 1].kind = "PARAM_VAR_DECL" /\ tree'[f + 1].up = f
  BY <1>2, GrownFunction DEF TreeInv
<1>4. IsParameter(d)' /\ Region(d)' = f
  BY <1>3 DEF IsParameter, Region, Kind
<1>5. NoBody(f)'
  <2>1. ASSUME NEW i \in Nodes', tree'[i].up = f PROVE tree'[i].kind = "PARAM_VAR_DECL"
    <3>1. CASE i \in Nodes
      <4>1. tree'[i].up = tree[i].up /\ tree[i].up \in Nat /\ tree[i].up < Here
        <5>1. tree'[i] = tree[i] /\ i < Here /\ i \in Nat
          BY <3>1, GrownTree, NodesAreNumbered DEF TreeInv
        <5>2. tree[i].up \in Nat /\ tree[i].up < i
          BY <3>1, ParentsComeFirst DEF TreeInv
        <5> QED
          BY <1>1, <5>1, <5>2
      <4> QED
        BY <1>1, <1>2, <2>1, <4>1
    <3>2. CASE i = Here
      <4>1. tree'[Here].up \in Nat /\ tree'[Here].up < Here
        BY EnterOpens, NodesAreNumbered DEF TreeInv
      <4> QED
        BY <1>1, <1>2, <2>1, <3>2, <4>1
    <3>3. CASE i \notin Nodes /\ i # Here
      <4>1. tree'[i].kind = "PARAM_VAR_DECL" \/ tree'[i].up = Here + 1
        BY <3>3, NewNodes DEF TreeInv
      <4>2. Here + 1 # Here
        BY <1>1
      <4> QED
        BY <1>2, <2>1, <4>1, <4>2
    <3> QED
      BY <3>1, <3>2, <3>3
  <2> QED
    BY <2>1 DEF NoBody, Children, Kind
<1>6. Pending(d)'
  <2>1. NoBody(Head(open))'
    BY <1>1, <1>2, <1>5 DEF NoBody, Children
  <2> QED
    BY <1>1, <1>2, <1>4, <2>1 DEF Pending
<1>7. OpenBlocks' = OpenBlocks /\ OpenBlocks \subseteq Nodes
  BY <1>1, EnterOpensBlock, OpenBlocksAreNodes
<1>8. \A c \in OpenBlocks : ~InBlock(d, c)'
  <2>1. ASSUME NEW c \in OpenBlocks PROVE tree'[c].up # f
    <3>1. tree'[c] = tree[c] /\ c < Here /\ c \in Nat
      BY <1>7, GrownTree, NodesAreNumbered DEF TreeInv
    <3>2. tree[c].up \in Nat /\ tree[c].up < c
      BY <1>7, ParentsComeFirst DEF TreeInv
    <3> QED
      BY <1>1, <1>2, <3>1, <3>2
  <2> QED
    BY <1>4, <2>1 DEF InBlock
<1>9. PICK id \in Nat : id = mCurrentScopeID
  OBVIOUS
<1>10. \A c \in OpenBlocks : N[c] # id + 1
  <2>1. \A c \in OpenBlocks : N[c] \in 0 .. id
    BY <1>9 DEF Numbering
  <2> QED
    BY <2>1
<1>11. ScopeOf(d)' = id + 1
  BY <1>9 DEF ScopeOf
<1> QED
  BY <1>6, <1>7, <1>8, <1>9, <1>10, <1>11 DEF Filed

LEMMA NoClash ==
  ASSUME NEW sym, NEW other, sym.mIsFunction = FALSE, other.mIsFunction = FALSE,
         ~Redefines(sym, other)
  PROVE  ~(sym.mName = other.mName /\ sym.mScopeID = other.mScopeID)
BY DEF Redefines

LEMMA VariableStep ==
  ASSUME IInv, TreeInv, VariablesOK, NEW shape \in source.shapes, CollectVarDecl(shape),
         pass' = pass, pass = "collecting"
  PROVE  /\ VariablesStep
         /\ \A d \in Variables' \ Variables : d = Here /\ mTable'[d].mScopeID = mCurrentScopeID
<1> DEFINE sym == VariableSymbol(shape.type, mCurrentScopeID, shape.name, shape.size)
<1>1. /\ shape.kind = "VAR_DECL" /\ EnterNew(shape)
      /\ mTable' = AddSymbol(mTable, Here, sym)
      /\ mErrorCount' = mErrorCount + IF CanAddSymbol(mTable, sym) THEN 0 ELSE 1
  BY DEF CollectVarDecl
<1>s. /\ sym.mIsFunction = FALSE /\ sym.mName = shape.name /\ sym.mScopeID = mCurrentScopeID
  BY DEF VariableSymbol
<1> HIDE DEF sym
<1>2. mErrorCount \in Nat
  BY DEF IInv
<1>3. mErrorCount' = 0 => mErrorCount = 0 /\ CanAddSymbol(mTable, sym)
  BY <1>1, <1>2
<1>4. /\ Here \in Nodes' /\ Here \notin Nodes /\ Here \notin DOMAIN mTable
      /\ tree'[Here].kind = "VAR_DECL" /\ tree'[Here].name = shape.name
  BY <1>1, EnterOpens DEF IInv, TableOK
<1>5. /\ \A d \in DOMAIN mTable : d \in DOMAIN mTable' /\ mTable'[d] = mTable[d]
      /\ \A d \in DOMAIN mTable' \ DOMAIN mTable :
           d = Here /\ mTable'[d] = sym /\ CanAddSymbol(mTable, sym)
      /\ CanAddSymbol(mTable, sym) => Here \in DOMAIN mTable' /\ mTable'[Here] = sym
  BY <1>1, <1>4 DEF AddSymbol, With
<1>6. Kept = Variables
  BY <1>5 DEF Kept, Variables
<1>7. ASSUME NEW d \in Variables' \ Variables
      PROVE  d = Here /\ mTable'[d] = sym /\ CanAddSymbol(mTable, sym)
  BY <1>5 DEF Variables
<1>8. ASSUME NEW d \in Variables' \ Variables, NEW e \in Variables', Clash(d, e)' PROVE d = e
  <2>1. CASE e \in Variables
    <3>1. mTable'[e] = mTable[e] /\ mTable[e].mIsFunction = FALSE /\ e \in DOMAIN mTable
      BY <1>5, <2>1 DEF Variables, VariablesOK
    <3>2. ~Redefines(sym, mTable[e])
      BY <1>7, <3>1 DEF CanAddSymbol
    <3>3. ~(sym.mName = mTable[e].mName /\ sym.mScopeID = mTable[e].mScopeID)
      BY <1>s, <3>1, <3>2, NoClash
    <3> QED
      BY <1>7, <1>8, <3>1, <3>3 DEF Clash, ScopeOf
  <2>2. CASE e \notin Variables
    BY <1>7, <2>2
  <2> QED
    BY <2>1, <2>2
<1>9. ASSUME Flawless' PROVE Flawless /\ OfKind("VAR_DECL")' \ Nodes \subseteq Variables'
  <2>1. mErrorCount' = 0
    BY <1>9 DEF Flawless
  <2>2. Flawless
    BY <1>3, <2>1 DEF Flawless
  <2>3. Here \in Variables'
    BY <1>3, <1>5, <1>s, <2>1 DEF Variables
  <2>4. ASSUME NEW n \in OfKind("VAR_DECL")' \ Nodes PROVE n = Here
    <3>1. n \in Nodes'
      BY DEF OfKind
    <3> QED
      BY <1>1, <3>1, NewNodes DEF TreeInv
  <2> QED
    BY <2>2, <2>3, <2>4
<1>10. \A d \in Variables' \ Variables :
         /\ d = Here /\ mTable'[d].mScopeID = mCurrentScopeID
         /\ d \in OfKind("VAR_DECL")' /\ d \notin Nodes
         /\ mTable'[d].mName = tree'[d].name /\ mTable'[d].mIsFunction = FALSE
  BY <1>4, <1>7, <1>s DEF OfKind, Kind
<1> QED
  BY <1>6, <1>8, <1>9, <1>10 DEF VariablesStep

(* The parameters of a function: which of them are filed. *)
ParamSymbol(shape, k) ==
  VariableSymbol(shape.params[k].type, mCurrentScopeID + 1,
                 shape.params[k].name, shape.params[k].size)
Filing(shape, C) ==
  /\ C \subseteq DOMAIN shape.params
  /\ mErrorCount' = 0 => mErrorCount = 0 /\ C = {}
  /\ \A k \in DOMAIN shape.params \ C :
       /\ Here + 1 + k \in DOMAIN mTable' /\ mTable'[Here + 1 + k] = ParamSymbol(shape, k)
       /\ \A d \in DOMAIN mTable : ~Redefines(ParamSymbol(shape, k), mTable[d])
       /\ \A j \in 1 .. k - 1 : ~Redefines(ParamSymbol(shape, k), ParamSymbol(shape, j))
  /\ \A d \in DOMAIN mTable' \ DOMAIN mTable :
       \/ d = Here /\ mTable'[d].mIsFunction
       \/ \E k \in DOMAIN shape.params \ C : d = Here + 1 + k

LEMMA ParametersAreFiled ==
  ASSUME IInv, NEW shape \in source.shapes, CollectFunctionDecl(shape)
  PROVE  \E C : Filing(shape, C)
<1> DEFINE types == <<shape.type>> \o [k \in DOMAIN shape.params |-> shape.params[k].type]
           fnSym == FunctionSymbol(types, shape.name)
           Param(k) == ParamSymbol(shape, k)
           table == AddSymbol(mTable, Here, fnSym)
           clashes == {k \in DOMAIN shape.params :
                         \/ ~CanAddSymbol(table, Param(k))
                         \/ \E j \in 1..k - 1 : Redefines(Param(k), Param(j))}
           added == {Here + 1 + k : k \in DOMAIN shape.params \ clashes}
<1>1. /\ EnterNew(shape) /\ shape.kind = "FUNCTION_DECL"
      /\ mTable' = [d \in DOMAIN table \cup added |->
                      IF d \in added THEN Param(d - Here - 1) ELSE table[d]]
      /\ mErrorCount' = mErrorCount + (IF CanAddSymbol(mTable, fnSym) THEN 0 ELSE 1)
                                    + Cardinality(clashes)
  BY DEF CollectFunctionDecl, ParamSymbol
<1>2. /\ shape.params \in Seq(ParamShape)
      /\ Len(shape.params) \in Nat /\ DOMAIN shape.params = 1 .. Len(shape.params)
      /\ Here \in Nat
  <2>1. shape.params \in Seq(ParamShape)
    BY <1>1, ShapeType DEF IInv
  <2>2. Here \in Nat
    BY <1>1, GrownTree DEF IInv
  <2> QED
    BY <2>1, <2>2
<1>3. fnSym.mIsFunction
  BY DEF FunctionSymbol
<1>4. clashes \subseteq DOMAIN shape.params
  OBVIOUS
<1>5. IsFiniteSet(clashes)
  <2>1. IsFiniteSet(DOMAIN shape.params)
    <3> HIDE DEF clashes
    <3> QED
      BY <1>2, FS_Interval
  <2> HIDE DEF clashes
  <2> QED
    BY <1>4, <2>1, FS_Subset
<1>6. mErrorCount' = 0 => mErrorCount = 0 /\ clashes = {}
  <2> HIDE DEF clashes, fnSym
  <2>1. Cardinality(clashes) \in Nat /\ (Cardinality(clashes) = 0 <=> clashes = {})
    BY <1>5, FS_CardinalityType, FS_EmptySet
  <2> QED
    BY <1>1, <2>1 DEF IInv
<1>7. /\ DOMAIN mTable \subseteq DOMAIN table
      /\ DOMAIN table \subseteq DOMAIN mTable \cup {Here}
      /\ \A d \in DOMAIN mTable : table[d] = mTable[d]
      /\ Here \in DOMAIN table /\ Here \notin DOMAIN mTable => table[Here] = fnSym
  <2>1. Here \notin DOMAIN mTable
    BY <1>1, GrownTree DEF IInv, TableOK
  <2> HIDE DEF fnSym
  <2> QED
    BY <2>1 DEF AddSymbol, With
<1>8. ASSUME NEW k \in DOMAIN shape.params \ clashes
      PROVE  /\ CanAddSymbol(table, Param(k))
             /\ \A j \in 1 .. k - 1 : ~Redefines(Param(k), Param(j))
  OBVIOUS
<1>9. \A k \in DOMAIN shape.params : k \in Nat /\ (Here + 1 + k) - Here - 1 = k
  BY <1>2
<1>10. \A d \in added : \E k \in DOMAIN shape.params \ clashes : d = Here + 1 + k
  OBVIOUS
<1>11. \A k \in DOMAIN shape.params \ clashes : Here + 1 + k \in added
  OBVIOUS
<1> HIDE DEF table, fnSym, added, types, clashes, Param
<1>12. /\ DOMAIN mTable' = DOMAIN table \cup added
       /\ \A d \in added : mTable'[d] = Param(d - Here - 1)
       /\ \A d \in DOMAIN table \ added : mTable'[d] = table[d]
  BY <1>1
<1>13. ASSUME NEW k \in DOMAIN shape.params \ clashes
       PROVE  /\ Here + 1 + k \in DOMAIN mTable' /\ mTable'[Here + 1 + k] = Param(k)
              /\ \A d \in DOMAIN mTable : ~Redefines(Param(k), mTable[d])
              /\ \A j \in 1 .. k - 1 : ~Redefines(Param(k), Param(j))
  <2>1. Here + 1 + k \in DOMAIN mTable' /\ mTable'[Here + 1 + k] = Param((Here + 1 + k) - Here - 1)
    BY <1>11, <1>12
  <2>2. \A d \in DOMAIN mTable : ~Redefines(Param(k), mTable[d])
    BY <1>7, <1>8 DEF CanAddSymbol
  <2>3. (Here + 1 + k) - Here - 1 = k
    BY <1>9
  <2> QED
    BY <1>8, <2>1, <2>2, <2>3
<1>14. ASSUME NEW d \in DOMAIN mTable' \ DOMAIN mTable
       PROVE  \/ d = Here /\ mTable'[d].mIsFunction
              \/ \E k \in DOMAIN shape.params \ clashes : d = Here + 1 + k
  <2>1. CASE d \in added
    BY <1>10, <2>1
  <2>2. CASE d \notin added
    <3>1. d = Here /\ mTable'[d] = fnSym
      BY <1>7, <1>12, <2>2
    <3> QED
      BY <1>3, <3>1
  <2> QED
    BY <2>1, <2>2
<1> QED
  BY <1>4, <1>6, <1>13, <1>14 DEF Filing, Param

LEMMA FunctionStep ==
  ASSUME IInv, TreeInv, VariablesOK, NEW shape \in source.shapes, CollectFunctionDecl(shape),
         pass' = pass, pass = "collecting"
  PROVE  /\ VariablesStep
         /\ \A d \in Variables' \ Variables :
              /\ mTable'[d].mScopeID = mCurrentScopeID + 1
              /\ \E k \in DOMAIN shape.params : d = Here + 1 + k
<1>1. EnterNew(shape) /\ shape.kind = "FUNCTION_DECL" /\ TableStep(shape)
  BY FunctionIsFiled DEF CollectFunctionDecl
<1>2. PICK C : Filing(shape, C)
  BY ParametersAreFiled
<1>3. /\ Here \in Nat /\ DOMAIN shape.params \subseteq Nat
      /\ DOMAIN shape.params = 1 .. Len(shape.params)
      /\ \A k \in DOMAIN shape.params :
           /\ tree'[Here + 1 + k].kind = "VAR_DECL"
           /\ tree'[Here + 1 + k].name = shape.params[k].name
  BY <1>1, GrownFunction, EnterOpens DEF TreeInv
<1>s. \A k : /\ ParamSymbol(shape, k).mIsFunction = FALSE
             /\ ParamSymbol(shape, k).mName = shape.params[k].name
             /\ ParamSymbol(shape, k).mScopeID = mCurrentScopeID + 1
  BY DEF ParamSymbol, VariableSymbol
<1>4. \A d \in DOMAIN mTable : d \in DOMAIN mTable' /\ mTable'[d] = mTable[d]
  BY <1>1 DEF TableStep
<1>5. Kept = Variables
  BY <1>4 DEF Kept, Variables
<1>6. ASSUME NEW d \in Variables' \ Variables
      PROVE  /\ \E k \in DOMAIN shape.params \ C : d = Here + 1 + k
             /\ d \in Nodes' /\ d \notin Nodes
  <2>1. d \in DOMAIN mTable' \ DOMAIN mTable /\ ~mTable'[d].mIsFunction
    BY <1>4 DEF Variables
  <2> QED
    BY <1>1, <1>2, <2>1 DEF Filing, TableStep
<1>7. ASSUME NEW d \in Variables' \ Variables, NEW e \in Variables', Clash(d, e)' PROVE d = e
  <2>1. PICK k \in DOMAIN shape.params \ C : d = Here + 1 + k
    BY <1>6
  <2>2. mTable'[d] = ParamSymbol(shape, k)
    BY <1>2, <2>1 DEF Filing
  <2>3. CASE e \in Variables
    <3>1. mTable'[e] = mTable[e] /\ mTable[e].mIsFunction = FALSE /\ e \in DOMAIN mTable
      BY <1>4, <2>3 DEF Variables, VariablesOK
    <3>2. ~Redefines(ParamSymbol(shape, k), mTable[e])
      BY <1>2, <3>1 DEF Filing
    <3>3. ~(ParamSymbol(shape, k).mName = mTable[e].mName /\ ParamSymbol(shape, k).mScopeID = mTable[e].mScopeID)
      BY <1>s, <3>1, <3>2, NoClash
    <3> QED
      BY <1>7, <2>2, <3>1, <3>3 DEF Clash, ScopeOf
  <2>4. CASE e \notin Variables
    <3>1. PICK j \in DOMAIN shape.params \ C : e = Here + 1 + j
      BY <1>6, <2>4
    <3>2. mTable'[e] = ParamSymbol(shape, j)
      BY <1>2, <3>1 DEF Filing
    <3>3. ParamSymbol(shape, k).mName = ParamSymbol(shape, j).mName
      BY <1>7, <2>2, <3>2 DEF Clash, ScopeOf
    <3>4. ParamSymbol(shape, k).mScopeID = ParamSymbol(shape, j).mScopeID
      BY <1>s
    <3>5. ~(j \in 1 .. k - 1)
      <4> SUFFICES ASSUME j \in 1 .. k - 1 PROVE FALSE
        OBVIOUS
      <4>1. ~Redefines(ParamSymbol(shape, k), ParamSymbol(shape, j))
        BY <1>2 DEF Filing
      <4> QED
        BY <1>s, <3>3, <3>4, <4>1, NoClash
    <3>6. ~(k \in 1 .. j - 1)
      <4> SUFFICES ASSUME k \in 1 .. j - 1 PROVE FALSE
        OBVIOUS
      <4>1. ~Redefines(ParamSymbol(shape, j), ParamSymbol(shape, k))
        BY <1>2 DEF Filing
      <4> QED
        BY <1>s, <3>3, <3>4, <4>1, NoClash
    <3>7. j \in Nat /\ k \in Nat /\ j >= 1 /\ k >= 1
      BY <1>3
    <3>8. j = k
      BY <3>5, <3>6, <3>7
    <3> QED
      BY <2>1, <3>1, <3>8
  <2> QED
    BY <2>3, <2>4
<1>8. ASSUME Flawless' PROVE Flawless /\ OfKind("VAR_DECL")' \ Nodes \subseteq Variables'
  <2>1. mErrorCount = 0 /\ C = {}
    BY <1>2, <1>8 DEF Flawless, Filing
  <2>2. ASSUME NEW n \in OfKind("VAR_DECL")' \ Nodes PROVE n \in Variables'
    <3>1. n \in Nodes' /\ n # Here /\ tree'[n].kind = "VAR_DECL"
      <4>1. tree'[Here].kind = "FUNCTION_DECL"
        BY <1>1, EnterOpens
      <4> QED
        BY <4>1 DEF OfKind, Kind
    <3>2. PICK k \in DOMAIN shape.params : n = Here + 1 + k
      BY <1>1, <3>1, NewNodes DEF TreeInv
    <3>3. n \in DOMAIN mTable' /\ mTable'[n] = ParamSymbol(shape, k)
      BY <1>2, <2>1, <3>2 DEF Filing
    <3> QED
      BY <1>s, <3>3 DEF Variables
  <2> QED
    BY <2>1, <2>2 DEF Flawless
<1>9. ASSUME NEW d \in Variables' \ Variables
      PROVE  /\ mTable'[d].mScopeID = mCurrentScopeID + 1
             /\ \E k \in DOMAIN shape.params : d = Here + 1 + k
             /\ d \in OfKind("VAR_DECL")' /\ d \notin Nodes
             /\ mTable'[d].mName = tree'[d].name /\ mTable'[d].mIsFunction = FALSE
  <2>1. PICK k \in DOMAIN shape.params \ C : d = Here + 1 + k
    BY <1>6
  <2>2. mTable'[d] = ParamSymbol(shape, k)
    BY <1>2, <2>1 DEF Filing
  <2>3. tree'[d].kind = "VAR_DECL" /\ tree'[d].name = shape.params[k].name
    BY <1>3, <2>1
  <2> QED
    BY <1>6, <1>s, <2>1, <2>2, <2>3 DEF OfKind, Kind
<1> QED
  BY <1>5, <1>7, <1>8, <1>9 DEF VariablesStep

LEMMA NoVariableStep ==
  ASSUME TreeInv, NEW shape \in source.shapes, EnterNew(shape),
         shape.kind \notin {"VAR_DECL", "FUNCTION_DECL"}, mTable' = mTable,
         Flawless' => Flawless
  PROVE  VariablesStep /\ Variables' = Variables
<1>1. Variables' = Variables /\ Kept = Variables
  BY DEF Variables, Kept
<1>2. OfKind("VAR_DECL")' \ Nodes = {}
  <2> SUFFICES ASSUME NEW n \in OfKind("VAR_DECL")' \ Nodes PROVE FALSE
    OBVIOUS
  <2>1. n \in Nodes' /\ n \notin Nodes /\ tree'[n].kind = "VAR_DECL"
    BY DEF OfKind, Kind
  <2>2. n = Here
    BY <2>1, NewNodes DEF TreeInv
  <2>3. tree'[Here].kind = shape.kind
    BY EnterOpens
  <2> QED
    BY <2>1, <2>2, <2>3
<1> QED
  BY <1>1, <1>2 DEF VariablesStep

LEMMA CollectKeepsScopes ==
  ASSUME IInv, TreeInv, ScopesOK, VariablesOK, Collect
  PROVE  ScopesOK' /\ VariablesOK'
<1>1. PICK shape \in source.shapes :
        \/ CollectFunctionDecl(shape)
        \/ CollectVarDecl(shape)
        \/ CollectCallExpr(shape)
        \/ CollectIdentifierExpr(shape)
        \/ CollectCompoundStmt(shape)
        \/ CollectOther(shape)
  BY DEF Collect
<1>2. pass = "collecting" /\ pass' = pass /\ mErrorCount \in Nat /\ mCurrentScopeID \in Nat
  BY DEF Collect, IInv, ScopesOK
<1>3. CASE CollectFunctionDecl(shape)
  <2>1. /\ EnterNew(shape) /\ shape.kind = "FUNCTION_DECL" /\ shape.kind # "COMPOUND_STMT"
        /\ UNCHANGED <<mCurrentScopeID, mCurrentScopesPath>>
    BY <1>3 DEF CollectFunctionDecl, collectorVars
  <2>2. /\ VariablesStep
        /\ \A d \in Variables' \ Variables :
             /\ mTable'[d].mScopeID = mCurrentScopeID + 1
             /\ \E k \in DOMAIN shape.params : d = Here + 1 + k
    BY <1>2, <1>3, FunctionStep
  <2>3. ASSUME NEW N, NEW d, Numbering(N), d \in Variables' \ Variables PROVE Filed(d, N)'
    BY <1>2, <2>1, <2>2, <2>3, ParameterIsScoped
  <2> QED
    BY <2>1, <2>2, <2>3, VariablesGrow
<1>4. CASE CollectVarDecl(shape)
  <2>1. /\ EnterNew(shape) /\ shape.kind = "VAR_DECL" /\ shape.kind # "COMPOUND_STMT"
        /\ UNCHANGED <<mCurrentScopeID, mCurrentScopesPath>>
    BY <1>4 DEF CollectVarDecl, collectorVars
  <2>2. /\ VariablesStep
        /\ \A d \in Variables' \ Variables : d = Here /\ mTable'[d].mScopeID = mCurrentScopeID
    BY <1>2, <1>4, VariableStep
  <2>3. ASSUME NEW N, NEW d, Numbering(N), d \in Variables' \ Variables PROVE Filed(d, N)'
    BY <1>2, <2>1, <2>2, <2>3, VariableIsScoped
  <2> QED
    BY <2>1, <2>2, <2>3, VariablesGrow
<1>5. CASE CollectCallExpr(shape) \/ CollectIdentifierExpr(shape) \/ CollectOther(shape)
  <2>1. /\ EnterNew(shape)
        /\ shape.kind \notin {"VAR_DECL", "FUNCTION_DECL"} /\ shape.kind # "COMPOUND_STMT"
        /\ UNCHANGED <<mCurrentScopeID, mCurrentScopesPath>> /\ mTable' = mTable
        /\ mErrorCount' \in {mErrorCount, mErrorCount + 1}
    BY <1>2, <1>5 DEF CollectCallExpr, CollectIdentifierExpr, CollectOther, collectorVars
  <2>2. Flawless' => Flawless
    BY <1>2, <2>1 DEF Flawless
  <2>3. VariablesStep /\ Variables' = Variables
    BY <2>1, <2>2, NoVariableStep
  <2>4. \A N, d : Numbering(N) /\ Bodies' /\ d \in Variables' \ Variables => Filed(d, N)'
    BY <2>3
  <2> QED
    BY <2>1, <2>3, <2>4, VariablesGrow
<1>6. CASE CollectCompoundStmt(shape)
  <2>1. /\ EnterNew(shape) /\ shape.kind = "COMPOUND_STMT"
        /\ mCurrentScopeID' = mCurrentScopeID + 1
        /\ mCurrentScopesPath' = <<mCurrentScopeID'>> \o mCurrentScopesPath
        /\ mTable' = mTable /\ mErrorCount' = mErrorCount
    BY <1>6 DEF CollectCompoundStmt
  <2>2. Flawless' <=> Flawless
    BY <1>2, <2>1 DEF Flawless
  <2>3. VariablesStep /\ Variables' = Variables
    BY <2>1, <2>2, NoVariableStep
  <2>4. TreeGrows /\ \A n \in Nodes : tree'[n] = tree[n] /\ n \in Nodes'
    BY <2>1, EnterOpens DEF TreeGrows
  <2>5. ASSUME NEW d \in Variables'
        PROVE  /\ d \in OfKind("VAR_DECL")'
               /\ mTable'[d].mName = tree'[d].name /\ mTable'[d].mIsFunction = FALSE
    <3>1. d \in OfKind("VAR_DECL") /\ mTable[d].mName = tree[d].name /\ mTable[d].mIsFunction = FALSE
      BY <2>3 DEF VariablesOK
    <3> QED
      BY <2>1, <2>4, <3>1 DEF OfKind, Kind
  <2>6. ASSUME Flawless', NEW d \in OfKind("VAR_DECL")' PROVE d \in Variables'
    <3>1. CASE d \in Nodes
      <4>1. d \in OfKind("VAR_DECL")
        BY <2>4, <3>1 DEF OfKind, Kind
      <4> QED
        BY <2>2, <2>3, <2>6, <4>1 DEF VariablesOK
    <3>2. CASE d \notin Nodes
      BY <2>3, <2>6, <3>2 DEF VariablesStep
    <3> QED
      BY <3>1, <3>2
  <2>7. VariablesOK'
    <3>1. \A d, e \in Variables' :
            mTable'[d].mName = mTable'[e].mName /\ ScopeOf(d)' = ScopeOf(e)' => d = e
      BY <2>1, <2>3 DEF VariablesOK, ScopeOf
    <3> QED
      BY <2>5, <2>6, <3>1 DEF VariablesOK
  <2>8. ScopesOK'
    BY <2>1, BlockIsNumbered
  <2> QED
    BY <2>7, <2>8
<1> QED
  BY <1>1, <1>3, <1>4, <1>5, <1>6

----------------------------------------------------------------------------
(* Leaving a node. *)

(* What only depends on the tree. *)
LEMMA SameScopes ==
  ASSUME tree' = tree
  PROVE  /\ Nodes' = Nodes /\ Ancestors' = Ancestors /\ Identifiers' = Identifiers
         /\ \A kind : OfKind(kind)' = OfKind(kind)
         /\ \A n : Kind(n)' = Kind(n) /\ Children(n)' = Children(n)
         /\ \A f : NoBody(f)' <=> NoBody(f)
         /\ \A d : Region(d)' = Region(d) /\ (IsParameter(d)' <=> IsParameter(d))
         /\ \A d, c : InBlock(d, c)' <=> InBlock(d, c)
         /\ Bodies' <=> Bodies
         /\ DeclaredBeforeBlocks' <=> DeclaredBeforeBlocks
         /\ \A i : Visible(i)' = Visible(i) /\ Innermost(i)' = Innermost(i)
         /\ ShapeOK' <=> ShapeOK
<1>1. /\ Nodes' = Nodes /\ Ancestors' = Ancestors
      /\ \A kind : OfKind(kind)' = OfKind(kind)
      /\ \A n : Kind(n)' = Kind(n) /\ Children(n)' = Children(n)
  BY DEF Nodes, Ancestors, OfKind, Kind, Children
<1>2. \A f : NoBody(f)' <=> NoBody(f)
  BY <1>1 DEF NoBody
<1>3. \A d : Region(d)' = Region(d) /\ (IsParameter(d)' <=> IsParameter(d))
  BY <1>1 DEF Region, IsParameter, Kind
<1>4. \A d, c : InBlock(d, c)' <=> InBlock(d, c)
  BY <1>3 DEF InBlock
<1>5. \A n, kinds : Under(n, kinds)' <=> Under(n, kinds)
  BY <1>1 DEF Under, Kind
<1>6. (Bodies' <=> Bodies) /\ (DeclaredBeforeBlocks' <=> DeclaredBeforeBlocks)
  BY <1>1, <1>3, <1>5 DEF Bodies, DeclaredBeforeBlocks
<1>7. \A i : Visible(i)' = Visible(i)
  BY <1>1, <1>3 DEF Visible
<1>8. \A i : Innermost(i)' = Innermost(i)
  BY <1>1, <1>3, <1>7 DEF Innermost
<1>9. ShapeOK' <=> ShapeOK
  BY <1>1, <1>5 DEF ShapeOK
<1> QED
  BY <1>1, <1>2, <1>3, <1>4, <1>6, <1>7, <1>8, <1>9 DEF Identifiers

LEMMA NextOpenChain ==
  (TreeOK /\ OpenOK /\ PathOK /\ open # <<>>)' =>
    (IsOpen(Head(open)) /\ \A n : IsOpen(n) => n \in Nodes /\ n <= Head(open))'
<1>1. TreeOK /\ OpenOK /\ PathOK /\ open # <<>> =>
        (IsOpen(Head(open)) /\ \A n : IsOpen(n) => n \in Nodes /\ n <= Head(open))
  BY OpenChain
<1> QED
  BY <1>1, PTL

LEMMA LeaveKeepsTreeInv ==
  ASSUME TreeInv, LeaveNew, pass' = pass
  PROVE  TreeInv'
<1>1. tree' = tree /\ source' = source
  BY DEF LeaveNew
<1> QED
  BY <1>1, LeaveKeepsOpen, LeaveKeepsPath, SameScopes DEF TreeInv

LEMMA LeaveCloses ==
  ASSUME TreeInv, LeaveNew, pass' = pass
  PROVE  /\ open # <<>> /\ Head(open) \in Nodes
         /\ \A n : IsOpen(n)' <=> IsOpen(n) /\ n # Head(open)
         /\ open' # <<>> => Head(open') = tree[Head(open)].up
         /\ Kind(Head(open)) # "PARAM_VAR_DECL"
<1>1. /\ open \in Seq(Nodes) /\ open # <<>> /\ open' = Tail(open) /\ tree' = tree
  BY DEF LeaveNew, Complete, TreeInv, OpenOK
<1>2. Popped(open, open')
  BY <1>1, PoppedSuffixes
<1>3. PICK h : h = Head(open)
  OBVIOUS
<1>4. PICK l \in Nat \ {0} :
        /\ l = Len(open) /\ DOMAIN open = 1 .. l
        /\ Len(open') = l - 1 /\ DOMAIN open' = 1 .. l - 1
        /\ h = open[1]
        /\ \A i \in 1 .. l - 1 : open'[i] = open[i + 1]
        /\ {open[j] : j \in 1 .. l} = {h} \cup {open'[j] : j \in 1 .. l - 1}
  BY <1>2, <1>3 DEF Popped
<1>5. \A n : IsOpen(n) <=> n = h \/ IsOpen(n)'
  <2>1. \A n : IsOpen(n) <=> n \in {open[j] : j \in 1 .. l}
    BY <1>4 DEF IsOpen
  <2>2. \A n : IsOpen(n)' <=> n \in {open'[j] : j \in 1 .. l - 1}
    BY <1>4 DEF IsOpen
  <2> QED
    BY <1>4, <2>1, <2>2
<1>6. h \in Nodes /\ Kind(h) # "PARAM_VAR_DECL"
  <2>1. 1 \in 1 .. l
    BY <1>4
  <2> QED
    BY <1>1, <1>4, <2>1 DEF TreeInv, PathOK
<1>7. ASSUME open' # <<>> PROVE Head(open') = tree[h].up
  <2>1. open' \in Seq(Nodes) /\ Len(open') # 0 /\ Head(open') = open'[1]
    BY <1>1, <1>7
  <2>2. 1 \in 1 .. l - 1 /\ 1 \in 1 .. l /\ 1 < l
    BY <1>4, <2>1
  <2>3. open'[1] = open[1 + 1]
    BY <1>4, <2>2
  <2>4. tree[open[1]].up = open[1 + 1]
    BY <1>4, <2>2 DEF TreeInv, PathOK
  <2> QED
    BY <1>4, <2>1, <2>3, <2>4
<1>8. ~IsOpen(h)'
  <2> SUFFICES ASSUME IsOpen(h)' PROVE FALSE
    OBVIOUS
  <2>1. open' # <<>>
    <3>1. PICK j \in 1 .. l - 1 : open'[j] = h
      BY <1>4 DEF IsOpen
    <3>2. Len(open') # 0
      BY <1>4, <3>1
    <3> QED
      BY <3>2
  <2>2. h <= Head(open')
    BY <2>1, LeaveKeepsTreeInv, NextOpenChain DEF TreeInv
  <2>3. tree[h].up \in Nat /\ tree[h].up < h /\ h \in Nat
    BY <1>6, ParentsComeFirst, NodesAreNumbered DEF TreeInv
  <2> QED
    BY <1>7, <2>1, <2>2, <2>3
<1> QED
  BY <1>1, <1>3, <1>5, <1>6, <1>7, <1>8

(* No function is left without a body, and none that is left shows again.   *)
LEMMA NoneLeftPending ==
  ASSUME TreeInv, LeaveNew, pass' = pass, NEW d \in OfKind("VAR_DECL")
  PROVE  ~Pending(d) /\ ~Pending(d)'
<1>1. PICK h : /\ h = Head(open) /\ h \in Nodes /\ Kind(h) # "PARAM_VAR_DECL"
               /\ open' # <<>> => Head(open') = tree[h].up
  BY LeaveCloses
<1>2. tree' = tree /\ Arity(h) >= Needs(h)
  BY <1>1 DEF LeaveNew, Complete
<1>3. /\ Region(d) \in Nodes /\ (IsParameter(d) => Kind(Region(d)) = "FUNCTION_DECL")
  BY RegionOK DEF TreeInv
<1>4. ASSUME Pending(d) PROVE FALSE
  <2>1. Kind(h) = "FUNCTION_DECL" /\ NoBody(h)
    BY <1>1, <1>3, <1>4 DEF Pending
  <2>2. Children(h) \subseteq {h + 1}
    <3>1. ASSUME NEW i \in Children(h) PROVE i = h + 1
      BY <2>1, <3>1 DEF NoBody, Children, TreeInv, ShapeOK
    <3> QED
      BY <3>1
  <2>3. Cardinality(Children(h)) <= 1 /\ Cardinality(Children(h)) \in Nat
    <3>1. IsFiniteSet({h + 1}) /\ Cardinality({h + 1}) = 1
      BY FS_Singleton
    <3>2. IsFiniteSet(Children(h))
      BY <2>2, <3>1, FS_Subset
    <3> QED
      BY <2>2, <3>1, <3>2, FS_Subset, FS_CardinalityType
  <2>4. Arity(h) >= 2
    BY <1>2, <2>1 DEF Needs
  <2> QED
    BY <2>3, <2>4 DEF Arity
<1>5. ASSUME Pending(d)' PROVE FALSE
  <2>1. open' # <<>> /\ NoBody(Head(open))'
    BY <1>5 DEF Pending
  <2>2. h \in Children(tree[h].up)
    BY <1>1 DEF Children
  <2>3. Head(open') = tree[h].up
    BY <1>1, <2>1
  <2>4. \A i \in Children(tree[h].up) : Kind(i) = "PARAM_VAR_DECL"
    BY <1>2, <2>1, <2>3 DEF NoBody, Children, Kind, Nodes
  <2> QED
    BY <1>1, <2>2, <2>4
<1> QED
  BY <1>4, <1>5

LEMMA SameFiled ==
  ASSUME UNCHANGED <<tree, mTable, mCurrentScopeID>>, NEW d, ~Pending(d), ~Pending(d)',
         NEW N, NEW M, OpenBlocks' \subseteq OpenBlocks, \A c \in OpenBlocks' : M[c] = N[c],
         Filed(d, N)
  PROVE  Filed(d, M)'
<1>1. ScopeOf(d)' = ScopeOf(d)
  BY DEF ScopeOf
<1>2. /\ \A c : InBlock(d, c)' <=> InBlock(d, c)
      /\ IsParameter(d)' <=> IsParameter(d)
      /\ DeclaredBeforeBlocks' <=> DeclaredBeforeBlocks
  BY SameScopes
<1> QED
  BY <1>1, <1>2 DEF Filed

LEMMA LeaveKeepsScopes ==
  ASSUME TreeInv, ScopesOK, VariablesOK, Leave
  PROVE  ScopesOK' /\ VariablesOK'
<1>1. /\ LeaveNew /\ tree' = tree /\ pass' = pass
      /\ UNCHANGED <<mTable, mErrorCount, mCurrentScopeID>>
      /\ mCurrentScopesPath' = IF Kind(Head(open)) = "COMPOUND_STMT"
                               THEN Tail(mCurrentScopesPath) ELSE mCurrentScopesPath
  BY DEF Leave, CollectLeave, LeaveNew
<1>2. /\ Nodes' = Nodes /\ Ancestors' = Ancestors
      /\ \A kind : OfKind(kind)' = OfKind(kind)
      /\ Bodies' <=> Bodies
  BY <1>1, SameScopes
<1>3. Variables' = Variables /\ (Flawless' <=> Flawless)
  BY <1>1 DEF Variables, Flawless
<1>4. VariablesOK'
  BY <1>1, <1>2, <1>3 DEF VariablesOK, ScopeOf
<1>5. PICK N : Numbering(N) /\ (Bodies => \A d \in Variables : Filed(d, N))
  BY DEF ScopesOK, Numbers
<1>6. PICK h : /\ h = Head(open) /\ h \in Nodes /\ open # <<>>
               /\ \A n : IsOpen(n)' <=> IsOpen(n) /\ n # h
  BY <1>1, LeaveCloses
<1>7. \A n : n \in OpenBlocks' <=> n = 1 \/ (n \in OfKind("COMPOUND_STMT") /\ IsOpen(n) /\ n # h)
  BY <1>2, <1>6 DEF OpenBlocks
<1>8. \A n : n \in OpenBlocks <=> n = 1 \/ (n \in OfKind("COMPOUND_STMT") /\ IsOpen(n))
  BY DEF OpenBlocks
<1>9. ASSUME NEW M, OpenBlocks' \subseteq OpenBlocks, \A c \in OpenBlocks' : M[c] = N[c], Bodies',
             NEW d \in Variables'
      PROVE  Filed(d, M)'
  <2>1. d \in Variables /\ d \in OfKind("VAR_DECL") /\ Filed(d, N)
    BY <1>2, <1>3, <1>5, <1>9 DEF VariablesOK
  <2>2. ~Pending(d) /\ ~Pending(d)'
    BY <1>1, <2>1, NoneLeftPending
  <2> QED
    BY <1>1, <1>9, <2>1, <2>2, SameFiled
<1>10. CASE Kind(h) # "COMPOUND_STMT"
  <2>1. OpenBlocks' = OpenBlocks
    <3>1. \A n : n \in OpenBlocks' <=> n \in OpenBlocks
      BY <1>7, <1>8, <1>10 DEF OfKind
    <3> QED
      BY <3>1
  <2>2. mCurrentScopesPath' = mCurrentScopesPath
    BY <1>1, <1>6, <1>10
  <2>3. Numbering(N)'
    BY <1>1, <1>2, <1>5, <2>1, <2>2 DEF Numbering
  <2>4. Bodies' => \A d \in Variables' : Filed(d, N)'
    BY <1>9, <2>1
  <2> QED
    BY <1>1, <1>4, <2>2, <2>3, <2>4 DEF ScopesOK, Numbers
<1>11. CASE Kind(h) = "COMPOUND_STMT"
  <2>1. h # 1 /\ h \in OpenBlocks /\ h \in Nat /\ \A c \in OpenBlocks : c \in Nat /\ c <= h
    <3>1. h # 1
      BY <1>6, <1>11 DEF TreeInv, ShapeOK
    <3>2. h \in OpenBlocks /\ \A c \in OpenBlocks : c \in Nat /\ c <= h
      BY <1>6, <1>11, OpenBlocksAreNodes
    <3> QED
      BY <3>1, <3>2
  <2>2. OpenBlocks' = OpenBlocks \ {h}
    <3>1. \A n : n \in OpenBlocks' <=> n \in OpenBlocks \ {h}
      BY <1>7, <1>8, <2>1
    <3> QED
      BY <3>1
  <2>t. PICK t : t = Tail(mCurrentScopesPath)
    OBVIOUS
  <2>3. PICK id \in Nat, p \in Seq(Nat) :
          /\ id = mCurrentScopeID /\ p = mCurrentScopesPath /\ t = Tail(p)
          /\ t = mCurrentScopesPath'
          /\ \A j, k \in DOMAIN p : j < k => p[k] < p[j]
    BY <1>1, <1>6, <1>11, <2>t DEF ScopesOK
  <2>4. /\ N \in [OpenBlocks -> 0 .. id] /\ N[1] = 0 /\ 1 \in OpenBlocks
        /\ \A b, c \in OpenBlocks : b < c => N[b] < N[c]
        /\ {p[k] : k \in DOMAIN p} = {N[c] : c \in OpenBlocks}
    BY <1>5, <2>3 DEF Numbering, OpenBlocks
  <2>5. \A c \in OpenBlocks : /\ N[c] \in Nat /\ N[c] <= N[h]
                              /\ c # h => N[c] < N[h]
    <3>1. ASSUME NEW c \in OpenBlocks PROVE N[c] \in Nat /\ N[c] <= N[h] /\ (c # h => N[c] < N[h])
      <4>1. N[c] \in Nat /\ N[h] \in Nat
        BY <2>1, <2>4
      <4>2. CASE c = h
        BY <4>1, <4>2
      <4>3. CASE c # h
        <5>1. c < h
          BY <2>1, <4>3
        <5> QED
          BY <2>1, <2>4, <4>1, <5>1
      <4> QED
        BY <4>2, <4>3
    <3> QED
      BY <3>1
  <2>6. p # <<>>
    <3> SUFFICES ASSUME p = <<>> PROVE FALSE
      OBVIOUS
    <3>1. {p[k] : k \in DOMAIN p} = {}
      OBVIOUS
    <3> QED
      BY <2>4, <3>1
  <2>7. Popped(p, t)
    BY <2>3, <2>6, PoppedSuffixes
  <2>8. PICK l \in Nat \ {0} :
          /\ DOMAIN p = 1 .. l /\ DOMAIN t = 1 .. l - 1
          /\ \A i \in 1 .. l - 1 : t[i] = p[i + 1]
          /\ {p[j] : j \in 1 .. l} = {p[1]} \cup {t[j] : j \in 1 .. l - 1}
    BY <2>7 DEF Popped
  <2>9. /\ 1 \in DOMAIN p /\ \A k \in DOMAIN p : k \in Nat /\ p[k] \in Nat /\ (k # 1 => p[k] < p[1])
    <3>1. ASSUME NEW k \in DOMAIN p PROVE k \in Nat /\ p[k] \in Nat /\ (k # 1 => p[k] < p[1])
      <4>1. p[k] \in Nat /\ k \in Nat /\ 1 <= k /\ 1 \in DOMAIN p
        BY <2>3, <2>8
      <4>2. k # 1 => 1 < k
        BY <4>1
      <4> QED
        BY <2>3, <4>1, <4>2
    <3>2. 1 \in DOMAIN p
      BY <2>8
    <3> QED
      BY <3>1, <3>2
  <2>10. p[1] = N[h]
    <3>1. PICK k \in DOMAIN p : p[k] = N[h]
      BY <2>1, <2>4
    <3>2. PICK c \in OpenBlocks : p[1] = N[c]
      BY <2>4, <2>9
    <3>3. N[c] <= N[h] /\ N[c] \in Nat /\ N[h] \in Nat
      BY <2>1, <2>5
    <3>4. k = 1
      <4>1. k # 1 => N[h] < N[c]
        BY <2>9, <3>1, <3>2
      <4> QED
        BY <3>3, <4>1
    <3> QED
      BY <3>1, <3>4
  <2>11. \A i \in DOMAIN t : t[i] \in Nat /\ t[i] < p[1]
    <3>1. ASSUME NEW i \in 1 .. l - 1 PROVE t[i] \in Nat /\ t[i] < p[1]
      <4>1. t[i] = p[i + 1]
        BY <2>8
      <4>2. i + 1 \in DOMAIN p /\ i + 1 # 1
        BY <2>8
      <4>3. p[i + 1] \in Nat /\ p[i + 1] < p[1]
        BY <2>9, <4>2
      <4> QED
        BY <4>1, <4>3
    <3> QED
      BY <2>8, <3>1
  <2>m. PICK M : M = [c \in OpenBlocks' |-> N[c]]
    OBVIOUS
  <2>12. /\ M \in [OpenBlocks' -> 0 .. id] /\ \A c \in OpenBlocks' : M[c] = N[c]
    BY <2>m, <2>2, <2>4
  <2>13. {t[k] : k \in DOMAIN t} = {M[c] : c \in OpenBlocks'}
    <3>1. ASSUME NEW i \in DOMAIN t PROVE \E c \in OpenBlocks' : t[i] = M[c]
      <4>1. t[i] \in {p[j] : j \in 1 .. l}
        BY <2>8
      <4>2. PICK c \in OpenBlocks : t[i] = N[c]
        BY <2>4, <2>8, <4>1
      <4>3. c # h
        <5>1. t[i] \in Nat /\ t[i] < N[h] /\ N[h] \in Nat
          BY <2>1, <2>5, <2>10, <2>11
        <5> QED
          BY <4>2, <5>1
      <4> QED
        BY <2>2, <2>12, <4>2, <4>3
    <3>2. ASSUME NEW c \in OpenBlocks' PROVE \E i \in DOMAIN t : t[i] = M[c]
      <4>1. c \in OpenBlocks /\ c # h /\ M[c] = N[c]
        BY <2>2, <2>12
      <4>2. N[c] \in {p[1]} \cup {t[j] : j \in 1 .. l - 1}
        BY <2>4, <2>8, <4>1
      <4>3. N[c] # p[1]
        <5>1. N[c] < N[h] /\ N[c] \in Nat /\ N[h] \in Nat
          BY <2>1, <2>5, <4>1
        <5> QED
          BY <2>10, <5>1
      <4> QED
        BY <2>8, <4>1, <4>2, <4>3
    <3> QED
      BY <3>1, <3>2
  <2>14. ASSUME NEW c \in OpenBlocks', M[c] # id
         PROVE  \E b \in OfKind("COMPOUND_STMT")' : b # c /\ c \in Ancestors'[b]
    <3>1. c \in OpenBlocks /\ N[c] # mCurrentScopeID
      BY <2>2, <2>3, <2>12, <2>14
    <3>2. \E b \in OfKind("COMPOUND_STMT") : b # c /\ c \in Ancestors[b]
      BY <1>5, <3>1 DEF Numbering
    <3> QED
      BY <1>2, <3>2
  <2>15. Numbering(M)'
    <3>1. M[1] = 0
      BY <2>1, <2>2, <2>4, <2>12
    <3>2. \A b, c \in OpenBlocks' : b < c => M[b] < M[c]
      BY <2>2, <2>4, <2>12
    <3>3. id = mCurrentScopeID'
      BY <1>1, <2>3
    <3>4. {mCurrentScopesPath'[k] : k \in DOMAIN mCurrentScopesPath'} = {M[c] : c \in OpenBlocks'}
      BY <2>3, <2>13
    <3>5. \A c \in OpenBlocks' : M[c] # mCurrentScopeID' =>
            \E b \in OfKind("COMPOUND_STMT")' : b # c /\ c \in Ancestors'[b]
      BY <2>14, <3>3
    <3>6. M \in [OpenBlocks' -> 0 .. mCurrentScopeID']
      BY <2>12, <3>3
    <3> QED
      BY <3>1, <3>2, <3>4, <3>5, <3>6 DEF Numbering
  <2>16. Bodies' => \A d \in Variables' : Filed(d, M)'
    BY <1>9, <2>2, <2>12
  <2>17. mCurrentScopesPath' \in Seq(Nat)
    <3>1. Tail(p) \in Seq(Nat)
      BY <2>6
    <3> QED
      BY <2>3, <3>1
  <2>18. ASSUME NEW j \in DOMAIN t, NEW k \in DOMAIN t, j < k PROVE t[k] < t[j]
    <3>1. t[j] = p[j + 1] /\ t[k] = p[k + 1]
      BY <2>8
    <3>2. j + 1 \in DOMAIN p /\ k + 1 \in DOMAIN p /\ j + 1 < k + 1
      BY <2>8, <2>18
    <3> QED
      BY <2>3, <3>1, <3>2
  <2> QED
    BY <1>1, <1>4, <2>3, <2>15, <2>16, <2>17, <2>18 DEF ScopesOK, Numbers
<1> QED
  BY <1>10, <1>11

----------------------------------------------------------------------------
(* What an identifier means. *)

(* What an identifier means does not change any more. *)
LEMMA MeaningStays ==
  ASSUME TreeInv, TreeGrows, NEW i \in Nodes
  PROVE  Visible(i)' = Visible(i) /\ Innermost(i)' = Innermost(i)
<1>1. \A d \in Nodes' : d < i => d \in Nodes
  <2>1. Nodes = 1 .. Len(tree) /\ Len(tree) \in Nat /\ \A d \in Nodes' : d \in Nat /\ d >= 1
    <3>1. Nodes' = 1 .. Len(tree') /\ Len(tree') \in Nat
      BY DEF TreeGrows, TreeOK, Nodes
    <3>2. \A l \in Nat : \A d \in 1 .. l : d \in Nat /\ d >= 1
      OBVIOUS
    <3> QED
      BY <3>1, <3>2, NodesAreNumbered DEF TreeInv
  <2> QED
    BY <2>1
<1>2. \A n \in Nodes : tree'[n] = tree[n] /\ Ancestors'[n] = Ancestors[n]
  BY AncestorsStay DEF TreeGrows
<1>3. \A d \in Nodes : d \in OfKind("VAR_DECL")' <=> d \in OfKind("VAR_DECL")
  BY DEF TreeGrows, OfKind, Kind
<1>4. \A d \in OfKind("VAR_DECL") : Region(d)' = Region(d) /\ Region(d) \in Nodes
  BY RegionOK, RegionStays DEF TreeInv
<1>5. \A kind : OfKind(kind) \subseteq Nodes /\ OfKind(kind)' \subseteq Nodes'
  BY DEF OfKind
<1>6. Visible(i)' = Visible(i)
  <2>1. ASSUME NEW d
        PROVE  d \in Visible(i)' <=>
                 d \in OfKind("VAR_DECL")' /\ tree'[d].name = tree'[i].name /\ d < i
                 /\ Region(d)' \in Ancestors'[i]
    BY DEF Visible
  <2>2. ASSUME NEW d
        PROVE  d \in Visible(i) <=>
                 d \in OfKind("VAR_DECL") /\ tree[d].name = tree[i].name /\ d < i
                 /\ Region(d) \in Ancestors[i]
    BY DEF Visible
  <2>3. ASSUME NEW d, d \in OfKind("VAR_DECL")', d < i PROVE d \in OfKind("VAR_DECL")
    BY <1>1, <1>3, <1>5, <2>3
  <2>4. ASSUME NEW d \in OfKind("VAR_DECL")
        PROVE  /\ d \in OfKind("VAR_DECL")' /\ tree'[d] = tree[d] /\ Region(d)' = Region(d)
    BY <1>2, <1>3, <1>4, <1>5
  <2>5. \A d : d \in Visible(i)' <=> d \in Visible(i)
    BY <1>2, <2>1, <2>2, <2>3, <2>4
  <2> QED
    BY <2>5
<1>7. \A d \in Visible(i) : Region(d)' = Region(d) /\ Ancestors'[Region(d)] = Ancestors[Region(d)]
  <2>1. Visible(i) \subseteq OfKind("VAR_DECL")
    BY DEF Visible
  <2> QED
    BY <1>2, <1>4, <2>1
<1>8. \A d : d \in Innermost(i)' <=> d \in Innermost(i)
  <2>1. \A d : d \in Innermost(i)' <=>
          d \in Visible(i)' /\ \A e \in Visible(i)' : Region(e)' \in Ancestors'[Region(d)']
    BY DEF Innermost
  <2>2. \A d : d \in Innermost(i) <=>
          d \in Visible(i) /\ \A e \in Visible(i) : Region(e) \in Ancestors[Region(d)]
    BY DEF Innermost
  <2> QED
    BY <1>6, <1>7, <2>1, <2>2
<1> QED
  BY <1>6, <1>8

(* The scope that is searched first of those that hold the name.            *)
LEMMA FoundFirst ==
  ASSUME NEW path \in Seq(Nat), NEW name, NEW d \in FoundOn(path, name)
  PROVE  \E k \in DOMAIN path :
           /\ d \in NamedIn(path[k], name)
           /\ \A l \in DOMAIN path : NamedIn(path[l], name) # {} => k <= l
<1> DEFINE hits == {k \in DOMAIN path : NamedIn(path[k], name) # {}}
<1>1. hits # {}
  BY DEF FoundOn
<1>2. hits \subseteq Nat
  OBVIOUS
<1>3. \E k \in hits : \A l \in hits : k <= l
  <2> HIDE DEF hits
  <2> QED
    BY <1>1, <1>2, LeastNatural
<1>4. PICK k : k = CHOOSE j \in hits : \A l \in hits : j <= l
  OBVIOUS
<1>5. k \in hits /\ \A l \in hits : k <= l
  <2> HIDE DEF hits
  <2> QED
    BY <1>3, <1>4
<1>6. FoundOn(path, name) = NamedIn(path[k], name)
  BY <1>1, <1>4, Zenon DEF FoundOn
<1> QED
  BY <1>5, <1>6

(* The block of a variable. *)
LEMMA BlockOfVariable ==
  ASSUME TreeInv, open # <<>>, NEW d \in OfKind("VAR_DECL"), NEW c \in OpenBlocks, InBlock(d, c)
  PROVE  /\ Region(d) \in Ancestors[c] /\ Region(d) \in Ancestors[Head(open)]
         /\ \A b \in Ancestors[c] : b # c => b \in Ancestors[Region(d)]
<1>1. c \in Nodes /\ IsOpen(c) /\ Head(open) \in Nodes
  BY OpenBlocksAreNodes, OpenChain DEF TreeInv
<1>2. Region(d) \in Nodes /\ Region(d) \in Ancestors[Region(d)]
  BY RegionOK, AncestorsAreNodes DEF TreeInv
<1>3. Ancestors[c] = {c} \cup Ancestors[tree[c].up]
  BY <1>1, AncestorsEquation DEF TreeInv
<1>4. c \in Ancestors[Head(open)] /\ Ancestors[c] \subseteq Ancestors[Head(open)]
  BY <1>1, OpenChain, AncestorsAreNodes DEF TreeInv
<1>5. Region(d) = c \/ Region(d) = tree[c].up
  BY DEF InBlock
<1> QED
  BY <1>2, <1>3, <1>4, <1>5

(* What can be seen is of an open block. *)
LEMMA VisibleIsOpen ==
  ASSUME TreeInv, open # <<>>, Kind(Head(open)) # "FUNCTION_DECL",
         NEW e \in OfKind("VAR_DECL"), IsOpen(Region(e))
  PROVE  \E c \in OpenBlocks : InBlock(e, c)
<1>1. Region(e) \in Nodes
  BY RegionOK DEF TreeInv
<1>2. CASE ~IsParameter(e)
  <2>1. Kind(Region(e)) \in {"PROGRAM_DECL", "COMPOUND_STMT"}
    BY <1>2, RegionOK DEF TreeInv
  <2>2. Region(e) \in OpenBlocks
    BY <1>1, <2>1 DEF TreeInv, ShapeOK, OpenBlocks, OfKind
  <2> QED
    BY <1>2, <2>2 DEF InBlock
<1>3. CASE IsParameter(e)
  <2>1. Kind(Region(e)) = "FUNCTION_DECL"
    BY <1>3, RegionOK DEF TreeInv
  <2>2. PICK m : /\ IsOpen(m) /\ tree[m].up = Region(e)
                 /\ Kind(m) \notin {"PARAM_VAR_DECL", "null"}
    BY <2>1, OpenChain DEF TreeInv
  <2>3. m \in Nodes
    BY <2>2, OpenChain DEF TreeInv
  <2>4. Under(m, {"FUNCTION_DECL"})
    BY <1>1, <2>1, <2>2 DEF Under
  <2>5. m \in OpenBlocks
    BY <2>2, <2>3, <2>4 DEF TreeInv, ShapeOK, OpenBlocks, OfKind
  <2> QED
    BY <1>3, <2>2, <2>5 DEF InBlock
<1> QED
  BY <1>2, <1>3

(* The scopes on the path are searched from the innermost block outwards.   *)
LEMMA FoundIsInnermost ==
  ASSUME TreeInv, ScopesOK, VariablesOK, open # <<>>, Bodies,
         NEW name, NEW d \in FoundOn(mCurrentScopesPath, name), d \in Variables
  PROVE  /\ Region(d) \in Ancestors[Head(open)] /\ tree[d].name = name
         /\ DeclaredBeforeBlocks /\ Kind(Head(open)) # "FUNCTION_DECL" =>
              \A e \in Variables : tree[e].name = name /\ IsOpen(Region(e)) =>
                Region(e) \in Ancestors[Region(d)]
<1>1. PICK N : Numbering(N) /\ \A e \in Variables : Filed(e, N)
  BY DEF ScopesOK, Numbers
<1>2. PICK p \in Seq(Nat) :
        /\ p = mCurrentScopesPath
        /\ \A j, k \in DOMAIN p : j < k => p[k] < p[j]
  BY DEF ScopesOK
<1>3. PICK k \in DOMAIN p : /\ d \in NamedIn(p[k], name)
                            /\ \A l \in DOMAIN p : NamedIn(p[l], name) # {} => k <= l
  BY <1>2, FoundFirst
<1>4. ScopeOf(d) = p[k] /\ mTable[d].mName = name
  BY <1>3 DEF NamedIn, ScopeOf
<1>5. {p[j] : j \in DOMAIN p} = {N[c] : c \in OpenBlocks}
  BY <1>1, <1>2 DEF Numbering
<1>6. PICK c \in OpenBlocks : p[k] = N[c]
  BY <1>5
<1>7. InBlock(d, c) /\ d \in OfKind("VAR_DECL") /\ tree[d].name = name
  BY <1>1, <1>4, <1>6 DEF Filed, VariablesOK
<1>8. /\ Region(d) \in Ancestors[c] /\ Region(d) \in Ancestors[Head(open)]
      /\ \A b \in Ancestors[c] : b # c => b \in Ancestors[Region(d)]
  BY <1>7, BlockOfVariable
<1>9. \A b \in OpenBlocks : b \in Nat /\ IsOpen(b) /\ b \in Nodes
  BY OpenBlocksAreNodes
<1>10. ASSUME DeclaredBeforeBlocks, Kind(Head(open)) # "FUNCTION_DECL",
              NEW e \in Variables, tree[e].name = name, IsOpen(Region(e))
       PROVE  Region(e) \in Ancestors[Region(d)]
  <2>1. /\ e \in OfKind("VAR_DECL") /\ e \in DOMAIN mTable /\ mTable[e].mName = name
    BY <1>10 DEF VariablesOK, Variables
  <2>2. PICK b \in OpenBlocks : InBlock(e, b)
    BY <1>10, <2>1, VisibleIsOpen
  <2>3. ScopeOf(e) = N[b]
    BY <1>1, <1>10, <2>2 DEF Filed
  <2>4. PICK l \in DOMAIN p : p[l] = N[b]
    BY <1>5, <2>2
  <2>5. e \in NamedIn(p[l], name)
    BY <2>1, <2>3, <2>4 DEF NamedIn, ScopeOf
  <2>6. k <= l
    BY <1>3, <2>5
  <2>7. p[l] <= p[k]
    <3>1. k \in Nat /\ l \in Nat /\ p[k] \in Nat /\ p[l] \in Nat
      BY <1>2
    <3>2. CASE k = l
      BY <3>1, <3>2
    <3>3. CASE k # l
      <4>1. k < l
        BY <2>6, <3>1, <3>3
      <4> QED
        BY <1>2, <3>1, <4>1
    <3> QED
      BY <3>2, <3>3
  <2>8. b <= c
    <3>1. b \in Nat /\ c \in Nat /\ p[k] \in Nat /\ p[l] \in Nat
      BY <1>2, <1>9
    <3>2. c < b => N[c] < N[b]
      BY <1>1 DEF Numbering
    <3>3. ~(N[c] < N[b])
      BY <1>6, <2>4, <2>7, <3>1
    <3> QED
      BY <3>1, <3>2, <3>3
  <2>9. Region(e) \in Ancestors[b]
    BY <2>1, <2>2, BlockOfVariable
  <2>10. CASE b = c
    <3>1. d = e
      BY <1>4, <1>6, <2>1, <2>3, <2>10 DEF VariablesOK
    <3>2. Region(d) \in Nodes
      BY <1>7, RegionOK DEF TreeInv
    <3> QED
      BY <3>1, <3>2, AncestorsAreNodes DEF TreeInv
  <2>11. CASE b # c
    <3>1. b \in Ancestors[c]
      BY <1>9, <2>8, OpenChain DEF TreeInv
    <3>2. b \in Ancestors[Region(d)]
      BY <1>8, <2>11, <3>1
    <3>3. Ancestors[b] \subseteq Ancestors[Region(d)]
      <4>1. Region(d) \in Nodes
        BY <1>7, RegionOK DEF TreeInv
      <4> QED
        BY <3>2, <4>1, AncestorsAreNodes DEF TreeInv
    <3> QED
      BY <2>9, <3>3
  <2> QED
    BY <2>10, <2>11
<1> QED
  BY <1>7, <1>8, <1>10

LEMMA IdentifierMeans ==
  ASSUME IInv, TreeInv, ScopesOK, VariablesOK, pass = "collecting", pass' = pass,
         NEW shape \in source.shapes, CollectIdentifierExpr(shape), Flawless', Bodies',
         NEW i, i = Here, ~mTable'[mUseDefs'[i]].mIsFunction
  PROVE  Means(i)'
<1>1. /\ shape.kind = "IDENTIFIER_EXPR" /\ EnterNew(shape) /\ mTable' = mTable
  BY DEF CollectIdentifierExpr
<1>2. mErrorCount' = 0 /\ mErrorCount \in Nat
  BY DEF Flawless, IInv
<1>3. PICK d \in FoundOn(mCurrentScopesPath, shape.name) :
        mUseDefs' = With(mUseDefs, i, d) /\ mErrorCount = 0
  <2>1. mErrorCount' = mErrorCount + 1 => FALSE
    BY <1>2
  <2> QED
    BY <1>2, <2>1 DEF CollectIdentifierExpr
<1>4. mUseDefs'[i] = d
  BY <1>3 DEF With
<1>5. d \in Variables
  <2>1. PICK scopeID : d \in NamedIn(scopeID, shape.name)
    BY Zenon DEF FoundOn
  <2> QED
    BY <1>1, <1>4, <2>1 DEF NamedIn, Variables
<1>6. /\ open # <<>> /\ TreeGrows /\ Head(open) \in Nodes /\ Head(open) < i
      /\ i \in Nodes' /\ i \notin Nodes /\ i \in Nat
      /\ tree'[i].name = shape.name /\ tree'[i].up = Head(open)
  BY <1>1, EnterOpens
<1>7. Bodies /\ (DeclaredBeforeBlocks' => DeclaredBeforeBlocks)
  BY <1>6, BlocksStay DEF TreeInv
<1>8. Kind(Head(open)) # "FUNCTION_DECL"
  BY <1>1, TakenUnder DEF EnterNew, NextOf
<1>9. /\ Region(d) \in Ancestors[Head(open)] /\ tree[d].name = shape.name
      /\ DeclaredBeforeBlocks =>
              \A e \in Variables : tree[e].name = shape.name /\ IsOpen(Region(e)) =>
                Region(e) \in Ancestors[Region(d)]
  BY <1>5, <1>6, <1>7, <1>8, FoundIsInnermost
<1>10. Ancestors'[i] = {i} \cup Ancestors[Head(open)]
  <2>1. TreeOK' /\ Ancestors'[Head(open)] = Ancestors[Head(open)]
    BY <1>6, AncestorsStay DEF TreeGrows
  <2> QED
    BY <1>6, <2>1, NextAncestorsEquation
<1>11. OfKind("VAR_DECL") \subseteq Variables /\ \A e \in Variables : e \in OfKind("VAR_DECL")
  BY <1>3 DEF VariablesOK, Flawless
<1>12. \A e \in Nodes : e < i /\ e \in Nat /\ tree'[e] = tree[e]
  BY <1>1, <1>6, GrownTree, NodesAreNumbered DEF TreeInv
<1>13. \A e \in OfKind("VAR_DECL") :
         /\ e \in OfKind("VAR_DECL")' /\ Region(e)' = Region(e)
         /\ e \in Nodes /\ Region(e) \in Nodes
  BY <1>6, RegionOK, RegionStays DEF TreeInv
<1>14. d \in Visible(i)'
  <2>1. d \in OfKind("VAR_DECL")' /\ Region(d)' = Region(d) /\ d < i /\ tree'[d] = tree[d]
    BY <1>5, <1>11, <1>12, <1>13
  <2> QED
    BY <1>6, <1>9, <1>10, <2>1 DEF Visible
<1>15. ASSUME DeclaredBeforeBlocks', NEW e \in Visible(i)'
       PROVE  Region(e)' \in Ancestors'[Region(d)']
  <2>1. e \in OfKind("VAR_DECL")' /\ tree'[e].name = tree'[i].name /\ e < i /\ Region(e)' \in Ancestors'[i]
    BY <1>15 DEF Visible
  <2>2. e \in Nodes' /\ e # i
    BY <1>6, <2>1 DEF OfKind
  <2>3. e \in Nodes
    BY <1>1, <2>2, NewNodes DEF TreeInv
  <2>4. e \in OfKind("VAR_DECL")
    BY <1>12, <2>1, <2>3 DEF OfKind, Kind
  <2>5. Region(e)' = Region(e) /\ Region(e) \in Nodes
    BY <1>13, <2>4
  <2>6. Region(e) \in Ancestors[Head(open)]
    BY <1>6, <1>10, <2>1, <2>5
  <2>7. IsOpen(Region(e))
    BY <1>6, <2>6, OpenChain DEF TreeInv
  <2>8. Region(e) \in Ancestors[Region(d)]
    BY <1>6, <1>7, <1>9, <1>11, <1>12, <1>15, <2>1, <2>3, <2>4, <2>7
  <2>9. Region(d)' = Region(d) /\ Ancestors'[Region(d)] = Ancestors[Region(d)]
    BY <1>5, <1>6, <1>11, <1>13, AncestorsStay
  <2> QED
    BY <2>5, <2>8, <2>9
<1> QED
  BY <1>4, <1>14, <1>15 DEF Means, Innermost

LEMMA CollectKeepsMeanings ==
  ASSUME IInv, JInv, TreeInv, ScopesOK, VariablesOK, MeaningsOK, Collect
  PROVE  MeaningsOK'
<1>1. PICK shape \in source.shapes : EnterNew(shape) /\ TableStep(shape) /\ UseStep(shape)
  BY CollectStep
<1>2. pass = "collecting" /\ pass' = pass
  BY CollectStep
<1>3. ASSUME Flawless', Bodies', NEW i \in Identifiers', ~SymbolOf(i)'.mIsFunction
      PROVE  Means(i)'
  <2>1. mErrorCount' = 0 /\ mErrorCount = 0 /\ Flawless
    BY <1>1, <1>2, <1>3 DEF Flawless, TableStep
  <2>2. i \in Nodes' /\ tree'[i].kind = "IDENTIFIER_EXPR"
    BY DEF Identifiers, OfKind, Kind
  <2>3. /\ TreeGrows /\ Here \notin Nodes /\ \A n \in Nodes : tree'[n] = tree[n]
        /\ tree'[Here].kind = shape.kind
    BY <1>1, EnterOpens DEF TreeGrows
  <2>4. CASE i \in Nodes
    <3>1. i \in Identifiers /\ i # Here
      BY <2>2, <2>3, <2>4 DEF Identifiers, OfKind, Kind
    <3>2. i \in DOMAIN mUseDefs /\ mUseDefs[i] \in DOMAIN mTable
      BY <2>1, <3>1 DEF JInv, UsesOK, Flawless, HasSymbol
    <3>3. mUseDefs'[i] = mUseDefs[i] /\ mTable'[mUseDefs[i]] = mTable[mUseDefs[i]]
      BY <1>1, <3>1, <3>2 DEF UseStep, TableStep
    <3>4. Bodies /\ (DeclaredBeforeBlocks' => DeclaredBeforeBlocks)
      BY <1>3, <2>3, BlocksStay DEF TreeInv
    <3>5. ~SymbolOf(i).mIsFunction
      BY <1>3, <3>3 DEF SymbolOf
    <3>6. Means(i)
      BY <2>1, <3>1, <3>4, <3>5 DEF MeaningsOK
    <3>7. Visible(i)' = Visible(i) /\ Innermost(i)' = Innermost(i)
      BY <2>3, <2>4, MeaningStays
    <3> QED
      BY <3>3, <3>4, <3>6, <3>7 DEF Means
  <2>5. CASE i \notin Nodes
    <3>1. i = Here
      BY <1>1, <2>2, <2>5, NewNodes DEF TreeInv
    <3>2. PICK s \in source.shapes :
            \/ CollectFunctionDecl(s)
            \/ CollectVarDecl(s)
            \/ CollectCallExpr(s)
            \/ CollectIdentifierExpr(s)
            \/ CollectCompoundStmt(s)
            \/ CollectOther(s)
      BY DEF Collect
    <3>3. EnterNew(s)
      BY <3>2 DEF CollectFunctionDecl, CollectVarDecl, CollectCallExpr, CollectIdentifierExpr,
                  CollectCompoundStmt, CollectOther
    <3>4. s.kind = "IDENTIFIER_EXPR"
      BY <2>2, <3>1, <3>3, EnterOpens
    <3>5. CollectIdentifierExpr(s)
      BY <3>2, <3>4 DEF CollectFunctionDecl, CollectVarDecl, CollectCallExpr,
                        CollectCompoundStmt, CollectOther
    <3> QED
      BY <1>2, <1>3, <3>1, <3>5, IdentifierMeans DEF SymbolOf
  <2> QED
    BY <2>4, <2>5
<1> QED
  BY <1>2, <1>3 DEF MeaningsOK

----------------------------------------------------------------------------
(* The invariant of the scopes, step by step. *)

LInv ==
  /\ ShapeOK /\ PathOK /\ ScopesOK /\ VariablesOK /\ MeaningsOK
  /\ PassedUsesAreVisible /\ PassedUsesAreInnermost

(* A function that has no body has lost it. *)
LEMMA WholeFunctionsHaveBodies ==
  ASSUME TreeOK, ShapeOK, WholeFunctions
  PROVE  Bodies
<1> SUFFICES ASSUME NEW n \in OfKind("null"), Under(n, {"FUNCTION_DECL"}) PROVE FALSE
  BY DEF Bodies
<1>1. PICK f \in Nodes : f = tree[n].up /\ Kind(f) = "FUNCTION_DECL"
  BY DEF Under
<1>2. n \in Nodes /\ n \in Nat /\ f \in Nat /\ f < n /\ Kind(n) = "null"
  BY <1>1, NodesAreNumbered, ParentsComeFirst DEF OfKind
<1>3. f + 1 \in Children(f) /\ Kind(f + 1) = "PARAM_VAR_DECL" /\ n \in Children(f)
  BY <1>1, <1>2 DEF ShapeOK, Children
<1>4. f + 1 # n /\ f + 1 < n
  <2>1. f + 1 # n
    BY <1>2, <1>3
  <2> QED
    BY <1>2, <2>1
<1>5. ASSUME NEW m \in Children(f) PROVE m = n \/ m = f + 1
  <2>1. m \in Nodes /\ tree[m].up = f
    BY DEF Children
  <2>2. m = n \/ Kind(m) = "PARAM_VAR_DECL"
    BY <1>1, <1>2 DEF ShapeOK
  <2> QED
    BY <2>1, <2>2 DEF ShapeOK
<1>6. Children(f) = {f + 1, n}
  BY <1>3, <1>5
<1>7. Arity(f) = 2
  <2>1. IsFiniteSet({f + 1}) /\ Cardinality({f + 1}) = 1
    BY FS_Singleton
  <2>2. Cardinality({f + 1} \cup {n}) = 2
    BY <1>4, <2>1, FS_AddElement
  <2>3. {f + 1} \cup {n} = {f + 1, n}
    OBVIOUS
  <2> QED
    BY <1>6, <2>2, <2>3 DEF Arity
<1>8. Kind(Child(f, 2)) # "null"
  BY <1>1, <1>7 DEF WholeFunctions, OfKind
<1>9. Cardinality({j \in Children(f) : j < n}) = 2 - 1
  <2>1. {j \in Children(f) : j < n} = {f + 1}
    BY <1>2, <1>4, <1>6
  <2>2. Cardinality({f + 1}) = 1
    BY FS_Singleton
  <2> QED
    BY <2>1, <2>2
<1>10. Cardinality({j \in Children(f) : j < f + 1}) # 2 - 1
  <2>1. {j \in Children(f) : j < f + 1} = {}
    BY <1>2, <1>4, <1>6
  <2>2. Cardinality({}) = 0
    BY FS_EmptySet
  <2> QED
    BY <2>1, <2>2
<1>11. Child(f, 2) = n
  <2>1. PICK i : i = Child(f, 2)
    OBVIOUS
  <2>2. i \in Children(f) /\ Cardinality({j \in Children(f) : j < i}) = 2 - 1
    BY <1>3, <1>9, <2>1, Zenon DEF Child
  <2> QED
    BY <1>5, <1>10, <2>1, <2>2
<1> QED
  BY <1>2, <1>8, <1>11

LEMMA SameKeepsScopes ==
  ASSUME UNCHANGED <<tree, open, mTable, mCurrentScopeID, mCurrentScopesPath>>, ScopesOK
  PROVE  ScopesOK'
<1>1. PICK N : Numbers(N)
  BY DEF ScopesOK
<1>2. /\ Nodes' = Nodes /\ Ancestors' = Ancestors
      /\ \A kind : OfKind(kind)' = OfKind(kind)
      /\ \A f : NoBody(f)' <=> NoBody(f)
      /\ \A d : Region(d)' = Region(d) /\ (IsParameter(d)' <=> IsParameter(d))
      /\ \A d, c : InBlock(d, c)' <=> InBlock(d, c)
      /\ Bodies' <=> Bodies
      /\ DeclaredBeforeBlocks' <=> DeclaredBeforeBlocks
  BY SameScopes
<1>3. (\A n : IsOpen(n)' <=> IsOpen(n)) /\ OpenBlocks' = OpenBlocks /\ Variables' = Variables
  BY <1>2 DEF IsOpen, OpenBlocks, Variables
<1>4. Numbering(N)'
  BY <1>1, <1>2, <1>3 DEF Numbers, Numbering
<1>5. \A d : (Pending(d)' <=> Pending(d)) /\ ScopeOf(d)' = ScopeOf(d)
  BY <1>2 DEF Pending, ScopeOf
<1>6. ASSUME Bodies', NEW d \in Variables' PROVE Filed(d, N)'
  <2>1. Filed(d, N)
    BY <1>1, <1>2, <1>3, <1>6 DEF Numbers
  <2> QED
    BY <1>2, <1>3, <1>5, <2>1 DEF Filed
<1> QED
  BY <1>4, <1>6 DEF ScopesOK, Numbers

LEMMA SameKeepsVariables ==
  ASSUME UNCHANGED <<tree, mTable>>, VariablesOK, Flawless' => Flawless
  PROVE  VariablesOK'
<1>1. Variables' = Variables /\ \A kind : OfKind(kind)' = OfKind(kind)
  BY SameScopes DEF Variables
<1> QED
  BY <1>1 DEF VariablesOK, ScopeOf

LEMMA SameKeepsMeanings ==
  ASSUME UNCHANGED <<tree, mTable, mUseDefs>>, MeaningsOK, Flawless' => Flawless,
         pass' = "checking" => visited' = {} \/ (pass = "checking" /\ visited' = visited)
  PROVE  MeaningsOK'
<1>1. /\ Identifiers' = Identifiers /\ (Bodies' <=> Bodies)
      /\ DeclaredBeforeBlocks' <=> DeclaredBeforeBlocks
      /\ \A i : Visible(i)' = Visible(i) /\ Innermost(i)' = Innermost(i)
  BY SameScopes
<1>2. \A i : SymbolOf(i)' = SymbolOf(i) /\ (Means(i)' <=> Means(i))
  BY <1>1 DEF SymbolOf, Means
<1> QED
  BY <1>1, <1>2 DEF MeaningsOK

LEMMA SameKeepsPath ==
  ASSUME UNCHANGED <<tree, open>>, PathOK, pass' # "collecting" => open = <<>>
  PROVE  PathOK'
BY SameScopes DEF PathOK

----------------------------------------------------------------------------
(* A new program. *)
Fresh ==
  /\ tree = <<Program>> /\ open = <<1>> /\ mTable = <<>> /\ pass = "collecting"
  /\ mCurrentScopeID = 0
  /\ mCurrentScopesPath \in Seq(Nat) /\ Len(mCurrentScopesPath) = 1 /\ mCurrentScopesPath[1] = 0

LEMMA FreshHasL == Fresh => LInv
<1> SUFFICES ASSUME Fresh PROVE LInv
  OBVIOUS
<1>1. tree = <<Program>> /\ open = <<1>> /\ mTable = <<>> /\ pass = "collecting"
  BY DEF Fresh
<1>2. Nodes = {1} /\ tree[1] = Program /\ tree \in Seq(Node)
  BY <1>1, ProgramNode DEF Nodes
<1>3. tree[1].kind = "PROGRAM_DECL" /\ tree[1].up = 0
  BY <1>2, ProgramNode
<1>4. TreeOK
  BY <1>2, <1>3 DEF TreeOK, Kind
<1>5. Ancestors[1] = {1}
  BY <1>2, <1>3, <1>4, AncestorsEquation
<1>6. DOMAIN open = {1} /\ Len(open) = 1 /\ open[1] = 1
  BY <1>1
<1>7. ShapeOK
  BY <1>2, <1>3 DEF ShapeOK, Under, Kind
<1>8. PathOK
  <2>1. {open[j] : j \in 1 .. 1} = {1}
    <3>1. 1 .. 1 = {1}
      OBVIOUS
    <3> QED
      BY <1>6, <3>1
  <2>2. Kind(1) \notin {"PARAM_VAR_DECL", "null"} /\ open # <<>>
    BY <1>1, <1>3 DEF Kind
  <2> QED
    BY <1>1, <1>5, <1>6, <2>1, <2>2 DEF PathOK
<1>9. OfKind("COMPOUND_STMT") = {} /\ OfKind("VAR_DECL") = {} /\ Identifiers = {}
  BY <1>2, <1>3 DEF OfKind, Kind, Identifiers
<1>10. OpenBlocks = {1} /\ Variables = {}
  BY <1>1, <1>9 DEF OpenBlocks, Variables
<1>11. /\ mCurrentScopeID = 0 /\ mCurrentScopesPath \in Seq(Nat)
       /\ DOMAIN mCurrentScopesPath = {1} /\ mCurrentScopesPath[1] = 0
  <2>1. 1 .. 1 = {1}
    OBVIOUS
  <2> QED
    BY <2>1 DEF Fresh
<1>12. PICK N : N = [c \in {1} |-> 0]
  OBVIOUS
<1>13. N \in [{1} -> 0 .. 0] /\ N[1] = 0
  BY <1>12
<1>14. {mCurrentScopesPath[k] : k \in DOMAIN mCurrentScopesPath} = {N[c] : c \in OpenBlocks}
  BY <1>10, <1>11, <1>13
<1>15. Numbering(N)
  BY <1>10, <1>11, <1>13, <1>14 DEF Numbering
<1>16. ScopesOK
  BY <1>10, <1>11, <1>15 DEF ScopesOK, Numbers
<1>17. VariablesOK
  BY <1>9, <1>10 DEF VariablesOK
<1>18. MeaningsOK /\ PassedUsesAreVisible /\ PassedUsesAreInnermost
  BY <1>1, <1>9 DEF MeaningsOK, PassedUsesAreVisible, PassedUsesAreInnermost, Passed
<1> QED
  BY <1>7, <1>8, <1>16, <1>17, <1>18 DEF LInv

LEMMA NextFreshHasL == Fresh' => LInv'
BY FreshHasL, PTL

LEMMA InitHasL ==
  ASSUME Init
  PROVE  LInv
<1>1. Fresh
  <2>1. mCurrentScopesPath = <<0>>
    BY DEF Init
  <2>2. mCurrentScopesPath \in Seq(Nat) /\ Len(mCurrentScopesPath) = 1 /\ mCurrentScopesPath[1] = 0
    BY <2>1
  <2> QED
    BY <2>2 DEF Init, Fresh
<1> QED
  BY <1>1, FreshHasL

(* Every block has been left, and with it the path (symbolcollector.cpp:43)  *)
(* is back where it began, although nothing resets it.                       *)
LEMMA NextProgramKeepsL ==
  ASSUME LInv, NextProgram
  PROVE  LInv'
<1>1. /\ tree' = <<Program>> /\ open' = <<1>> /\ mTable' = <<>> /\ pass' = "collecting"
      /\ mCurrentScopeID' = 0 /\ mCurrentScopesPath' = mCurrentScopesPath
      /\ pass # "collecting"
  BY DEF NextProgram, StartCollecting, Ended
<1>2. OpenBlocks = {1}
  <2>1. open = <<>>
    BY <1>1 DEF LInv, PathOK
  <2>2. \A n : ~IsOpen(n)
    BY <2>1 DEF IsOpen
  <2> QED
    BY <2>2 DEF OpenBlocks
<1>3. PICK N : Numbering(N)
  BY DEF LInv, ScopesOK, Numbers
<1>4. PICK p \in Seq(Nat) :
        /\ p = mCurrentScopesPath
        /\ \A j, k \in DOMAIN p : j < k => p[k] < p[j]
  BY DEF LInv, ScopesOK
<1>5. {p[k] : k \in DOMAIN p} = {0}
  <2>1. {p[k] : k \in DOMAIN p} = {N[c] : c \in {1}} /\ N[1] = 0
    BY <1>2, <1>3, <1>4 DEF Numbering
  <2>2. {N[c] : c \in {1}} = {N[1]}
    OBVIOUS
  <2> QED
    BY <2>1, <2>2
<1>6. \A k \in DOMAIN p : p[k] = 0
  BY <1>5
<1>7. \E k : k \in DOMAIN p
  BY <1>5
<1>8. DOMAIN p = 1 .. Len(p) /\ Len(p) \in Nat
  OBVIOUS
<1>9. Len(p) # 0
  BY <1>7, <1>8
<1>10. ~(Len(p) >= 2)
  <2> SUFFICES ASSUME Len(p) >= 2 PROVE FALSE
    OBVIOUS
  <2>1. 1 \in DOMAIN p /\ 2 \in DOMAIN p
    BY <1>8
  <2>2. p[2] < p[1] /\ p[1] = 0 /\ p[2] = 0
    BY <1>4, <1>6, <2>1
  <2> QED
    BY <2>2
<1>11. Len(p) = 1 /\ 1 \in DOMAIN p
  BY <1>8, <1>9, <1>10
<1>12. Fresh'
  BY <1>1, <1>4, <1>6, <1>11 DEF Fresh
<1> QED
  BY <1>12, NextFreshHasL

LEMMA CollectKeepsL ==
  ASSUME IInv, JInv, LInv, Collect
  PROVE  LInv'
<1>1. TreeInv /\ ScopesOK /\ VariablesOK /\ MeaningsOK
  BY DEF IInv, LInv, TreeInv
<1>2. PICK shape \in source.shapes : EnterNew(shape)
  BY CollectStep
<1>3. pass = "collecting" /\ pass' = pass
  BY CollectStep
<1>4. ShapeOK' /\ PathOK'
  BY <1>1, <1>2, <1>3, EnterKeepsTreeInv DEF TreeInv
<1>5. ScopesOK' /\ VariablesOK'
  BY <1>1, CollectKeepsScopes
<1>6. MeaningsOK'
  BY <1>1, CollectKeepsMeanings
<1> QED
  BY <1>3, <1>4, <1>5, <1>6 DEF LInv, PassedUsesAreVisible, PassedUsesAreInnermost, Passed

LEMMA LeaveKeepsL ==
  ASSUME IInv, LInv, Leave
  PROVE  LInv'
<1>1. TreeInv /\ ScopesOK /\ VariablesOK /\ MeaningsOK
  BY DEF IInv, LInv, TreeInv
<1>2. /\ LeaveNew /\ pass = "collecting" /\ pass' = pass
      /\ UNCHANGED <<tree, mTable, mUseDefs, mErrorCount, visited>>
  BY DEF Leave, CollectLeave, LeaveNew, checkerVars
<1>3. ShapeOK' /\ PathOK'
  BY <1>1, <1>2, LeaveKeepsTreeInv DEF TreeInv
<1>4. ScopesOK' /\ VariablesOK'
  BY <1>1, LeaveKeepsScopes
<1>5. Flawless' <=> Flawless
  BY <1>2 DEF Flawless
<1>6. MeaningsOK'
  BY <1>1, <1>2, <1>5, SameKeepsMeanings
<1> QED
  BY <1>2, <1>3, <1>4, <1>6 DEF LInv, PassedUsesAreVisible, PassedUsesAreInnermost, Passed

LEMMA EndCollectingKeepsL ==
  ASSUME LInv, EndCollecting
  PROVE  LInv'
<1>1. /\ pass = "collecting" /\ open = <<>>
      /\ UNCHANGED <<tree, open, mTable, mUseDefs, mCurrentScopeID, mCurrentScopesPath>>
      /\ \/ pass' = "rejected"
         \/ mErrorCount = 0 /\ pass' = "checking" /\ visited' = {}
  BY DEF EndCollecting, StartChecking, collectorVars
<1>2. Flawless' => Flawless
  BY <1>1 DEF Flawless
<1>3. ShapeOK' /\ PathOK'
  BY <1>1, SameScopes, SameKeepsPath DEF LInv
<1>4. ScopesOK' /\ VariablesOK'
  BY <1>1, <1>2, SameKeepsScopes, SameKeepsVariables DEF LInv
<1>5. MeaningsOK'
  BY <1>1, <1>2, SameKeepsMeanings DEF LInv
<1> QED
  BY <1>1, <1>3, <1>4, <1>5 DEF LInv, PassedUsesAreVisible, PassedUsesAreInnermost, Passed

LEMMA CheckKeepsL ==
  ASSUME IInv, JInv, LInv, Check
  PROVE  LInv'
<1>1. /\ pass = "checking"
      /\ UNCHANGED <<tree, open, mTable, mCurrentScopeID, mCurrentScopesPath>>
  BY DEF Check, CheckNode, collectorVars
<1>2. PICK n \in Ready : DispatchNode(n) /\ visited' = visited \cup {n}
  BY DEF Check, CheckNode, mCurrentNode
<1>3. HandlerOK(n)
  BY <1>1, <1>2, NodeIsHandled
<1>4. pass' \in {"checking", "crashed"} /\ Flawless
  BY <1>1, <1>3 DEF HandlerOK, Flawless
<1>5. ShapeOK' /\ PathOK'
  <2>1. open = <<>>
    BY <1>1 DEF LInv, PathOK
  <2> QED
    BY <1>1, <2>1, SameScopes, SameKeepsPath DEF LInv
<1>6. ScopesOK' /\ VariablesOK'
  BY <1>1, <1>4, SameKeepsScopes, SameKeepsVariables DEF LInv
<1>7. /\ Identifiers' = Identifiers /\ (Bodies' <=> Bodies)
      /\ DeclaredBeforeBlocks' <=> DeclaredBeforeBlocks
      /\ \A i : Visible(i)' = Visible(i) /\ Innermost(i)' = Innermost(i)
  BY <1>1, SameScopes
<1>8. \A i \in Identifiers : i \in DOMAIN mUseDefs /\ mUseDefs'[i] = mUseDefs[i]
  BY <1>1, <1>3 DEF HandlerOK, JInv, UsesOK, HasSymbol
<1>9. \A i \in Identifiers : SymbolOf(i)' = SymbolOf(i) /\ (Means(i)' <=> Means(i))
  BY <1>1, <1>7, <1>8 DEF SymbolOf, Means
<1>10. pass' = "checking" /\ n \in Identifiers => ~SymbolOf(n).mIsFunction
  <2> SUFFICES ASSUME pass' = "checking", n \in Identifiers PROVE ~SymbolOf(n).mIsFunction
    OBVIOUS
  <2>1. HandleIdentifierExpr(n)
    <3>1. Kind(n) = "IDENTIFIER_EXPR"
      BY DEF Identifiers, OfKind
    <3> QED
      BY <1>2, <3>1, LiteralTypes DEF DispatchNode, Literals, NotHandled, Decls, Stmts
  <2> QED
    BY <2>1 DEF HandleIdentifierExpr, Crash
<1>11. MeaningsOK'
  <2>1. ASSUME Flawless', Bodies', NEW i \in Identifiers', ~SymbolOf(i)'.mIsFunction
        PROVE  Means(i)'
    BY <1>4, <1>7, <1>9, <2>1 DEF LInv, MeaningsOK
  <2>2. ASSUME pass' = "checking", NEW i \in (Identifiers \cap visited)'
        PROVE  ~SymbolOf(i)'.mIsFunction
    BY <1>1, <1>2, <1>7, <1>9, <1>10, <2>2 DEF LInv, MeaningsOK
  <2> QED
    BY <2>1, <2>2 DEF MeaningsOK
<1> QED
  BY <1>4, <1>5, <1>6, <1>11 DEF LInv, PassedUsesAreVisible, PassedUsesAreInnermost, Passed

LEMMA EndCheckingKeepsL ==
  ASSUME IInv, JInv, LInv, EndChecking
  PROVE  LInv'
<1>1. /\ pass = "checking" /\ Ready = {} /\ pass' \in {"rejected", "nomain", "accepted"}
      /\ UNCHANGED <<tree, open, mTable, mCurrentScopeID, mCurrentScopesPath>>
      /\ SettleLeftovers
  BY DEF EndChecking, collectorVars
<1>2. ~Flawless' /\ Flawless /\ open = <<>>
  BY <1>1 DEF Flawless, LInv, PathOK
<1>3. ShapeOK' /\ PathOK'
  BY <1>1, <1>2, SameScopes, SameKeepsPath DEF LInv
<1>4. ScopesOK' /\ VariablesOK'
  BY <1>1, <1>2, SameKeepsScopes, SameKeepsVariables DEF LInv
<1>5. MeaningsOK'
  BY <1>1, <1>2 DEF MeaningsOK
<1>6. /\ Identifiers' = Identifiers /\ (Bodies' <=> Bodies)
      /\ DeclaredBeforeBlocks' <=> DeclaredBeforeBlocks
      /\ \A i : Visible(i)' = Visible(i) /\ Innermost(i)' = Innermost(i)
  BY <1>1, SameScopes
<1>7. WholeFunctions' => Bodies
  <2>1. WholeFunctions' => WholeFunctions
    BY <1>1, SameTree, SameScopes DEF WholeFunctions
  <2> QED
    BY <2>1, WholeFunctionsHaveBodies DEF IInv, LInv
<1>8. ASSUME NEW i \in Identifiers
      PROVE  i \in DOMAIN mUseDefs' /\ mUseDefs'[i] = mUseDefs[i] /\ mUseDefs[i] \in DOMAIN mTable
  <2>1. i \in DOMAIN mUseDefs /\ mUseDefs[i] \in DOMAIN mTable
    BY <1>1 DEF JInv, UsesOK, HasSymbol
  <2>2. i \notin Leftover(1)
    BY <1>1 DEF Leftover, IInv, CheckOK, MapOK, Identifiers, OfKind
  <2> QED
    BY <1>1, <2>1, <2>2 DEF SettleLeftovers
<1>9. ASSUME NEW i \in Identifiers, Bodies PROVE Means(i)
  <2>1. i \in visited
    BY <1>1, NothingReady DEF IInv, Identifiers, OfKind
  <2>2. ~SymbolOf(i).mIsFunction
    BY <1>1, <2>1 DEF LInv, MeaningsOK
  <2> QED
    BY <1>2, <1>9, <2>2 DEF LInv, MeaningsOK
<1>10. PassedUsesAreVisible'
  <2> SUFFICES ASSUME WholeFunctions', NEW i \in Identifiers'
               PROVE  HasSymbol(i)' /\ mUseDefs'[i] \in Visible(i)'
    BY DEF PassedUsesAreVisible
  <2> QED
    BY <1>1, <1>6, <1>7, <1>8, <1>9 DEF HasSymbol, Means
<1>11. PassedUsesAreInnermost'
  <2> SUFFICES ASSUME WholeFunctions', DeclaredBeforeBlocks', NEW i \in Identifiers'
               PROVE  mUseDefs'[i] \in Innermost(i)'
    BY DEF PassedUsesAreInnermost
  <2> QED
    BY <1>6, <1>7, <1>8, <1>9 DEF Means
<1> QED
  BY <1>3, <1>4, <1>5, <1>10, <1>11 DEF LInv

LEMMA StutterKeepsL ==
  ASSUME LInv, UNCHANGED vars
  PROVE  LInv'
<1>1. UNCHANGED <<tree, open, mTable, mUseDefs, pass, mErrorCount, mCurrentScopeID,
                  mCurrentScopesPath, visited>>
  BY DEF vars, checkerVars, collectorVars
<1>2. Flawless' <=> Flawless
  BY <1>1 DEF Flawless
<1>3. ShapeOK' /\ PathOK'
  BY <1>1, SameScopes, SameKeepsPath DEF LInv, PathOK
<1>4. ScopesOK' /\ VariablesOK'
  BY <1>1, <1>2, SameKeepsScopes, SameKeepsVariables DEF LInv
<1>5. MeaningsOK'
  BY <1>1, <1>2, SameKeepsMeanings DEF LInv
<1>6. /\ Identifiers' = Identifiers
      /\ DeclaredBeforeBlocks' <=> DeclaredBeforeBlocks
      /\ \A i : Visible(i)' = Visible(i) /\ Innermost(i)' = Innermost(i)
      /\ Passed' <=> Passed
      /\ \A i : HasSymbol(i)' <=> HasSymbol(i)
  BY <1>1, SameScopes DEF Passed, HasSymbol
<1>7. WholeFunctions' <=> WholeFunctions
  BY <1>1, SameTree, SameScopes DEF WholeFunctions
<1>8. PassedUsesAreVisible' /\ PassedUsesAreInnermost'
  BY <1>1, <1>6, <1>7 DEF LInv, PassedUsesAreVisible, PassedUsesAreInnermost
<1> QED
  BY <1>3, <1>4, <1>5, <1>8 DEF LInv

LEMMA InvarianceL == Spec => []LInv
<1>1. Init => LInv
  BY InitHasL
<1>2. IInv /\ JInv /\ LInv /\ [Next]_vars => LInv'
  BY CollectKeepsL, LeaveKeepsL, EndCollectingKeepsL, CheckKeepsL, EndCheckingKeepsL,
     NextProgramKeepsL, StutterKeepsL DEF Next
<1> QED
  BY <1>1, <1>2, Invariance, InvarianceJ, PTL DEF Spec

(* Whatever the program and whatever was run before it: once it has passed,  *)
(* every identifier is tied (AddVariableUse, symboltable.cpp:60) to a         *)
(* variable of this program that is declared before it, in a block or a      *)
(* function around it, although nothing ever clears the use-def pairs and    *)
(* scopes are misfiled; functions that lost their bodies aside.              *)
THEOREM UsesAreVisible == Spec => []PassedUsesAreVisible
<1>1. LInv => PassedUsesAreVisible
  BY DEF LInv
<1> QED
  BY <1>1, InvarianceL, PTL

(* If moreover every block declares its variables before it opens another    *)
(* block, that variable is the one that shadows all others of the name, of   *)
(* whatever depth the nesting is: the scope numbers on the path              *)
(* (symbolcollector.cpp:17-43) are searched in the order of the blocks.      *)
THEOREM UsesAreInnermost == Spec => []PassedUsesAreInnermost
<1>1. LInv => PassedUsesAreInnermost
  BY DEF LInv
<1> QED
  BY <1>1, InvarianceL, PTL
=============================================================================
