---------------------------- MODULE ParserProofs ----------------------------
(***************************************************************************)
(* For every set of tokens and sources of every length: the depth of the   *)
(* recursion is bounded by the tokens read, and the parser does not run    *)
(* into a null node without a word, but for a spawn or an index.           *)
(***************************************************************************)
EXTENDS Parser, SequenceTheorems, TLAPS

(* Places of the outermost function, of a frame that waits for a call to      *)
(* return, of a function that begins by taking the token it was called on.    *)
Base == {"start", "program", "program.skip"}
Waiting ==
  {"program.skip", "fn.sized", "fn.retsized", "fn.end", "var.sized", "var.init",
   "expr.array", "expr.part", "expr.index", "element", "binary.rhs", "call.next",
   "block.next", "cond.body", "cond.end", "print.end", "return.end", "scan.end",
   "sleep.end"}
Fresh == {"elements", "binary", "call", "cond", "print", "return", "scan", "sleep"}

(* Places in the functions whose result is the expression of their caller,    *)
(* and the ones that use the expression read so far.                          *)
Elements == {"elements", "element"}
Holding == {"binary", "binary.rhs", "call", "call.arg", "call.next", "call.end"}

(* How many more calls than its own depth a frame has tokens for: it may make *)
(* that many without reading.                                                 *)
Roomy ==
  {"start", "program", "program.skip", "fn.paren", "fn.param", "fn.colon", "fn.type",
   "fn.size", "fn.sized", "fn.next", "fn.arrow", "fn.return", "fn.retsize",
   "fn.retsized", "fn.body", "expr.array", "expr.spawn", "expr.loop", "expr.part",
   "expr.index", "block.loop", "block.next", "block.skip", "cond.body"}
Slack(at) == IF at = "call.arg" THEN 2 ELSE IF at \in Roomy THEN 1 ELSE 0

Label ==
  Base \cup Waiting \cup Fresh \cup Holding \cup Roomy
    \cup {"fn.name", "var.name", "var.colon", "var.type", "var.size", "var.assign",
          "var.end", "array.number", "array.bracket", "array.end", "expr", "block"}
FrameType == [at : Label, node : Result, spawn : BOOLEAN]

(* A frame that is the h-th from the bottom, with n tokens read: only the     *)
(* bottom one is the program's; it is not deeper than its tokens allow; the   *)
(* expression it is to use is null only after a complaint (l) or in a spawn.  *)
FrameOK(f, h, n, l) ==
  /\ f \in FrameType
  /\ f.at \in Base <=> h = 1
  /\ h + Slack(f.at) <= 2 * n + 2
  /\ f.at \in Holding \cup {"expr.loop"} /\ f.node = Null => l \/ f.spawn

(* A frame at w waits for the one at a. *)
WaitsFor(w, a) ==
  /\ w \in Waiting
  /\ w = "expr.part" => a \in Holding
  /\ w = "expr.array" => a \in Elements

(* The running frame at a: what it knows of the current token, and of the     *)
(* result it was given.                                                       *)
Running(a, h, n, l, token, result) ==
  /\ a \in Fresh => token \notin ForEver
  /\ a = "expr" /\ token = "LEFT_BRACE" => h + 1 <= 2 * n + 2
  /\ a \in {"expr.part", "expr.array"} /\ result = Null => l

IInv ==
  /\ stack \in Seq(FrameType) /\ Len(stack) >= 1
  /\ fed \in Nat /\ mCurrentToken \in Token
  /\ ret \in Result /\ logged \in BOOLEAN
  /\ \A i \in 1 .. Len(stack) : FrameOK(stack[i], Len(stack) + 1 - i, fed, logged)
  /\ \A i \in 2 .. Len(stack) : WaitsFor(stack[i].at, stack[i - 1].at)
  /\ Running(top.at, Len(stack), fed, logged, mCurrentToken, ret)
  /\ CrashesAreAnnounced

----------------------------------------------------------------------------
(* The stacks a step can lead to. *)
LEMMA Shape ==
  ASSUME NEW s \in Seq(FrameType), Len(s) >= 1,
         NEW f \in FrameType, NEW g \in FrameType
  PROVE  /\ /\ Tail(s) \in Seq(FrameType)
            /\ Len(Tail(s)) = Len(s) - 1
            /\ \A i \in 1 .. Len(s) - 1 : Tail(s)[i] = s[i + 1]
         /\ /\ <<f>> \o Tail(s) \in Seq(FrameType)
            /\ Len(<<f>> \o Tail(s)) = Len(s)
            /\ (<<f>> \o Tail(s))[1] = f
            /\ \A i \in 2 .. Len(s) : (<<f>> \o Tail(s))[i] = s[i]
         /\ /\ <<g, f>> \o Tail(s) \in Seq(FrameType)
            /\ Len(<<g, f>> \o Tail(s)) = Len(s) + 1
            /\ (<<g, f>> \o Tail(s))[1] = g
            /\ (<<g, f>> \o Tail(s))[2] = f
            /\ \A i \in 3 .. Len(s) + 1 : (<<g, f>> \o Tail(s))[i] = s[i - 1]
<1> DEFINE T == FrameType
<1>0. Len(s) \in Nat /\ s # <<>> /\ f \in T /\ g \in T /\ s \in Seq(T)
  OBVIOUS
<1> HIDE DEF T
<1>1. /\ Tail(s) \in Seq(T)
      /\ Len(Tail(s)) = Len(s) - 1
      /\ \A i \in 1 .. Len(Tail(s)) : Tail(s)[i] = s[i + 1]
  BY <1>0, HeadTailProperties
<1>2. /\ <<f>> \in Seq(T) /\ Len(<<f>>) = 1 /\ <<f>>[1] = f
      /\ <<g, f>> \in Seq(T) /\ Len(<<g, f>>) = 2
      /\ <<g, f>>[1] = g /\ <<g, f>>[2] = f
  BY <1>0
<1>3. /\ <<f>> \o Tail(s) \in Seq(T)
      /\ Len(<<f>> \o Tail(s)) = Len(<<f>>) + Len(Tail(s))
      /\ \A i \in 1 .. Len(<<f>>) + Len(Tail(s)) : (<<f>> \o Tail(s))[i] =
           IF i <= Len(<<f>>) THEN <<f>>[i] ELSE Tail(s)[i - Len(<<f>>)]
  BY <1>1, <1>2, ConcatProperties
<1>4. /\ <<g, f>> \o Tail(s) \in Seq(T)
      /\ Len(<<g, f>> \o Tail(s)) = Len(<<g, f>>) + Len(Tail(s))
      /\ \A i \in 1 .. Len(<<g, f>>) + Len(Tail(s)) : (<<g, f>> \o Tail(s))[i] =
           IF i <= Len(<<g, f>>) THEN <<g, f>>[i] ELSE Tail(s)[i - Len(<<g, f>>)]
  BY <1>1, <1>2, ConcatProperties
<1> DEFINE one == <<f>> \o Tail(s)
           two == <<g, f>> \o Tail(s)
           t == Tail(s)
           fs == <<f>>
           gs == <<g, f>>
<1>5. /\ one \in Seq(T) /\ Len(one) = Len(s) /\ one[1] = f
      /\ \A i \in 2 .. Len(s) : one[i] = s[i]
  <2>1. \A i \in 1 .. 1 + Len(t) : one[i] = IF i <= 1 THEN fs[i] ELSE t[i - 1]
    BY <1>2, <1>3
  <2> HIDE DEF one, t, fs
  <2>2. one \in Seq(T) /\ Len(one) = 1 + Len(t) /\ fs[1] = f
    BY <1>2, <1>3 DEF one, t, fs
  <2>3. Len(t) = Len(s) - 1 /\ \A i \in 1 .. Len(t) : t[i] = s[i + 1]
    BY <1>1 DEF t
  <2>4. one[1] = f
    BY <1>0, <2>1, <2>2, <2>3
  <2>5. ASSUME NEW i \in 2 .. Len(s) PROVE one[i] = s[i]
    <3>1. i \in 1 .. 1 + Len(t) /\ ~(i <= 1) /\ i - 1 \in 1 .. Len(t) /\ i - 1 + 1 = i
      BY <1>0, <2>3
    <3> QED
      BY <3>1, <2>1, <2>3
  <2> QED
    BY <1>0, <2>2, <2>3, <2>4, <2>5
<1>6. /\ two \in Seq(T) /\ Len(two) = Len(s) + 1 /\ two[1] = g /\ two[2] = f
      /\ \A i \in 3 .. Len(s) + 1 : two[i] = s[i - 1]
  <2>1. \A i \in 1 .. 2 + Len(t) : two[i] = IF i <= 2 THEN gs[i] ELSE t[i - 2]
    BY <1>2, <1>4
  <2> HIDE DEF two, t, gs
  <2>2. two \in Seq(T) /\ Len(two) = 2 + Len(t) /\ gs[1] = g /\ gs[2] = f
    BY <1>2, <1>4 DEF two, t, gs
  <2>3. Len(t) = Len(s) - 1 /\ \A i \in 1 .. Len(t) : t[i] = s[i + 1]
    BY <1>1 DEF t
  <2>4. two[1] = g /\ two[2] = f
    BY <1>0, <2>1, <2>2, <2>3
  <2>5. ASSUME NEW i \in 3 .. Len(s) + 1 PROVE two[i] = s[i - 1]
    <3>1. /\ i \in 1 .. 2 + Len(t) /\ ~(i <= 2) /\ i - 2 \in 1 .. Len(t)
          /\ i - 2 + 1 = i - 1
      BY <1>0, <2>3
    <3> QED
      BY <3>1, <2>1, <2>3
  <2> QED
    BY <1>0, <2>2, <2>3, <2>4, <2>5
<1> QED
  BY <1>1, <1>5, <1>6 DEF T

(* A frame that is in order stays so while tokens are read and errors logged. *)
LEMMA FrameStays ==
  ASSUME NEW f, NEW h \in Nat, NEW n \in Nat, NEW m \in Nat, n <= m,
         NEW l \in BOOLEAN, NEW k \in BOOLEAN, l => k,
         FrameOK(f, h, n, l)
  PROVE  FrameOK(f, h, m, k)
<1>1. Slack(f.at) \in Nat
  BY DEF Slack
<1> QED
  BY <1>1 DEF FrameOK

(* What every step but a crash does to the tokens and to the log. *)
Onwards ==
  /\ fed' \in Nat /\ fed <= fed'
  /\ mCurrentToken' \in Token
  /\ ret' \in Result
  /\ logged' \in BOOLEAN /\ (logged => logged')
  /\ status' # "crashed"

(* The running frame moves on to f. *)
LEMMA Moved ==
  ASSUME IInv, Onwards, NEW f,
         stack' = <<f>> \o Tail(stack),
         FrameOK(f, Len(stack), fed', logged'),
         top.at \in Holding => f.at \in Holding,
         top.at \in Elements => f.at \in Elements,
         Running(f.at, Len(stack), fed', logged', mCurrentToken', ret')
  PROVE  IInv'
<1>1. f \in FrameType /\ stack \in Seq(FrameType) /\ Len(stack) >= 1 /\ Len(stack) \in Nat
  BY DEF IInv, FrameOK
<1>2. /\ stack' \in Seq(FrameType) /\ Len(stack') = Len(stack) /\ stack'[1] = f
      /\ \A i \in 2 .. Len(stack) : stack'[i] = stack[i]
  BY <1>1, Shape
<1>3. ASSUME NEW i \in 1 .. Len(stack)
      PROVE  FrameOK(stack'[i], Len(stack) + 1 - i, fed', logged')
  <2>1. CASE i = 1
    BY <2>1, <1>1, <1>2
  <2>2. CASE i # 1
    <3>1. FrameOK(stack[i], Len(stack) + 1 - i, fed, logged) /\ Len(stack) + 1 - i \in Nat
      BY <1>1 DEF IInv
    <3> QED
      BY <2>2, <1>1, <1>2, <3>1, FrameStays DEF IInv, Onwards
  <2> QED
    BY <2>1, <2>2
<1>4. ASSUME NEW i \in 2 .. Len(stack)
      PROVE  WaitsFor(stack'[i].at, stack'[i - 1].at)
  <2>1. WaitsFor(stack[i].at, stack[i - 1].at) /\ stack'[i] = stack[i]
    BY <1>2 DEF IInv
  <2>2. CASE i = 2
    BY <2>1, <2>2, <1>1, <1>2 DEF WaitsFor, top
  <2>3. CASE i # 2
    <3>1. i - 1 \in 2 .. Len(stack)
      BY <2>3, <1>1
    <3> QED
      BY <2>1, <3>1, <1>2
  <2> QED
    BY <2>2, <2>3
<1>5. CrashesAreAnnounced'
  BY DEF CrashesAreAnnounced, Onwards
<1> QED
  BY <1>1, <1>2, <1>3, <1>4, <1>5 DEF IInv, Onwards, top

(* The running frame calls g, and waits for it at f. *)
LEMMA Called ==
  ASSUME IInv, Onwards, NEW f, NEW g,
         stack' = <<g, f>> \o Tail(stack),
         FrameOK(f, Len(stack), fed', logged'),
         FrameOK(g, Len(stack) + 1, fed', logged'),
         top.at \in Holding => f.at \in Holding,
         top.at \in Elements => f.at \in Elements,
         WaitsFor(f.at, g.at),
         Running(g.at, Len(stack) + 1, fed', logged', mCurrentToken', ret')
  PROVE  IInv'
<1>1. /\ f \in FrameType /\ g \in FrameType
      /\ stack \in Seq(FrameType) /\ Len(stack) >= 1 /\ Len(stack) \in Nat
  BY DEF IInv, FrameOK
<1>2. /\ stack' \in Seq(FrameType) /\ Len(stack') = Len(stack) + 1
      /\ stack'[1] = g /\ stack'[2] = f
      /\ \A i \in 3 .. Len(stack) + 1 : stack'[i] = stack[i - 1]
  BY <1>1, Shape
<1>3. ASSUME NEW i \in 1 .. Len(stack) + 1
      PROVE  FrameOK(stack'[i], Len(stack) + 1 + 1 - i, fed', logged')
  <2>1. CASE i \in {1, 2}
    BY <2>1, <1>1, <1>2
  <2>2. CASE i \notin {1, 2}
    <3>1. i - 1 \in 1 .. Len(stack) /\ Len(stack) + 1 - (i - 1) = Len(stack) + 1 + 1 - i
      BY <2>2, <1>1
    <3>2. /\ FrameOK(stack[i - 1], Len(stack) + 1 + 1 - i, fed, logged)
          /\ Len(stack) + 1 + 1 - i \in Nat
      BY <1>1, <3>1 DEF IInv
    <3> QED
      BY <2>2, <1>1, <1>2, <3>2, FrameStays DEF IInv, Onwards
  <2> QED
    BY <2>1, <2>2
<1>4. ASSUME NEW i \in 2 .. Len(stack) + 1
      PROVE  WaitsFor(stack'[i].at, stack'[i - 1].at)
  <2>1. CASE i = 2
    BY <2>1, <1>2
  <2>2. CASE i = 3
    <3>1. WaitsFor(stack[2].at, stack[1].at) /\ stack'[3] = stack[2]
      BY <2>2, <1>1, <1>2 DEF IInv
    <3> QED
      BY <2>2, <3>1, <1>2 DEF WaitsFor, top
  <2>3. CASE i \notin {2, 3}
    <3>1. /\ i - 1 \in 2 .. Len(stack) /\ i \in 3 .. Len(stack) + 1
          /\ i - 1 \in 3 .. Len(stack) + 1
      BY <2>3, <1>1
    <3>2. WaitsFor(stack[i - 1].at, stack[i - 1 - 1].at)
      BY <3>1 DEF IInv
    <3> QED
      BY <3>1, <3>2, <1>2
  <2> QED
    BY <2>1, <2>2, <2>3
<1>5. CrashesAreAnnounced'
  BY DEF CrashesAreAnnounced, Onwards
<1> QED
  BY <1>1, <1>2, <1>3, <1>4, <1>5 DEF IInv, Onwards, top

(* The running frame returns: whoever waits for it goes on. *)
LEMMA Returned ==
  ASSUME IInv, Onwards,
         stack' = Tail(stack),
         top.at \notin Base,
         top.at \in Holding \cup Elements /\ ret' = Null => logged'
  PROVE  IInv'
<1>1. stack \in Seq(FrameType) /\ Len(stack) >= 1 /\ Len(stack) \in Nat
  BY DEF IInv
<1>2. FrameOK(top, Len(stack), fed, logged)
  BY <1>1 DEF IInv, top
<1>n. Len(stack) # 1
  BY <1>2, Zenon DEF FrameOK
<1>a. \A n \in Nat : n >= 1 /\ n # 1 => n >= 2
  OBVIOUS
<1>3. Len(stack) >= 2
  BY <1>1, <1>n, <1>a, Zenon
<1>4. /\ stack' \in Seq(FrameType) /\ Len(stack') = Len(stack) - 1
      /\ \A i \in 1 .. Len(stack) - 1 : stack'[i] = stack[i + 1]
  BY <1>1, <1>2, Shape DEF FrameOK
<1>5. ASSUME NEW i \in 1 .. Len(stack) - 1
      PROVE  FrameOK(stack'[i], Len(stack) - 1 + 1 - i, fed', logged')
  <2>1. i + 1 \in 1 .. Len(stack) /\ Len(stack) + 1 - (i + 1) = Len(stack) - 1 + 1 - i
    BY <1>1
  <2>2. /\ FrameOK(stack[i + 1], Len(stack) - 1 + 1 - i, fed, logged)
        /\ Len(stack) - 1 + 1 - i \in Nat
    BY <1>1, <2>1 DEF IInv
  <2> QED
    BY <1>4, <2>2, FrameStays DEF IInv, Onwards
<1>6. ASSUME NEW i \in 2 .. Len(stack) - 1
      PROVE  WaitsFor(stack'[i].at, stack'[i - 1].at)
  <2>1. /\ i + 1 \in 2 .. Len(stack) /\ i + 1 - 1 = i /\ i - 1 + 1 = i
        /\ i \in 1 .. Len(stack) - 1 /\ i - 1 \in 1 .. Len(stack) - 1
    BY <1>1
  <2>2. WaitsFor(stack[i + 1].at, stack[i].at)
    BY <2>1 DEF IInv
  <2> QED
    BY <2>1, <2>2, <1>4
<1>7. Running(stack'[1].at, Len(stack) - 1, fed', logged', mCurrentToken', ret')
  <2>1. WaitsFor(stack[2].at, top.at) /\ stack'[1] = stack[2]
    BY <1>1, <1>3, <1>4 DEF IInv, top
  <2> QED
    BY <2>1 DEF WaitsFor, Running, Waiting, Fresh
<1>8. CrashesAreAnnounced'
  BY DEF CrashesAreAnnounced, Onwards
<1> QED
  BY <1>1, <1>3, <1>4, <1>5, <1>6, <1>7, <1>8 DEF IInv, Onwards, top

----------------------------------------------------------------------------
(* The ways on, one lemma for each. *)

LEMMA TopFrame ==
  ASSUME IInv
  PROVE  /\ Len(stack) \in Nat /\ Len(stack) >= 1 /\ fed \in Nat
         /\ top \in FrameType
         /\ FrameOK(top, Len(stack), fed, logged)
         /\ Running(top.at, Len(stack), fed, logged, mCurrentToken, ret)
<1>1. Len(stack) \in Nat /\ Len(stack) >= 1 /\ fed \in Nat
  BY DEF IInv
<1>2. FrameOK(top, Len(stack), fed, logged)
  BY <1>1 DEF IInv, top
<1> QED
  BY <1>1, <1>2 DEF IInv, FrameOK

LEMMA SlackType == \A at : Slack(at) \in 0 .. 2
BY DEF Slack

LEMMA FrameAt ==
  ASSUME NEW f \in FrameType, NEW label \in Label
  PROVE  LET g == [f EXCEPT !.at = label]
         IN  g \in FrameType /\ g.at = label /\ g.node = f.node /\ g.spawn = f.spawn
BY DEF FrameType

LEMMA NewFrame ==
  ASSUME NEW label \in Label
  PROVE  Frame(label) \in FrameType /\ Frame(label).at = label
BY DEF FrameType, Frame, Null, Result, Node

(* The lexer took a step or none: every token but the two that are for ever   *)
(* is counted.                                                                *)
Took ==
  /\ fed' \in Nat /\ fed <= fed'
  /\ mCurrentToken' \in Token
  /\ mCurrentToken \notin ForEver => fed' = fed + 1
  /\ mCurrentToken \in ForEver => mCurrentToken' = mCurrentToken
Kept ==
  /\ fed' \in Nat /\ fed' = fed
  /\ mCurrentToken' \in Token /\ mCurrentToken' = mCurrentToken

LEMMA Takes ==
  ASSUME IInv, NEW token \in Token, GetNextToken(token)
  PROVE  Took /\ mCurrentToken' = token
<1>1. fed \in Nat
  BY DEF IInv
<1> QED
  BY <1>1 DEF GetNextToken, Lexed, Took

LEMMA Keeps ==
  ASSUME IInv, NoToken
  PROVE  Kept
BY DEF IInv, NoToken, Kept

(* The room that a step leaves to a frame: a token that counts gives two.     *)
Room == Slack(top.at) + 2 * fed' - 2 * fed

LEMMA RoomLeft ==
  ASSUME IInv, Took \/ Kept, NEW d \in Nat, d <= Room
  PROVE  Len(stack) + d <= 2 * fed' + 2
<1>1. fed' \in Nat /\ fed \in Nat /\ Len(stack) \in Nat /\ Slack(top.at) \in Nat
  BY TopFrame, SlackType DEF Took, Kept
<1>2. Len(stack) + Slack(top.at) <= 2 * fed + 2
  BY TopFrame DEF FrameOK
<1> QED
  BY <1>1, <1>2 DEF Room

LEMMA GotoKeeps ==
  ASSUME IInv, status = "parsing", Took \/ Kept,
         NEW label \in Label, Goto(label),
         label \in Base <=> top.at \in Base,
         Slack(label) <= Room,
         label \in Holding \cup {"expr.loop"} => top.at \in Holding \cup {"expr.loop"},
         top.at \in Holding => label \in Holding,
         top.at \in Elements => label \in Elements,
         label \in Fresh => mCurrentToken' \notin ForEver,
         label \notin {"expr", "expr.part", "expr.array"}
  PROVE  IInv'
<1> DEFINE f == [top EXCEPT !.at = label]
<1>1. f \in FrameType /\ f.at = label /\ f.node = top.node /\ f.spawn = top.spawn
  BY TopFrame, FrameAt
<1>2. Onwards
  BY DEF Onwards, Took, Kept, IInv, Goto, Frames
<1>3. FrameOK(f, Len(stack), fed', logged')
  <2>1. Len(stack) + Slack(label) <= 2 * fed' + 2
    BY RoomLeft, SlackType
  <2>2. label \in Base <=> Len(stack) = 1
    BY TopFrame DEF FrameOK
  <2>3. label \in Holding \cup {"expr.loop"} /\ top.node = Null => logged' \/ top.spawn
    BY TopFrame DEF FrameOK, Goto, Frames
  <2> HIDE DEF f
  <2> QED
    BY <1>1, <2>1, <2>2, <2>3 DEF FrameOK
<1>4. Running(f.at, Len(stack), fed', logged', mCurrentToken', ret')
  BY <1>1 DEF Running
<1>5. stack' = <<f>> \o Tail(stack)
  BY DEF Goto, Frames
<1> HIDE DEF f
<1> QED
  BY <1>1, <1>2, <1>3, <1>4, <1>5, Moved

LEMMA CallKeeps ==
  ASSUME IInv, status = "parsing", Took \/ Kept,
         NEW label \in Label, NEW function \in Label, Call(function, label),
         label \in Base <=> top.at \in Base,
         Slack(label) <= Room,
         function \notin Base \cup Holding \cup {"expr.loop", "expr.part", "expr.array"},
         1 + Slack(function) <= Room,
         function \in Fresh => mCurrentToken' \notin ForEver,
         function = "expr" /\ mCurrentToken' = "LEFT_BRACE" => 2 <= Room,
         label \in Holding => top.at \in Holding,
         top.at \in Holding => label \in Holding,
         top.at \in Elements => label \in Elements,
         label \in Waiting \ {"expr.part"},
         label = "expr.array" => function \in Elements
  PROVE  IInv'
<1> DEFINE f == [top EXCEPT !.at = label]
           g == Frame(function)
<1>1. /\ f \in FrameType /\ f.at = label /\ f.node = top.node /\ f.spawn = top.spawn
      /\ g \in FrameType /\ g.at = function
  BY TopFrame, FrameAt, NewFrame
<1>2. Onwards
  BY DEF Onwards, Took, Kept, IInv, Call, Frames
<1>l. Len(stack) \in Nat /\ Len(stack) >= 1
  BY TopFrame
<1>3. FrameOK(f, Len(stack), fed', logged')
  <2>1. Len(stack) + Slack(label) <= 2 * fed' + 2
    BY RoomLeft, SlackType
  <2>2. label \in Base <=> Len(stack) = 1
    BY TopFrame DEF FrameOK
  <2>3. label \in Holding \cup {"expr.loop"} /\ top.node = Null => logged' \/ top.spawn
    BY TopFrame DEF FrameOK, Call, Frames, Waiting
  <2> HIDE DEF f
  <2> QED
    BY <1>1, <2>1, <2>2, <2>3 DEF FrameOK
<1>4. FrameOK(g, Len(stack) + 1, fed', logged')
  <2>1. Len(stack) + (1 + Slack(function)) <= 2 * fed' + 2 /\ Slack(function) \in Nat
    <3>1. 1 + Slack(function) \in Nat /\ Slack(function) \in Nat
      BY SlackType
    <3> HIDE DEF f, g
    <3> QED
      BY <3>1, RoomLeft
  <2>2. /\ Len(stack) + 1 + Slack(function) <= 2 * fed' + 2 /\ Len(stack) + 1 # 1
    BY <1>l, <1>2, <2>1 DEF Onwards
  <2> HIDE DEF g
  <2> QED
    BY <1>1, <2>2 DEF FrameOK
<1>5. Running(g.at, Len(stack) + 1, fed', logged', mCurrentToken', ret')
  <2>1. function = "expr" /\ mCurrentToken' = "LEFT_BRACE" => Len(stack) + 2 <= 2 * fed' + 2
    BY RoomLeft
  <2> HIDE DEF g
  <2> QED
    BY <1>1, <1>l, <2>1 DEF Running
<1>6. stack' = <<g, f>> \o Tail(stack)
  BY DEF Call, Frames
<1>7. WaitsFor(f.at, g.at)
  BY <1>1 DEF WaitsFor
<1> HIDE DEF f, g
<1> QED
  BY <1>1, <1>2, <1>3, <1>4, <1>5, <1>6, <1>7, Called

LEMMA ExtendKeeps ==
  ASSUME IInv, status = "parsing", Took \/ Kept,
         NEW node \in Result, NEW spawn \in BOOLEAN, Extend(node, spawn),
         top.at \notin Base \cup Holding \cup Elements,
         1 <= Room,
         node = Null => logged \/ spawn
  PROVE  IInv'
<1> DEFINE f == [at |-> "expr.loop", node |-> node, spawn |-> spawn]
<1>1. f \in FrameType /\ f.at = "expr.loop" /\ f.node = node /\ f.spawn = spawn
  BY DEF FrameType, Label, Roomy
<1>2. Onwards /\ logged' = logged
  BY DEF Onwards, Took, Kept, IInv, Extend, Frames
<1>3. FrameOK(f, Len(stack), fed', logged')
  <2>1. Len(stack) + 1 <= 2 * fed' + 2
    BY RoomLeft
  <2>2. Len(stack) # 1
    BY TopFrame, Zenon DEF FrameOK
  <2>3. Slack("expr.loop") = 1
    BY DEF Slack, Roomy
  <2>4. "expr.loop" \notin Base
    BY DEF Base
  <2> HIDE DEF f
  <2> QED
    BY <1>1, <1>2, <2>1, <2>2, <2>3, <2>4 DEF FrameOK
<1>4. Running(f.at, Len(stack), fed', logged', mCurrentToken', ret')
  BY <1>1 DEF Running, Fresh
<1>5. stack' = <<f>> \o Tail(stack)
  BY DEF Extend, Frames
<1> HIDE DEF f
<1> QED
  BY <1>1, <1>2, <1>3, <1>4, <1>5, Moved

LEMMA HandKeeps ==
  ASSUME IInv, At("expr.loop"), Kept, mCurrentToken \notin ForEver,
         NEW function \in {"binary", "call"}, Hand(function)
  PROVE  IInv'
<1> DEFINE f == [top EXCEPT !.at = "expr.part"]
           g == [top EXCEPT !.at = function]
<1>1. /\ f \in FrameType /\ f.at = "expr.part" /\ f.node = top.node /\ f.spawn = top.spawn
      /\ g \in FrameType /\ g.at = function /\ g.node = top.node /\ g.spawn = top.spawn
  <2>1. "expr.part" \in Label /\ function \in Label
    BY DEF Label, Waiting, Fresh
  <2> QED
    BY <2>1, TopFrame, FrameAt
<1>2. Onwards /\ logged' = logged
  BY DEF Onwards, Kept, IInv, Hand, Frames, At
<1>l. /\ Len(stack) \in Nat /\ Len(stack) >= 1 /\ fed' = fed /\ fed \in Nat
      /\ top.at = "expr.loop"
  BY TopFrame DEF Kept, At
<1>3. Len(stack) + 1 <= 2 * fed' + 2 /\ Len(stack) # 1
  BY <1>l, TopFrame DEF FrameOK, Slack, Roomy, Base
<1>4. top.node = Null => logged' \/ top.spawn
  BY <1>l, <1>2, TopFrame DEF FrameOK
<1>5. /\ Slack("expr.part") = 1 /\ Slack(function) = 0
      /\ "expr.part" \notin Base \cup Holding /\ function \notin Base
  BY DEF Slack, Roomy, Base, Holding
<1>6. FrameOK(f, Len(stack), fed', logged')
  <2> HIDE DEF f, g
  <2> QED
    BY <1>1, <1>3, <1>5 DEF FrameOK
<1>7. FrameOK(g, Len(stack) + 1, fed', logged')
  <2>1. Len(stack) + 1 # 1 /\ Len(stack) + 1 + 0 = Len(stack) + 1
    BY <1>l
  <2> HIDE DEF f, g
  <2> QED
    BY <1>1, <1>3, <1>4, <1>5, <2>1 DEF FrameOK
<1>8. Running(g.at, Len(stack) + 1, fed', logged', mCurrentToken', ret')
  BY <1>1 DEF Running, Kept
<1>9. stack' = <<g, f>> \o Tail(stack)
  BY DEF Hand, Frames
<1>10. WaitsFor(f.at, g.at)
  BY <1>1 DEF WaitsFor, Waiting, Holding
<1>11. top.at \notin Holding \cup Elements
  BY <1>l DEF Holding, Elements
<1> HIDE DEF f, g
<1> QED
  BY <1>1, <1>2, <1>6, <1>7, <1>8, <1>9, <1>10, <1>11, Called

LEMMA ReturnKeeps ==
  ASSUME IInv, status = "parsing", Took \/ Kept,
         NEW result \in Result, Return(result),
         top.at \notin Base,
         top.at \in Holding \cup Elements => result # Null
  PROVE  IInv'
<1>1. Onwards /\ stack' = Tail(stack) /\ ret' = result
  BY DEF Onwards, Took, Kept, IInv, Return, Leave
<1> QED
  BY <1>1, Returned

LEMMA LogKeeps ==
  ASSUME IInv, status = "parsing", Took \/ Kept,
         NEW result \in Result, Log(result),
         top.at \notin Base
  PROVE  IInv'
<1>1. Onwards /\ stack' = Tail(stack) /\ logged'
  BY DEF Onwards, Took, Kept, IInv, Log, Leave
<1> QED
  BY <1>1, Returned

LEMMA CrashKeeps ==
  ASSUME IInv, Crash,
         logged \/ top.at = "expr.index" \/ top.spawn
  PROVE  IInv'
<1>1. CrashesAreAnnounced'
  <2>1. 1 \in DOMAIN stack /\ top = stack[1]
    BY DEF IInv, top
  <2> QED
    BY <2>1 DEF CrashesAreAnnounced, Crash, top
<1> QED
  BY <1>1 DEF IInv, Crash, top

----------------------------------------------------------------------------
(* The steps that several functions share, at places that nothing but their   *)
(* depth is known of.                                                         *)

Plain ==
  Label \ (Base \cup Fresh \cup Holding \cup Elements
             \cup {"expr", "expr.loop", "expr.part", "expr.array"})

LEMMA Results ==
  {Null, "ident", "expr", "stmt", "error", "true", "false"} \subseteq Result
BY DEF Result, Node, Null

(* With the current token for ever, no other is taken. *)
LEMMA RoomTaken ==
  ASSUME IInv, Took, mCurrentToken \notin ForEver \/ mCurrentToken' \notin ForEver
  PROVE  Room = Slack(top.at) + 2 /\ Slack(top.at) \in Nat
<1>1. fed' = fed + 1 /\ fed \in Nat /\ Slack(top.at) \in Nat
  BY TopFrame, SlackType DEF Took
<1> QED
  BY <1>1 DEF Room

LEMMA RoomKept ==
  ASSUME IInv, Took \/ Kept
  PROVE  Slack(top.at) <= Room /\ Slack(top.at) \in Nat /\ Room \in Int
<1>1. fed' >= fed /\ fed' \in Nat /\ fed \in Nat /\ Slack(top.at) \in Nat
  BY TopFrame, SlackType DEF Took, Kept
<1> QED
  BY <1>1 DEF Room

(* Whoever expects one of some tokens has room for any place it goes to. *)
LEMMA ExpectKeeps ==
  ASSUME IInv, NEW label \in Plain, NEW labels,
         Expect(label, labels),
         \A token \in DOMAIN labels : token \notin ForEver /\ labels[token] \in Plain
  PROVE  IInv'
<1>1. PICK token \in Token : GetNextToken(token) /\ Branch(token, labels)
  BY DEF Expect
<1>2. Took /\ mCurrentToken' = token
  BY <1>1, Takes
<1>3. top.at = label /\ status = "parsing" /\ top.at \notin Base \cup Holding \cup Elements
  BY DEF Expect, At, Plain
<1>4. CASE token \in DOMAIN labels
  <2>1. Goto(labels[token]) /\ labels[token] \in Plain
    BY <1>1, <1>4 DEF Branch
  <2>2. Slack(labels[token]) <= Room
    BY <1>2, <1>4, RoomTaken, SlackType
  <2>3. /\ labels[token] \in Label
        /\ labels[token] \notin Base \cup Fresh \cup Holding
             \cup {"expr", "expr.loop", "expr.part", "expr.array"}
    BY <2>1 DEF Plain
  <2> QED
    BY <1>2, <1>3, <2>1, <2>2, <2>3, GotoKeeps
<1>5. CASE token \notin DOMAIN labels
  BY <1>1, <1>2, <1>3, <1>5, LogKeeps, Results DEF Branch
<1> QED
  BY <1>4, <1>5

(* A type's size. *)
LEMMA SizeKeeps ==
  ASSUME IInv, NEW label \in Plain, NEW sized \in Plain, NEW next \in Plain,
         Size(label, sized, next),
         sized \in Waiting \ {"expr.part"},
         Slack(sized) <= Slack(label), Slack(next) <= Slack(label)
  PROVE  IInv'
<1>1. PICK token \in Token :
        /\ GetNextToken(token)
        /\ IF token = "LEFT_BRACKET" THEN Call("array.number", sized) ELSE Goto(next)
  BY DEF Size
<1>2. Took /\ mCurrentToken' = token
  BY <1>1, Takes
<1>3. top.at = label /\ status = "parsing" /\ top.at \notin Base \cup Holding \cup Elements
  BY DEF Size, At, Plain
<1>4. /\ sized \in Label /\ next \in Label
      /\ sized \notin Base \cup Fresh \cup Holding
           \cup {"expr", "expr.loop", "expr.part", "expr.array"}
      /\ next \notin Base \cup Fresh \cup Holding
           \cup {"expr", "expr.loop", "expr.part", "expr.array"}
  BY DEF Plain
<1>5. Slack(sized) <= Room /\ Slack(next) <= Room
  BY <1>2, <1>3, RoomKept, SlackType
<1>6. CASE token = "LEFT_BRACKET"
  <2>1. Call("array.number", sized)
    BY <1>1, <1>6
  <2>2. /\ "array.number" \in Label /\ Slack("array.number") = 0
        /\ "array.number" \notin Base \cup Holding \cup Fresh
             \cup {"expr", "expr.loop", "expr.part", "expr.array"}
    BY DEF Label, Slack, Roomy, Base, Holding, Fresh
  <2>3. 1 + Slack("array.number") <= Room
    BY <1>2, <1>6, <2>2, RoomTaken DEF ForEver
  <2> QED
    BY <1>2, <1>3, <1>4, <1>5, <2>1, <2>2, <2>3, CallKeeps
<1>7. CASE token # "LEFT_BRACKET"
  BY <1>1, <1>2, <1>3, <1>4, <1>5, <1>7, GotoKeeps
<1> QED
  BY <1>6, <1>7

LEMMA PlainGoto ==
  ASSUME IInv, Took \/ Kept, NEW label \in Plain, At(label),
         NEW next \in Plain, Goto(next), Slack(next) <= Slack(label)
  PROVE  IInv'
<1>1. top.at = label /\ status = "parsing"
  BY DEF At
<1>2. Slack(next) <= Room
  BY <1>1, RoomKept, SlackType
<1>3. /\ label \notin Base \cup Holding \cup Elements
      /\ next \in Label
      /\ next \notin Base \cup Fresh \cup Holding
           \cup {"expr", "expr.loop", "expr.part", "expr.array"}
  BY DEF Plain
<1> QED
  BY <1>1, <1>2, <1>3, GotoKeeps

LEMMA PlainReturn ==
  ASSUME IInv, Took \/ Kept, NEW label \in Plain, At(label),
         NEW result \in Result, Return(result) \/ Log(result)
  PROVE  IInv'
<1>1. top.at = label /\ status = "parsing" /\ label \notin Base \cup Holding \cup Elements
  BY DEF At, Plain
<1> QED
  BY <1>1, ReturnKeeps, LogKeeps

LEMMA PlainCall ==
  ASSUME IInv, Took \/ Kept, NEW label \in Plain, At(label), Slack(label) = 1,
         NEW next \in Plain \cap Waiting, NEW function \in Label, Call(function, next),
         Slack(function) = 0,
         function \notin Base \cup Holding \cup {"expr.loop", "expr.part", "expr.array"},
         function \in Fresh => mCurrentToken' \notin ForEver,
         function = "expr" => mCurrentToken' # "LEFT_BRACE",
         Slack(next) <= 1
  PROVE  IInv'
<1>1. top.at = label /\ status = "parsing"
  BY DEF At
<1>2. 1 <= Room /\ Room \in Int
  BY <1>1, RoomKept
<1>3. Slack(next) <= Room /\ 1 + Slack(function) <= Room
  BY <1>2, SlackType
<1>4. /\ label \notin Base \cup Holding \cup Elements
      /\ next \in Label
      /\ next \notin Base \cup Fresh \cup Holding
           \cup {"expr", "expr.loop", "expr.part", "expr.array"}
  BY DEF Plain
<1> QED
  BY <1>1, <1>3, <1>4, CallKeeps

(* A fresh function takes the token after its own, and an expression. *)
LEMMA FreshKeeps ==
  ASSUME IInv, NEW label \in Fresh, At(label), Took,
         NEW after \in Waiting \ {"expr.part", "expr.array"}, Call("expr", after),
         after \notin Base,
         label \in Holding <=> after \in Holding,
         label \in Elements => after \in Elements
  PROVE  IInv'
<1>1. top.at = label /\ status = "parsing" /\ mCurrentToken \notin ForEver
  BY TopFrame DEF At, Running
<1>2. Room >= 2 /\ Room \in Int
  BY <1>1, RoomTaken
<1>3. top.at \notin Base
  BY <1>1 DEF Base, Fresh
<1>4. /\ "expr" \in Label /\ Slack("expr") = 0
      /\ "expr" \notin Base \cup Holding \cup Fresh
           \cup {"expr.loop", "expr.part", "expr.array"}
  BY DEF Label, Slack, Roomy, Base, Holding, Fresh
<1>5. after \in Label /\ Slack(after) <= Room /\ 1 + Slack("expr") <= Room
  BY <1>2, <1>4, SlackType DEF Label
<1> QED
  BY <1>1, <1>2, <1>3, <1>4, <1>5, CallKeeps

----------------------------------------------------------------------------
(* One lemma for every parsing function. *)

LEMMA ParseArrayTypeKeeps ==
  ASSUME IInv, ParseArrayType
  PROVE  IInv'
<1>0. {"array.number", "array.bracket", "array.end"} \subseteq Plain
  BY DEF Plain, Label, Base, Fresh, Holding, Elements
<1>1. ASSUME NEW label \in {"array.number", "array.bracket"}, At(label),
             NEW want \in {"NUMBER", "RIGHT_BRACKET"},
             NEW next \in {"array.bracket", "array.end"},
             NEW token \in Token, GetNextToken(token),
             IF token = want THEN Goto(next) ELSE Log("false")
      PROVE  IInv'
  <2>1. Took /\ top.at = label /\ status = "parsing"
    BY <1>1, Takes DEF At
  <2>2. /\ label \notin Base \cup Holding \cup Elements
        /\ next \in Label
        /\ next \notin Base \cup Fresh \cup Holding
             \cup {"expr", "expr.loop", "expr.part", "expr.array"}
    BY <1>0 DEF Plain
  <2>3. Slack(label) = 0 /\ Slack(next) = 0
    BY DEF Slack, Roomy
  <2>4. Slack(next) <= Room
    BY <2>1, <2>3, RoomKept
  <2>5. CASE token = want
    BY <1>1, <2>1, <2>2, <2>4, <2>5, GotoKeeps
  <2>6. CASE token # want
    BY <1>1, <2>1, <2>2, <2>6, LogKeeps, Results
  <2> QED
    BY <2>5, <2>6
<1>2. CASE At("array.number") /\ \E token \in Token :
             /\ GetNextToken(token)
             /\ IF token = "NUMBER" THEN Goto("array.bracket") ELSE Log("false")
  BY <1>1, <1>2
<1>3. CASE At("array.bracket") /\ \E token \in Token :
             /\ GetNextToken(token)
             /\ IF token = "RIGHT_BRACKET" THEN Goto("array.end") ELSE Log("false")
  BY <1>1, <1>3
<1>4. CASE /\ At("array.end")
           /\ \E token \in Token : GetNextToken(token)
           /\ Return("true")
  <2>1. Took /\ top.at = "array.end" /\ status = "parsing"
    BY <1>4, Takes DEF At
  <2> QED
    BY <1>0, <1>4, <2>1, ReturnKeeps, Results DEF Plain
<1> QED
  BY <1>2, <1>3, <1>4 DEF ParseArrayType

LEMMA ParseProgramKeeps ==
  ASSUME IInv, ParseProgram
  PROVE  IInv'
<1>0. top.at = "start" /\ status = "parsing"
  BY DEF ParseProgram, At
<1>1. CASE \E token \in Token : GetNextToken(token) /\ Goto("program")
  <2>1. Took
    BY <1>1, Takes
  <2>2. Slack("start") = 1 /\ Slack("program") = 1
    BY DEF Slack, Roomy
  <2>3. Slack("program") <= Room
    BY <1>0, <2>1, <2>2, RoomKept
  <2>4. /\ "program" \in Label \cap Base /\ "start" \in Base
        /\ "program" \notin Holding \cup Fresh \cup {"expr", "expr.loop", "expr.part", "expr.array"}
        /\ "start" \notin Holding \cup Elements
    BY DEF Label, Base, Holding, Fresh, Elements
  <2> QED
    BY <1>0, <1>1, <2>1, <2>3, <2>4, GotoKeeps
<1>2. CASE NoToken /\ logged' = TRUE /\ status' = "done" /\ UNCHANGED <<stack, ret>>
  <2>1. Onwards
    BY <1>2 DEF Onwards, NoToken, IInv
  <2>2. ASSUME NEW i \in 1 .. Len(stack)
        PROVE  FrameOK(stack[i], Len(stack) + 1 - i, fed', logged')
    <3>1. FrameOK(stack[i], Len(stack) + 1 - i, fed, logged) /\ Len(stack) + 1 - i \in Nat
      BY DEF IInv
    <3> QED
      BY <2>1, <3>1, FrameStays DEF IInv, Onwards
  <2>3. Running(top.at, Len(stack), fed', logged', mCurrentToken', ret')
    BY <1>2, TopFrame DEF Running, NoToken
  <2> QED
    BY <1>2, <2>1, <2>2, <2>3 DEF IInv, Onwards, NoToken, top, CrashesAreAnnounced
<1> QED
  BY <1>1, <1>2 DEF ParseProgram

LEMMA ParseProgramDeclKeeps ==
  ASSUME IInv, ParseProgramDecl
  PROVE  IInv'
<1>0. /\ {"program", "program.skip"} \subseteq Label \cap Base
      /\ "program.skip" \in Waiting
      /\ \A l \in {"program", "program.skip"} :
           /\ l \notin Holding \cup Fresh \cup Elements
                \cup {"expr", "expr.loop", "expr.part", "expr.array"}
           /\ Slack(l) = 1
  BY DEF Label, Base, Holding, Fresh, Elements, Waiting, Slack, Roomy
<1>1. /\ {"var.name", "fn.name"} \subseteq Label
      /\ \A l \in {"var.name", "fn.name"} :
           /\ l \notin Base \cup Fresh \cup Holding
                \cup {"expr", "expr.loop", "expr.part", "expr.array"}
           /\ Slack(l) = 0
  BY DEF Label, Base, Holding, Fresh, Slack, Roomy
<1>2. ASSUME At("program"), NoToken, NEW function \in {"var.name", "fn.name"},
             Call(function, "program.skip")
      PROVE  IInv'
  <2>1. Kept /\ top.at = "program" /\ status = "parsing"
    BY <1>2, Keeps DEF At
  <2>2. 1 <= Room /\ Room \in Int
    BY <2>1, <1>0, RoomKept
  <2>3. Slack("program.skip") <= Room /\ 1 + Slack(function) <= Room
    BY <2>2, <1>0, <1>1
  <2> QED
    BY <1>0, <1>1, <1>2, <2>1, <2>3, CallKeeps
<1>3. ASSUME At("program") \/ At("program.skip"), Took \/ Kept,
             NEW label \in {"program", "program.skip"}, Goto(label)
      PROVE  IInv'
  <2>1. top.at \in {"program", "program.skip"} /\ status = "parsing"
    BY <1>3 DEF At
  <2>2. 1 <= Room /\ Room \in Int
    BY <1>3, <2>1, <1>0, RoomKept
  <2>3. Slack(label) <= Room
    BY <2>2, <1>0
  <2> QED
    BY <1>0, <1>3, <2>1, <2>3, GotoKeeps
<1>4. CASE /\ At("program") /\ NoToken
           /\ stack' = <<[top EXCEPT !.at = "program.skip"]>>
           /\ logged' = TRUE
           /\ UNCHANGED <<ret, status>>
  <2>1. Kept /\ top.at = "program" /\ status = "parsing"
    BY <1>4, Keeps DEF At
  <2>2. Len(stack) = 1 /\ stack \in Seq(FrameType)
    BY <1>0, <2>1, TopFrame, Zenon DEF FrameOK, IInv
  <2>3. Tail(stack) = <<>>
    <3>1. Tail(stack) \in Seq(FrameType) /\ Len(Tail(stack)) = Len(stack) - 1
      BY <2>2, TopFrame, Shape
    <3>2. Len(Tail(stack)) = 0
      BY <2>2, <3>1
    <3> QED
      BY <3>1, <3>2, EmptySeq, Zenon
  <2> DEFINE f == [top EXCEPT !.at = "program.skip"]
  <2>4. f \in FrameType /\ f.at = "program.skip"
    BY <1>0, TopFrame, FrameAt
  <2>5. stack' = <<f>> \o Tail(stack)
    <3>1. <<f>> \in Seq(FrameType)
      BY <2>4
    <3> HIDE DEF f
    <3>2. <<f>> \o <<>> = <<f>>
      BY <3>1, ConcatEmptySeq
    <3> QED
      BY <1>4, <2>3, <3>2 DEF f
  <2>6. Onwards /\ logged'
    BY <1>4, <2>1 DEF Onwards, Kept, IInv
  <2>7. FrameOK(f, Len(stack), fed', logged')
    <3>1. Len(stack) + 1 <= 2 * fed' + 2
      BY <1>0, <2>1, RoomKept, RoomLeft
    <3> HIDE DEF f
    <3> QED
      BY <1>0, <2>2, <2>4, <2>6, <3>1 DEF FrameOK
  <2>8. Running(f.at, Len(stack), fed', logged', mCurrentToken', ret')
    BY <1>0, <2>4 DEF Running
  <2> HIDE DEF f
  <2> QED
    BY <1>0, <2>1, <2>5, <2>6, <2>7, <2>8, Moved
<1>5. CASE NoToken /\ status' = "done" /\ UNCHANGED <<stack, ret, logged>>
  BY <1>5 DEF IInv, NoToken, top, CrashesAreAnnounced
<1>6. CASE At("program.skip") /\ mCurrentToken \notin Decls
             /\ (\E token \in Token : GetNextToken(token)) /\ Goto("program.skip")
  BY <1>3, <1>6, Takes
<1>7. CASE At("program.skip") /\ mCurrentToken \in Decls /\ NoToken /\ Goto("program")
  BY <1>3, <1>7, Keeps
<1>8. CASE At("program") /\ NoToken /\ Goto("program.skip")
  BY <1>3, <1>8, Keeps
<1> QED
  BY <1>2, <1>4, <1>5, <1>6, <1>7, <1>8 DEF ParseProgramDecl

LEMMA ParseFunctionDeclKeeps ==
  ASSUME IInv, ParseFunctionDecl
  PROVE  IInv'
<1> DEFINE Fn == {"fn.paren", "fn.param", "fn.colon", "fn.type", "fn.size", "fn.sized",
                  "fn.next", "fn.arrow", "fn.return", "fn.retsize", "fn.retsized", "fn.body"}
<1>1. Fn \cup {"fn.name", "fn.end"} \subseteq Plain
  BY DEF Plain, Label, Roomy, Waiting, Base, Fresh, Holding, Elements
<1>2. (\A l \in Fn : Slack(l) = 1) /\ Slack("fn.end") = 0
  BY DEF Slack, Roomy
<1>3. CASE Expect("fn.name", [IDENTIFIER |-> "fn.paren"])
  BY <1>1, <1>3, ExpectKeeps DEF ForEver
<1>4. CASE Expect("fn.paren", [LEFT_PAREN |-> "fn.param"])
  BY <1>1, <1>4, ExpectKeeps DEF ForEver
<1>5. CASE Expect("fn.param", [RIGHT_PAREN |-> "fn.arrow", IDENTIFIER |-> "fn.colon"])
  BY <1>1, <1>5, ExpectKeeps DEF ForEver
<1>6. CASE Expect("fn.colon", [COLON |-> "fn.type"])
  BY <1>1, <1>6, ExpectKeeps DEF ForEver
<1>7. CASE Expect("fn.type", [TYPE |-> "fn.size", VOID |-> "fn.size"])
  BY <1>1, <1>7, ExpectKeeps DEF ForEver
<1>8. CASE Size("fn.size", "fn.sized", "fn.next")
  <2>1. "fn.sized" \in Waiting \ {"expr.part"}
    BY DEF Waiting
  <2> QED
    BY <1>1, <1>2, <1>8, <2>1, SizeKeeps
<1>9. CASE /\ At("fn.sized") /\ NoToken
           /\ IF ret = "true" THEN Return("error") ELSE Goto("fn.next")
  BY <1>1, <1>2, <1>9, Keeps, PlainReturn, PlainGoto, Results
<1>10. CASE Check("fn.next", [RIGHT_PAREN |-> "fn.arrow", COMMA |-> "fn.param"])
  <2>1. At("fn.next") /\ Kept
    BY <1>10, Keeps DEF Check
  <2>2. Goto("fn.arrow") \/ Goto("fn.param") \/ Log("error")
    BY <1>10 DEF Check, Branch
  <2> QED
    BY <1>1, <1>2, <2>1, <2>2, PlainReturn, PlainGoto, Results
<1>11. CASE Expect("fn.arrow", [ARROW |-> "fn.return"])
  BY <1>1, <1>11, ExpectKeeps DEF ForEver
<1>12. CASE Expect("fn.return", [TYPE |-> "fn.retsize", VOID |-> "fn.retsize"])
  BY <1>1, <1>12, ExpectKeeps DEF ForEver
<1>13. CASE Size("fn.retsize", "fn.retsized", "fn.body")
  <2>1. "fn.retsized" \in Waiting \ {"expr.part"}
    BY DEF Waiting
  <2> QED
    BY <1>1, <1>2, <1>13, <2>1, SizeKeeps
<1>14. CASE /\ At("fn.retsized") /\ NoToken
            /\ IF ret = "true" THEN Return("error") ELSE Goto("fn.body")
  BY <1>1, <1>2, <1>14, Keeps, PlainReturn, PlainGoto, Results
<1>15. CASE At("fn.body") /\ NoToken /\ Call("block", "fn.end")
  <2>1. /\ "block" \in Label /\ Slack("block") = 0 /\ "fn.end" \in Waiting
        /\ "block" \notin Base \cup Holding \cup Fresh
             \cup {"expr", "expr.loop", "expr.part", "expr.array"}
    BY DEF Label, Slack, Roomy, Waiting, Base, Holding, Fresh
  <2>2. Kept
    BY <1>15, Keeps
  <2>3. /\ "fn.body" \in Plain /\ "fn.end" \in Plain \cap Waiting
        /\ Slack("fn.body") = 1 /\ Slack("fn.end") <= 1
    BY <1>1, <1>2, <2>1
  <2> QED
    BY <1>15, <2>1, <2>2, <2>3, PlainCall
<1>16. CASE At("fn.end") /\ NoToken /\ Return("stmt")
  BY <1>1, <1>16, Keeps, PlainReturn, Results
<1> QED
  BY <1>3, <1>4, <1>5, <1>6, <1>7, <1>8, <1>9, <1>10, <1>11, <1>12, <1>13, <1>14,
     <1>15, <1>16 DEF ParseFunctionDecl

LEMMA ParseVarDeclKeeps ==
  ASSUME IInv, ParseVarDecl
  PROVE  IInv'
<1> DEFINE Var == {"var.name", "var.colon", "var.type", "var.size", "var.sized",
                   "var.assign", "var.init", "var.end"}
<1>1. Var \subseteq Plain
  BY DEF Plain, Label, Roomy, Waiting, Base, Fresh, Holding, Elements
<1>2. \A l \in Var : Slack(l) = 0
  BY DEF Slack, Roomy
<1>w. {"var.sized", "var.init"} \subseteq Waiting \ {"expr.part"}
  BY DEF Waiting
<1>3. CASE Expect("var.name", [IDENTIFIER |-> "var.colon"])
  BY <1>1, <1>3, ExpectKeeps DEF ForEver
<1>4. CASE Expect("var.colon", [COLON |-> "var.type"])
  BY <1>1, <1>4, ExpectKeeps DEF ForEver
<1>5. CASE Expect("var.type", [TYPE |-> "var.size"])
  BY <1>1, <1>5, ExpectKeeps DEF ForEver
<1>6. CASE Size("var.size", "var.sized", "var.assign")
  BY <1>1, <1>2, <1>w, <1>6, SizeKeeps
<1>7. CASE /\ At("var.sized") /\ NoToken
           /\ IF ret = "true" THEN Goto("var.assign") ELSE Return("error")
  BY <1>1, <1>2, <1>7, Keeps, PlainReturn, PlainGoto, Results
<1>8. CASE At("var.assign") /\ NoToken /\ Goto("var.end")
  BY <1>1, <1>2, <1>8, Keeps, PlainGoto
<1>9. CASE /\ At("var.assign") /\ mCurrentToken = "ASSIGN"
           /\ (\E token \in Token : GetNextToken(token))
           /\ Call("expr", "var.init")
  <2>1. Took /\ top.at = "var.assign" /\ status = "parsing"
    BY <1>9, Takes DEF At
  <2>2. Room >= 2 /\ Room \in Int
    BY <1>9, <2>1, RoomTaken DEF ForEver
  <2>3. /\ "expr" \in Label /\ Slack("expr") = 0
        /\ "expr" \notin Base \cup Holding \cup Fresh
             \cup {"expr.loop", "expr.part", "expr.array"}
    BY DEF Label, Slack, Roomy, Base, Holding, Fresh
  <2>4. /\ "var.init" \in Label
        /\ {"var.init", "var.assign"} \cap
             (Base \cup Holding \cup Elements \cup {"expr.part", "expr.array"}) = {}
    BY <1>1 DEF Plain
  <2>5. Slack("var.init") <= Room /\ 1 + Slack("expr") <= Room
    BY <1>2, <2>2, <2>3
  <2> QED
    BY <1>9, <1>w, <2>1, <2>2, <2>3, <2>4, <2>5, CallKeeps
<1>10. CASE /\ At("var.init") /\ NoToken
            /\ IF ret = Null THEN Return("error") ELSE Goto("var.end")
  BY <1>1, <1>2, <1>10, Keeps, PlainReturn, PlainGoto, Results
<1>11. CASE /\ At("var.end") /\ NoToken
            /\ IF mCurrentToken = "SEMI_COLON" THEN Return("stmt") ELSE Log("error")
  BY <1>1, <1>11, Keeps, PlainReturn, Results
<1> QED
  BY <1>3, <1>4, <1>5, <1>6, <1>7, <1>8, <1>9, <1>10, <1>11 DEF ParseVarDecl

LEMMA BeginExprKeeps ==
  ASSUME IInv, BeginExpr
  PROVE  IInv'
<1>1. /\ top.at = "expr" /\ status = "parsing" /\ At("expr")
      /\ Slack("expr") = 0 /\ Slack("expr.spawn") = 1
      /\ "expr" \notin Base \cup Holding \cup Elements
  BY DEF BeginExpr, At, Slack, Roomy, Base, Holding, Elements
<1>2. ASSUME \E token \in Token : GetNextToken(token), mCurrentToken \notin ForEver
      PROVE  Took /\ 1 <= Room /\ Room \in Int
  <2>1. Took
    BY <1>2, Takes
  <2> QED
    BY <1>1, <1>2, <2>1, RoomTaken
<1>3. CASE /\ mCurrentToken \in {"LITERAL", "NUMBER", "ZERO"}
           /\ \E token \in Token : GetNextToken(token)
           /\ Extend("expr", FALSE)
  <2>1. mCurrentToken \notin ForEver /\ "expr" # Null /\ FALSE \in BOOLEAN
    BY <1>3 DEF ForEver, Null
  <2> QED
    BY <1>1, <1>2, <1>3, <2>1, ExtendKeeps, Results
<1>4. CASE /\ mCurrentToken = "IDENTIFIER"
           /\ \E token \in Token : GetNextToken(token)
           /\ Extend("ident", FALSE)
  <2>1. mCurrentToken \notin ForEver /\ "ident" # Null /\ FALSE \in BOOLEAN
    BY <1>4 DEF ForEver, Null
  <2> QED
    BY <1>1, <1>2, <1>4, <2>1, ExtendKeeps, Results
<1>5. CASE mCurrentToken = "LEFT_BRACE" /\ NoToken /\ Call("elements", "expr.array")
  <2>1. Kept
    BY <1>5, Keeps
  <2> DEFINE f == [top EXCEPT !.at = "expr.array"]
             g == Frame("elements")
  <2>2. /\ f \in FrameType /\ f.at = "expr.array"
        /\ g \in FrameType /\ g.at = "elements"
    <3>1. "expr.array" \in Label /\ "elements" \in Label
      BY DEF Label, Waiting, Fresh
    <3> QED
      BY <3>1, TopFrame, FrameAt, NewFrame
  <2>3. Len(stack) \in Nat /\ Len(stack) >= 1 /\ Len(stack) + 1 <= 2 * fed' + 2
    BY <1>1, <1>5, <2>1, TopFrame DEF Running, Kept
  <2>4. Len(stack) # 1
    BY <1>1, TopFrame, Zenon DEF FrameOK
  <2>5. /\ Slack("expr.array") = 1 /\ Slack("elements") = 0
        /\ {"expr.array", "elements"} \cap
             (Base \cup Holding \cup {"expr.loop"}) = {}
    BY DEF Slack, Roomy, Base, Holding
  <2>6. FrameOK(f, Len(stack), fed', logged')
    <3> HIDE DEF f, g
    <3> QED
      BY <2>2, <2>3, <2>4, <2>5 DEF FrameOK
  <2>7. FrameOK(g, Len(stack) + 1, fed', logged')
    <3>1. Len(stack) + 1 # 1 /\ Len(stack) + 1 + 0 = Len(stack) + 1
      BY <2>3
    <3> HIDE DEF f, g
    <3> QED
      BY <2>2, <2>3, <2>5, <3>1 DEF FrameOK
  <2>8. WaitsFor(f.at, g.at)
    BY <2>2 DEF WaitsFor, Waiting, Elements
  <2>9. Running(g.at, Len(stack) + 1, fed', logged', mCurrentToken', ret')
    BY <1>5, <2>1, <2>2 DEF Running, Kept, ForEver
  <2>10. Onwards /\ stack' = <<g, f>> \o Tail(stack)
    BY <1>1, <1>5, <2>1 DEF Onwards, Kept, IInv, Call, Frames
  <2> HIDE DEF f, g
  <2> QED
    BY <1>1, <2>6, <2>7, <2>8, <2>9, <2>10, Called
<1>6. CASE /\ mCurrentToken = "SPAWN"
           /\ \E token \in Token : GetNextToken(token)
           /\ Goto("expr.spawn")
  <2>1. mCurrentToken \notin ForEver
    BY <1>6 DEF ForEver
  <2>2. /\ "expr.spawn" \in Label
        /\ "expr.spawn" \notin Base \cup Fresh \cup Holding
             \cup {"expr", "expr.loop", "expr.part", "expr.array"}
    BY DEF Label, Roomy, Base, Fresh, Holding
  <2> QED
    BY <1>1, <1>2, <1>6, <2>1, <2>2, GotoKeeps
<1>7. CASE (\E token \in Token : GetNextToken(token)) /\ Log(Null)
  BY <1>1, <1>7, Takes, LogKeeps, Results
<1>8. CASE NoToken /\ Return(Null)
  BY <1>1, <1>8, Keeps, ReturnKeeps, Results
<1> QED
  BY <1>3, <1>4, <1>5, <1>6, <1>7, <1>8 DEF BeginExpr

LEMMA ParseExprKeeps ==
  ASSUME IInv, ParseExpr
  PROVE  IInv'
<1>1. \A l \in {"expr.array", "expr.spawn", "expr.loop", "expr.part", "expr.index"} :
        l \notin Base \cup Holding \cup Elements /\ Slack(l) = 1
  BY DEF Base, Holding, Elements, Slack, Roomy
<1>b. TRUE \in BOOLEAN /\ FALSE \in BOOLEAN /\ ret \in Result
  BY DEF IInv
<1>2. ASSUME NEW l \in {"expr.array", "expr.spawn", "expr.loop", "expr.part", "expr.index"},
             At(l), Took \/ Kept
      PROVE  /\ top.at = l /\ status = "parsing" /\ 1 <= Room /\ Room \in Int
             /\ top.at \notin Base \cup Holding \cup Elements
             /\ top.spawn \in BOOLEAN /\ top.node \in Result
  <2>1. top.at = l /\ status = "parsing"
    BY <1>2 DEF At
  <2>2. top.spawn \in BOOLEAN /\ top.node \in Result
    BY TopFrame DEF FrameType
  <2> QED
    BY <1>1, <1>2, <2>1, <2>2, RoomKept
<1>3. CASE BeginExpr
  BY <1>3, BeginExprKeeps
<1>4. CASE /\ At("expr.array")
           /\ \E token \in Token : GetNextToken(token)
           /\ Extend(ret, FALSE)
  <2>1. Took
    BY <1>4, Takes
  <2>2. top.at = "expr.array"
    BY <1>4 DEF At
  <2>3. ret = Null => logged
    BY <2>2, TopFrame DEF Running
  <2> QED
    BY <1>2, <1>4, <1>b, <2>1, <2>3, ExtendKeeps
<1>5. CASE /\ At("expr.spawn")
           /\ \E token \in Token : GetNextToken(token)
           /\ Extend(Null, TRUE)
  BY <1>2, <1>5, <1>b, Takes, ExtendKeeps, Results
<1>6. CASE ContinueExpr
  <2>1. At("expr.loop") /\ Kept
    BY <1>6, Keeps DEF ContinueExpr
  <2>2. CASE Return(top.node) \/ Return(Null)
    BY <1>2, <2>1, <2>2, ReturnKeeps, Results
  <2>3. CASE mCurrentToken \in Operators /\ Hand("binary")
    BY <2>1, <2>3, HandKeeps DEF Operators, ForEver
  <2>4. CASE mCurrentToken = "LEFT_PAREN" /\ Hand("call")
    BY <2>1, <2>4, HandKeeps DEF ForEver
  <2>5. CASE mCurrentToken = "LEFT_BRACKET" /\ Call("expr", "expr.index")
    <3>1. /\ "expr" \in Label /\ Slack("expr") = 0
          /\ "expr" \notin Base \cup Holding \cup Fresh
               \cup {"expr.loop", "expr.part", "expr.array"}
      BY DEF Label, Slack, Roomy, Base, Holding, Fresh
    <3>2. "expr.index" \in Label \cap Waiting
      BY DEF Label, Waiting
    <3>3. mCurrentToken' # "LEFT_BRACE"
      BY <2>1, <2>5 DEF Kept
    <3>4. /\ top.at = "expr.loop" /\ status = "parsing" /\ 1 <= Room /\ Room \in Int
          /\ top.at \notin Base \cup Holding \cup Elements
      BY <1>2, <2>1
    <3>5. Slack("expr.index") <= Room /\ 1 + Slack("expr") <= Room
      BY <1>1, <3>1, <3>4
    <3> QED
      BY <1>1, <2>1, <2>5, <3>1, <3>2, <3>3, <3>4, <3>5, CallKeeps
  <2> QED
    BY <1>6, <2>2, <2>3, <2>4, <2>5 DEF ContinueExpr
<1>7. CASE At("expr.part") /\ NoToken /\ Extend(ret, top.spawn)
  <2>1. Kept /\ top.at = "expr.part"
    BY <1>7, Keeps DEF At
  <2>2. ret = Null => logged
    BY <2>1, TopFrame DEF Running
  <2> QED
    BY <1>2, <1>7, <1>b, <2>1, <2>2, ExtendKeeps
<1>8. CASE IndexExpr
  <2>1. At("expr.index")
    BY <1>8 DEF IndexExpr
  <2>2. CASE NoToken /\ Return(Null)
    BY <1>2, <2>1, <2>2, Keeps, ReturnKeeps, Results
  <2>3. CASE Crash
    BY <2>1, <2>3, CrashKeeps DEF At
  <2>4. CASE NoToken /\ Extend("expr", top.spawn)
    BY <1>2, <2>1, <2>4, Keeps, ExtendKeeps, Results DEF Null
  <2> QED
    BY <1>8, <2>2, <2>3, <2>4 DEF IndexExpr
<1> QED
  BY <1>3, <1>4, <1>5, <1>6, <1>7, <1>8 DEF ParseExpr

LEMMA ParseArrayExprKeeps ==
  ASSUME IInv, ParseArrayExpr
  PROVE  IInv'
<1>1. /\ {"elements", "element"} \cap (Base \cup Holding) = {}
      /\ "elements" \in Fresh \cap Elements \cap Label
      /\ "element" \in Elements \cap (Waiting \ {"expr.part", "expr.array"})
      /\ Slack("elements") = 0 /\ Slack("element") = 0
  BY DEF Base, Holding, Fresh, Elements, Waiting, Label, Slack, Roomy
<1>2. CASE /\ At("elements")
           /\ \E token \in Token :
                /\ GetNextToken(token)
                /\ IF token = "RIGHT_BRACE" THEN Return("expr") ELSE Call("expr", "element")
  <2>1. Took /\ top.at = "elements" /\ status = "parsing"
    BY <1>2, Takes DEF At
  <2>2. CASE Return("expr")
    BY <1>1, <2>1, <2>2, ReturnKeeps, Results DEF Null
  <2>3. CASE Call("expr", "element")
    BY <1>1, <1>2, <2>1, <2>3, FreshKeeps
  <2> QED
    BY <1>2, <2>2, <2>3
<1>3. CASE /\ At("element") /\ NoToken
           /\ \/ mCurrentToken = "RIGHT_BRACE" /\ Return("expr")
              \/ mCurrentToken = "COMMA" /\ Goto("elements")
              \/ mCurrentToken \notin {"RIGHT_BRACE", "COMMA"} /\ Log(Null)
  <2>1. Kept /\ top.at = "element" /\ status = "parsing"
    BY <1>3, Keeps DEF At
  <2>2. CASE Return("expr") \/ Log(Null)
    BY <1>1, <2>1, <2>2, ReturnKeeps, LogKeeps, Results DEF Null
  <2>3. CASE mCurrentToken = "COMMA" /\ Goto("elements")
    <3>1. mCurrentToken' \notin ForEver
      BY <2>1, <2>3 DEF Kept, ForEver
    <3>2. Slack("elements") <= Room
      BY <1>1, <2>1, RoomKept
    <3> QED
      BY <1>1, <2>1, <2>3, <3>1, <3>2, GotoKeeps
  <2> QED
    BY <1>3, <2>2, <2>3
<1> QED
  BY <1>2, <1>3 DEF ParseArrayExpr

LEMMA ParseBinaryOpExprKeeps ==
  ASSUME IInv, ParseBinaryOpExpr
  PROVE  IInv'
<1>1. /\ {"binary", "binary.rhs"} \subseteq Holding
      /\ {"binary", "binary.rhs"} \cap (Base \cup Elements) = {}
      /\ "binary" \in Fresh
      /\ "binary.rhs" \in Waiting \ {"expr.part", "expr.array"}
  BY DEF Base, Holding, Fresh, Elements, Waiting
<1>2. CASE ReadAndCall("binary", "expr", "binary.rhs")
  <2>1. Took /\ At("binary") /\ Call("expr", "binary.rhs")
    BY <1>2, Takes DEF ReadAndCall
  <2> QED
    BY <1>1, <2>1, FreshKeeps
<1>3. CASE /\ At("binary.rhs")
           /\ \/ ret = Null /\ NoToken /\ Log(Null)
              \/ ret # Null /\ top.node = Null /\ Crash
              \/ ret # Null /\ top.node # Null /\ NoToken /\ Return("expr")
  <2>1. top.at = "binary.rhs" /\ status = "parsing"
    BY <1>3 DEF At
  <2>2. CASE NoToken /\ Log(Null)
    BY <1>1, <2>1, <2>2, Keeps, LogKeeps, Results
  <2>3. CASE top.node = Null /\ Crash
    <3>1. logged \/ top.spawn
      BY <1>1, <2>1, <2>3, TopFrame DEF FrameOK
    <3> QED
      BY <2>3, <3>1, CrashKeeps
  <2>4. CASE NoToken /\ Return("expr")
    BY <1>1, <2>1, <2>4, Keeps, ReturnKeeps, Results DEF Null
  <2> QED
    BY <1>3, <2>2, <2>3, <2>4
<1> QED
  BY <1>2, <1>3 DEF ParseBinaryOpExpr

LEMMA ParseCallExprKeeps ==
  ASSUME IInv, ParseCallExpr
  PROVE  IInv'
<1> DEFINE Calls == {"call", "call.arg", "call.next", "call.end"}
<1>1. /\ Calls \subseteq Holding /\ Calls \subseteq Label
      /\ Calls \cap (Base \cup Elements \cup {"expr", "expr.part", "expr.array"}) = {}
      /\ "call" \in Fresh
      /\ {"call.arg", "call.end"} \cap Fresh = {}
      /\ "call.next" \in Waiting
      /\ Slack("call.arg") = 2 /\ Slack("call.next") = 0 /\ Slack("call.end") = 0
  BY DEF Base, Holding, Fresh, Elements, Waiting, Label, Slack, Roomy
<1>2. ASSUME At("call") \/ At("call.next"), mCurrentToken \notin ForEver,
             \E token \in Token : GetNextToken(token), Goto("call.arg")
      PROVE  IInv'
  <2>1. Took /\ top.at \in Calls /\ status = "parsing"
    BY <1>2, Takes DEF At
  <2>2. Slack("call.arg") <= Room
    BY <1>1, <1>2, <2>1, RoomTaken
  <2> QED
    BY <1>1, <1>2, <2>1, <2>2, GotoKeeps
<1>3. CASE /\ At("call")
           /\ \E token \in Token : GetNextToken(token)
           /\ Goto("call.arg")
  <2>1. mCurrentToken \notin ForEver
    BY <1>1, <1>3, TopFrame DEF At, Running
  <2> QED
    BY <1>2, <1>3, <2>1
<1>4. ASSUME At("call.arg") \/ At("call.next"), NoToken, Goto("call.end")
      PROVE  IInv'
  <2>1. Kept /\ top.at \in Calls /\ status = "parsing"
    BY <1>4, Keeps DEF At
  <2>2. Slack("call.end") <= Room
    BY <1>1, <2>1, RoomKept
  <2> QED
    BY <1>1, <1>4, <2>1, <2>2, GotoKeeps
<1>5. CASE At("call.arg") /\ NoToken /\ Call("expr", "call.next")
  <2>1. Kept /\ top.at = "call.arg" /\ status = "parsing"
    BY <1>5, Keeps DEF At
  <2>2. 2 <= Room /\ Room \in Int
    BY <1>1, <2>1, RoomKept
  <2>3. /\ "expr" \in Label /\ Slack("expr") = 0
        /\ "expr" \notin Base \cup Holding \cup Fresh
             \cup {"expr.loop", "expr.part", "expr.array"}
    BY DEF Label, Slack, Roomy, Base, Holding, Fresh
  <2>4. Slack("call.next") <= Room /\ 1 + Slack("expr") <= Room
    BY <1>1, <2>2, <2>3
  <2> QED
    BY <1>1, <1>5, <2>1, <2>2, <2>3, <2>4, CallKeeps
<1>6. CASE At("call.next") /\ NoToken /\ Log(Null)
  BY <1>1, <1>6, Keeps, LogKeeps, Results DEF At
<1>7. CASE At("call.next") /\ mCurrentToken = "COMMA"
           /\ (\E token \in Token : GetNextToken(token)) /\ Goto("call.arg")
  BY <1>2, <1>7 DEF ForEver
<1>8. CASE At("call.end") /\ top.node = Null /\ Crash
  <2>1. logged \/ top.spawn
    BY <1>1, <1>8, TopFrame DEF FrameOK, At
  <2> QED
    BY <1>8, <2>1, CrashKeeps
<1>9. CASE /\ At("call.end")
           /\ \E token \in Token : GetNextToken(token)
           /\ Return("expr")
  BY <1>1, <1>9, Takes, ReturnKeeps, Results DEF At, Null
<1> QED
  BY <1>3, <1>4, <1>5, <1>6, <1>7, <1>8, <1>9 DEF ParseCallExpr

LEMMA ParseCompoundStmtKeeps ==
  ASSUME IInv, ParseCompoundStmt
  PROVE  IInv'
<1> DEFINE Block == {"block.loop", "block.next", "block.skip"}
<1>1. Block \cup {"block"} \subseteq Plain
  BY DEF Plain, Label, Roomy, Waiting, Base, Fresh, Holding, Elements
<1>2. (\A l \in Block : Slack(l) = 1) /\ Slack("block") = 0 /\ "block.next" \in Waiting
  BY DEF Slack, Roomy, Waiting
<1>3. CASE At("block") /\ NoToken /\ Log(Null)
  BY <1>1, <1>3, Keeps, PlainReturn, Results
<1>4. CASE /\ At("block") /\ mCurrentToken = "LEFT_BRACE"
           /\ \E token \in Token : GetNextToken(token)
           /\ Goto("block.loop")
  <2>1. Took /\ top.at = "block" /\ status = "parsing"
    BY <1>4, Takes DEF At
  <2>2. Slack("block.loop") <= Room
    BY <1>2, <1>4, <2>1, RoomTaken DEF ForEver
  <2>3. /\ "block" \notin Base \cup Holding \cup Elements
        /\ "block.loop" \in Label
        /\ "block.loop" \notin Base \cup Fresh \cup Holding
             \cup {"expr", "expr.loop", "expr.part", "expr.array"}
    BY <1>1 DEF Plain
  <2> QED
    BY <1>4, <2>1, <2>2, <2>3, GotoKeeps
<1>5. CASE At("block.loop") /\ NoToken /\ (Return("stmt") \/ Log("stmt"))
  BY <1>1, <1>5, Keeps, PlainReturn, Results
<1>6. ASSUME At("block.loop"), NoToken, mCurrentToken \notin ForEver \cup {"LEFT_BRACE"},
             NEW function \in {"var.name", "expr", "return", "print", "scan", "sleep", "cond"},
             Call(function, "block.next")
      PROVE  IInv'
  <2>1. Kept /\ mCurrentToken' = mCurrentToken
    BY <1>6, Keeps DEF Kept
  <2>2. /\ function \in Label /\ Slack(function) = 0
        /\ function \notin Base \cup Holding \cup {"expr.loop", "expr.part", "expr.array"}
    BY DEF Label, Fresh, Slack, Roomy, Base, Holding
  <2>3. /\ "block.loop" \in Plain /\ "block.next" \in Plain \cap Waiting
        /\ Slack("block.loop") = 1 /\ Slack("block.next") <= 1
    BY <1>1, <1>2
  <2> QED
    BY <1>6, <2>1, <2>2, <2>3, PlainCall
<1>7. CASE /\ At("block.loop") /\ NoToken /\ mCurrentToken \in DOMAIN Simple
           /\ Call(Simple[mCurrentToken], "block.next")
  <2>1. /\ mCurrentToken \notin ForEver \cup {"LEFT_BRACE"}
        /\ Simple[mCurrentToken] \in
             {"var.name", "expr", "return", "print", "scan", "sleep", "cond"}
    BY <1>7 DEF Simple, ForEver
  <2> QED
    BY <1>6, <1>7, <2>1
<1>8. CASE /\ At("block.loop") /\ NoToken /\ mCurrentToken \in DOMAIN Conditional
           /\ Call(Conditional[mCurrentToken], "block.next")
  <2>1. /\ mCurrentToken \notin ForEver \cup {"LEFT_BRACE"}
        /\ Conditional[mCurrentToken] = "cond"
    BY <1>8 DEF Conditional, ForEver
  <2> QED
    BY <1>6, <1>8, <2>1
<1>9. CASE /\ At("block.loop") /\ NoToken
           /\ stack' = <<[top EXCEPT !.at = "block.skip"]>> \o Tail(stack)
           /\ logged' = TRUE
           /\ UNCHANGED <<ret, status>>
  <2> DEFINE f == [top EXCEPT !.at = "block.skip"]
  <2>1. Kept /\ top.at = "block.loop" /\ status = "parsing"
    BY <1>9, Keeps DEF At
  <2>2. /\ {"block.loop", "block.skip"} \cap (Base \cup Holding \cup Elements \cup Fresh
             \cup {"expr", "expr.loop", "expr.part", "expr.array"}) = {}
        /\ "block.skip" \in Label
    BY <1>1 DEF Plain
  <2>3. f \in FrameType /\ f.at = "block.skip"
    BY <2>2, TopFrame, FrameAt
  <2>4. Onwards /\ logged'
    BY <1>9, <2>1 DEF Onwards, Kept, IInv
  <2>5. Len(stack) # 1
    BY <2>1, <2>2, TopFrame, Zenon DEF FrameOK
  <2>6. Len(stack) + 1 <= 2 * fed' + 2
    BY <1>2, <2>1, RoomKept, RoomLeft
  <2>7. FrameOK(f, Len(stack), fed', logged')
    <3> HIDE DEF f
    <3> QED
      BY <1>2, <2>2, <2>3, <2>4, <2>5, <2>6 DEF FrameOK
  <2>8. Running(f.at, Len(stack), fed', logged', mCurrentToken', ret')
    BY <2>2, <2>3 DEF Running
  <2>9. stack' = <<f>> \o Tail(stack)
    BY <1>9
  <2> HIDE DEF f
  <2> QED
    BY <2>1, <2>2, <2>4, <2>7, <2>8, <2>9, Moved
<1>10. CASE At("block.loop") /\ NoToken /\ Goto("block.next")
  BY <1>1, <1>2, <1>10, Keeps, PlainGoto
<1>11. CASE At("block.skip") /\ NoToken /\ Goto("block.next")
  BY <1>1, <1>2, <1>11, Keeps, PlainGoto
<1>12. CASE /\ At("block.skip")
            /\ \E token \in Token : GetNextToken(token)
            /\ Goto("block.skip")
  BY <1>1, <1>2, <1>12, Takes, PlainGoto
<1>13. CASE /\ At("block.next")
            /\ \E token \in Token : GetNextToken(token)
            /\ Goto("block.loop")
  BY <1>1, <1>2, <1>13, Takes, PlainGoto
<1> QED
  BY <1>3, <1>4, <1>5, <1>7, <1>8, <1>9, <1>10, <1>11, <1>12, <1>13
  DEF ParseCompoundStmt

LEMMA ParseCondStmtKeeps ==
  ASSUME IInv, ParseCondStmt
  PROVE  IInv'
<1>1. /\ "cond" \in Fresh /\ "cond" \notin Holding \cup Elements
      /\ "cond.body" \in Waiting \ {"expr.part", "expr.array"}
      /\ "cond.body" \notin Base \cup Holding
      /\ {"cond.body", "cond.end"} \subseteq Plain
  BY DEF Plain, Label, Roomy, Waiting, Base, Fresh, Holding, Elements
<1>2. CASE ReadAndCall("cond", "expr", "cond.body")
  <2>1. Took /\ At("cond") /\ Call("expr", "cond.body")
    BY <1>2, Takes DEF ReadAndCall
  <2> QED
    BY <1>1, <2>1, FreshKeeps
<1>3. CASE /\ At("cond.body") /\ NoToken
           /\ stack' = <<Frame("block"), [top EXCEPT !.at = "cond.end", !.node = ret]>>
                         \o Tail(stack)
           /\ logged' = (logged \/ ret = Null)
           /\ UNCHANGED <<ret, status>>
  <2> DEFINE f == [top EXCEPT !.at = "cond.end", !.node = ret]
             g == Frame("block")
  <2>1. Kept /\ top.at = "cond.body" /\ status = "parsing"
    BY <1>3, Keeps DEF At
  <2>2. /\ "cond.end" \in Label \cap Waiting /\ "block" \in Label
        /\ {"cond.body", "cond.end", "block"} \cap
             (Base \cup Holding \cup Elements \cup Fresh
                \cup {"expr", "expr.loop", "expr.part", "expr.array"}) = {}
        /\ Slack("cond.body") = 1 /\ Slack("cond.end") = 0 /\ Slack("block") = 0
    BY DEF Label, Roomy, Waiting, Base, Fresh, Holding, Elements, Slack
  <2>3. g \in FrameType /\ g.at = "block"
    BY <2>2, NewFrame
  <2>4. f \in FrameType /\ f.at = "cond.end"
    <3>1. top \in FrameType /\ ret \in Result /\ "cond.end" \in Label
      BY <2>2, TopFrame DEF IInv
    <3> QED
      BY <3>1 DEF FrameType
  <2>5. Onwards
    BY <1>3, <2>1 DEF Onwards, Kept, IInv
  <2>6. Len(stack) # 1
    BY <2>1, <2>2, TopFrame, Zenon DEF FrameOK
  <2>7. /\ Len(stack) + 0 <= 2 * fed' + 2 /\ Len(stack) + 1 + 0 <= 2 * fed' + 2
        /\ Len(stack) + 1 # 1
    <3>1. Len(stack) + 1 <= 2 * fed' + 2
      BY <2>1, <2>2, RoomKept, RoomLeft
    <3> QED
      BY <2>5, <3>1, TopFrame DEF Onwards
  <2>8. FrameOK(f, Len(stack), fed', logged') /\ FrameOK(g, Len(stack) + 1, fed', logged')
    <3> HIDE DEF f, g
    <3> QED
      BY <2>2, <2>3, <2>4, <2>6, <2>7 DEF FrameOK
  <2>9. WaitsFor(f.at, g.at)
    BY <2>2, <2>3, <2>4 DEF WaitsFor
  <2>10. Running(g.at, Len(stack) + 1, fed', logged', mCurrentToken', ret')
    BY <2>2, <2>3 DEF Running
  <2>11. stack' = <<g, f>> \o Tail(stack)
    BY <1>3
  <2> HIDE DEF f, g
  <2> QED
    BY <2>1, <2>2, <2>5, <2>8, <2>9, <2>10, <2>11, Called
<1>4. CASE At("cond.end") /\ NoToken /\ (Log("error") \/ Return("error") \/ Return("stmt"))
  BY <1>1, <1>4, Keeps, PlainReturn, Results
<1> QED
  BY <1>2, <1>3, <1>4 DEF ParseCondStmt

(* The statements that are a word and an expression. *)
LEMMA SimpleStmtKeeps ==
  ASSUME IInv,
         ParsePrintStmt \/ ParseReturnStmt \/ ParseScanStmt \/ ParseSleepStmt
  PROVE  IInv'
<1> DEFINE Word == {"print", "return", "scan", "sleep"}
           Close == {"print.end", "return.end", "scan.end", "sleep.end"}
<1>1. /\ Word \subseteq Fresh /\ Word \cap (Base \cup Holding \cup Elements) = {}
      /\ Close \subseteq Plain
      /\ Close \subseteq Waiting \ {"expr.part", "expr.array"}
      /\ Close \cap (Base \cup Holding) = {}
  BY DEF Plain, Label, Waiting, Base, Fresh, Holding, Elements
<1>2. ASSUME NEW label \in Word, NEW after \in Close,
             At(label), \E token \in Token : GetNextToken(token), Call("expr", after)
      PROVE  IInv'
  BY <1>1, <1>2, Takes, FreshKeeps
<1>3. ASSUME NEW label \in Close, At(label), NoToken,
             NEW result \in Result, Return(result) \/ Log(result)
      PROVE  IInv'
  BY <1>1, <1>3, Keeps, PlainReturn
<1>4. ASSUME At("print"), \E token \in Token : GetNextToken(token), Return("stmt")
      PROVE  IInv'
  <2>1. Took /\ top.at = "print" /\ status = "parsing"
    BY <1>4, Takes DEF At
  <2> QED
    BY <1>1, <1>4, <2>1, ReturnKeeps, Results
<1>5. CASE ParsePrintStmt
  BY <1>2, <1>3, <1>4, <1>5, Results DEF ParsePrintStmt
<1>6. CASE ParseReturnStmt
  BY <1>2, <1>3, <1>6, Results DEF ParseReturnStmt, ReadAndCall
<1>7. CASE ParseScanStmt
  BY <1>2, <1>3, <1>7, Results DEF ParseScanStmt, ReadAndCall
<1>8. CASE ParseSleepStmt
  BY <1>2, <1>3, <1>8, Results DEF ParseSleepStmt, ReadAndCall
<1> QED
  BY <1>5, <1>6, <1>7, <1>8

----------------------------------------------------------------------------
LEMMA InitIInv == Init => IInv
<1> SUFFICES ASSUME Init PROVE IInv
  OBVIOUS
<1> DEFINE f == Frame("start")
<1>1. "start" \in Label \cap Base /\ "start" \notin Holding \cup Fresh /\ Slack("start") = 1
  BY DEF Label, Base, Holding, Fresh, Slack, Roomy
<1>2. f \in FrameType /\ f.at = "start"
  BY <1>1, NewFrame
<1>3. stack = <<f>> /\ fed = 0 /\ mCurrentToken = "UNKNOWN" /\ ret = Null /\ logged = FALSE
      /\ status = "parsing"
  BY DEF Init, SourceInit
<1> HIDE DEF f
<1>4. stack \in Seq(FrameType) /\ Len(stack) = 1 /\ stack[1] = f
  BY <1>2, <1>3
<1>5. FrameOK(f, 1, fed, logged)
  BY <1>1, <1>2, <1>3 DEF FrameOK
<1>6. \A i \in 1 .. Len(stack) : FrameOK(stack[i], Len(stack) + 1 - i, fed, logged)
  BY <1>4, <1>5
<1>7. \A i \in 2 .. Len(stack) : WaitsFor(stack[i].at, stack[i - 1].at)
  BY <1>4
<1>8. Running(top.at, Len(stack), fed, logged, mCurrentToken, ret)
  BY <1>1, <1>2, <1>4 DEF Running, top
<1>9. fed \in Nat /\ mCurrentToken \in Token /\ ret \in Result /\ logged \in BOOLEAN
  BY <1>3, Results DEF Token
<1>10. CrashesAreAnnounced
  BY <1>3 DEF CrashesAreAnnounced
<1> QED
  BY <1>4, <1>6, <1>7, <1>8, <1>9, <1>10 DEF IInv

LEMMA NextIInv == IInv /\ [Next]_vars => IInv'
<1> SUFFICES ASSUME IInv, [Next]_vars PROVE IInv'
  OBVIOUS
<1>1. CASE UNCHANGED vars
  BY <1>1 DEF vars, IInv, top, CrashesAreAnnounced
<1>2. CASE Next
  BY <1>2, ParseProgramKeeps, ParseProgramDeclKeeps, ParseFunctionDeclKeeps,
     ParseVarDeclKeeps, ParseArrayTypeKeeps, ParseExprKeeps, ParseArrayExprKeeps,
     ParseBinaryOpExprKeeps, ParseCallExprKeeps, ParseCompoundStmtKeeps,
     ParseCondStmtKeeps, SimpleStmtKeeps DEF Next
<1> QED
  BY <1>1, <1>2

(* However long and however nested the source is, the parser's recursion is   *)
(* at most two calls deep for every token the lexer gave, and two more.       *)
THEOREM RecursionIsBounded == Spec => []DepthBounded
<1>1. IInv => DepthBounded
  <2> SUFFICES ASSUME IInv PROVE DepthBounded
    OBVIOUS
  <2>1. Len(stack) \in Nat /\ fed \in Nat /\ Slack(top.at) \in Nat
    BY TopFrame, SlackType
  <2>2. Len(stack) + Slack(top.at) <= 2 * fed + 2
    BY TopFrame DEF FrameOK
  <2> QED
    BY <2>1, <2>2 DEF DepthBounded
<1> QED
  BY <1>1, InitIInv, NextIInv, PTL DEF Spec

(* On every source, an assertion of BinaryOpExpr or CallExpr that fails, or a *)
(* null node that is used, comes after a message of the parser, unless the    *)
(* source spawns or indexes something.                                        *)
THEOREM NoSilentCrash == Spec => []CrashesAreAnnounced
<1>1. IInv => CrashesAreAnnounced
  BY DEF IInv
<1> QED
  BY <1>1, InitIInv, NextIInv, PTL DEF Spec
=============================================================================
