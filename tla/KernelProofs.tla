---------------------------- MODULE KernelProofs ----------------------------
(* Proofs about the kernel, for any number of threads and any code.          *)
EXTENDS Kernel, TLAPS, SequenceTheorems

(* The part of the invariant that the front of the list needs. *)
FrontInv ==
  /\ TypeOK
  /\ CurrentIsFront
  /\ pc \in {"test", "poll"} => mCurrentThread # Null

(* Erasing the first thread of the list leaves the tail. *)
LEMMA EraseFront ==
  ASSUME mThreadList \in Seq(Nat), mThreadList # <<>>, EraseFirst(Head(mThreadList))
  PROVE  mThreadList' = Tail(mThreadList)
  <1>1. PICK i \in DOMAIN mThreadList :
          /\ \A j \in DOMAIN mThreadList : mThreadList[j] = Head(mThreadList) => i <= j
          /\ mThreadList' = SubSeq(mThreadList, 1, i - 1)
                              \o SubSeq(mThreadList, i + 1, Len(mThreadList))
    BY DEF EraseFirst
  <1>2. Len(mThreadList) \in Nat /\ Len(mThreadList) > 0
        /\ DOMAIN mThreadList = 1 .. Len(mThreadList)
    OBVIOUS
  <1>3. 1 \in DOMAIN mThreadList /\ mThreadList[1] = Head(mThreadList)
    BY <1>2
  <1>4. i = 1
    <2>1. i <= 1
      BY <1>1, <1>3
    <2>2. i \in 1 .. Len(mThreadList)
      BY <1>1, <1>2
    <2> QED BY <2>1, <2>2, <1>2
  <1>5. SubSeq(mThreadList, 1, 0) = <<>>
    BY <1>2
  <1>6. SubSeq(mThreadList, 2, Len(mThreadList)) = Tail(mThreadList)
    BY TailIsSubSeq
  <1>7. Tail(mThreadList) \in Seq(Nat) /\ <<>> \o Tail(mThreadList) = Tail(mThreadList)
    OBVIOUS
  <1> QED
    BY <1>1, <1>4, <1>5, <1>6, <1>7

(* FindNextThreadToRun gives the first thread of the list it leaves, and     *)
(* moves on only from a finished thread.                                     *)
LEMMA FindFront ==
  ASSUME FrontInv, FindNextThreadToRun
  PROVE  /\ mThreadList' \in Seq(1 .. mThreads)
         /\ mCurrentThread' = Front(mThreadList')
         /\ mThreadList' = mThreadList
              \/ /\ mCurrentThread # Null /\ mFinished[mCurrentThread]
                 /\ mThreadList # <<>>
                 /\ mThreadList' = Tail(mThreadList)
         /\ mCurrentThread # Null /\ ~mFinished[mCurrentThread]
              => mCurrentThread' = mCurrentThread
         /\ mWaitForChildren' \in [Threads -> BOOLEAN]
  <1>1. /\ mThreadList \in Seq(1 .. mThreads) /\ mThreadList \in Seq(Nat)
        /\ mThreads \in Nat /\ mCurrentThread \in Nat
        /\ mWaitForChildren \in [Threads -> BOOLEAN]
    BY MaxThreadsAssumption DEF FrontInv, TypeOK
  <1>2. mCurrentThread # Null
          => mThreadList # <<>> /\ Head(mThreadList) = mCurrentThread
    BY DEF FrontInv, CurrentIsFront
  <1>3. CASE mCurrentThread # Null /\ ~mFinished[mCurrentThread]
    <2>1. mThreadList' = mThreadList /\ AskIsWaiting(mCurrentThread)
      BY <1>3 DEF FindNextThreadToRun
    <2>2. mCurrentThread' = mCurrentThread /\ mCurrentThread = Front(mThreadList)
      BY <1>2, <1>3 DEF FindNextThreadToRun, Front
    <2>3. mWaitForChildren' \in [Threads -> BOOLEAN]
      BY <2>1, <1>1 DEF AskIsWaiting, IsWaitingForChildren
    <2> QED BY <2>1, <2>2, <2>3, <1>1
  <1>4. CASE mCurrentThread # Null /\ mFinished[mCurrentThread]
    <2>1. /\ EraseFirst(mCurrentThread) /\ mCurrentThread' = Front(mThreadList')
          /\ mWaitForChildren' = mWaitForChildren
      BY <1>4 DEF FindNextThreadToRun
    <2>2. mThreadList' = Tail(mThreadList) /\ mThreadList # <<>>
      BY <2>1, <1>1, <1>2, <1>4, EraseFront
    <2>3. mThreadList' \in Seq(1 .. mThreads)
      BY <2>2, <1>1
    <2> QED BY <2>1, <2>2, <2>3, <1>1, <1>4
  <1>5. CASE mCurrentThread = Null
    BY <1>5, <1>1 DEF FindNextThreadToRun
  <1> QED BY <1>3, <1>4, <1>5

(* A thread added or scheduled goes to the end of the list. *)
LEMMA AppendFront ==
  ASSUME NEW n \in Nat, NEW list \in Seq(1 .. n), NEW t \in Nat,
         NEW m \in Nat, n <= m, t \in 1 .. m
  PROVE  /\ Append(list, t) \in Seq(1 .. m)
         /\ Append(list, t) # <<>>
         /\ Len(Append(list, t)) = Len(list) + 1
         /\ Append(list, t)[Len(list) + 1] = t
         /\ \A i \in 1 .. Len(list) : Append(list, t)[i] = list[i]
         /\ list # <<>> => Head(Append(list, t)) = Head(list)
  <1>1. list \in Seq(1 .. m) /\ Len(list) \in Nat
    <2>1. 1 .. n \subseteq 1 .. m
      OBVIOUS
    <2> QED BY <2>1
  <1> QED BY <1>1

(* The front of the list is inductive: the initial state has no list. *)
LEMMA FrontInit == Init => FrontInv
  <1> SUFFICES ASSUME Init PROVE FrontInv
    OBVIOUS
  <1>1. unparsed \in BOOLEAN
    BY Zenon DEF Init
  <1> QED
    BY <1>1, MaxThreadsAssumption, MaxNodesAssumption
    DEF Init, FrontInv, TypeOK, CurrentIsFront, Threads, Null, Running

(* Every thread that AddThread makes leaves the front alone. *)
LEMMA AddThreadFront ==
  ASSUME FrontInv, AddThread
  PROVE  /\ mThreads' \in 0 .. MaxThreads /\ mThreads' = mThreads + 1
         /\ mThreadList' = Append(mThreadList, mThreads + 1)
         /\ mThreadList' \in Seq(1 .. mThreads') /\ mThreadList' # <<>>
         /\ mThreadList # <<>> => Head(mThreadList') = Head(mThreadList)
         /\ mCurrentThread \in 0 .. mThreads'
  <1>1. /\ mThreads \in Nat /\ mThreads < MaxThreads /\ MaxThreads \in Nat
        /\ mThreads' = mThreads + 1 /\ mThreads + 1 \in Nat
        /\ mThreadList' = Append(mThreadList, mThreads + 1)
        /\ mThreadList \in Seq(1 .. mThreads)
        /\ mCurrentThread \in 0 .. mThreads
    BY MaxThreadsAssumption DEF FrontInv, TypeOK, AddThread, ScheduleThread
  <1>2. mThreads <= mThreads + 1 /\ mThreads + 1 \in 1 .. (mThreads + 1)
    BY <1>1
  <1> QED
    BY <1>1, <1>2, AppendFront

(* One step of the running thread. *)
LEMMA ExecuteFront ==
  ASSUME FrontInv, pc = "test", ExecuteOne(mCurrentThread), pc' = "poll",
         mCurrentThread' = mCurrentThread, unparsed' = unparsed
  PROVE  FrontInv'
  <1> DEFINE t == mCurrentThread
  <1>1. /\ t # Null /\ t \in Threads
        /\ mThreadList # <<>> /\ Head(mThreadList) = t
        /\ mFinished \in [Threads -> BOOLEAN]
        /\ mWaitForChildren \in [Threads -> BOOLEAN]
        /\ asleep \in [Threads -> Nat]
        /\ nodes \in [Threads -> 0 .. MaxNodes]
    BY MaxThreadsAssumption DEF FrontInv, TypeOK, CurrentIsFront, Threads, Null
  <1>2. /\ mFinished' \in [Threads -> BOOLEAN]
        /\ mWaitForChildren' \in [Threads -> BOOLEAN]
    BY <1>1 DEF ExecuteOne, Sync, Barrier
  <1>3. asleep' \in [Threads -> Nat]
    BY <1>1, SleepAssumption DEF ExecuteOne, SleepFor, Sleep
  <1>4. nodes' \in [Threads -> 0 .. MaxNodes]
    <2>1. nodes[t] > 0 => nodes[t] - 1 \in 0 .. MaxNodes
      BY <1>1, MaxNodesAssumption
    <2> QED BY <2>1, <1>1 DEF ExecuteOne
  <1>5. CASE UNCHANGED <<mThreads, mThreadList>>
    BY <1>1, <1>2, <1>3, <1>4, <1>5 DEF FrontInv, TypeOK, CurrentIsFront, Null, Running
  <1>6. CASE AddThread
    BY <1>1, <1>2, <1>3, <1>4, <1>6, AddThreadFront
    DEF FrontInv, TypeOK, CurrentIsFront, Null, Running
  <1> QED
    BY <1>5, <1>6 DEF ExecuteOne

(* Every step keeps the current thread in front. *)
LEMMA FrontStep == FrontInv /\ [Next]_vars => FrontInv'
  <1> SUFFICES ASSUME FrontInv, [Next]_vars PROVE FrontInv'
    OBVIOUS
  <1>1. CASE CreateThread
    <2>1. AddThread /\ UNCHANGED <<mCurrentThread, threadVars, pc, unparsed>> /\ pc = "idle"
      BY <1>1 DEF CreateThread
    <2> QED
      BY <2>1, AddThreadFront
      DEF FrontInv, TypeOK, CurrentIsFront, threadVars, Null
  <1>2. ASSUME NEW parses \in BOOLEAN, RunProgram(parses) PROVE FrontInv'
    <2>1. /\ UNCHANGED <<mThreads, mCurrentThread, mFinished, mWaitForChildren, asleep, nodes>>
          /\ unparsed' \in BOOLEAN
      BY <1>2 DEF RunProgram, threadVars, FrontInv, TypeOK
    <2>2. pc' \in {"find", "crashed"}
      BY <1>2 DEF RunProgram
    <2>3. CASE mThreadList' = mThreadList
      BY <2>1, <2>2, <2>3 DEF FrontInv, TypeOK, CurrentIsFront, Running
    <2>4. CASE mThreads > 0 /\ mThreadList' = Append(mThreadList, mThreads)
      <3>1. /\ mThreads \in Nat /\ mThreadList \in Seq(1 .. mThreads)
            /\ mThreads <= mThreads /\ mThreads \in 1 .. mThreads
        BY <2>4, MaxThreadsAssumption DEF FrontInv, TypeOK
      <3>2. /\ mThreadList' \in Seq(1 .. mThreads) /\ mThreadList' # <<>>
            /\ mThreadList # <<>> => Head(mThreadList') = Head(mThreadList)
        BY <2>4, <3>1, AppendFront
      <3> QED
        BY <2>1, <2>2, <3>2 DEF FrontInv, TypeOK, CurrentIsFront, Running
    <2> QED
      BY <1>2, <2>3, <2>4 DEF RunProgram, ScheduleThread
  <1>3. CASE Find
    <2>1. /\ FindNextThreadToRun
          /\ pc' = IF mCurrentThread' = Null THEN "crashed" ELSE "test"
          /\ UNCHANGED <<mThreads, mFinished, asleep, nodes, unparsed>>
      BY <1>3 DEF Find
    <2>2. /\ mThreadList' \in Seq(1 .. mThreads)
          /\ mCurrentThread' = Front(mThreadList')
          /\ mWaitForChildren' \in [Threads -> BOOLEAN]
      BY <2>1, FindFront
    <2>3. mThreadList' # <<>> => Head(mThreadList') \in 1 .. mThreads
      BY <2>2, HeadTailProperties
    <2>4. mCurrentThread' \in 0 .. mThreads /\ CurrentIsFront'
      BY <2>2, <2>3, MaxThreadsAssumption DEF Front, Null, CurrentIsFront, FrontInv, TypeOK
    <2> QED
      BY <2>1, <2>2, <2>4 DEF FrontInv, TypeOK, Running
  <1>4. CASE Return
    BY <1>4 DEF Return, threadVars, FrontInv, TypeOK, CurrentIsFront
  <1>5. CASE Execute
    BY <1>5, ExecuteFront DEF Execute
  <1>6. CASE Poll
    <2>1. /\ UNCHANGED <<mThreads, mThreadList, mCurrentThread, mFinished, asleep, nodes,
                         unparsed>>
          /\ pc = "poll" /\ pc' \in {"find", "test"}
      BY <1>6 DEF Poll
    <2>2. mWaitForChildren' \in [Threads -> BOOLEAN]
      BY <1>6 DEF Poll, AskIsWaiting, IsWaitingForChildren, FrontInv, TypeOK
    <2> QED
      BY <2>1, <2>2 DEF FrontInv, TypeOK, CurrentIsFront, Running
  <1>7. CASE Tick
    <2>1. asleep' \in [Threads -> Nat]
      BY <1>7 DEF Tick, FrontInv, TypeOK
    <2> QED
      BY <1>7, <2>1 DEF Tick, FrontInv, TypeOK, CurrentIsFront
  <1>8. CASE UNCHANGED vars
    BY <1>8 DEF vars, threadVars, FrontInv, TypeOK, CurrentIsFront
  <1> QED
    BY <1>1, <1>2, <1>3, <1>4, <1>5, <1>6, <1>7, <1>8 DEF Next, Run

(* The invariant holds of every behaviour. *)
LEMMA FrontAlways == Spec => []FrontInv
  BY FrontInit, FrontStep, PTL DEF Spec

(* Every pointer that the kernel and the scheduler hold is to a thread the   *)
(* kernel owns.                                                              *)
THEOREM KernelTypes == Spec => []TypeOK
  BY FrontAlways, PTL DEF FrontInv

(* The scheduler never erases what is not in its list (scheduler.cpp:25).    *)
THEOREM EraseIsDefined == Spec => []CurrentIsFront
  BY FrontAlways, PTL DEF FrontInv

(* Only a finished thread is ever left: kernel.cpp:71 hands a sleeping       *)
(* thread back to itself.                                                    *)
THEOREM NoHandOver == Spec => RunToCompletion
  <1>1. FrontInv /\ [Next]_vars =>
          [mCurrentThread' # mCurrentThread =>
             mCurrentThread = Null \/ mFinished[mCurrentThread]]_vars
    <2> SUFFICES ASSUME FrontInv, [Next]_vars, mCurrentThread' # mCurrentThread
                 PROVE  mCurrentThread = Null \/ mFinished[mCurrentThread]
      OBVIOUS
    <2>1. FindNextThreadToRun
      BY DEF Next, vars, Run, CreateThread, RunProgram, Find, Return, Execute, Poll, Tick
    <2> QED BY <2>1, FindFront
  <1> QED
    BY <1>1, FrontAlways, PTL DEF Spec, RunToCompletion

----------------------------------------------------------------------------
(* The scheduler does not run out of threads. *)

(* The last entry is the youngest thread, and two neighbours are the same    *)
(* thread, while Run is under way and has not come to a finished thread.     *)
Doubled ==
  \E i \in 1 .. Len(mThreadList) - 1 : mThreadList[i] = mThreadList[i + 1]

ListInv ==
  /\ pc = "crashed" => mThreads = 0
  /\ pc # "crashed" /\ mThreads > 0 =>
       mThreadList # <<>> /\ mThreadList[Len(mThreadList)] = mThreads
  /\ pc \in Running =>
       /\ mThreads > 0
       /\ Doubled \/ (pc = "test" /\ mFinished[mCurrentThread])

(* A thread put at the end leaves two equal neighbours where they are. *)
LEMMA DoubledAppend ==
  ASSUME NEW n \in Nat, NEW list \in Seq(1 .. n), NEW t \in Nat,
         NEW m \in Nat, n <= m, t \in 1 .. m,
         \E i \in 1 .. Len(list) - 1 : list[i] = list[i + 1]
  PROVE  \E i \in 1 .. Len(Append(list, t)) - 1 :
           Append(list, t)[i] = Append(list, t)[i + 1]
  <1>1. PICK i \in 1 .. Len(list) - 1 : list[i] = list[i + 1]
    OBVIOUS
  <1>2. Len(list) \in Nat
    OBVIOUS
  <1>3. /\ Len(Append(list, t)) = Len(list) + 1
        /\ \A k \in 1 .. Len(list) : Append(list, t)[k] = list[k]
    BY AppendFront
  <1>4. i \in 1 .. Len(list) /\ i + 1 \in 1 .. Len(list) /\ i \in 1 .. (Len(list) + 1) - 1
    BY <1>1, <1>2
  <1> QED BY <1>1, <1>3, <1>4

(* A step of the running thread. *)
LEMMA ExecuteList ==
  ASSUME FrontInv, ListInv, pc = "test", ~mFinished[mCurrentThread],
         ExecuteOne(mCurrentThread), pc' = "poll"
  PROVE  ListInv'
  <1>1. mThreads > 0 /\ mThreadList # <<>> /\ mThreadList[Len(mThreadList)] = mThreads /\ Doubled
    BY DEF ListInv, Running
  <1>2. CASE UNCHANGED <<mThreads, mThreadList>>
    BY <1>1, <1>2 DEF ListInv, Doubled
  <1>3. CASE AddThread
    <2>1. /\ mThreads \in Nat /\ mThreadList \in Seq(1 .. mThreads)
          /\ mThreads + 1 \in Nat /\ mThreads <= mThreads + 1
          /\ mThreads + 1 \in 1 .. (mThreads + 1)
      BY MaxThreadsAssumption DEF FrontInv, TypeOK
    <2>2. mThreads' = mThreads + 1 /\ mThreadList' = Append(mThreadList, mThreads + 1)
      BY <1>3 DEF AddThread, ScheduleThread
    <2>3. Doubled'
      BY <2>1, <2>2, <1>1, DoubledAppend DEF Doubled
    <2>4. mThreadList' # <<>> /\ mThreadList'[Len(mThreadList')] = mThreads'
      BY <2>1, <2>2, AppendFront
    <2> QED BY <1>1, <2>1, <2>2, <2>3, <2>4 DEF ListInv
  <1> QED BY <1>2, <1>3 DEF ExecuteOne

(* The scheduler takes the front off only if it is not the last entry. *)
LEMMA FindList ==
  ASSUME FrontInv, ListInv, Find PROVE ListInv'
  <1>1. /\ FindNextThreadToRun /\ pc = "find"
        /\ pc' = IF mCurrentThread' = Null THEN "crashed" ELSE "test"
        /\ UNCHANGED <<mThreads, mFinished>>
    BY DEF Find
  <1>2. /\ mThreads > 0 /\ Doubled
        /\ mThreadList # <<>> /\ mThreadList[Len(mThreadList)] = mThreads
    BY <1>1 DEF ListInv, Running
  <1>3. mThreadList \in Seq(1 .. mThreads) /\ mThreads \in Nat /\ Len(mThreadList) \in Nat
    BY MaxThreadsAssumption DEF FrontInv, TypeOK
  <1>4. mCurrentThread' = Front(mThreadList')
    BY <1>1, FindFront
  <1>5. CASE mThreadList' = mThreadList
    <2>1. Head(mThreadList) \in 1 .. mThreads
      BY <1>2, <1>3, HeadTailProperties
    <2>2. mCurrentThread' # Null
      BY <2>1, <1>2, <1>3, <1>4, <1>5 DEF Front, Null
    <2> QED BY <2>2, <1>1, <1>2, <1>5 DEF ListInv, Doubled
  <1>6. CASE /\ mCurrentThread # Null /\ mFinished[mCurrentThread]
             /\ mThreadList' = Tail(mThreadList)
    <2>1. PICK i \in 1 .. Len(mThreadList) - 1 : mThreadList[i] = mThreadList[i + 1]
      BY <1>2 DEF Doubled
    <2>2. /\ Tail(mThreadList) \in Seq(1 .. mThreads)
          /\ Len(Tail(mThreadList)) = Len(mThreadList) - 1
          /\ \A k \in 1 .. Len(mThreadList) - 1 : Tail(mThreadList)[k] = mThreadList[k + 1]
      BY <1>2, <1>3, HeadTailProperties
    <2>3. Len(mThreadList) - 1 \in 1 .. Len(mThreadList) - 1 /\ Len(mThreadList) - 1 > 0
      BY <2>1, <1>3
    <2>4. mThreadList' # <<>> /\ mThreadList'[Len(mThreadList')] = mThreads
      <3>1. Tail(mThreadList)[Len(mThreadList) - 1] = mThreadList[(Len(mThreadList) - 1) + 1]
        BY <2>2, <2>3
      <3>2. (Len(mThreadList) - 1) + 1 = Len(mThreadList)
        BY <1>3
      <3>3. Len(mThreadList') > 0 /\ mThreadList' \in Seq(1 .. mThreads)
        BY <1>6, <2>2, <2>3
      <3>4. mThreadList' # <<>>
        BY <3>3
      <3> QED BY <3>1, <3>2, <3>4, <1>2, <1>6, <2>2
    <2>5. Head(mThreadList') = mThreadList'[1] /\ Head(mThreadList') \in 1 .. mThreads
      <3> DEFINE tail == Tail(mThreadList)
      <3>1. tail \in Seq(1 .. mThreads) /\ tail # <<>>
        BY <2>2, <2>4, <1>6
      <3> HIDE DEF tail
      <3>2. Head(tail) = tail[1]
        BY <3>1
      <3>3. Head(tail) \in 1 .. mThreads
        BY <3>1, HeadTailProperties
      <3> QED BY <3>2, <3>3, <1>6 DEF tail
    <2>6. mCurrentThread' = mThreadList'[1] /\ mCurrentThread' # Null
      BY <2>4, <2>5, <1>4, <1>3 DEF Front, Null
    <2>7. CASE i = 1
      <3>1. 1 \in 1 .. Len(mThreadList) - 1
        BY <2>3, <1>3
      <3>2. mThreadList'[1] = mThreadList[2]
        BY <3>1, <2>2, <1>6
      <3>3. mThreadList[1] = mCurrentThread
        BY <1>6, <1>3 DEF FrontInv, CurrentIsFront
      <3>4. mCurrentThread' = mCurrentThread
        BY <2>1, <2>6, <2>7, <3>2, <3>3
      <3> QED BY <3>4, <2>4, <2>6, <1>1, <1>2, <1>6 DEF ListInv
    <2>8. CASE i # 1
      <3>1. /\ i - 1 \in 1 .. Len(mThreadList) - 1
            /\ i - 1 \in 1 .. (Len(mThreadList) - 1) - 1
            /\ i \in 1 .. Len(mThreadList) - 1
            /\ (i - 1) + 1 = i
        BY <2>8, <1>3
      <3>2. Tail(mThreadList)[i - 1] = mThreadList[i] /\ Tail(mThreadList)[i] = mThreadList[i + 1]
        BY <3>1, <2>2
      <3>3. Doubled'
        BY <3>1, <3>2, <2>1, <2>2, <1>6 DEF Doubled
      <3> QED BY <3>3, <2>4, <2>6, <1>1, <1>2 DEF ListInv
    <2> QED BY <2>7, <2>8
  <1> QED BY <1>1, <1>5, <1>6, FindFront

(* Every step keeps a doubled entry in front of Run, but for the start of a  *)
(* program that does not parse.                                              *)
LEMMA ListStep ==
  ASSUME FrontInv, ListInv, [Next]_vars, ~unparsed' PROVE ListInv'
  <1>0. mThreads \in Nat /\ mThreadList \in Seq(1 .. mThreads)
    BY MaxThreadsAssumption DEF FrontInv, TypeOK
  <1>1. CASE CreateThread
    <2>1. /\ AddThread /\ pc' = pc /\ pc = "idle"
      BY <1>1 DEF CreateThread
    <2>2. /\ mThreads + 1 \in Nat /\ mThreads <= mThreads + 1
          /\ mThreads + 1 \in 1 .. (mThreads + 1)
      BY <1>0
    <2>3. mThreads' = mThreads + 1 /\ mThreadList' = Append(mThreadList, mThreads + 1)
      BY <2>1 DEF AddThread, ScheduleThread
    <2>4. mThreadList' # <<>> /\ mThreadList'[Len(mThreadList')] = mThreads'
      BY <1>0, <2>2, <2>3, AppendFront
    <2> QED BY <2>1, <2>4 DEF ListInv, Running
  <1>2. ASSUME NEW parses \in BOOLEAN, RunProgram(parses) PROVE ListInv'
    <2>1. parses = TRUE /\ pc = "idle" /\ mThreads' = mThreads
      BY <1>2 DEF RunProgram
    <2>2. CASE mThreads = 0
      BY <2>1, <2>2, <1>2 DEF RunProgram, ListInv, Running
    <2>3. CASE mThreads > 0
      <3>1. pc' = "find" /\ mThreadList' = Append(mThreadList, mThreads)
        BY <2>1, <2>3, <1>2 DEF RunProgram, ScheduleThread
      <3>2. mThreadList # <<>> /\ mThreadList[Len(mThreadList)] = mThreads
        BY <2>1, <2>3 DEF ListInv
      <3>3. mThreads \in 1 .. mThreads /\ mThreads <= mThreads
        BY <1>0, <2>3
      <3>4. /\ Len(Append(mThreadList, mThreads)) = Len(mThreadList) + 1
            /\ Append(mThreadList, mThreads)[Len(mThreadList) + 1] = mThreads
            /\ Append(mThreadList, mThreads) # <<>>
            /\ \A i \in 1 .. Len(mThreadList) : Append(mThreadList, mThreads)[i] = mThreadList[i]
        BY <1>0, <3>3, AppendFront
      <3>5. Len(mThreadList) \in Nat \ {0}
        BY <1>0, <3>2, EmptySeq
      <3>6. Len(mThreadList) \in 1 .. Len(mThreadList)
            /\ Len(mThreadList) \in 1 .. (Len(mThreadList) + 1) - 1
        BY <3>5
      <3>7. Doubled'
        BY <3>1, <3>2, <3>4, <3>6 DEF Doubled
      <3> QED BY <3>1, <3>4, <3>7, <2>1, <2>3 DEF ListInv
    <2> QED BY <2>2, <2>3, <1>0
  <1>3. CASE Find
    BY <1>3, FindList
  <1>4. CASE Return
    BY <1>4 DEF Return, ListInv, Running
  <1>5. CASE Execute
    BY <1>5, ExecuteList DEF Execute
  <1>6. CASE Poll
    BY <1>6 DEF Poll, ListInv, Running, Doubled
  <1>7. CASE Tick
    BY <1>7 DEF Tick, ListInv, Doubled
  <1>8. CASE UNCHANGED vars
    BY <1>8 DEF vars, threadVars, ListInv, Doubled
  <1> QED
    BY <1>1, <1>2, <1>3, <1>4, <1>5, <1>6, <1>7, <1>8 DEF Next, Run

(* A program that did not parse stays on the record. *)
LEMMA UnparsedStays == [Next]_vars /\ unparsed => unparsed'
  BY DEF Next, Run, vars, CreateThread, RunProgram, Find, Return, Execute, Poll, Tick

(* Once a thread was made and as long as programs parse, Run never comes to  *)
(* a null thread (kernel.cpp:65), for any number of threads and programs.    *)
THEOREM NoNullThread == Spec => []NeverOutOfThreads
  <1> DEFINE J == unparsed \/ ListInv
  <1>1. Init => J
    BY DEF Init, ListInv, Running
  <1>2. FrontInv /\ J /\ [Next]_vars => J'
    BY ListStep, UnparsedStays
  <1>3. J => NeverOutOfThreads
    BY DEF ListInv, NeverOutOfThreads
  <1> QED
    BY <1>1, <1>2, <1>3, FrontAlways, PTL DEF Spec
============================================================================
