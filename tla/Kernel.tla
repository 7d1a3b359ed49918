------------------------------- MODULE Kernel -------------------------------
(***************************************************************************)
(* The kernel and its scheduler (Tostitos/kernel/kernel.cpp,               *)
(* scheduler.cpp) with the threads they run (Tostitos/threading/thread.cpp *)
(* and threadutil.cpp).                                                    *)
(*                                                                         *)
(* A thread's code is left open: what it does in one ExecuteOne is to      *)
(* finish when no node is left and otherwise to use up a node and to call  *)
(* at most one of the three kernel operations that threadutil.h offers to  *)
(* an executor.  Sleeping is kept as the clock ticks until the thread      *)
(* wakes up; IsSleeping asks for more than mTimeToWakeup whole seconds, so *)
(* Sleep(n) is n + 1 ticks.  Nothing calls Thread::Fork, so no thread has  *)
(* children; nothing calls Scheduler::TerminateThread.                     *)
(***************************************************************************)
EXTENDS Integers, Sequences

CONSTANTS
  MaxThreads,   \* bound: threads made
  MaxNodes,     \* bound: steps in the code of a thread
  SleepTimes    \* seconds a thread may sleep

Threads == 1 .. MaxThreads   \* thread t is entry t of mThreads
Null == 0

ASSUME MaxThreadsAssumption == MaxThreads \in Nat
ASSUME MaxNodesAssumption == MaxNodes \in Nat
ASSUME SleepAssumption == SleepTimes \subseteq Nat

VARIABLES
  mThreads,          \* number of threads the kernel owns
  mThreadList, mCurrentThread,
  mFinished, mWaitForChildren,
  asleep,            \* ticks until IsSleeping says no
  nodes,             \* steps left in the code of a thread
  pc,                \* where Kernel::Run is
  unparsed           \* history: some program given to RunProgram did not parse

threadVars == <<mFinished, mWaitForChildren, asleep, nodes>>
vars == <<mThreads, mThreadList, mCurrentThread, threadVars, pc, unparsed>>

Running == {"find", "test", "poll"}

TypeOK ==
  /\ mThreads \in 0 .. MaxThreads
  /\ mThreadList \in Seq(1 .. mThreads)
  /\ mCurrentThread \in 0 .. mThreads
  /\ mFinished \in [Threads -> BOOLEAN]
  /\ mWaitForChildren \in [Threads -> BOOLEAN]
  /\ asleep \in [Threads -> Nat]
  /\ nodes \in [Threads -> 0 .. MaxNodes]
  /\ pc \in Running \cup {"idle", "crashed"}
  /\ unparsed \in BOOLEAN

Init ==
  /\ mThreads = 0
  /\ mThreadList = <<>>
  /\ mCurrentThread = Null
  /\ mFinished = [t \in Threads |-> FALSE]
  /\ mWaitForChildren = [t \in Threads |-> FALSE]
  /\ asleep = [t \in Threads |-> 0]
  /\ nodes \in [Threads -> 0 .. MaxNodes]
  /\ pc = "idle"
  /\ unparsed = FALSE

----------------------------------------------------------------------------
(* Threads. *)

mChildren(t) == {}
IsWaitingForChildren(t) == mWaitForChildren[t] /\ mChildren(t) # {}
IsSleeping(t) == asleep[t] > 0

(* Asking a thread whether it waits takes its flag down once no child is left. *)
AskIsWaiting(t) ==
  mWaitForChildren' = [mWaitForChildren EXCEPT ![t] = IsWaitingForChildren(t)]

Sleep(t, n) == asleep' = [asleep EXCEPT ![t] = n + 1]
Barrier(t) == mWaitForChildren' = [mWaitForChildren EXCEPT ![t] = TRUE]

----------------------------------------------------------------------------
(* Scheduler. *)

ScheduleThread(t) == mThreadList' = Append(mThreadList, t)

(* std::find of t, then erase.  Erasing end() would be undefined; the action  *)
(* has no such case, and CurrentIsFront shows that it never comes up.         *)
EraseFirst(t) ==
  \E i \in DOMAIN mThreadList :
    /\ mThreadList[i] = t
    /\ \A j \in DOMAIN mThreadList : mThreadList[j] = t => i <= j
    /\ mThreadList' = SubSeq(mThreadList, 1, i - 1)
                        \o SubSeq(mThreadList, i + 1, Len(mThreadList))

Front(list) == IF list = <<>> THEN Null ELSE Head(list)

(* Mutant: passes over a stopped thread without moving it to the end. *)
FindNextTakesAnother ==
  \/ /\ mCurrentThread # Null
     /\ ~mFinished[mCurrentThread]
     /\ ~IsSleeping(mCurrentThread)
     /\ UNCHANGED <<mThreadList, mCurrentThread, mWaitForChildren>>
  \/ /\ mCurrentThread # Null
     /\ mFinished[mCurrentThread]
     /\ EraseFirst(mCurrentThread)
     /\ mCurrentThread' = Front(mThreadList')
     /\ UNCHANGED mWaitForChildren
  \/ /\ mCurrentThread # Null
        => ~mFinished[mCurrentThread] /\ IsSleeping(mCurrentThread)
     /\ mCurrentThread' = Front(SelectSeq(mThreadList, LAMBDA t : ~IsSleeping(t)))
     /\ UNCHANGED <<mThreadList, mWaitForChildren>>

FindNextThreadToRun ==
  LET t == mCurrentThread
  IN  \/ /\ t # Null
         /\ ~mFinished[t] /\ ~IsWaitingForChildren(t) /\ ~IsSleeping(t)
         /\ AskIsWaiting(t)
         /\ UNCHANGED <<mThreadList, mCurrentThread>>
      \/ /\ t # Null
         /\ ~mFinished[t] /\ (IsWaitingForChildren(t) \/ IsSleeping(t))
         /\ AskIsWaiting(t)
         /\ mCurrentThread' = Front(mThreadList)
         /\ UNCHANGED mThreadList
      \/ /\ t # Null
         /\ mFinished[t]
         /\ EraseFirst(t)
         /\ mCurrentThread' = Front(mThreadList')
         /\ UNCHANGED mWaitForChildren
      \/ /\ t = Null
         /\ mCurrentThread' = Front(mThreadList)
         /\ UNCHANGED <<mThreadList, mWaitForChildren>>

----------------------------------------------------------------------------
(* Kernel. *)

AddThread ==
  /\ mThreads < MaxThreads
  /\ mThreads' = mThreads + 1
  /\ ScheduleThread(mThreads + 1)

SleepFor(n) == Sleep(mCurrentThread, n)
Sync == Barrier(mCurrentThread)

(* Outside of Run: the program that holds the kernel makes a thread. *)
CreateThread ==
  /\ pc = "idle"
  /\ AddThread
  /\ UNCHANGED <<mCurrentThread, threadVars, pc, unparsed>>

(* Mutant: the program that parses is not scheduled at all. *)
RunProgramUnscheduled(parses) ==
  /\ pc = "idle"
  /\ pc' = IF parses /\ mThreads = 0 THEN "crashed" ELSE "find"
  /\ unparsed' = (unparsed \/ ~parses)
  /\ UNCHANGED <<mThreads, mThreadList, mCurrentThread, threadVars>>

(* Mutant: the last thread is asked for where there is none. *)
RunProgramBackOfEmpty(parses) ==
  /\ pc = "idle"
  /\ IF parses THEN ScheduleThread(mThreads) ELSE UNCHANGED mThreadList
  /\ pc' = "find"
  /\ unparsed' = (unparsed \/ ~parses)
  /\ UNCHANGED <<mThreads, mCurrentThread, threadVars>>

(* The main thread is made and dropped; what is scheduled is the last thread *)
(* the kernel already owns, and there must be one.                           *)
RunProgram(parses) ==
  /\ pc = "idle"
  /\ \/ /\ ~parses
        /\ pc' = "find"
        /\ UNCHANGED mThreadList
     \/ /\ parses
        /\ mThreads > 0
        /\ ScheduleThread(mThreads)
        /\ pc' = "find"
     \/ /\ parses
        /\ mThreads = 0
        /\ pc' = "crashed"
        /\ UNCHANGED mThreadList
  /\ unparsed' = (unparsed \/ ~parses)
  /\ UNCHANGED <<mThreads, mCurrentThread, threadVars>>

(* Both calls of FindNextThreadToRun in Run; the next use of a null thread    *)
(* ends the process.                                                          *)
Find ==
  /\ pc = "find"
  /\ FindNextThreadToRun
  /\ pc' = IF mCurrentThread' = Null THEN "crashed" ELSE "test"
  /\ UNCHANGED <<mThreads, mFinished, asleep, nodes, unparsed>>

(* The loop ends, and RunProgram returns. *)
Return ==
  /\ pc = "test"
  /\ mFinished[mCurrentThread]
  /\ pc' = "idle"
  /\ UNCHANGED <<mThreads, mThreadList, mCurrentThread, threadVars, unparsed>>

(* Mutant: the executor's answer that nothing is left is ignored. *)
ExecuteOneForever(t) ==
  \/ /\ nodes[t] = 0
     /\ UNCHANGED <<mThreads, mThreadList, threadVars>>
  \/ /\ nodes[t] > 0
     /\ nodes' = [nodes EXCEPT ![t] = @ - 1]
     /\ UNCHANGED <<mThreads, mThreadList, mFinished, mWaitForChildren, asleep>>

(* One step of a thread's executor, and what it calls. *)
ExecuteOne(t) ==
  \/ /\ nodes[t] = 0
     /\ mFinished' = [mFinished EXCEPT ![t] = TRUE]
     /\ UNCHANGED <<mThreads, mThreadList, mWaitForChildren, asleep, nodes>>
  \/ /\ nodes[t] > 0
     /\ nodes' = [nodes EXCEPT ![t] = @ - 1]
     /\ UNCHANGED mFinished
     /\ \/ UNCHANGED <<mThreads, mThreadList, mWaitForChildren, asleep>>
        \/ AddThread /\ UNCHANGED <<mWaitForChildren, asleep>>
        \/ /\ \E n \in SleepTimes : SleepFor(n)
           /\ UNCHANGED <<mThreads, mThreadList, mWaitForChildren>>
        \/ Sync /\ UNCHANGED <<mThreads, mThreadList, asleep>>

Execute ==
  /\ pc = "test"
  /\ ~mFinished[mCurrentThread]
  /\ ExecuteOne(mCurrentThread)
  /\ pc' = "poll"
  /\ UNCHANGED <<mCurrentThread, unparsed>>

(* IsSleeping() || IsWaitingForChildren() *)
Poll ==
  LET t == mCurrentThread
  IN  /\ pc = "poll"
      /\ pc' = IF IsSleeping(t) \/ IsWaitingForChildren(t) THEN "find" ELSE "test"
      /\ IF IsSleeping(t) THEN UNCHANGED mWaitForChildren ELSE AskIsWaiting(t)
      /\ UNCHANGED <<mThreads, mThreadList, mCurrentThread, mFinished, asleep, nodes,
                     unparsed>>

(* The clock, which runs between any two reads of it. *)
Tick ==
  /\ pc # "crashed"
  /\ \E t \in Threads : asleep[t] > 0
  /\ asleep' = [t \in Threads |-> IF asleep[t] > 0 THEN asleep[t] - 1 ELSE 0]
  /\ UNCHANGED <<mThreads, mThreadList, mCurrentThread, mFinished, mWaitForChildren,
                 nodes, pc, unparsed>>

Run == Find \/ Return \/ Execute \/ Poll

Next ==
  \/ CreateThread
  \/ \E parses \in BOOLEAN : RunProgram(parses)
  \/ Run
  \/ Tick

Spec == Init /\ [][Next]_vars

(* Run is the process's only thread of control: it goes on while it can.  The *)
(* clock and the holder of the kernel owe nothing.                            *)
FairSpec == Spec /\ WF_vars(Run)

----------------------------------------------------------------------------
(* Properties. *)

(* The thread that Run holds across two looks of the scheduler is always the *)
(* first one of the scheduler's list, so the erase of a finished thread      *)
(* never takes end() and never removes another thread's entry.               *)
CurrentIsFront ==
  mCurrentThread # Null => mThreadList # <<>> /\ Head(mThreadList) = mCurrentThread

(* Run leaves a thread only once it has finished: no sleep and no sync ever  *)
(* lets another thread in.                                                   *)
RunToCompletion ==
  [][mCurrentThread' # mCurrentThread =>
       mCurrentThread = Null \/ mFinished[mCurrentThread]]_vars

(* Run comes to an end when the code of its threads does, however long they  *)
(* sleep: it needs no tick of the clock.                                     *)
RunReturns == pc \in Running ~> pc \in {"idle", "crashed"}

(* As long as every program parses, the scheduler never runs out of threads  *)
(* in the middle of Run: the second entry RunProgram makes for the last      *)
(* thread stops Run before the list is empty.  Only a kernel without any     *)
(* thread ends the process.                                                  *)
NeverOutOfThreads == pc = "crashed" => mThreads = 0 \/ unparsed
============================================================================
