----------------------------- MODULE Jobs_proofs -----------------------------
(***************************************************************************)
(* Proofs about Jobs, for any number of tasks and CJob structures, any     *)
(* depth of the stacks and any servers.                                    *)
(***************************************************************************)
EXTENDS Jobs, SeqLemmas, FiniteSetTheorems, TLAPS

-----------------------------------------------------------------------------
(***************************************************************************)
(* The inductive invariant.                                                *)
(***************************************************************************)
\* No place of a queue's twice in the queues, or in those of the other kind.
JobsIn(queue) == UNION {ToSet(queue[t]) : t \in Task}
Distinct(queue) ==
  \A t, u \in Task : \A i \in DOMAIN queue[t], k \in DOMAIN queue[u] :
    queue[t][i] = queue[u][k] => t = u /\ i = k

\* The jobs that are in execution on the stacks, each in one place.
IsExe(call) == call.at = "code" /\ call.job # NULL
ExeJobs(stacks) ==
  {j \in Job : \E t \in Task : \E i \in DOMAIN stacks[t] :
                 IsExe(stacks[t][i]) /\ stacks[t][i].job = j}
ExeDistinct(stacks) ==
  \A t, u \in Task : \A i \in DOMAIN stacks[t], k \in DOMAIN stacks[u] :
    IsExe(stacks[t][i]) /\ IsExe(stacks[u][k]) /\ stacks[t][i].job = stacks[u][k].job
      => t = u /\ i = k

Waiting == JobsIn(next_waiting)
Done == JobsIn(next_done)
Exe == ExeJobs(code)

OneHolder ==
  /\ Distinct(next_waiting) /\ Distinct(next_done) /\ ExeDistinct(code)
  /\ Waiting \cap Done = {} /\ Waiting \cap Exe = {} /\ Done \cap Exe = {}
  /\ \A j \in Waiting \cup Done \cup Exe : job[j] # NULL

\* What a server has to do was asked of it, and Adam is not asked to exit.
AskedOfServer ==
  /\ \A t \in Task : \A j \in ToSet(next_waiting[t]) : job[j].srv = t
  /\ \A t \in Task : \A i \in DOMAIN code[t] :
       IsExe(code[t][i]) => job[code[t][i].job].srv = t
  /\ \A j \in Job : job[j] # NULL /\ "EXIT_ON_COMPLETE" \in job[j].flags => job[j].srv # Adam

\* The call a task begins with is not one that returns; a task that runs has one.
Bottom(call) == call.at = "serve" \/ (call.at = "code" /\ call.job = NULL)
StacksSound ==
  /\ \A t \in Task : code[t] # <<>> => Bottom(code[t][1])
  /\ \A t \in valid : ~Killed(t) => code[t] # <<>>
  /\ mode = "run" => ~Killed(Fs)

\* The Seth task is not killed: it is nobody's child or pop-up.
AdamSafe ==
  /\ ~Killed(Adam) /\ parent_task[Adam] = NULL
  /\ \A t \in Task : \A i \in DOMAIN code[t] : code[t][i].at = "asked" => code[t][i].task # Adam

\* A pop-up is a child of the task that waits for it, which was itself started.
PopUpIsChild ==
  \A t \in Task : popup_task[t] # NULL =>
    parent_task[popup_task[t]] = t /\ (t # Adam => parent_task[t] # NULL)

IInv == TypeOK /\ RingSound /\ OneHolder /\ AskedOfServer /\ StacksSound /\ AdamSafe /\ PopUpIsChild

-----------------------------------------------------------------------------
(***************************************************************************)
(* The ring.                                                               *)
(***************************************************************************)
\* The ring r links the tasks v, each once, from Adam on.
Links(r, v) == r \in Seq(Task) /\ IsInjective(r) /\ ToSet(r) = v /\ Head(r) = Adam

\* Place finds a task of the ring.
LEMMA PlaceIsThere ==
  ASSUME NEW r, NEW t \in ToSet(r)
  PROVE  Place(r, t) \in DOMAIN r /\ r[Place(r, t)] = t
<1>1. \E i \in DOMAIN r : r[i] = t
  BY DEF ToSet
<1> QED BY <1>1 DEF Place

\* The next of a task of the ring is one too.
LEMMA NextIsThere ==
  ASSUME NEW r \in Seq(Task), NEW t \in ToSet(r)
  PROVE  NextIn(r, t) \in ToSet(r)
<1>1. Place(r, t) \in 1 .. Len(r) /\ Len(r) \in Nat /\ DOMAIN r = 1 .. Len(r)
  BY PlaceIsThere
<1>2. (Place(r, t) % Len(r)) + 1 \in 1 .. Len(r)
  BY <1>1
<1> QED BY <1>1, <1>2 DEF NextIn, ToSet

\* TaskQueRem of any task but Adam.
LEMMA RemLinks ==
  ASSUME NEW v, Links(ring, v), NEW t \in v, t # Adam
  PROVE  Links(TaskQueRem(t), v \ {t})
<1> DEFINE k == Place(ring, t)
           r == TaskQueRem(t)
<1>1. /\ ring \in Seq(Task) /\ k \in DOMAIN ring /\ ring[k] = t
      /\ \A i, j \in DOMAIN ring : ring[i] = ring[j] => i = j
  BY PlaceIsThere DEF Links, IsInjective
<1>2. ring[1] = Adam /\ k \in 2 .. Len(ring) /\ DOMAIN ring = 1 .. Len(ring) /\ Len(ring) \in Nat
  <2>1. DOMAIN ring = 1 .. Len(ring) /\ Len(ring) \in Nat BY <1>1
  <2>2. ring[1] = Adam BY <1>1, <2>1 DEF Links
  <2> QED BY <1>1, <2>1, <2>2
<1> HIDE DEF k
<1>3. /\ r \in Seq(Task) /\ Len(r) = Len(ring) - 1
      /\ \A i \in 1 .. Len(ring) - 1 : r[i] = IF i < k THEN ring[i] ELSE ring[i + 1]
  BY <1>1, RemoveAtElements DEF TaskQueRem, Index, k
<1> HIDE DEF r
<1>4. DOMAIN r = 1 .. Len(ring) - 1
  BY <1>2, <1>3
<1>5. IsInjective(r)
  <2> SUFFICES ASSUME NEW i \in DOMAIN r, NEW j \in DOMAIN r, r[i] = r[j] PROVE i = j
    BY DEF IsInjective
  <2> DEFINE Was(x) == IF x < k THEN x ELSE x + 1
  <2>1. \A x \in DOMAIN r : Was(x) \in DOMAIN ring /\ r[x] = ring[Was(x)]
    BY <1>2, <1>3, <1>4
  <2>2. Was(i) = Was(j)
    BY <1>1, <2>1
  <2> QED BY <1>2, <1>4, <2>2
<1>6. Head(r) = Adam
  <2>1. 1 \in DOMAIN r /\ r[1] = Adam BY <1>2, <1>3, <1>4
  <2> QED BY <1>3, <2>1
<1>7. \A x \in ToSet(r) : x \in v \ {t}
  BY SMTT(60), <1>1, <1>2, <1>3, <1>4 DEF ToSet, Links
<1>8. \A x \in v \ {t} : x \in ToSet(r)
  <2> SUFFICES ASSUME NEW x \in v \ {t} PROVE x \in ToSet(r)
    OBVIOUS
  <2>1. PICK i \in 1 .. Len(ring) : ring[i] = x
    BY <1>2 DEF Links, ToSet
  <2>2. i # k
    BY <1>1, <2>1
  <2>3. CASE i < k
    <3>1. i \in DOMAIN r /\ r[i] = x BY <1>2, <1>3, <1>4, <2>1, <2>3
    <3> QED BY <3>1 DEF ToSet
  <2>4. CASE i > k
    <3>1. i - 1 \in DOMAIN r /\ r[i - 1] = x BY <1>2, <1>3, <1>4, <2>1, <2>4
    <3> QED BY <3>1 DEF ToSet
  <2> QED BY <1>2, <2>1, <2>2, <2>3, <2>4
<1> QED BY <1>3, <1>5, <1>6, <1>7, <1>8 DEF Links, r

\* TaskQueIns of a task that is not linked yet.
LEMMA InsLinks ==
  ASSUME NEW v, Links(ring, v), NEW t \in Task \ v, NEW pred \in v
  PROVE  Links(TaskQueIns(t, pred), v \cup {t})
<1> DEFINE r == TaskQueIns(t, pred)
           n == Len(ring)
<1>1. /\ ring \in Seq(Task) /\ n \in Nat /\ DOMAIN ring = 1 .. n
      /\ \A i, j \in DOMAIN ring : ring[i] = ring[j] => i = j
      /\ \A i \in DOMAIN ring : ring[i] # t
  BY DEF Links, IsInjective, ToSet
<1>2. n >= 1 /\ ring[1] = Adam
  BY <1>1 DEF Links, ToSet
<1>3. \E k \in 2 .. n + 1 :
        /\ r \in Seq(Task) /\ Len(r) = n + 1
        /\ \A i \in 1 .. n + 1 : r[i] = IF i < k THEN ring[i] ELSE IF i = k THEN t ELSE ring[i - 1]
  <2>1. CASE pred = Adam
    <3>1. r = Append(ring, t) BY <2>1 DEF TaskQueIns
    <3>2. /\ r \in Seq(Task) /\ Len(r) = n + 1 /\ r[n + 1] = t
          /\ \A i \in 1 .. n : r[i] = ring[i]
      BY <1>1, <3>1, AppendElements
    <3>3. n + 1 \in 2 .. n + 1 BY <1>1, <1>2
    <3> QED BY <1>1, <3>2, <3>3
  <2>2. CASE pred # Adam
    <3> DEFINE k == Place(ring, pred)
    <3>1. k \in DOMAIN ring /\ ring[k] = pred BY PlaceIsThere DEF Links
    <3>2. k \in 2 .. n + 1 BY <1>1, <1>2, <2>2, <3>1
    <3>3. r = InsertAt(ring, k, t) BY <2>2 DEF TaskQueIns, Index
    <3> HIDE DEF k, r
    <3>4. /\ r \in Seq(Task) /\ Len(r) = n + 1
          /\ \A i \in 1 .. n + 1 : r[i] = IF i < k THEN ring[i] ELSE IF i = k THEN t ELSE ring[i - 1]
      <4>1. ring \in Seq(Task) /\ k \in 1 .. Len(ring) + 1 /\ t \in Task
        BY <1>1, <3>1
      <4>2. /\ InsertAt(ring, k, t) \in Seq(Task) /\ Len(InsertAt(ring, k, t)) = n + 1
            /\ \A i \in 1 .. n + 1 : InsertAt(ring, k, t)[i] =
                 IF i < k THEN ring[i] ELSE IF i = k THEN t ELSE ring[i - 1]
        BY <4>1, InsertAtElements DEF n
      <4> QED BY <3>3, <4>2
    <3> QED BY <3>2, <3>4
  <2> QED BY <2>1, <2>2
<1> HIDE DEF r
<1>4. PICK k \in 2 .. n + 1 :
        /\ r \in Seq(Task) /\ Len(r) = n + 1
        /\ \A i \in 1 .. n + 1 : r[i] = IF i < k THEN ring[i] ELSE IF i = k THEN t ELSE ring[i - 1]
  BY <1>3
<1>5. DOMAIN r = 1 .. n + 1
  BY <1>1, <1>4
<1>6. IsInjective(r)
  <2> SUFFICES ASSUME NEW i \in DOMAIN r, NEW j \in DOMAIN r, r[i] = r[j] PROVE i = j
    BY DEF IsInjective
  <2> DEFINE Was(x) == IF x < k THEN x ELSE x - 1
  <2>1. \A x \in DOMAIN r : x # k => Was(x) \in DOMAIN ring /\ r[x] = ring[Was(x)]
    BY <1>1, <1>4, <1>5
  <2>2. r[k] = t /\ k \in DOMAIN r
    BY <1>1, <1>4, <1>5
  <2>3. CASE i = k \/ j = k
    BY <1>1, <2>1, <2>2, <2>3
  <2>4. CASE i # k /\ j # k
    <3>1. Was(i) = Was(j) BY <1>1, <2>1, <2>4
    <3> QED BY <1>1, <1>4, <1>5, <2>4, <3>1
  <2> QED BY <2>3, <2>4
<1>7. Head(r) = Adam
  BY <1>1, <1>2, <1>4, <1>5
<1>8. \A x \in ToSet(r) : x \in v \cup {t}
  BY <1>1, <1>4, <1>5 DEF ToSet, Links
<1>9. \A x \in v \cup {t} : x \in ToSet(r)
  <2>1. t \in ToSet(r)
    BY <1>1, <1>4, <1>5 DEF ToSet
  <2>2. ASSUME NEW x \in v PROVE x \in ToSet(r)
    <3>1. PICK i \in 1 .. n : ring[i] = x BY <1>1 DEF Links, ToSet
    <3>2. \E j \in DOMAIN r : r[j] = x
      <4>1. CASE i < k BY SMTT(60), <1>1, <1>4, <1>5, <3>1, <4>1
      <4>2. CASE i >= k
        <5>1. i + 1 \in DOMAIN r /\ r[i + 1] = x BY <1>1, <1>4, <1>5, <3>1, <4>2
        <5> QED BY <5>1
      <4> QED BY <1>1, <1>4, <3>1, <4>1, <4>2
    <3> QED BY <3>2 DEF ToSet
  <2> QED BY <2>1, <2>2
<1> QED BY <1>4, <1>6, <1>7, <1>8, <1>9 DEF Links, r

-----------------------------------------------------------------------------
(***************************************************************************)
(* Stacks, addresses and flags.                                            *)
(***************************************************************************)
Returning == {"handle", "asked", "wait", "get", "kill"}

\* The running task is in some call, and one that returns is not its first.
LEMMA Tops ==
  ASSUME TypeOK, StacksSound, mode = "run"
  PROVE  /\ Fs \in Task /\ Fs \in valid /\ ~Killed(Fs)
         /\ code[Fs] \in Seq(CallType) /\ code[Fs] # <<>>
         /\ Len(code[Fs]) \in Nat \ {0} /\ DOMAIN code[Fs] = 1 .. Len(code[Fs])
         /\ Top(Fs) = code[Fs][Len(code[Fs])] /\ Top(Fs) \in CallType
         /\ Front(code[Fs]) \in Seq(CallType) /\ Len(Front(code[Fs])) = Len(code[Fs]) - 1
         /\ \A i \in 1 .. Len(code[Fs]) - 1 : Front(code[Fs])[i] = code[Fs][i]
         /\ Top(Fs).at \in Returning \/ IsExe(Top(Fs)) => Len(code[Fs]) >= 2
<1>1. Fs \in Task /\ Fs \in valid /\ ~Killed(Fs) /\ code[Fs] \in Seq(CallType) /\ code[Fs] # <<>>
  BY DEF TypeOK, StacksSound
<1>2. /\ Len(code[Fs]) \in Nat \ {0} /\ DOMAIN code[Fs] = 1 .. Len(code[Fs])
      /\ Top(Fs) = code[Fs][Len(code[Fs])] /\ Top(Fs) \in CallType
      /\ Front(code[Fs]) \in Seq(CallType) /\ Len(Front(code[Fs])) = Len(code[Fs]) - 1
      /\ \A i \in 1 .. Len(code[Fs]) - 1 : Front(code[Fs])[i] = code[Fs][i]
  <2> DEFINE s == code[Fs]
  <2>1. s \in Seq(CallType) /\ s # <<>> /\ Top(Fs) = Last(s) BY <1>1 DEF Top
  <2> HIDE DEF s
  <2>2. DOMAIN s = 1 .. Len(s) BY <2>1
  <2>3. /\ Len(s) \in Nat \ {0} /\ Last(s) = s[Len(s)] /\ Last(s) \in CallType
        /\ Front(s) \in Seq(CallType) /\ Len(Front(s)) = Len(s) - 1
        /\ \A i \in 1 .. Len(s) - 1 : Front(s)[i] = s[i]
    BY <2>1, FrontElements
  <2> QED BY <2>1, <2>2, <2>3 DEF s
<1>3. Bottom(code[Fs][1])
  BY <1>1 DEF StacksSound
<1>4. Top(Fs).at \in Returning \/ IsExe(Top(Fs)) => Len(code[Fs]) >= 2
  BY <1>2, <1>3 DEF Bottom, Returning, IsExe
<1> QED BY <1>1, <1>2, <1>4

LEMMA NewJobIsFree ==
  ASSUME \E j \in Job : job[j] = NULL
  PROVE  NewJob \in Job /\ job[NewJob] = NULL
  BY DEF NewJob

LEMMA NewTaskIsFree ==
  ASSUME \E k \in Task : Unborn(k)
  PROVE  NewTask \in Task /\ NewTask # Adam /\ parent_task[NewTask] = NULL
<1>1. NewTask \in Task /\ Unborn(NewTask)
  BY DEF NewTask
<1> QED BY <1>1 DEF Unborn

\* An address without a parent is that of no task.
LEMMA UnbornIsNotValid ==
  ASSUME TypeOK, RingSound, NEW k \in Task, k # Adam, parent_task[k] = NULL
  PROVE  k \notin valid
  BY NullIsNothing DEF TypeOK, RingSound

TaskFlags == {"KILL_TASK", "SUSPENDED", "AWAITING_MSG", "IDLE"}
FlagTypes == task_flags \in [Task -> SUBSET TaskFlags]

\* What the flags are afterwards.
LEMMA FlagsAfter ==
  ASSUME FlagTypes, NEW t \in Task, NEW fl \in SUBSET TaskFlags
  PROVE  /\ SetFlags(t, fl) \in [Task -> SUBSET TaskFlags]
         /\ \A u \in Task : SetFlags(t, fl)[u] = task_flags[u] \cup IF u = t THEN fl ELSE {}
         /\ ClearFlags(t, fl) \in [Task -> SUBSET TaskFlags]
         /\ \A u \in Task : ClearFlags(t, fl)[u] = task_flags[u] \ IF u = t THEN fl ELSE {}
         /\ \A ts : /\ Kills(ts) \in [Task -> SUBSET TaskFlags]
                    /\ \A u \in Task : Kills(ts)[u] =
                         task_flags[u] \cup IF u \in ts THEN {"KILL_TASK"} ELSE {}
         /\ WakesServer(t) \in [Task -> SUBSET TaskFlags]
         /\ \A u \in Task : WakesServer(t)[u] =
              task_flags[u] \ IF u = t THEN {"IDLE", "AWAITING_MSG"} ELSE {}
         /\ Fs \in Task => /\ SuspendsMaster(t) \in [Task -> SUBSET TaskFlags]
                           /\ \A u \in Task : SuspendsMaster(t)[u] = WakesServer(t)[u]
                                \cup IF u = Fs THEN {"SUSPENDED"} ELSE {}
<1>1. /\ SetFlags(t, fl) \in [Task -> SUBSET TaskFlags]
      /\ \A u \in Task : SetFlags(t, fl)[u] = task_flags[u] \cup IF u = t THEN fl ELSE {}
  BY DEF FlagTypes, SetFlags
<1>2. \A f2 \in SUBSET TaskFlags :
      /\ ClearFlags(t, f2) \in [Task -> SUBSET TaskFlags]
      /\ \A u \in Task : ClearFlags(t, f2)[u] = task_flags[u] \ IF u = t THEN f2 ELSE {}
  BY DEF FlagTypes, ClearFlags
<1>3. \A ts : /\ Kills(ts) \in [Task -> SUBSET TaskFlags]
              /\ \A u \in Task : Kills(ts)[u] =
                   task_flags[u] \cup IF u \in ts THEN {"KILL_TASK"} ELSE {}
  BY DEF FlagTypes, Kills, TaskFlags
<1>4. /\ WakesServer(t) \in [Task -> SUBSET TaskFlags]
      /\ \A u \in Task : WakesServer(t)[u] =
           task_flags[u] \ IF u = t THEN {"IDLE", "AWAITING_MSG"} ELSE {}
  <2>1. {"IDLE", "AWAITING_MSG"} \in SUBSET TaskFlags BY DEF TaskFlags
  <2> QED BY <1>2, <2>1, Zenon DEF WakesServer
<1>5. Fs \in Task => /\ SuspendsMaster(t) \in [Task -> SUBSET TaskFlags]
                     /\ \A u \in Task : SuspendsMaster(t)[u] = WakesServer(t)[u]
                          \cup IF u = Fs THEN {"SUSPENDED"} ELSE {}
  BY <1>4 DEF SuspendsMaster, TaskFlags
<1> QED BY <1>1, <1>2, <1>3, <1>4, <1>5

-----------------------------------------------------------------------------
(***************************************************************************)
(* The ring and the running task, in every step.                           *)
(***************************************************************************)
RingPart ==
  /\ mode \in {"run", "sched", "idle"} /\ ran \in BOOLEAN /\ valid \subseteq Task
  /\ Fs \in valid /\ Links(ring, valid)

\* Most steps leave the ring alone; the task goes on or gives the CPU away.
Quiet ==
  /\ UNCHANGED <<ring, valid>>
  /\ Yield \/ UNCHANGED <<mode, Fs, ran>> \/ (mode' = "sched" /\ UNCHANGED <<Fs, ran>>)

LEMMA QuietKeeps ==
  ASSUME RingPart, Quiet
  PROVE  RingPart'
<1>1. ring \in Seq(Task) /\ Fs \in ToSet(ring) /\ ring' = ring /\ valid' = valid
  BY DEF RingPart, Links, Quiet
<1>2. Yield => Fs' \in valid
  <2>1. NextIn(ring, Fs) \in ToSet(ring) BY <1>1, NextIsThere
  <2> QED BY <1>1, <2>1 DEF Yield, RingPart, Links
<1> QED BY <1>1, <1>2 DEF RingPart, Quiet, Yield, Links

\* Which steps are not quiet.
LEMMA NextIsQuiet ==
  ASSUME Next
  PROVE  Quiet \/ Scheduler \/ PopUp \/ PopUpAlone
<1> USE DEF Quiet, Returns
<1>1. CASE CallAdam \/ AdamAsksItself
  BY <1>1 DEF CallAdam, AdamAsksItself
<1>2. CASE (\E t \in Task : Kill(t)) \/ (\E srv \in Servers : Ask(srv))
  BY <1>2 DEF Kill, Ask
<1>3. CASE TaskWait \/ AskAdam
  BY <1>3 DEF TaskWait, AskAdam
<1>4. CASE JobRunOne \/ SrvTaskCont \/ CodeExits \/ Works
  BY <1>4 DEF JobRunOne, SrvTaskCont, CodeExits, Works, Exit
<1>5. CASE JobDone
  <2>1. Exit \/ UNCHANGED <<mode, Fs, ran>>
    BY <1>5 DEF JobDone
  <2>2. UNCHANGED <<ring, valid>>
    BY <1>5 DEF JobDone
  <2> QED BY <2>1, <2>2 DEF Exit
<1>6. CASE JobResWait \/ JobResGet \/ AdamHasResult \/ PopUpHasResult \/ KillWait
  BY <1>6 DEF JobResWait, JobResGet, AdamHasResult, PopUpHasResult, KillWait
<1> QED BY <1>1, <1>2, <1>3, <1>4, <1>5, <1>6 DEF Next, Calls

\* The facts of IInv that the steps of the ring need.
LEMMA RingPartOf == ASSUME TypeOK, RingSound PROVE RingPart
  BY DEF TypeOK, RingSound, RingPart, Links

LEMMA SchedulerKeepsRing ==
  ASSUME IInv, Scheduler
  PROVE  RingPart'
<1>1. RingPart
  BY RingPartOf DEF IInv
<1>2. /\ ring \in Seq(Task) /\ Fs \in ToSet(ring) /\ Fs \in Task
      /\ NextTask(Fs) \in valid
  <2>1. ring \in Seq(Task) /\ Fs \in ToSet(ring) BY <1>1 DEF RingPart, Links
  <2> QED BY <1>1, <2>1, NextIsThere DEF RingPart, Links, NextTask
<1>3. CASE Restore
  BY <1>1, <1>3 DEF Restore, RingPart, Links
<1>4. CASE Skip
  BY <1>1, <1>2, <1>4 DEF Skip, RingPart, Links
<1>5. CASE EndPopUp
  <2>1. Fs # Adam
    BY <1>5 DEF IInv, AdamSafe, EndPopUp
  <2>2. parent_task[Fs] \in valid
    BY <1>1, <2>1 DEF IInv, RingSound, RingPart
  <2> QED BY <1>1, <1>5, <2>2 DEF EndPopUp, RingPart, Links
<1>6. CASE EndChildren
  BY <1>1, <1>2, <1>6 DEF EndChildren, RingPart, Links
<1>7. CASE TaskEnd
  <2>1. Fs # Adam
    BY <1>7 DEF IInv, AdamSafe, TaskEnd
  <2>2. ring' = TaskQueRem(Fs) /\ valid' = valid \ {Fs} /\ Fs' = NextTask(Fs)
        /\ UNCHANGED <<mode, ran>>
    BY <1>7 DEF TaskEnd
  <2>3. Links(ring', valid')
    BY <1>1, <2>1, <2>2, RemLinks DEF RingPart
  <2>4. NextTask(Fs) # Fs
    <3> DEFINE k == Place(ring, Fs)
    <3>1. k \in 1 .. Len(ring) /\ ring[k] = Fs /\ Len(ring) \in Nat
          /\ \A i, j \in 1 .. Len(ring) : ring[i] = ring[j] => i = j
      BY <1>1, <1>2, PlaceIsThere DEF RingPart, Links, IsInjective
    <3>2. ring[1] = Adam
      BY <1>1, <1>2 DEF RingPart, Links, ToSet
    <3>3. NextTask(Fs) = ring[(k % Len(ring)) + 1]
      BY DEF NextTask, NextIn
    <3> HIDE DEF k
    <3>4. k >= 2
      BY <2>1, <3>1, <3>2
    <3>5. (k % Len(ring)) + 1 \in 1 .. Len(ring) /\ (k % Len(ring)) + 1 # k
      <4>1. CASE k = Len(ring)
        BY <3>1, <3>4, <4>1
      <4>2. CASE k < Len(ring)
        BY <3>1, <3>4, <4>2
      <4> QED BY <3>1, <4>1, <4>2
    <3> QED BY <3>1, <3>3, <3>5
  <2> QED BY <1>1, <1>2, <2>2, <2>3, <2>4 DEF RingPart
<1> QED BY <1>3, <1>4, <1>5, <1>6, <1>7 DEF Scheduler

LEMMA SpawnKeepsRing ==
  ASSUME IInv, PopUp \/ PopUpAlone
  PROVE  RingPart'
<1>1. RingPart
  BY RingPartOf DEF IInv
<1>2. /\ NewTask \in Task \ valid
      /\ ring' = TaskQueIns(NewTask, Fs) /\ valid' = valid \cup {NewTask}
  <2>1. /\ \E k \in Task : Unborn(k)
        /\ ring' = TaskQueIns(NewTask, Fs) /\ valid' = valid \cup {NewTask}
    BY DEF PopUp, PopUpAlone, Spawn
  <2> QED BY <2>1, NewTaskIsFree, UnbornIsNotValid DEF IInv
<1>3. Links(ring', valid')
  BY <1>1, <1>2, InsLinks DEF RingPart
<1>4. Fs \in ToSet(ring') /\ ring' \in Seq(Task)
  BY <1>1, <1>2, <1>3 DEF RingPart, Links
<1>5. Yield => mode' = "sched" /\ Fs' \in valid' /\ UNCHANGED ran
  BY <1>3, <1>4, NextIsThere DEF Yield, Links
<1>6. Yield \/ UNCHANGED <<mode, Fs, ran>>
  BY DEF PopUp, PopUpAlone, Returns
<1> QED BY <1>1, <1>2, <1>3, <1>5, <1>6 DEF RingPart

LEMMA NextKeepsRing == ASSUME IInv, Next PROVE RingPart'
  BY NextIsQuiet, QuietKeeps, SchedulerKeepsRing, SpawnKeepsRing, RingPartOf DEF IInv

-----------------------------------------------------------------------------
(***************************************************************************)
(* The flags.                                                              *)
(***************************************************************************)
\* Adam is not killed, a task once killed is until it is gone, and no killed task
\* runs.
FlagPart ==
  /\ FlagTypes' /\ ~Killed(Adam)'
  /\ \A t \in valid' : Killed(t) => Killed(t)'
  /\ mode' = "run" => ~Killed(Fs)'

LEMMA SchedulerFlags == ASSUME IInv, Scheduler PROVE FlagPart
<1>1. FlagTypes /\ Fs \in Task /\ ~Killed(Adam) /\ Adam \in Task /\ mode = "sched"
  BY AdamIsTask DEF IInv, TypeOK, FlagTypes, TaskFlags, AdamSafe, Scheduler, Restore, Skip,
     EndPopUp, EndChildren, TaskEnd
<1>2. \A ts : /\ Kills(ts) \in [Task -> SUBSET TaskFlags]
              /\ \A u \in Task : Kills(ts)[u] =
                   task_flags[u] \cup IF u \in ts THEN {"KILL_TASK"} ELSE {}
  BY <1>1, FlagsAfter
<1>3. \A t \in valid' : t \in Task
  BY NextKeepsRing DEF RingPart, Next
<1>4. CASE Restore
  BY <1>1, <1>4 DEF Restore, FlagPart, FlagTypes, Killed
<1>5. CASE Skip
  BY <1>1, <1>5 DEF Skip, FlagPart, FlagTypes, Killed
<1>6. CASE EndPopUp
  <2>1. PICK ts : Adam \notin ts /\ task_flags' = Kills(ts)
    BY <1>6 DEF EndPopUp
  <2>2. mode' = "sched"
    BY <1>1, <1>6 DEF EndPopUp
  <2> QED BY <1>1, <1>2, <1>3, <2>1, <2>2 DEF FlagPart, FlagTypes, Killed
<1>7. CASE EndChildren
  <2>1. task_flags' = Kills(Children(Fs)) /\ mode' = "sched"
    BY <1>1, <1>7 DEF EndChildren
  <2>2. Adam \notin Children(Fs)
    BY <1>1, NullIsNothing DEF IInv, AdamSafe, Children
  <2> QED BY <1>1, <1>2, <1>3, <2>1, <2>2 DEF FlagPart, FlagTypes, Killed
<1>8. CASE TaskEnd
  <2>1. task_flags' = [task_flags EXCEPT ![Fs] = {}] /\ mode' = "sched" /\ valid' = valid \ {Fs}
    BY <1>1, <1>8 DEF TaskEnd
  <2> QED BY <1>1, <1>3, <2>1 DEF FlagPart, FlagTypes, Killed
<1> QED BY <1>4, <1>5, <1>6, <1>7, <1>8 DEF Scheduler

\* A running task that sets flags of its own or wakes others, kills nobody.
LEMMA NoKillFlags ==
  ASSUME IInv, Next, mode = "run", task_flags' \in [Task -> SUBSET TaskFlags],
         \A t \in Task : "KILL_TASK" \in task_flags'[t] <=> "KILL_TASK" \in task_flags[t],
         mode' = "run" => Fs' = Fs
  PROVE  FlagPart
<1>1. ~Killed(Adam) /\ Adam \in Task /\ ~Killed(Fs) /\ Fs \in Task
  BY Tops, AdamIsTask DEF IInv, AdamSafe
<1>2. \A t \in valid' : t \in Task
  BY NextKeepsRing DEF RingPart
<1> QED BY <1>1, <1>2 DEF FlagPart, FlagTypes, Killed

\* Nor is there one that stays in the CPU having killed.
LEMMA KillFlags ==
  ASSUME IInv, Next, task_flags' \in [Task -> SUBSET TaskFlags],
         \A t \in Task : "KILL_TASK" \in task_flags[t] => "KILL_TASK" \in task_flags'[t],
         "KILL_TASK" \notin task_flags'[Adam], mode' # "run"
  PROVE  FlagPart
<1>1. \A t \in valid' : t \in Task
  BY NextKeepsRing DEF RingPart
<1> QED BY <1>1 DEF FlagPart, FlagTypes, Killed

LEMMA CallFlags ==
  ASSUME IInv, Next, CallAdam \/ AdamAsksItself \/ PopUp \/ PopUpAlone \/ TaskWait \/ AskAdam
                       \/ \E srv \in Servers : Ask(srv)
  PROVE  FlagPart
<1> USE DEF Returns, MayCall, At, Yield, Spawn
<1>1. mode = "run" /\ FlagTypes /\ Fs \in Task /\ Adam \in Task
  BY Tops, AdamIsTask DEF IInv, TypeOK, FlagTypes, TaskFlags, CallAdam, AdamAsksItself, PopUp,
     PopUpAlone, TaskWait, AskAdam, Ask
<1>2. mode' = "run" => Fs' = Fs
  BY <1>1 DEF CallAdam, AdamAsksItself, PopUp, PopUpAlone, TaskWait, AskAdam, Ask
<1>3. \/ task_flags' = task_flags
      \/ \E srv \in Task : task_flags' = WakesServer(srv)
      \/ \E srv \in Task : task_flags' = SuspendsMaster(srv)
  <2>1. CASE CallAdam \/ TaskWait
    BY <2>1 DEF CallAdam, TaskWait
  <2>2. CASE AdamAsksItself \/ AskAdam
    BY <1>1, <2>2 DEF AdamAsksItself, AskAdam
  <2>3. CASE PopUp \/ PopUpAlone
    BY <2>3, NewTaskIsFree DEF PopUp, PopUpAlone
  <2>4. CASE \E srv \in Servers : Ask(srv)
    BY <2>4 DEF Ask, Accepts, TaskValidate, IInv, TypeOK
  <2> QED BY <2>1, <2>2, <2>3, <2>4
<1>4. /\ task_flags' \in [Task -> SUBSET TaskFlags]
      /\ \A t \in Task : "KILL_TASK" \in task_flags'[t] <=> "KILL_TASK" \in task_flags[t]
  <2>1. \A srv \in Task :
          /\ WakesServer(srv) \in [Task -> SUBSET TaskFlags]
          /\ SuspendsMaster(srv) \in [Task -> SUBSET TaskFlags]
          /\ \A u \in Task :
               /\ WakesServer(srv)[u] = task_flags[u] \ IF u = srv THEN {"IDLE", "AWAITING_MSG"} ELSE {}
               /\ SuspendsMaster(srv)[u] = WakesServer(srv)[u] \cup IF u = Fs THEN {"SUSPENDED"} ELSE {}
    BY <1>1, FlagsAfter
  <2> QED BY <1>1, <1>3, <2>1 DEF FlagTypes
<1> QED BY <1>1, <1>2, <1>4, NoKillFlags

LEMMA ServeFlags ==
  ASSUME IInv, Next, JobRunOne \/ SrvTaskCont \/ Works \/ JobResWait \/ JobResGet \/ AdamHasResult
  PROVE  FlagPart
<1> USE DEF Returns, At, Yield
<1>1. mode' = "run" => Fs' = Fs
  BY DEF JobRunOne, SrvTaskCont, Works, JobResWait, JobResGet, AdamHasResult
<1>2. mode = "run" /\ FlagTypes /\ Fs \in Task
  BY Tops DEF IInv, TypeOK, FlagTypes, TaskFlags, JobRunOne, SrvTaskCont, Works, JobResWait,
     JobResGet, AdamHasResult
<1>3. \/ task_flags' = task_flags
      \/ task_flags' = ClearFlags(Fs, {"IDLE"})
      \/ task_flags' = SetFlags(Fs, {"IDLE", "AWAITING_MSG"})
      \/ task_flags' = SetFlags(Fs, {"IDLE"})
  BY DEF JobRunOne, SrvTaskCont, Works, JobResWait, JobResGet, AdamHasResult
<1>4. {"IDLE"} \in SUBSET TaskFlags /\ {"IDLE", "AWAITING_MSG"} \in SUBSET TaskFlags
  BY DEF TaskFlags
<1>5. /\ task_flags' \in [Task -> SUBSET TaskFlags]
      /\ \A t \in Task : "KILL_TASK" \in task_flags'[t] <=> "KILL_TASK" \in task_flags[t]
  BY <1>2, <1>3, <1>4, FlagsAfter DEF FlagTypes
<1> QED BY <1>1, <1>2, <1>5, NoKillFlags

LEMMA JobDoneFlags == ASSUME IInv, Next, JobDone PROVE FlagPart
<1>1. mode = "run" /\ FlagTypes /\ Fs \in Task /\ Adam \in Task /\ ~Killed(Adam) /\ ~Killed(Fs)
  BY Tops, AdamIsTask DEF IInv, TypeOK, FlagTypes, TaskFlags, AdamSafe, JobDone, At
<1> DEFINE exits == "EXIT_ON_COMPLETE" \in job[Top(Fs).job].flags
<1>2. PICK wakes : task_flags' = [t \in Task |->
        (task_flags[t] \ IF t \in wakes THEN {"SUSPENDED"} ELSE {})
          \cup IF t = Fs /\ exits THEN {"KILL_TASK"} ELSE {}]
  BY DEF JobDone
<1>3. IF exits THEN mode' = "sched" ELSE UNCHANGED <<mode, Fs>>
  BY DEF JobDone, Exit, Returns
<1>4. exits => Fs # Adam
  <2>1. Top(Fs).job \in Job /\ IsExe(Top(Fs)) /\ Top(Fs) = code[Fs][Len(code[Fs])]
        /\ Len(code[Fs]) \in DOMAIN code[Fs]
    BY <1>1, Tops DEF IInv, JobDone, At, IsExe, CallType
  <2>2. job[Top(Fs).job].srv = Fs
    BY <1>1, <2>1 DEF IInv, AskedOfServer
  <2>3. job[Top(Fs).job] # NULL
    BY <1>1, <2>1 DEF IInv, OneHolder, Exe, ExeJobs
  <2> QED BY <2>1, <2>2, <2>3 DEF IInv, AskedOfServer
<1> HIDE DEF exits
<1>5. task_flags' \in [Task -> SUBSET TaskFlags]
  BY <1>1, <1>2 DEF FlagTypes, TaskFlags
<1>6. \A t \in Task : "KILL_TASK" \in task_flags'[t] <=> Killed(t) \/ (t = Fs /\ exits)
  BY <1>1, <1>2 DEF Killed
<1>7. CASE exits
  <2>1. "KILL_TASK" \notin task_flags'[Adam] /\ mode' # "run"
    BY <1>1, <1>3, <1>4, <1>6, <1>7
  <2>2. \A t \in Task : "KILL_TASK" \in task_flags[t] => "KILL_TASK" \in task_flags'[t]
    BY <1>6 DEF Killed
  <2> QED BY <1>5, <2>1, <2>2, KillFlags
<1>8. CASE ~exits
  <2>1. \A t \in Task : "KILL_TASK" \in task_flags'[t] <=> "KILL_TASK" \in task_flags[t]
    BY <1>6, <1>8 DEF Killed
  <2> QED BY <1>1, <1>3, <1>5, <1>8, <2>1, NoKillFlags
<1> QED BY <1>7, <1>8

LEMMA EndingFlags ==
  ASSUME IInv, Next, CodeExits \/ PopUpHasResult \/ KillWait \/ \E t \in Task : Kill(t)
  PROVE  FlagPart
<1> USE DEF Returns, At, Yield, MayCall
<1>1. mode = "run" /\ FlagTypes /\ Fs \in Task /\ Adam \in Task /\ ~Killed(Adam)
  BY Tops, AdamIsTask DEF IInv, TypeOK, FlagTypes, TaskFlags, AdamSafe, CodeExits,
     PopUpHasResult, KillWait, Kill
<1>2. {"KILL_TASK"} \in SUBSET TaskFlags
  BY DEF TaskFlags
<1>3. CASE task_flags' = task_flags /\ (mode' = "run" => Fs' = Fs)
  BY <1>1, <1>3, NoKillFlags DEF FlagTypes
<1>4. ASSUME NEW t \in Task, t # Adam, mode' = "sched",
             task_flags' = Kills({t}) \/ task_flags' = SetFlags(t, {"KILL_TASK"})
      PROVE  FlagPart
  <2>1. /\ task_flags' \in [Task -> SUBSET TaskFlags]
        /\ \A u \in Task : task_flags'[u] = task_flags[u] \cup IF u = t THEN {"KILL_TASK"} ELSE {}
    BY <1>1, <1>2, <1>4, FlagsAfter
  <2> QED BY <1>1, <1>4, <2>1, KillFlags DEF Killed
<1>5. CASE CodeExits
  BY <1>1, <1>4, <1>5 DEF CodeExits, Exit
<1>6. CASE \E t \in Task : Kill(t)
  BY <1>1, <1>4, <1>6 DEF Kill
<1>7. CASE KillWait
  BY <1>3, <1>7 DEF KillWait
<1>8. CASE PopUpHasResult
  <2> DEFINE t == Top(Fs).task
  <2>1. CASE TaskValidate(t)
    <3>1. t \in Task
      BY <2>1 DEF TaskValidate, IInv, TypeOK
    <3>2. t # Adam
      BY <1>1, <1>8, Tops DEF PopUpHasResult, IInv, AdamSafe
    <3>3. task_flags' = Kills({t}) /\ mode' = "sched"
      BY <1>8, <2>1 DEF PopUpHasResult
    <3> QED BY <1>4, <3>1, <3>2, <3>3
  <2>2. CASE ~TaskValidate(t)
    <3>1. task_flags' = task_flags /\ UNCHANGED <<mode, Fs>>
      BY <1>8, <2>2 DEF PopUpHasResult
    <3> QED BY <1>3, <3>1
  <2> QED BY <2>1, <2>2
<1> QED BY <1>5, <1>6, <1>7, <1>8

LEMMA NextFlags == ASSUME IInv, Next PROVE FlagPart
  BY SchedulerFlags, CallFlags, ServeFlags, JobDoneFlags, EndingFlags DEF Next, Calls

-----------------------------------------------------------------------------
(***************************************************************************)
(* Parents and pop-ups.                                                    *)
(***************************************************************************)
LinkPart ==
  /\ parent_task \in [Task -> Task \cup {NULL}] /\ popup_task \in [Task -> Task \cup {NULL}]
  /\ parent_task[Adam] = NULL /\ PopUpIsChild
  /\ \A t \in valid : /\ t # Adam => parent_task[t] \in valid
                      /\ popup_task[t] # NULL => popup_task[t] \in valid

LEMMA LinkPartOf == ASSUME IInv PROVE LinkPart
  BY DEF IInv, TypeOK, RingSound, AdamSafe, LinkPart

LEMMA NextIsUnlinking ==
  ASSUME Next
  PROVE  UNCHANGED <<valid, parent_task, popup_task>>
           \/ EndPopUp \/ TaskEnd \/ PopUp \/ PopUpAlone \/ PopUpHasResult
<1>1. CASE Scheduler
  BY <1>1 DEF Scheduler, Restore, Skip, EndChildren
<1>2. CASE Calls
  BY <1>2 DEF Calls, CallAdam, AdamAsksItself, Kill, Ask
<1>3. CASE TaskWait \/ AskAdam \/ JobRunOne \/ SrvTaskCont \/ JobDone \/ CodeExits \/ Works
  BY <1>3 DEF TaskWait, AskAdam, JobRunOne, SrvTaskCont, JobDone, CodeExits, Works
<1>4. CASE JobResWait \/ JobResGet \/ AdamHasResult \/ KillWait
  BY <1>4 DEF JobResWait, JobResGet, AdamHasResult, KillWait
<1> QED BY <1>1, <1>2, <1>3, <1>4 DEF Next

\* A pop-up that is nobody's any more.
LEMMA PopUpForgotten ==
  ASSUME LinkPart, NEW p \in Task, UNCHANGED <<valid, parent_task>>,
         popup_task' = [popup_task EXCEPT ![p] = NULL]
  PROVE  LinkPart'
<1>1. \A t \in Task : popup_task'[t] = IF t = p THEN NULL ELSE popup_task[t]
  BY DEF LinkPart
<1>2. valid \subseteq Task \/ \A t \in valid \ Task : popup_task'[t] = popup_task[t]
  BY DEF LinkPart
<1>3. popup_task' \in [Task -> Task \cup {NULL}]
  BY DEF LinkPart
<1>4. PopUpIsChild'
  BY <1>1 DEF LinkPart, PopUpIsChild
<1>5. \A t \in valid : popup_task'[t] # NULL => popup_task[t] = popup_task'[t]
  BY DEF LinkPart
<1> QED BY <1>3, <1>4, <1>5 DEF LinkPart

\* What a child and a pop-up that is started are linked to.
LEMMA SpawnLinks ==
  ASSUME IInv, NEW t \in Task, t # Adam, parent_task[t] = NULL, NEW p \in valid,
         valid' = valid \cup {t}, parent_task' = [parent_task EXCEPT ![t] = p],
         popup_task' = popup_task \/ popup_task' = [popup_task EXCEPT ![p] = t]
  PROVE  LinkPart'
<1>1. LinkPart /\ valid \subseteq Task /\ p \in Task /\ t \notin valid /\ Adam \in Task
  BY LinkPartOf, UnbornIsNotValid, AdamIsTask DEF IInv, TypeOK
<1>2. /\ \A u \in Task : popup_task[u] # NULL => parent_task[popup_task[u]] = u
      /\ popup_task[t] = NULL
  BY <1>1 DEF LinkPart, PopUpIsChild
<1>3. \A u \in Task : popup_task[u] # t
  BY <1>2, NullIsNothing
<1>4. /\ \A u \in Task : parent_task'[u] = IF u = t THEN p ELSE parent_task[u]
      /\ parent_task' \in [Task -> Task \cup {NULL}]
      /\ popup_task' \in [Task -> Task \cup {NULL}]
  BY <1>1 DEF LinkPart
<1>5. \A u \in Task : popup_task'[u] = popup_task[u] \/ (u = p /\ popup_task'[u] = t)
  BY <1>1 DEF LinkPart
<1>6. p # t /\ p # NULL /\ (p # Adam => parent_task[p] # NULL)
  BY <1>1, NullIsNothing DEF LinkPart
<1>7. PopUpIsChild'
  <2> SUFFICES ASSUME NEW u \in Task, popup_task'[u] # NULL
               PROVE  parent_task'[popup_task'[u]] = u /\ (u # Adam => parent_task'[u] # NULL)
    BY DEF PopUpIsChild
  <2>1. CASE popup_task'[u] = popup_task[u]
    <3>1. popup_task[u] # t /\ popup_task[u] \in Task /\ u # t
      BY <1>1, <1>2, <1>3, <2>1 DEF LinkPart
    <3> QED BY <1>1, <1>4, <2>1, <3>1 DEF LinkPart, PopUpIsChild
  <2>2. CASE u = p /\ popup_task'[u] = t
    BY <1>4, <1>6, <2>2
  <2> QED BY <1>5, <2>1, <2>2
<1>8. \A u \in valid' : /\ u # Adam => parent_task'[u] \in valid'
                        /\ popup_task'[u] # NULL => popup_task'[u] \in valid'
  BY <1>1, <1>2, <1>4, <1>5 DEF LinkPart
<1> QED BY <1>1, <1>4, <1>7, <1>8 DEF LinkPart

LEMMA NextLinks == ASSUME IInv, Next PROVE LinkPart'
<1>1. LinkPart /\ Fs \in Task /\ Fs \in valid /\ valid \subseteq Task
  BY LinkPartOf DEF IInv, TypeOK
<1>2. CASE UNCHANGED <<valid, parent_task, popup_task>>
  BY <1>1, <1>2 DEF LinkPart, PopUpIsChild
<1>3. CASE EndPopUp
  <2>1. Fs # Adam
    BY <1>3 DEF IInv, AdamSafe, EndPopUp
  <2>2. parent_task[Fs] \in Task
    BY <1>1, <2>1 DEF LinkPart
  <2> QED BY <1>1, <1>3, <2>2, PopUpForgotten DEF EndPopUp
<1>4. CASE PopUpHasResult
  BY <1>1, <1>4, PopUpForgotten DEF PopUpHasResult
<1>5. CASE TaskEnd
  <2>1. valid' = valid \ {Fs} /\ UNCHANGED <<parent_task, popup_task>> /\ ~IsPopUp(Fs)
        /\ Children(Fs) = {}
    BY <1>5 DEF TaskEnd
  <2>2. \A t \in valid' : t # Adam => parent_task[t] \in valid'
    BY <1>1, <2>1 DEF LinkPart, Children
  <2>3. \A t \in valid' : popup_task[t] # NULL => popup_task[t] \in valid'
    BY <1>1, <2>1, NullIsNothing DEF LinkPart, IsPopUp, PopUpIsChild
  <2> QED BY <1>1, <2>1, <2>2, <2>3 DEF LinkPart, PopUpIsChild
<1>6. CASE PopUp
  <2>1. /\ \E k \in Task : Unborn(k)
        /\ valid' = valid \cup {NewTask} /\ parent_task' = [parent_task EXCEPT ![NewTask] = Fs]
        /\ popup_task' = [popup_task EXCEPT ![Fs] = NewTask]
    BY <1>6 DEF PopUp, Spawn
  <2> QED BY <1>1, <2>1, NewTaskIsFree, SpawnLinks
<1>7. CASE PopUpAlone
  <2>1. /\ \E k \in Task : Unborn(k)
        /\ valid' = valid \cup {NewTask} /\ parent_task' = [parent_task EXCEPT ![NewTask] = Adam]
        /\ popup_task' = popup_task
    BY <1>7 DEF PopUpAlone, Spawn
  <2>2. Adam \in valid
    <3>1. Fs \in ToSet(ring) /\ ring \in Seq(Task) /\ Head(ring) = Adam
      BY <1>1 DEF IInv, RingSound, TypeOK
    <3>2. 1 \in DOMAIN ring /\ ring[1] = Adam
      BY <3>1 DEF ToSet
    <3> QED BY <3>2 DEF IInv, RingSound, ToSet
  <2> QED BY <2>1, <2>2, NewTaskIsFree, SpawnLinks
<1> QED BY <1>2, <1>3, <1>4, <1>5, <1>6, <1>7, NextIsUnlinking

-----------------------------------------------------------------------------
(***************************************************************************)
(* The stacks.                                                             *)
(***************************************************************************)
\* A call that may be put on a stack.
Callable(c) == c \in CallType /\ (c.at = "asked" => c.task # Adam)

StackTypes == code \in [Task -> Seq(CallType)]
StackPart ==
  /\ StackTypes
  /\ \A t \in Task : code[t] # <<>> => Bottom(code[t][1])
  /\ \A t \in Task : \A i \in DOMAIN code[t] : Callable(code[t][i])

\* A task's stack changes to s, those of the others do not.
Stacks(t, s) == code' = [code EXCEPT ![t] = s]

LEMMA StackPartOf == ASSUME IInv PROVE StackPart
<1>1. \A t \in Task : \A i \in DOMAIN code[t] : code[t][i] \in CallType
  BY DEF IInv, TypeOK
<1> QED BY <1>1 DEF IInv, TypeOK, StackPart, StackTypes, StacksSound, AdamSafe, Callable

\* The stacks stay sound when that of one task does.
LEMMA OneStack ==
  ASSUME StackPart, NEW t \in Task, NEW s \in Seq(CallType), Stacks(t, s),
         s # <<>> => Bottom(s[1]), \A i \in DOMAIN s : Callable(s[i])
  PROVE  StackPart' /\ code'[t] = s /\ \A u \in Task : u # t => code'[u] = code[u]
<1>1. code'[t] = s /\ \A u \in Task : u # t => code'[u] = code[u]
  BY DEF StackPart, StackTypes, Stacks
<1>2. StackTypes'
  BY DEF StackPart, StackTypes, Stacks
<1> QED BY <1>1, <1>2 DEF StackPart, Callable

LEMMA PushKeeps ==
  ASSUME StackPart, Fs \in Task, code[Fs] # <<>>, NEW c, Callable(c),
         Stacks(Fs, Append(code[Fs], c))
  PROVE  /\ StackPart' /\ code'[Fs] # <<>> /\ \A u \in Task : u # Fs => code'[u] = code[u]
         /\ DOMAIN code'[Fs] = 1 .. Len(code[Fs]) + 1 /\ code'[Fs][Len(code[Fs]) + 1] = c
         /\ \A i \in 1 .. Len(code[Fs]) : code'[Fs][i] = code[Fs][i]
<1> DEFINE s == code[Fs]
<1>1. /\ s \in Seq(CallType) /\ c \in CallType /\ s # <<>> /\ Bottom(s[1])
      /\ \A i \in DOMAIN s : Callable(s[i])
  BY DEF StackPart, StackTypes, Callable
<1> DEFINE r == Append(s, c)
<1> HIDE DEF s
<1>2. /\ r \in Seq(CallType) /\ r # <<>> /\ Len(s) \in Nat /\ DOMAIN s = 1 .. Len(s)
      /\ DOMAIN r = 1 .. Len(s) + 1
      /\ \A i \in 1 .. Len(s) : r[i] = s[i]
      /\ r[Len(s) + 1] = c
  BY <1>1, AppendElements
<1>3. Len(s) >= 1
  BY <1>1
<1> HIDE DEF r
<1>4. Bottom(r[1]) /\ \A i \in DOMAIN r : Callable(r[i])
  BY <1>1, <1>2, <1>3
<1>5. Stacks(Fs, r)
  BY DEF r, s
<1> QED BY <1>2, <1>4, <1>5, OneStack DEF s

LEMMA PopKeeps ==
  ASSUME StackPart, Fs \in Task, Len(code[Fs]) >= 2,
         Stacks(Fs, Front(code[Fs]))
  PROVE  /\ StackPart' /\ code'[Fs] # <<>> /\ \A u \in Task : u # Fs => code'[u] = code[u]
         /\ DOMAIN code'[Fs] = 1 .. Len(code[Fs]) - 1
         /\ \A i \in 1 .. Len(code[Fs]) - 1 : code'[Fs][i] = code[Fs][i]
<1> DEFINE s == code[Fs]
           r == Front(s)
<1>1. /\ s \in Seq(CallType) /\ s # <<>> /\ Bottom(s[1]) /\ Len(s) >= 2 /\ Len(s) \in Nat
      /\ \A i \in DOMAIN s : Callable(s[i])
  BY DEF StackPart, StackTypes
<1> HIDE DEF s
<1>2. /\ r \in Seq(CallType) /\ Len(r) = Len(s) - 1 /\ DOMAIN s = 1 .. Len(s)
      /\ \A i \in 1 .. Len(s) - 1 : r[i] = s[i]
  BY <1>1, FrontElements
<1> HIDE DEF r
<1>3. DOMAIN r = 1 .. Len(s) - 1 /\ r # <<>>
  BY <1>1, <1>2
<1>4. Bottom(r[1]) /\ \A i \in DOMAIN r : Callable(r[i])
  BY <1>1, <1>2, <1>3
<1>5. Stacks(Fs, r)
  BY DEF r, s
<1> QED BY <1>2, <1>3, <1>4, <1>5, OneStack DEF s

LEMMA SwapKeeps ==
  ASSUME StackPart, Fs \in Task, Len(code[Fs]) >= 2, NEW c, Callable(c),
         Stacks(Fs, Append(Front(code[Fs]), c))
  PROVE  /\ StackPart' /\ code'[Fs] # <<>> /\ \A u \in Task : u # Fs => code'[u] = code[u]
         /\ DOMAIN code'[Fs] = 1 .. Len(code[Fs]) /\ code'[Fs][Len(code[Fs])] = c
         /\ \A i \in 1 .. Len(code[Fs]) - 1 : code'[Fs][i] = code[Fs][i]
<1> DEFINE s == code[Fs]
           f == Front(s)
           r == Append(f, c)
<1>1. /\ s \in Seq(CallType) /\ s # <<>> /\ Bottom(s[1]) /\ Len(s) >= 2 /\ Len(s) \in Nat
      /\ \A i \in DOMAIN s : Callable(s[i]) /\ c \in CallType
  BY DEF StackPart, StackTypes, Callable
<1> HIDE DEF s
<1>2. /\ f \in Seq(CallType) /\ Len(f) = Len(s) - 1 /\ DOMAIN s = 1 .. Len(s)
      /\ \A i \in 1 .. Len(s) - 1 : f[i] = s[i]
  BY <1>1, FrontElements
<1> HIDE DEF f
<1>3. /\ r \in Seq(CallType) /\ r # <<>> /\ DOMAIN r = 1 .. Len(f) + 1
      /\ \A i \in 1 .. Len(f) : r[i] = f[i]
      /\ r[Len(f) + 1] = c
  BY <1>1, <1>2, AppendElements
<1> HIDE DEF r
<1>4. /\ DOMAIN r = 1 .. Len(s) /\ r[Len(s)] = c
      /\ \A i \in 1 .. Len(s) - 1 : r[i] = s[i]
  BY <1>1, <1>2, <1>3
<1>5. Bottom(r[1]) /\ \A i \in DOMAIN r : Callable(r[i])
  <2>1. \A i \in DOMAIN s : Callable(s[i]) BY <1>1
  <2> QED BY <1>1, <1>2, <1>4, <2>1
<1>6. Stacks(Fs, r)
  BY DEF r, f, s
<1> QED BY <1>3, <1>4, <1>5, <1>6, OneStack DEF s

LEMMA EmptyKeeps ==
  ASSUME StackPart, Fs \in Task, Stacks(Fs, <<>>)
  PROVE  StackPart' /\ code'[Fs] = <<>> /\ \A u \in Task : u # Fs => code'[u] = code[u]
<1>1. <<>> \in Seq(CallType) /\ \A i \in DOMAIN <<>> : Callable(<<>>[i])
  OBVIOUS
<1> QED BY <1>1, OneStack, Zenon

\* A task that is not killed has calls to go back to, also after the step; and no job
\* is in execution that was not already, in the same place.
NonEmpty == \A t \in valid : ~Killed(t) => code[t] # <<>>
NoNewExe ==
  \A t \in Task : \A i \in DOMAIN code'[t] :
    IsExe(code'[t][i]) => i \in DOMAIN code[t] /\ code'[t][i] = code[t][i]

LEMMA NonEmptyAfter ==
  ASSUME IInv, Next, NEW t \in Task, code'[t] # <<>> \/ t \notin valid' \/ Killed(t)',
         \A u \in Task \ {t} : code'[u] = code[u], UNCHANGED valid \/ valid' = valid \ {t}
  PROVE  NonEmpty'
<1>1. FlagPart /\ \A u \in valid' : u \in Task
  BY NextFlags, NextKeepsRing DEF RingPart
<1> QED BY <1>1 DEF FlagPart, NonEmpty, IInv, StacksSound

\* The steps that put a call on the stack of the task that runs, a job's apart.
LEMMA CallStacks ==
  ASSUME IInv, Next, CallAdam \/ AdamAsksItself \/ (\E t \in Task : Kill(t))
                       \/ \E srv \in Servers : Ask(srv)
  PROVE  StackPart' /\ NonEmpty' /\ NoNewExe
<1>1. /\ mode = "run" /\ Fs \in Task /\ StackPart /\ code[Fs] # <<>>
      /\ DOMAIN code[Fs] = 1 .. Len(code[Fs]) /\ Len(code[Fs]) \in Nat
  BY Tops, StackPartOf DEF IInv, CallAdam, AdamAsksItself, Kill, Ask, MayCall, At
<1>2. UNCHANGED valid /\ \E c : Callable(c) /\ ~IsExe(c) /\ Stacks(Fs, Append(code[Fs], c))
  <2> USE DEF Push, Stacks, Call, Callable, CallType, Places, IsExe
  <2>1. CASE CallAdam
    BY <2>1, AdamIsTask DEF CallAdam
  <2>2. CASE AdamAsksItself
    BY <2>2, NewJobIsFree DEF AdamAsksItself, TaskExe
  <2>3. CASE \E t \in Task : Kill(t)
    BY <2>3 DEF Kill
  <2>4. CASE \E srv \in Servers : Ask(srv)
    BY <2>4, NewJobIsFree DEF Ask, TaskExe
  <2> QED BY <2>1, <2>2, <2>3, <2>4
<1>3. PICK c : Callable(c) /\ ~IsExe(c) /\ Stacks(Fs, Append(code[Fs], c))
  BY <1>2
<1>4. /\ StackPart' /\ code'[Fs] # <<>> /\ \A u \in Task : u # Fs => code'[u] = code[u]
      /\ DOMAIN code'[Fs] = 1 .. Len(code[Fs]) + 1 /\ code'[Fs][Len(code[Fs]) + 1] = c
      /\ \A i \in 1 .. Len(code[Fs]) : code'[Fs][i] = code[Fs][i]
  BY <1>1, <1>3, PushKeeps
<1>5. NoNewExe
  BY SMTT(60), <1>1, <1>3, <1>4 DEF NoNewExe
<1> QED BY <1>1, <1>2, <1>4, <1>5, NonEmptyAfter

\* Those that return from a call, or exit.
LEMMA ReturnStacks ==
  ASSUME IInv, Next, JobDone \/ JobResGet \/ AdamHasResult \/ PopUpHasResult \/ KillWait
                       \/ AskAdam \/ CodeExits
  PROVE  StackPart' /\ NonEmpty' /\ NoNewExe
<1>1. /\ mode = "run" /\ Fs \in Task /\ StackPart /\ code[Fs] # <<>>
      /\ DOMAIN code[Fs] = 1 .. Len(code[Fs]) /\ Len(code[Fs]) \in Nat
      /\ Top(Fs).at \in Returning \/ IsExe(Top(Fs)) => Len(code[Fs]) >= 2
  BY ZenonT(60), Tops, StackPartOf DEF IInv, JobDone, JobResGet, AdamHasResult, PopUpHasResult, KillWait,
     AskAdam, CodeExits, At
<1>2. UNCHANGED valid
  BY DEF JobDone, JobResGet, AdamHasResult, PopUpHasResult, KillWait, AskAdam, CodeExits
<1>3. CASE UNCHANGED code
  BY <1>1, <1>2, <1>3, NonEmptyAfter DEF StackPart, StackTypes, Callable, NoNewExe
<1>4. CASE Len(code[Fs]) >= 2 /\ Stacks(Fs, Front(code[Fs]))
  <2>1. /\ StackPart' /\ code'[Fs] # <<>> /\ \A u \in Task : u # Fs => code'[u] = code[u]
        /\ DOMAIN code'[Fs] = 1 .. Len(code[Fs]) - 1
        /\ \A i \in 1 .. Len(code[Fs]) - 1 : code'[Fs][i] = code[Fs][i]
    BY <1>1, <1>4, PopKeeps
  <2>2. NoNewExe
    BY <1>1, <2>1 DEF NoNewExe
  <2> QED BY <1>1, <1>2, <2>1, <2>2, NonEmptyAfter
<1>5. ASSUME Len(code[Fs]) >= 2, NEW c, Callable(c), ~IsExe(c),
             Stacks(Fs, Append(Front(code[Fs]), c))
      PROVE  StackPart' /\ NonEmpty' /\ NoNewExe
  <2>1. /\ StackPart' /\ code'[Fs] # <<>> /\ \A u \in Task : u # Fs => code'[u] = code[u]
        /\ DOMAIN code'[Fs] = 1 .. Len(code[Fs]) /\ code'[Fs][Len(code[Fs])] = c
        /\ \A i \in 1 .. Len(code[Fs]) - 1 : code'[Fs][i] = code[Fs][i]
    BY <1>1, <1>5, SwapKeeps
  <2>2. NoNewExe
    BY <1>1, <1>5, <2>1 DEF NoNewExe
  <2> QED BY <1>1, <1>2, <2>1, <2>2, NonEmptyAfter
<1>6. CASE Stacks(Fs, <<>>) /\ "KILL_TASK" \in task_flags'[Fs]
  <2>1. StackPart' /\ code'[Fs] = <<>> /\ \A u \in Task : u # Fs => code'[u] = code[u]
    BY <1>1, <1>6, EmptyKeeps
  <2>2. NoNewExe
    BY <2>1 DEF NoNewExe
  <2>3. PICK t \in Task : t = Fs
    BY <1>1
  <2>4. Killed(t)'
    BY <1>6, <2>3 DEF Killed
  <2> QED BY <1>1, <1>2, <2>1, <2>2, <2>3, <2>4, NonEmptyAfter
<1> USE DEF Pop, Becomes, Stacks, At, Returning
<1>7. CASE JobDone
  <2>1. Len(code[Fs]) >= 2
    BY <1>1, <1>7 DEF JobDone, IsExe
  <2>2. CASE Pop
    BY <1>4, <2>1, <2>2
  <2>3. CASE "EXIT_ON_COMPLETE" \in job[Top(Fs).job].flags
    <3>1. Stacks(Fs, <<>>) /\ "KILL_TASK" \in task_flags'[Fs]
      BY <1>1, <1>7, <2>3 DEF JobDone, Exit
    <3> QED BY <1>6, <3>1
  <2>4. Pop \/ "EXIT_ON_COMPLETE" \in job[Top(Fs).job].flags
    BY <1>7 DEF JobDone
  <2> QED BY <2>2, <2>3, <2>4
<1>8. CASE JobResGet \/ AdamHasResult
  <2>1. Len(code[Fs]) >= 2 /\ Pop
    BY <1>1, <1>8 DEF JobResGet, AdamHasResult
  <2> QED BY <1>4, <2>1
<1>9. CASE KillWait
  BY <1>1, <1>3, <1>4, <1>9 DEF KillWait
<1>10. CASE PopUpHasResult
  <2> DEFINE c == Call("kill", NULL, Top(Fs).task)
  <2>1. Len(code[Fs]) >= 2 /\ (Pop \/ Becomes(c))
    BY <1>1, <1>10 DEF PopUpHasResult
  <2>2. Callable(c) /\ ~IsExe(c)
    <3>1. Top(Fs).task \in Task \cup {NULL}
      BY <1>1, Tops DEF IInv, CallType
    <3> QED BY <3>1 DEF Call, Callable, CallType, Places, IsExe
  <2> HIDE DEF c
  <2> QED BY <1>4, <1>5, <2>1, <2>2
<1>11. CASE AskAdam
  <2> DEFINE c == Call("asked", NewJob, NULL)
  <2>1. Len(code[Fs]) >= 2 /\ Becomes(c)
    BY <1>1, <1>11 DEF AskAdam
  <2>2. NewJob \in Job
    BY <1>11, NewJobIsFree DEF AskAdam, TaskExe
  <2>3. Callable(c) /\ ~IsExe(c)
    BY <2>2, AdamIsTask, NullIsNothing DEF Call, Callable, CallType, Places, IsExe
  <2> HIDE DEF c
  <2> QED BY <1>5, <2>1, <2>3
<1>12. CASE CodeExits
  <2>1. task_flags' = SetFlags(Fs, {"KILL_TASK"}) /\ Stacks(Fs, <<>>) /\ Fs' = Fs
    BY <1>12 DEF CodeExits, Exit
  <2>2. "KILL_TASK" \in task_flags'[Fs]
    BY <1>1, <2>1 DEF SetFlags, IInv, TypeOK
  <2> QED BY <1>6, <2>1, <2>2
<1> QED BY <1>7, <1>8, <1>9, <1>10, <1>11, <1>12

\* A job that is taken up is the one new job in execution.
LEMMA RunStacks ==
  ASSUME IInv, Next, JobRunOne
  PROVE  /\ StackPart' /\ NonEmpty'
         /\ \A t \in Task : \A i \in DOMAIN code'[t] :
              IsExe(code'[t][i]) =>
                \/ i \in DOMAIN code[t] /\ code'[t][i] = code[t][i]
                \/ t = Fs /\ i = Len(code[Fs]) + 1 /\ code'[t][i].job = Head(next_waiting[Fs])
<1>1. /\ mode = "run" /\ Fs \in Task /\ StackPart /\ code[Fs] # <<>>
      /\ DOMAIN code[Fs] = 1 .. Len(code[Fs]) /\ Len(code[Fs]) \in Nat
  BY Tops, StackPartOf DEF IInv, JobRunOne, At
<1> DEFINE c == Call("code", Head(next_waiting[Fs]), NULL)
<1>2. UNCHANGED valid /\ Stacks(Fs, Append(code[Fs], c)) /\ next_waiting[Fs] # <<>>
  BY DEF JobRunOne, Push, Stacks
<1>3. Head(next_waiting[Fs]) \in Job
  BY <1>1, <1>2 DEF IInv, TypeOK
<1>4. Callable(c) /\ c.job = Head(next_waiting[Fs])
  BY <1>3 DEF Call, Callable, CallType, Places
<1> HIDE DEF c
<1>5. /\ StackPart' /\ code'[Fs] # <<>> /\ \A u \in Task : u # Fs => code'[u] = code[u]
      /\ DOMAIN code'[Fs] = 1 .. Len(code[Fs]) + 1 /\ code'[Fs][Len(code[Fs]) + 1] = c
      /\ \A i \in 1 .. Len(code[Fs]) : code'[Fs][i] = code[Fs][i]
  BY <1>1, <1>2, <1>4, PushKeeps
<1>6. NonEmpty'
  BY <1>1, <1>2, <1>5, NonEmptyAfter
<1>7. ASSUME NEW t \in Task, NEW i \in DOMAIN code'[t], IsExe(code'[t][i])
      PROVE  \/ i \in DOMAIN code[t] /\ code'[t][i] = code[t][i]
             \/ t = Fs /\ i = Len(code[Fs]) + 1 /\ code'[t][i].job = Head(next_waiting[Fs])
  BY <1>1, <1>4, <1>5
<1> QED BY <1>5, <1>6, <1>7

\* A task that is started serves; its creator may wait for it.
LEMMA SpawnStacks ==
  ASSUME IInv, Next, PopUp \/ PopUpAlone
  PROVE  StackPart' /\ NonEmpty' /\ NoNewExe
<1>1. /\ mode = "run" /\ Fs \in Task /\ Fs \in valid /\ StackPart /\ code[Fs] # <<>>
      /\ DOMAIN code[Fs] = 1 .. Len(code[Fs]) /\ Len(code[Fs]) \in Nat
  BY Tops, StackPartOf DEF IInv, PopUp, PopUpAlone, MayCall, At
<1> DEFINE n == NewTask
           born == <<Call("serve", NULL, NULL)>>
<1>2. n \in Task /\ n \notin valid /\ n # Fs /\ n # Adam
  <2>1. \E k \in Task : Unborn(k) BY DEF PopUp, PopUpAlone, Spawn
  <2> QED BY <1>1, <2>1, NewTaskIsFree, UnbornIsNotValid DEF IInv
<1>3. /\ born \in Seq(CallType) /\ Len(born) = 1 /\ born[1] = Call("serve", NULL, NULL)
      /\ Callable(born[1]) /\ Bottom(born[1]) /\ ~IsExe(born[1]) /\ born # <<>>
  BY DEF Call, Callable, CallType, Places, Bottom, IsExe
<1> DEFINE c == Call("asked", NewJob, n)
<1>4. /\ valid' = valid \cup {n}
      /\ code' = [code EXCEPT ![n] = born, ![Fs] = Append(code[Fs], c)]
           \/ code' = [code EXCEPT ![n] = born, ![Fs] = code[Fs]]
  <2>1. CASE PopUp
    BY <2>1, <1>1, <1>2 DEF PopUp, Spawn, StackPart, StackTypes
  <2>2. CASE PopUpAlone
    BY <2>2, <1>1, <1>2 DEF PopUpAlone, Spawn, StackPart, StackTypes
  <2> QED BY <2>1, <2>2
<1>5. Callable(c) /\ ~IsExe(c)
  <2>1. NewJob \in Job
    <3>1. CASE PopUp BY <3>1, NewJobIsFree DEF PopUp, TaskExe
    <3>2. CASE PopUpAlone BY <3>2, NewJobIsFree DEF PopUpAlone, TaskExe
    <3> QED BY <3>1, <3>2
  <2> QED BY <1>2, <2>1 DEF Call, Callable, CallType, Places, IsExe
<1> HIDE DEF c, n, born
<1>6. code[Fs] \in Seq(CallType) /\ c \in CallType /\ Bottom(code[Fs][1]) /\ Len(code[Fs]) >= 1
      /\ \A i \in DOMAIN code[Fs] : Callable(code[Fs][i])
  BY <1>1, <1>5 DEF StackPart, StackTypes, Callable
<1>7. PICK s \in Seq(CallType) :
        /\ code' = [code EXCEPT ![n] = born, ![Fs] = s]
        /\ s # <<>> /\ Bottom(s[1])
        /\ \A i \in DOMAIN s : Callable(s[i])
        /\ \A i \in DOMAIN s : IsExe(s[i]) => i \in DOMAIN code[Fs] /\ s[i] = code[Fs][i]
  <2>1. CASE code' = [code EXCEPT ![n] = born, ![Fs] = code[Fs]]
    BY <1>1, <1>6, <2>1
  <2>2. CASE code' = [code EXCEPT ![n] = born, ![Fs] = Append(code[Fs], c)]
    <3> DEFINE s == Append(code[Fs], c)
    <3>1. /\ s \in Seq(CallType) /\ s # <<>> /\ DOMAIN s = 1 .. Len(code[Fs]) + 1
          /\ \A i \in 1 .. Len(code[Fs]) : s[i] = code[Fs][i]
          /\ s[Len(code[Fs]) + 1] = c
      BY <1>6, AppendElements
    <3> HIDE DEF s
    <3>2. /\ Bottom(s[1]) /\ \A i \in DOMAIN s : Callable(s[i])
          /\ \A i \in DOMAIN s : IsExe(s[i]) => i \in DOMAIN code[Fs] /\ s[i] = code[Fs][i]
      BY <1>1, <1>5, <1>6, <3>1
    <3>3. code' = [code EXCEPT ![n] = born, ![Fs] = s]
      BY <2>2 DEF s
    <3> QED BY <3>1, <3>2, <3>3
  <2> QED BY <1>4, <2>1, <2>2
<1>8. /\ code' \in [Task -> Seq(CallType)]
      /\ code'[n] = born /\ code'[Fs] = s
      /\ \A u \in Task : u # n /\ u # Fs => code'[u] = code[u]
  BY <1>1, <1>2, <1>3, <1>7 DEF StackPart, StackTypes
<1>9. DOMAIN born = {1}
  BY <1>3
<1>10. StackPart'
  BY ZenonT(60), <1>1, <1>2, <1>3, <1>7, <1>8, <1>9 DEF StackPart, StackTypes, Callable
<1>11. NoNewExe
  BY <1>3, <1>7, <1>8, <1>9 DEF NoNewExe
<1>12. NonEmpty'
  <2>1. FlagPart /\ \A u \in valid' : u \in Task
    BY NextFlags, NextKeepsRing DEF RingPart
  <2> QED BY <1>3, <1>4, <1>7, <1>8, <2>1 DEF FlagPart, NonEmpty, IInv, StacksSound
<1> QED BY <1>10, <1>11, <1>12

\* The scheduler and the steps that wait; a task that ends has no calls any more.
LEMMA QuietStacks ==
  ASSUME IInv, Next, Scheduler \/ TaskWait \/ SrvTaskCont \/ Works \/ JobResWait
  PROVE  StackPart' /\ NonEmpty' /\ NoNewExe
<1>1. StackPart /\ Fs \in Task
  BY StackPartOf DEF IInv, TypeOK
<1>2. CASE UNCHANGED <<code, valid>>
  <2>1. NonEmpty'
    BY <1>2, NextFlags DEF FlagPart, NonEmpty, IInv, StacksSound
  <2> QED BY <1>1, <1>2, <2>1 DEF StackPart, StackTypes, Callable, NoNewExe
<1>3. CASE TaskEnd
  <2>1. Stacks(Fs, <<>>) /\ valid' = valid \ {Fs}
    BY <1>3 DEF TaskEnd, Stacks
  <2>2. StackPart' /\ code'[Fs] = <<>> /\ \A u \in Task : u # Fs => code'[u] = code[u]
    BY <1>1, <2>1, EmptyKeeps
  <2>3. NoNewExe
    BY <2>2 DEF NoNewExe
  <2> QED BY <1>1, <2>1, <2>2, <2>3, NonEmptyAfter
<1> QED BY <1>2, <1>3 DEF Scheduler, Restore, Skip, EndPopUp, EndChildren, TaskWait,
     SrvTaskCont, Works, JobResWait

LEMMA NextStacks == ASSUME IInv, Next PROVE StackPart' /\ NonEmpty' /\ (JobRunOne \/ NoNewExe)
  BY CallStacks, ReturnStacks, RunStacks, SpawnStacks, QuietStacks DEF Next, Calls

-----------------------------------------------------------------------------
(***************************************************************************)
(* The queues and the jobs in them.                                        *)
(***************************************************************************)
Queues == [Task -> Seq(Job)]

\* The queue of t changes, those of the others do not.
OneQueue(q, q2, t) == q2 \in Queues /\ \A u \in Task : u # t => q2[u] = q[u]

LEMMA InQueue ==
  ASSUME NEW queue, NEW j
  PROVE  j \in JobsIn(queue) <=> \E t \in Task : \E i \in DOMAIN queue[t] : queue[t][i] = j
  BY DEF JobsIn, ToSet

\* A job that was in no place is queued last.
LEMMA QueueAppend ==
  ASSUME NEW q \in Queues, Distinct(q), NEW t \in Task, NEW j \in Job, j \notin JobsIn(q),
         NEW q2, OneQueue(q, q2, t), q2[t] = Append(q[t], j)
  PROVE  /\ Distinct(q2) /\ JobsIn(q2) = JobsIn(q) \cup {j}
         /\ \A u \in Task : ToSet(q2[u]) = ToSet(q[u]) \cup IF u = t THEN {j} ELSE {}
<1> DEFINE s == q[t]
           r == Append(s, j)
<1>1. s \in Seq(Job) BY DEF Queues
<1> HIDE DEF s
<1>2. /\ r \in Seq(Job) /\ Len(s) \in Nat /\ DOMAIN s = 1 .. Len(s) /\ DOMAIN r = 1 .. Len(s) + 1
      /\ \A i \in 1 .. Len(s) : r[i] = s[i]
      /\ r[Len(s) + 1] = j
  BY <1>1, AppendElements
<1>3. q2[t] = r BY DEF s
<1> HIDE DEF r
<1>4. q2 \in Queues /\ q2[t] = r /\ \A u \in Task : u # t => q2[u] = q[u]
  BY <1>3 DEF OneQueue
<1>5. \A u \in Task : \A i \in DOMAIN q[u] : q[u][i] # j
  BY InQueue
<1>6. \A u \in Task : \A i \in DOMAIN q2[u] :
        \/ i \in DOMAIN q[u] /\ q2[u][i] = q[u][i]
        \/ u = t /\ i = Len(s) + 1 /\ q2[u][i] = j
  BY <1>2, <1>4 DEF s
<1>7. \A u \in Task : \A i \in DOMAIN q[u] : i \in DOMAIN q2[u] /\ q2[u][i] = q[u][i]
  BY <1>2, <1>4 DEF s
<1>8. Distinct(q2)
  BY <1>5, <1>6 DEF Distinct
<1>9. Len(s) + 1 \in DOMAIN q2[t] /\ q2[t][Len(s) + 1] = j
  BY <1>2, <1>4
<1>10. \A u \in Task : ToSet(q2[u]) = ToSet(q[u]) \cup IF u = t THEN {j} ELSE {}
  BY <1>6, <1>7, <1>9 DEF ToSet
<1>11. JobsIn(q2) = JobsIn(q) \cup {j}
  <2>1. ASSUME NEW k \in JobsIn(q2) PROVE k \in JobsIn(q) \cup {j}
    <3>1. PICK u \in Task : k \in ToSet(q2[u])
      BY DEF JobsIn
    <3> QED BY <1>10, <3>1 DEF JobsIn
  <2>2. ASSUME NEW k \in JobsIn(q) PROVE k \in JobsIn(q2)
    <3>1. PICK u \in Task : k \in ToSet(q[u])
      BY DEF JobsIn
    <3> QED BY <1>10, <3>1 DEF JobsIn
  <2>3. j \in JobsIn(q2)
    BY <1>10 DEF JobsIn
  <2> QED BY <2>1, <2>2, <2>3
<1> QED BY <1>4, <1>8, <1>10, <1>11

\* The k-th job of a queue is taken out.
Without(r, s, k) ==
  r \in Seq(Job) /\ Len(r) = Len(s) - 1
    /\ \A i \in 1 .. Len(s) - 1 : r[i] = IF i < k THEN s[i] ELSE s[i + 1]

LEMMA QueueTake ==
  ASSUME NEW q \in Queues, Distinct(q), NEW t \in Task, NEW k \in DOMAIN q[t],
         NEW q2, OneQueue(q, q2, t), Without(q2[t], q[t], k)
  PROVE  /\ Distinct(q2) /\ JobsIn(q2) = JobsIn(q) \ {q[t][k]}
         /\ \A u \in Task : ToSet(q2[u]) \subseteq ToSet(q[u])
<1> DEFINE Was(u, i) == IF u = t /\ i >= k THEN i + 1 ELSE i
<1> DEFINE n == Len(q[t])
           r == q2[t]
<1>0. /\ r \in Seq(Job) /\ Len(r) = n - 1
      /\ \A i \in 1 .. n - 1 : r[i] = IF i < k THEN q[t][i] ELSE q[t][i + 1]
  BY DEF Without
<1> HIDE DEF r
<1>1. q[t] \in Seq(Job) /\ n \in Nat /\ DOMAIN q[t] = 1 .. n /\ k \in 1 .. n
  BY DEF Queues
<1>2. DOMAIN r = 1 .. n - 1
  BY <1>0, <1>1
<1>3. q2 \in Queues /\ q2[t] = r /\ \A u \in Task : u # t => q2[u] = q[u]
  BY DEF OneQueue, r
<1>4. \A u \in Task : DOMAIN q2[u] \subseteq Int
  <2>1. \A u \in Task : q2[u] \in Seq(Job) BY <1>3 DEF Queues
  <2> QED BY <2>1
<1>5. \A u \in Task : \A i \in DOMAIN q2[u] :
        Was(u, i) \in DOMAIN q[u] /\ q2[u][i] = q[u][Was(u, i)] /\ (u = t => Was(u, i) # k)
  BY SMTT(60), <1>0, <1>1, <1>2, <1>3, <1>4
<1>6. Distinct(q2)
  <2> SUFFICES ASSUME NEW u \in Task, NEW v \in Task, NEW i \in DOMAIN q2[u], NEW m \in DOMAIN q2[v],
                      q2[u][i] = q2[v][m]
               PROVE  u = v /\ i = m
    BY DEF Distinct
  <2>1. u = v /\ Was(u, i) = Was(v, m)
    BY <1>5 DEF Distinct
  <2> QED BY <1>1, <1>4, <2>1
<1>7. \A u \in Task : ToSet(q2[u]) \subseteq ToSet(q[u])
  BY <1>5 DEF ToSet
<1>8. q[t][k] \notin JobsIn(q2)
  <2> SUFFICES ASSUME q[t][k] \in JobsIn(q2) PROVE FALSE
    OBVIOUS
  <2>0. PICK u \in Task : \E i \in DOMAIN q2[u] : q2[u][i] = q[t][k]
    BY DEF JobsIn, ToSet
  <2> PICK i \in DOMAIN q2[u] : q2[u][i] = q[t][k]
    BY <2>0
  <2>1. u = t /\ Was(u, i) = k
    BY <1>5 DEF Distinct
  <2> QED BY <1>5, <2>1
<1>9. ASSUME NEW j \in JobsIn(q), j # q[t][k] PROVE j \in JobsIn(q2)
  <2>0. PICK u \in Task : \E i \in DOMAIN q[u] : q[u][i] = j
    BY <1>9, InQueue
  <2>1. PICK i \in DOMAIN q[u] : q[u][i] = j
    BY <2>0
  <2>2. CASE u # t
    BY <1>3, <2>1, <2>2, InQueue
  <2>3. CASE u = t /\ i < k
    <3>1. i \in 1 .. n - 1
      <4>1. i \in 1 .. n /\ k \in 1 .. n /\ n \in Nat /\ i < k
        BY <1>1, <2>3
      <4> HIDE DEF n
      <4> QED BY <4>1
    <3>2. i \in DOMAIN q2[t] /\ q2[t][i] = q[t][i]
      BY <1>0, <1>2, <1>3, <2>3, <3>1
    <3> QED BY <2>1, <2>3, <3>2 DEF JobsIn, ToSet
  <2>4. CASE u = t /\ i > k
    <3>1. PICK m \in 1 .. n - 1 : i = m + 1
      <4>1. i \in 1 .. n /\ k \in 1 .. n /\ n \in Nat /\ i > k
        BY <1>1, <2>4
      <4> HIDE DEF n
      <4>2. i - 1 \in 1 .. n - 1 /\ i = (i - 1) + 1
        BY <4>1
      <4> QED BY <4>2
    <3>2. ~(m < k)
      BY <1>1, <2>4, <3>1
    <3>3. m \in DOMAIN q2[t] /\ q2[t][m] = j
      BY <1>0, <1>2, <1>3, <2>1, <2>4, <3>1, <3>2
    <3> QED BY <3>3 DEF JobsIn, ToSet
  <2> QED BY <1>1, <1>9, <2>1, <2>2, <2>3, <2>4
<1>10. JobsIn(q2) \subseteq JobsIn(q)
  BY <1>7 DEF JobsIn
<1> QED BY <1>3, <1>6, <1>7, <1>8, <1>9, <1>10

\* A queue is emptied.
LEMMA QueueEmpty ==
  ASSUME NEW q \in Queues, Distinct(q), NEW t \in Task,
         NEW q2, OneQueue(q, q2, t), q2[t] = <<>>
  PROVE  /\ Distinct(q2) /\ JobsIn(q2) = JobsIn(q) \ ToSet(q[t])
         /\ \A u \in Task : ToSet(q2[u]) \subseteq ToSet(q[u])
<1>1. q2 \in Queues /\ q2[t] = <<>> /\ \A u \in Task : u # t => q2[u] = q[u]
  BY DEF OneQueue
<1>2. DOMAIN q2[t] = {}
  BY <1>1
<1>3. Distinct(q2)
  BY <1>1, <1>2 DEF Distinct
<1>4. \A u \in Task : ToSet(q2[u]) = IF u = t THEN {} ELSE ToSet(q[u])
  BY <1>1, <1>2 DEF ToSet
<1>5. \A u \in Task : u # t => ToSet(q[u]) \cap ToSet(q[t]) = {}
  BY DEF Distinct, ToSet
<1>6. JobsIn(q2) = JobsIn(q) \ ToSet(q[t])
  <2>1. \A j : j \in JobsIn(q2) <=> \E u \in Task : j \in ToSet(q2[u])
    BY DEF JobsIn
  <2>2. \A j : j \in JobsIn(q) <=> \E u \in Task : j \in ToSet(q[u])
    BY DEF JobsIn
  <2>3. ASSUME NEW j \in JobsIn(q2) PROVE j \in JobsIn(q) \ ToSet(q[t])
    BY <1>4, <1>5, <2>1, <2>2, <2>3
  <2>4. ASSUME NEW j \in JobsIn(q) \ ToSet(q[t]) PROVE j \in JobsIn(q2)
    BY <1>4, <2>1, <2>2, <2>4
  <2> QED BY <2>3, <2>4
<1>7. \A u \in Task : ToSet(q2[u]) \subseteq ToSet(q[u])
  BY <1>4
<1> QED BY <1>3, <1>6, <1>7

\* The jobs in execution are fewer, or the same.
LEMMA ExeAfter ==
  ASSUME NoNewExe, ExeDistinct(code)
  PROVE  ExeDistinct(code)' /\ Exe' \subseteq Exe
  BY DEF NoNewExe, ExeDistinct, Exe, ExeJobs

DataPart ==
  /\ next_waiting \in Queues /\ next_done \in Queues /\ job \in [Job -> CJob \cup {NULL}]
  /\ OneHolder /\ AskedOfServer

LEMMA DataPartOf == ASSUME IInv PROVE DataPart
  BY DEF IInv, TypeOK, DataPart, Queues

LEMMA KeptJobs ==
  ASSUME DataPart
  PROVE  /\ Waiting \subseteq Job /\ Done \subseteq Job /\ Exe \subseteq Job
         /\ \A t \in Task : ToSet(next_waiting[t]) \subseteq Waiting
         /\ \A t \in Task : ToSet(next_done[t]) \subseteq Done
         /\ \A t \in Task : \A i \in DOMAIN code[t] :
              IsExe(code[t][i]) /\ code[t][i].job \in Job => code[t][i].job \in Exe
<1>1. \A t \in Task : ToSet(next_waiting[t]) \subseteq Job /\ ToSet(next_done[t]) \subseteq Job
  BY DEF DataPart, Queues, ToSet
<1> QED BY <1>1 DEF Waiting, Done, JobsIn, Exe, ExeJobs

\* The queues and the jobs do not change, and no new job is in execution.
LEMMA SameData ==
  ASSUME DataPart, UNCHANGED jobVars, NoNewExe
  PROVE  DataPart'
<1>1. UNCHANGED <<next_waiting, next_done, job, Waiting, Done>>
  BY DEF jobVars, Waiting, Done
<1>2. ExeDistinct(code)' /\ Exe' \subseteq Exe
  BY ExeAfter DEF DataPart, OneHolder
<1>3. OneHolder'
  BY <1>1, <1>2 DEF DataPart, OneHolder
<1>4. AskedOfServer'
  BY <1>1 DEF DataPart, AskedOfServer, NoNewExe
<1> QED BY <1>1, <1>3, <1>4 DEF DataPart, Queues

\* TaskExe
LEMMA AskData ==
  ASSUME DataPart, StackPart, NoNewExe, NEW srv \in Task, NEW master \in Task \cup {NULL},
         NEW flags \in SUBSET {"WAKE_MASTER", "EXIT_ON_COMPLETE", "FREE_ON_COMPLETE", "DONE"},
         "EXIT_ON_COMPLETE" \in flags => srv # Adam,
         TaskExe(srv, master, flags)
  PROVE  DataPart'
<1> DEFINE j == NewJob
           cjob == [srv |-> srv, master |-> master, flags |-> flags]
<1>1. j \in Job /\ job[j] = NULL
  BY NewJobIsFree DEF TaskExe
<1>2. /\ job' = [job EXCEPT ![j] = cjob] /\ UNCHANGED next_done
      /\ next_waiting' = [next_waiting EXCEPT ![srv] = Append(next_waiting[srv], j)]
  BY DEF TaskExe
<1> HIDE DEF j
<1>3. cjob \in CJob /\ cjob # NULL
  BY NullIsNoRecord DEF CJob
<1>4. cjob.srv = srv /\ cjob.flags = flags
  OBVIOUS
<1> HIDE DEF cjob
<1>5. /\ job' \in [Job -> CJob \cup {NULL}] /\ job'[j] = cjob
      /\ \A k \in Job : k # j => job'[k] = job[k]
  BY <1>1, <1>2, <1>3 DEF DataPart
<1>6. j \notin Waiting /\ j \notin Done /\ j \notin Exe
  BY <1>1 DEF DataPart, OneHolder
<1>7. /\ next_waiting' \in Queues /\ Distinct(next_waiting')
      /\ JobsIn(next_waiting') = Waiting \cup {j}
      /\ \A u \in Task : ToSet(next_waiting'[u]) = ToSet(next_waiting[u]) \cup IF u = srv THEN {j} ELSE {}
  <2>1. next_waiting \in Queues /\ Distinct(next_waiting) /\ j \notin JobsIn(next_waiting)
    BY <1>6 DEF DataPart, OneHolder, Waiting
  <2>2. /\ OneQueue(next_waiting, next_waiting', srv)
        /\ next_waiting'[srv] = Append(next_waiting[srv], j)
    BY <1>1, <1>2, <2>1 DEF Queues, OneQueue
  <2> QED BY <1>1, <2>1, <2>2, QueueAppend DEF Waiting, OneQueue
<1>8. Waiting' = Waiting \cup {j} /\ Done' = Done
  BY <1>2, <1>7 DEF Waiting, Done
<1>9. ExeDistinct(code)' /\ Exe' \subseteq Exe
  BY ExeAfter DEF DataPart, OneHolder
<1>10. OneHolder'
  <2>1. \A k \in Waiting' \cup Done' \cup Exe' : job'[k] # NULL
    BY <1>3, <1>5, <1>8, <1>9, KeptJobs DEF DataPart, OneHolder
  <2>2. Distinct(next_done')
    BY <1>2 DEF DataPart, OneHolder
  <2> QED BY <1>6, <1>7, <1>8, <1>9, <2>1, <2>2 DEF DataPart, OneHolder
<1>11. AskedOfServer'
  <2>1. \A t \in Task : \A k \in ToSet(next_waiting'[t]) : job'[k].srv = t
    BY <1>4, <1>5, <1>6, <1>7, KeptJobs DEF DataPart, AskedOfServer
  <2>2. ASSUME NEW t \in Task, NEW i \in DOMAIN code'[t], IsExe(code'[t][i])
        PROVE  job'[code'[t][i].job].srv = t
    <3>1. i \in DOMAIN code[t] /\ code'[t][i] = code[t][i] /\ IsExe(code[t][i])
      BY <2>2 DEF NoNewExe
    <3>2. code[t][i].job \in Job
      BY <3>1 DEF StackPart, Callable, CallType, IsExe
    <3>3. code[t][i].job \in Exe
      BY <3>1, <3>2, KeptJobs
    <3>4. job'[code[t][i].job] = job[code[t][i].job]
      BY <1>5, <1>6, <3>2, <3>3
    <3> QED BY <3>1, <3>4 DEF DataPart, AskedOfServer
  <2>3. \A k \in Job : job'[k] # NULL /\ "EXIT_ON_COMPLETE" \in job'[k].flags => job'[k].srv # Adam
    BY <1>4, <1>5 DEF DataPart, AskedOfServer
  <2> QED BY <2>1, <2>2, <2>3 DEF AskedOfServer
<1> QED BY <1>2, <1>5, <1>7, <1>10, <1>11 DEF DataPart

\* A job moves on: it is not asked for again, and what is left behind is free.
Kept(j) ==
  job'[j] # NULL => /\ job[j] # NULL /\ job'[j].srv = job[j].srv
                    /\ "EXIT_ON_COMPLETE" \in job'[j].flags => "EXIT_ON_COMPLETE" \in job[j].flags

LEMMA MovedData ==
  ASSUME DataPart, StackPart',
         next_waiting' \in Queues, Distinct(next_waiting'),
         \A u \in Task : ToSet(next_waiting'[u]) \subseteq ToSet(next_waiting[u]),
         next_done' \in Queues, Distinct(next_done'),
         ExeDistinct(code'),
         \A t \in Task : \A i \in DOMAIN code'[t] :
           IsExe(code'[t][i]) => job[code'[t][i].job].srv = t,
         Waiting' \cap Done' = {}, Waiting' \cap Exe' = {}, Done' \cap Exe' = {},
         job' \in [Job -> CJob \cup {NULL}],
         \A k \in Job : Kept(k),
         \A k \in Waiting' \cup Done' \cup Exe' : job'[k] # NULL
  PROVE  DataPart'
<1>1. OneHolder'
  BY DEF OneHolder
<1>2. Waiting' \subseteq Job /\ Waiting' \subseteq Waiting
        /\ \A t \in Task : ToSet(next_waiting'[t]) \subseteq Waiting'
  <2>1. \A t \in Task : ToSet(next_waiting'[t]) \subseteq Job
    BY DEF Queues, ToSet
  <2> QED BY <2>1 DEF Waiting, JobsIn
<1>3. \A t \in Task : \A k \in ToSet(next_waiting'[t]) : job'[k].srv = t
  BY <1>2 DEF DataPart, AskedOfServer, Kept
<1>4. ASSUME NEW t \in Task, NEW i \in DOMAIN code'[t], IsExe(code'[t][i])
      PROVE  job'[code'[t][i].job].srv = t
  <2>1. code'[t][i].job \in Job
    BY <1>4 DEF StackPart, Callable, CallType, IsExe
  <2>2. code'[t][i].job \in Exe'
    BY <1>4, <2>1 DEF Exe, ExeJobs
  <2> QED BY <1>4, <2>1, <2>2 DEF Kept
<1>5. AskedOfServer'
  BY <1>3, <1>4 DEF DataPart, AskedOfServer, Kept
<1> QED BY <1>1, <1>5 DEF DataPart

\* JobsHndlr takes the first job of its queue.
LEMMA RunData == ASSUME IInv, Next, JobRunOne PROVE DataPart'
<1> DEFINE j == Head(next_waiting[Fs])
           n == Len(code[Fs]) + 1
<1>1. DataPart /\ StackPart /\ Fs \in Task
  BY DataPartOf, StackPartOf DEF IInv, TypeOK
<1>2. /\ next_waiting[Fs] \in Seq(Job) /\ next_waiting[Fs] # <<>>
      /\ next_waiting' = [next_waiting EXCEPT ![Fs] = Tail(next_waiting[Fs])]
      /\ UNCHANGED <<next_done, job>>
  BY <1>1 DEF DataPart, Queues, JobRunOne
<1>3. 1 \in DOMAIN next_waiting[Fs] /\ next_waiting[Fs][1] = j /\ j \in Job
  BY <1>2
<1>4. /\ StackPart'
      /\ \A t \in Task : \A i \in DOMAIN code'[t] :
           IsExe(code'[t][i]) =>
             \/ i \in DOMAIN code[t] /\ code'[t][i] = code[t][i]
             \/ t = Fs /\ i = n /\ code'[t][i].job = j
  BY RunStacks
<1> HIDE DEF j, n
<1> DEFINE r == Tail(next_waiting[Fs])
<1>5. /\ r \in Seq(Job) /\ Len(r) = Len(next_waiting[Fs]) - 1
      /\ \A i \in 1 .. Len(next_waiting[Fs]) - 1 :
           r[i] = IF i < 1 THEN next_waiting[Fs][i] ELSE next_waiting[Fs][i + 1]
  BY <1>2
<1>6. /\ next_waiting' \in Queues /\ Distinct(next_waiting') /\ JobsIn(next_waiting') = Waiting \ {j}
      /\ \A u \in Task : ToSet(next_waiting'[u]) \subseteq ToSet(next_waiting[u])
  <2>1. next_waiting \in Queues /\ Distinct(next_waiting)
    BY <1>1 DEF DataPart, OneHolder
  <2>2. OneQueue(next_waiting, next_waiting', Fs) /\ next_waiting'[Fs] = r
    BY <1>1, <1>2, <1>5, <2>1 DEF Queues, OneQueue
  <2>3. PICK k : k = 1
    OBVIOUS
  <2>4. k \in DOMAIN next_waiting[Fs] /\ next_waiting[Fs][k] = j
    BY <1>3, <2>3
  <2>5. Without(next_waiting'[Fs], next_waiting[Fs], k)
    BY <1>5, <2>2, <2>3 DEF Without
  <2>6. /\ Distinct(next_waiting')
        /\ JobsIn(next_waiting') = JobsIn(next_waiting) \ {next_waiting[Fs][k]}
        /\ \A u \in Task : ToSet(next_waiting'[u]) \subseteq ToSet(next_waiting[u])
    BY <1>1, <2>1, <2>2, <2>4, <2>5, QueueTake
  <2> QED BY <2>2, <2>4, <2>6 DEF Waiting, OneQueue
<1>7. Waiting' = Waiting \ {j} /\ Done' = Done
  BY <1>2, <1>6 DEF Waiting, Done
<1>8. j \in ToSet(next_waiting[Fs])
  BY <1>3 DEF ToSet
<1>9. j \in Waiting /\ j \notin Done /\ j \notin Exe /\ job[j] # NULL /\ job[j].srv = Fs
  BY <1>1, <1>8, KeptJobs DEF DataPart, OneHolder, AskedOfServer
<1>10. \A t \in Task : \A i \in DOMAIN code[t] : IsExe(code[t][i]) => code[t][i].job # j
  BY <1>1, <1>3, <1>9, KeptJobs
<1>11. ExeDistinct(code')
  BY <1>1, <1>4, <1>10 DEF DataPart, OneHolder, ExeDistinct
<1>12. Exe' \subseteq Exe \cup {j}
  BY <1>4 DEF Exe, ExeJobs
<1>13. \A t \in Task : \A i \in DOMAIN code'[t] :
         IsExe(code'[t][i]) => job[code'[t][i].job].srv = t
  BY <1>1, <1>4, <1>9 DEF DataPart, AskedOfServer
<1>14. \A k \in Job : Kept(k)
  BY <1>2 DEF Kept
<1>15. \A k \in Waiting' \cup Done' \cup Exe' : job'[k] # NULL
  BY <1>1, <1>2, <1>7, <1>9, <1>12 DEF DataPart, OneHolder
<1>16. Waiting' \cap Done' = {} /\ Waiting' \cap Exe' = {} /\ Done' \cap Exe' = {}
  BY <1>1, <1>7, <1>9, <1>12 DEF DataPart, OneHolder
<1>17. next_done' \in Queues /\ Distinct(next_done') /\ job' \in [Job -> CJob \cup {NULL}]
  BY <1>1, <1>2 DEF DataPart, OneHolder
<1> QED BY <1>1, <1>4, <1>6, <1>11, <1>13, <1>14, <1>15, <1>16, <1>17, MovedData

\* Jobs are freed that are in no queue and no stack after the step.
LEMMA FreeData ==
  ASSUME DataPart, StackPart', NoNewExe, NEW freed,
         freed \cap (Waiting' \cup Done' \cup Exe') = {},
         \A k \in Job : job'[k] = IF k \in freed THEN NULL ELSE job[k],
         job' \in [Job -> CJob \cup {NULL}],
         next_waiting' \in Queues, Distinct(next_waiting'),
         \A u \in Task : ToSet(next_waiting'[u]) \subseteq ToSet(next_waiting[u]),
         next_done' \in Queues, Distinct(next_done'),
         Waiting' \subseteq Waiting, Done' \subseteq Done
  PROVE  DataPart'
<1>1. ExeDistinct(code') /\ Exe' \subseteq Exe
  BY ExeAfter DEF DataPart, OneHolder
<1>2. \A t \in Task : \A i \in DOMAIN code'[t] :
         IsExe(code'[t][i]) => job[code'[t][i].job].srv = t
  BY DEF DataPart, AskedOfServer, NoNewExe
<1>3. Waiting' \cap Done' = {} /\ Waiting' \cap Exe' = {} /\ Done' \cap Exe' = {}
  BY <1>1 DEF DataPart, OneHolder
<1>4. \A k \in Job : Kept(k)
  BY DEF Kept
<1>5. \A k \in Waiting' \cup Done' \cup Exe' : job'[k] # NULL
  <2>1. Waiting' \cup Done' \cup Exe' \subseteq Job
    BY <1>1, KeptJobs
  <2> QED BY <1>1, <2>1 DEF DataPart, OneHolder
<1> QED BY <1>1, <1>2, <1>3, <1>4, <1>5, MovedData

\* TaskEnd frees what is in the queues of the task.
LEMMA EndData == ASSUME IInv, Next, TaskEnd PROVE DataPart'
<1>1. DataPart /\ StackPart' /\ NoNewExe /\ Fs \in Task
  BY DataPartOf, NextStacks DEF IInv, TypeOK, TaskEnd, JobRunOne, At
<1>2. /\ \A k \in Job : job'[k] = IF k \in QueuedJobs(Fs) THEN NULL ELSE job[k]
      /\ job' \in [Job -> CJob \cup {NULL}]
      /\ next_waiting' = [next_waiting EXCEPT ![Fs] = <<>>]
      /\ next_done' = [next_done EXCEPT ![Fs] = <<>>]
  BY <1>1 DEF DataPart, TaskEnd
<1>3. /\ next_waiting' \in Queues /\ Distinct(next_waiting')
      /\ JobsIn(next_waiting') = Waiting \ ToSet(next_waiting[Fs])
      /\ \A u \in Task : ToSet(next_waiting'[u]) \subseteq ToSet(next_waiting[u])
  <2>1. next_waiting \in Queues /\ Distinct(next_waiting)
    BY <1>1 DEF DataPart, OneHolder
  <2>2. OneQueue(next_waiting, next_waiting', Fs) /\ next_waiting'[Fs] = <<>>
    BY <1>1, <1>2, <2>1 DEF Queues, OneQueue
  <2> QED BY <1>1, <2>1, <2>2, QueueEmpty DEF Waiting, OneQueue
<1>4. /\ next_done' \in Queues /\ Distinct(next_done')
      /\ JobsIn(next_done') = Done \ ToSet(next_done[Fs])
  <2>1. next_done \in Queues /\ Distinct(next_done)
    BY <1>1 DEF DataPart, OneHolder
  <2>2. OneQueue(next_done, next_done', Fs) /\ next_done'[Fs] = <<>>
    BY <1>1, <1>2, <2>1 DEF Queues, OneQueue
  <2> QED BY <1>1, <2>1, <2>2, QueueEmpty DEF Done, OneQueue
<1>5. Waiting' = Waiting \ ToSet(next_waiting[Fs]) /\ Done' = Done \ ToSet(next_done[Fs])
  BY <1>3, <1>4 DEF Waiting, Done
<1>6. Exe' \subseteq Exe
  BY <1>1, ExeAfter DEF DataPart, OneHolder
<1>7. QueuedJobs(Fs) \cap (Waiting' \cup Done' \cup Exe') = {}
  BY <1>1, <1>5, <1>6, KeptJobs DEF QueuedJobs, DataPart, OneHolder
<1> QED BY <1>1, <1>2, <1>3, <1>4, <1>5, <1>7, FreeData

\* JobResScan frees the job it takes from the queue.
LEMMA ScanData ==
  ASSUME DataPart, StackPart', NoNewExe, Fs \in Task, NEW j \in Job, JobResScan(j)
  PROVE  DataPart'
<1>1. CASE UNCHANGED <<next_waiting, next_done, job>>
  BY <1>1, SameData DEF jobVars
<1>2. CASE /\ j \in ToSet(next_done[Fs]) /\ UNCHANGED next_waiting
           /\ next_done' = [next_done EXCEPT ![Fs] = RemoveAt(next_done[Fs], Place(next_done[Fs], j))]
           /\ job' = [job EXCEPT ![j] = NULL]
  <2> DEFINE s == next_done[Fs]
             k == Place(s, j)
             r == RemoveAt(s, k)
  <2>1. s \in Seq(Job) /\ k \in DOMAIN s /\ s[k] = j
    BY <1>2, PlaceIsThere DEF DataPart, Queues
  <2> HIDE DEF k
  <2>2. /\ r \in Seq(Job) /\ Len(r) = Len(s) - 1
        /\ \A i \in 1 .. Len(s) - 1 : r[i] = IF i < k THEN s[i] ELSE s[i + 1]
    BY <2>1, RemoveAtElements
  <2>3. next_done' = [next_done EXCEPT ![Fs] = r]
    BY <1>2 DEF k
  <2> HIDE DEF r
  <2>4. next_done' \in Queues /\ Distinct(next_done') /\ JobsIn(next_done') = Done \ {j}
    <3>1. next_done \in Queues /\ Distinct(next_done)
      BY DEF DataPart, OneHolder
    <3>2. k \in DOMAIN next_done[Fs] /\ next_done[Fs][k] = j
      BY <2>1
    <3>3. OneQueue(next_done, next_done', Fs) /\ next_done'[Fs] = r
      BY <2>2, <2>3, <3>1 DEF Queues, OneQueue
    <3>4. Without(next_done'[Fs], next_done[Fs], k)
      BY <2>2, <3>3 DEF Without
    <3> HIDE DEF s
    <3> QED BY <3>1, <3>2, <3>3, <3>4, QueueTake DEF Done, OneQueue
  <2>5. Waiting' = Waiting /\ Done' = Done \ {j}
    BY <1>2, <2>4 DEF Waiting, Done
  <2>6. Exe' \subseteq Exe
    BY ExeAfter DEF DataPart, OneHolder
  <2>7. j \in Done
    BY <1>2, KeptJobs
  <2>8. {j} \cap (Waiting' \cup Done' \cup Exe') = {}
    BY <2>5, <2>6, <2>7 DEF DataPart, OneHolder
  <2>9. /\ job' \in [Job -> CJob \cup {NULL}]
        /\ \A x \in Job : job'[x] = IF x \in {j} THEN NULL ELSE job[x]
    BY <1>2 DEF DataPart
  <2>10. /\ next_waiting' \in Queues /\ Distinct(next_waiting')
         /\ \A u \in Task : ToSet(next_waiting'[u]) \subseteq ToSet(next_waiting[u])
    BY SMTT(30), <1>2 DEF DataPart, OneHolder
  <2> QED BY <2>4, <2>5, <2>8, <2>9, <2>10, FreeData
<1> QED BY <1>1, <1>2 DEF JobResScan

\* A job that has run goes from the stack to its taker's queue, or is freed.
LEMMA DoneData == ASSUME IInv, Next, JobDone PROVE DataPart'
<1> DEFINE j == Top(Fs).job
           n == Len(code[Fs])
           taker == IF job[j].master = NULL THEN Fs ELSE job[j].master
<1>1. DataPart /\ StackPart /\ StackPart' /\ NoNewExe
  <2>1. ~JobRunOne
    BY DEF JobDone, JobRunOne, At
  <2> QED BY <2>1, DataPartOf, StackPartOf, NextStacks
<1>2. /\ Fs \in Task /\ n \in DOMAIN code[Fs] /\ code[Fs][n] = Top(Fs)
      /\ IsExe(Top(Fs)) /\ j \in Job /\ Len(code[Fs]) >= 2
  BY Tops DEF IInv, JobDone, At, CallType, IsExe
<1>3. n \notin DOMAIN code'[Fs]
  <2>1. CASE Pop
    <3>1. Stacks(Fs, Front(code[Fs]))
      BY <2>1 DEF Pop, Stacks
    <3> QED BY <1>1, <1>2, <3>1, PopKeeps
  <2>2. CASE Exit
    <3>1. Stacks(Fs, <<>>)
      BY <2>2 DEF Exit, Stacks
    <3> QED BY <1>1, <1>2, <3>1, EmptyKeeps
  <2> QED BY <2>1, <2>2 DEF JobDone
<1>4. code[Fs][n].job = j /\ IsExe(code[Fs][n])
  BY <1>2
<1> HIDE DEF j, n
<1>5. j \in Exe /\ j \notin Waiting /\ j \notin Done /\ job[j] \in CJob
  <2>1. j \in Exe
    BY <1>1, <1>2, <1>4, KeptJobs
  <2> QED BY <1>1, <1>2, <2>1 DEF DataPart, OneHolder
<1>6. ExeDistinct(code') /\ Exe' \subseteq Exe
  BY <1>1, ExeAfter DEF DataPart, OneHolder
<1>7. j \notin Exe'
  <2> SUFFICES ASSUME NEW t \in Task, NEW i \in DOMAIN code'[t],
                      IsExe(code'[t][i]), code'[t][i].job = j
               PROVE  FALSE
    BY DEF Exe, ExeJobs
  <2>1. i \in DOMAIN code[t] /\ code'[t][i] = code[t][i]
    BY <1>1 DEF NoNewExe
  <2>2. t = Fs /\ i = n
    BY <1>1, <1>2, <1>4, <2>1 DEF DataPart, OneHolder, ExeDistinct
  <2> QED BY <1>3, <2>2
<1>8. UNCHANGED next_waiting /\ Waiting' = Waiting
  BY DEF JobDone, Waiting
<1>9. CASE UNCHANGED next_done /\ job' = [job EXCEPT ![j] = NULL]
  <2>1. /\ job' \in [Job -> CJob \cup {NULL}]
        /\ \A k \in Job : job'[k] = IF k \in {j} THEN NULL ELSE job[k]
    BY <1>1, <1>2, <1>9 DEF DataPart
  <2>2. Done' = Done
    BY <1>9 DEF Done
  <2>3. {j} \cap (Waiting' \cup Done' \cup Exe') = {}
    BY <1>5, <1>7, <1>8, <2>2
  <2>4. /\ next_waiting' \in Queues /\ Distinct(next_waiting')
        /\ next_done' \in Queues /\ Distinct(next_done')
        /\ \A u \in Task : ToSet(next_waiting'[u]) \subseteq ToSet(next_waiting[u])
    BY <1>1, <1>8, <1>9 DEF DataPart, OneHolder
  <2> QED BY <1>1, <1>8, <2>1, <2>2, <2>3, <2>4, FreeData
<1>10. CASE /\ next_done' = [next_done EXCEPT ![taker] = Append(next_done[taker], j)]
            /\ job' = [job EXCEPT ![j].flags = job[j].flags \cup {"DONE"}]
  <2>1. taker \in Task
    BY <1>2, <1>5 DEF CJob
  <2> HIDE DEF taker
  <2>2. next_done' \in Queues /\ Distinct(next_done') /\ JobsIn(next_done') = Done \cup {j}
    <3>1. next_done \in Queues /\ Distinct(next_done) /\ j \notin JobsIn(next_done)
      BY <1>1, <1>5 DEF DataPart, OneHolder, Done
    <3>2. /\ OneQueue(next_done, next_done', taker)
          /\ next_done'[taker] = Append(next_done[taker], j)
      BY <1>2, <1>10, <2>1, <3>1 DEF Queues, OneQueue
    <3> QED BY <1>2, <2>1, <3>1, <3>2, QueueAppend DEF Done, OneQueue
  <2>3. Done' = Done \cup {j}
    BY <2>2 DEF Done
  <2>4. /\ job'[j] = [job[j] EXCEPT !.flags = job[j].flags \cup {"DONE"}]
        /\ \A k \in Job : k # j => job'[k] = job[k]
    BY <1>1, <1>2, <1>10 DEF DataPart
  <2>5. /\ job'[j] \in CJob /\ job'[j].srv = job[j].srv
        /\ job'[j].flags = job[j].flags \cup {"DONE"}
    BY <1>5, <2>4 DEF CJob
  <2>6. job' \in [Job -> CJob \cup {NULL}]
    BY <1>1, <1>2, <1>10, <2>4, <2>5 DEF DataPart
  <2>7. job'[j] # NULL /\ job[j] # NULL
    BY <1>5, <2>5, NullIsNoRecord
  <2>8. \A k \in Job : Kept(k)
    <3>1. Kept(j)
      BY <2>5, <2>7 DEF Kept
    <3>2. ASSUME NEW k \in Job, k # j PROVE Kept(k)
      BY <2>4, <3>2 DEF Kept
    <3> QED BY <3>1, <3>2
  <2>9. \A k \in Waiting' \cup Done' \cup Exe' : job'[k] # NULL
    BY <1>1, <1>6, <1>8, <2>3, <2>4, <2>7, KeptJobs DEF DataPart, OneHolder
  <2>10. Waiting' \cap Done' = {} /\ Waiting' \cap Exe' = {} /\ Done' \cap Exe' = {}
    BY <1>1, <1>5, <1>6, <1>7, <1>8, <2>3 DEF DataPart, OneHolder
  <2>11. \A t \in Task : \A i \in DOMAIN code'[t] :
           IsExe(code'[t][i]) => job[code'[t][i].job].srv = t
    BY <1>1 DEF DataPart, AskedOfServer, NoNewExe
  <2>12. /\ next_waiting' \in Queues /\ Distinct(next_waiting')
         /\ \A u \in Task : ToSet(next_waiting'[u]) \subseteq ToSet(next_waiting[u])
    BY <1>1, <1>8 DEF DataPart, OneHolder
  <2> QED BY <1>1, <1>6, <2>2, <2>6, <2>8, <2>9, <2>10, <2>11, <2>12, MovedData
<1> QED BY <1>9, <1>10 DEF JobDone, j

\* The steps that ask for a job.
LEMMA AskingData ==
  ASSUME IInv, Next, AdamAsksItself \/ AskAdam \/ PopUp \/ PopUpAlone \/ \E srv \in Servers : Ask(srv)
  PROVE  DataPart'
<1>1. ~JobRunOne
  BY Tops DEF IInv, AdamAsksItself, AskAdam, PopUp, PopUpAlone, Ask, MayCall, JobRunOne, At
<1>2. DataPart /\ StackPart /\ NoNewExe /\ Fs \in Task /\ Adam \in Task /\ valid \subseteq Task
  BY <1>1, DataPartOf, StackPartOf, NextStacks, AdamIsTask DEF IInv, TypeOK
<1>3. CASE AdamAsksItself
  BY <1>2, <1>3, AskData DEF AdamAsksItself
<1>4. CASE AskAdam
  BY <1>2, <1>4, AskData DEF AskAdam
<1>5. CASE PopUp
  <2>1. NewTask \in Task /\ NewTask # Adam
    BY <1>5, NewTaskIsFree DEF PopUp, Spawn
  <2> QED BY <1>2, <1>5, <2>1, AskData DEF PopUp
<1>6. CASE PopUpAlone
  <2>1. NewTask \in Task /\ NewTask # Adam
    BY <1>6, NewTaskIsFree DEF PopUpAlone, Spawn
  <2> QED BY <1>2, <1>6, <2>1, AskData DEF PopUpAlone
<1>7. CASE \E srv \in Servers : Ask(srv)
  <2>1. PICK srv \in valid : TaskExe(srv, Fs, {})
    BY <1>7 DEF Ask, Accepts, TaskValidate
  <2> QED BY <1>2, <2>1, AskData
<1> QED BY <1>3, <1>4, <1>5, <1>6, <1>7

LEMMA NextData == ASSUME IInv, Next PROVE DataPart'
<1>1. DataPart /\ StackPart /\ StackPart' /\ (JobRunOne \/ NoNewExe) /\ Fs \in Task
  BY DataPartOf, StackPartOf, NextStacks DEF IInv, TypeOK
<1>2. CASE UNCHANGED jobVars /\ ~JobRunOne
  BY <1>1, <1>2, SameData
<1>3. CASE JobResGet \/ AdamHasResult \/ PopUpHasResult
  <2>1. ~JobRunOne
    BY <1>3 DEF JobResGet, AdamHasResult, PopUpHasResult, JobRunOne, At
  <2>2. JobResScan(Top(Fs).job)
    BY <1>3 DEF JobResGet, AdamHasResult, PopUpHasResult
  <2>3. CASE Top(Fs).job \in Job
    BY <1>1, <2>1, <2>2, <2>3, ScanData
  <2>4. CASE Top(Fs).job \notin Job
    <3>1. ToSet(next_done[Fs]) \subseteq Job
      BY <1>1, KeptJobs
    <3>2. UNCHANGED jobVars
      BY <2>2, <2>4, <3>1 DEF JobResScan, jobVars
    <3> QED BY <1>1, <2>1, <3>2, SameData
  <2> QED BY <2>3, <2>4
<1> QED BY <1>2, <1>3, RunData, EndData, DoneData, AskingData DEF Next, Calls, Scheduler,
     Restore, Skip, EndPopUp, EndChildren, CallAdam, Kill, TaskWait, SrvTaskCont, CodeExits, Works,
     JobResWait, KillWait, jobVars

-----------------------------------------------------------------------------
(***************************************************************************)
(* The invariant.                                                          *)
(***************************************************************************)
LEMMA InitHolds == ASSUME Init PROVE IInv
<1>1. User \in Task /\ Adam \in Task /\ User # Adam /\ NULL \notin Task
  BY UserIsTask, AdamIsTask, NullIsNothing
<1>2. /\ ring \in Seq(Task) /\ DOMAIN ring = {1, 2} /\ ring[1] = Adam /\ ring[2] = User
      /\ Head(ring) = Adam /\ mode = "run" /\ Fs = User /\ ran = TRUE /\ valid = {Adam, User}
  BY <1>1 DEF Init
<1>3. /\ Call("serve", NULL, NULL) \in CallType /\ Call("code", NULL, NULL) \in CallType
      /\ Call("serve", NULL, NULL).at = "serve"
      /\ Call("code", NULL, NULL).at = "code" /\ Call("code", NULL, NULL).job = NULL
  BY DEF Call, CallType, Places
<1>4. \A t \in Task :
        /\ task_flags[t] = {}
        /\ parent_task[t] = (IF t = User THEN Adam ELSE NULL)
        /\ popup_task[t] = NULL
        /\ next_waiting[t] = <<>> /\ next_done[t] = <<>>
        /\ code[t] = IF t = Adam THEN <<Call("serve", NULL, NULL)>>
                     ELSE IF t = User THEN <<Call("code", NULL, NULL)>> ELSE <<>>
  BY DEF Init
<1> DEFINE c == Call("serve", NULL, NULL)
           d == Call("code", NULL, NULL)
<1>5. /\ task_flags \in [Task -> SUBSET {"KILL_TASK", "SUSPENDED", "AWAITING_MSG", "IDLE"}]
      /\ parent_task \in [Task -> Task \cup {NULL}] /\ popup_task \in [Task -> Task \cup {NULL}]
      /\ next_waiting \in [Task -> Seq(Job)] /\ next_done \in [Task -> Seq(Job)]
      /\ job \in [Job -> CJob \cup {NULL}]
      /\ \A j \in Job : job[j] = NULL
  BY <1>1 DEF Init
<1> HIDE DEF c, d
<1>6. /\ code \in [Task -> Seq(CallType)]
      /\ \A t \in Task : code[t] = IF t = Adam THEN <<c>> ELSE IF t = User THEN <<d>> ELSE <<>>
      /\ c \in CallType /\ d \in CallType
      /\ c.at = "serve" /\ d.at = "code" /\ d.job = NULL
  <2>1. c \in CallType /\ d \in CallType /\ c.at = "serve" /\ d.at = "code" /\ d.job = NULL
    BY <1>3 DEF c, d
  <2>2. code = [t \in Task |-> IF t = Adam THEN <<c>> ELSE IF t = User THEN <<d>> ELSE <<>>]
    BY DEF Init, c, d
  <2> QED BY <2>1, <2>2
<1>7. TypeOK
  BY <1>1, <1>2, <1>5, <1>6 DEF TypeOK
<1>8. RingSound
  <2>1. IsInjective(ring)
    BY <1>1, <1>2 DEF IsInjective
  <2>2. ToSet(ring) = valid
    BY <1>1, <1>2 DEF ToSet
  <2> QED BY <1>1, <1>2, <1>4, <2>1, <2>2 DEF RingSound
<1>9. \A t \in Task : DOMAIN next_waiting[t] = {} /\ DOMAIN next_done[t] = {}
  BY <1>4
<1>10. \A t \in Task : \A i \in DOMAIN code[t] :
         ~IsExe(code[t][i]) /\ Bottom(code[t][i]) /\ code[t][i].at # "asked"
  <2> TAKE t \in Task
  <2>1. CASE t = Adam
    BY <1>1, <1>6, <2>1 DEF IsExe, Bottom
  <2>2. CASE t = User
    BY <1>1, <1>6, <2>2 DEF IsExe, Bottom
  <2>3. CASE t # Adam /\ t # User
    BY <1>6, <2>3
  <2> QED BY <2>1, <2>2, <2>3
<1>11. Waiting = {} /\ Done = {} /\ Exe = {}
  BY <1>9, <1>10 DEF Waiting, Done, JobsIn, ToSet, Exe, ExeJobs
<1>12. Distinct(next_waiting) /\ Distinct(next_done) /\ ExeDistinct(code)
  BY <1>9, <1>10 DEF Distinct, ExeDistinct
<1>13. OneHolder
  BY <1>11, <1>12 DEF OneHolder
<1>14. AskedOfServer
  BY <1>5, <1>9, <1>10 DEF AskedOfServer, ToSet
<1>15. StacksSound
  <2>1. ASSUME NEW t \in Task, code[t] # <<>> PROVE Bottom(code[t][1])
    <3>1. 1 \in DOMAIN code[t]
      BY <1>6, <2>1
    <3> QED BY <1>10, <3>1
  <2>2. \A t \in valid : code[t] # <<>>
    BY <1>1, <1>2, <1>6
  <2> QED BY <1>1, <1>2, <1>4, <2>1, <2>2 DEF StacksSound, Killed
<1>16. AdamSafe /\ PopUpIsChild
  BY <1>1, <1>4, <1>10 DEF AdamSafe, PopUpIsChild, Killed
<1> QED BY <1>7, <1>8, <1>13, <1>14, <1>15, <1>16 DEF IInv

LEMMA Preserved == ASSUME IInv, Next PROVE IInv'
<1>1. RingPart' /\ FlagPart /\ LinkPart' /\ StackPart' /\ NonEmpty' /\ DataPart'
  BY NextKeepsRing, NextFlags, NextLinks, NextStacks, NextData
<1>2. TypeOK' /\ RingSound'
  BY <1>1 DEF TypeOK, RingSound, RingPart, Links, FlagPart, FlagTypes, TaskFlags, LinkPart, StackPart,
     StackTypes, DataPart, Queues
<1>3. StacksSound'
  BY <1>1 DEF StackPart, NonEmpty, FlagPart, StacksSound
<1>4. AdamSafe' /\ PopUpIsChild'
  BY <1>1 DEF AdamSafe, PopUpIsChild, FlagPart, LinkPart, StackPart, Callable
<1> QED BY <1>1, <1>2, <1>3, <1>4 DEF IInv, DataPart

LEMMA Stutters == ASSUME IInv, UNCHANGED vars PROVE IInv'
<1>1. UNCHANGED <<Waiting, Done, Exe>>
  BY DEF vars, Waiting, Done, Exe
<1> QED BY <1>1 DEF vars, IInv, TypeOK, RingSound, OneHolder, AskedOfServer, StacksSound, AdamSafe,
     PopUpIsChild, Killed

\* At every moment the scheduler's ring, the links between the tasks, the queues,
\* the jobs and the stacks are as Sched.HC, KTask.HC and Job.HC rely on.
THEOREM Invariance == Spec => []IInv
<1>1. Init => IInv
  BY InitHolds
<1>2. IInv /\ [Next]_vars => IInv'
  BY Preserved, Stutters
<1> QED BY <1>1, <1>2, PTL DEF Spec

\* Flags, links, queues and stacks hold what CTask and CJob can hold (Job.HC).
THEOREM TypeCorrect == Spec => []TypeOK
<1>1. IInv => TypeOK
  BY DEF IInv
<1> QED BY <1>1, Invariance, PTL

\* The ring links exactly the valid tasks, each once, from the Seth task on, and no
\* valid task has a link to one that was ended (TaskEnd, KTask.HC).
THEOREM RingIsSound == Spec => []RingSound
<1>1. IInv => RingSound
  BY DEF IInv
<1> QED BY <1>1, Invariance, PTL

\* A set without two elements has none or one.
LEMMA AtMostOne ==
  ASSUME NEW S, \A x, y \in S : x = y
  PROVE  Cardinality(S) \in {0, 1} /\ (Cardinality(S) = 1 <=> S # {})
<1>1. CASE S = {}
  BY <1>1, FS_EmptySet
<1>2. CASE S # {}
  <2>1. PICK x \in S : S = {x}
    BY <1>2
  <2> QED BY <1>2, <2>1, FS_Singleton
<1> QED BY <1>1, <1>2

\* A CJob is in one queue or on one stack, never both, and what is in a queue is not
\* free (JobRunOne, JobResScan, TaskEnd), for any number of tasks and jobs.
THEOREM JobHasOneOwner == Spec => []JobOneOwner
<1>1. ASSUME IInv PROVE JobOneOwner
  <2> SUFFICES ASSUME NEW j \in Job
               PROVE  JobOwners(j) <= 1 /\ (JobOwners(j) = 1 => job[j] # NULL)
    BY DEF JobOneOwner
  <2> DEFINE W == Holds(next_waiting, j)
             D == Holds(next_done, j)
             E == {t \in Task : Executes(t, j)}
  <2>1. /\ Distinct(next_waiting) /\ Distinct(next_done) /\ ExeDistinct(code) /\ j # NULL
        /\ Waiting \cap Done = {} /\ Waiting \cap Exe = {} /\ Done \cap Exe = {}
        /\ \A k \in Waiting \cup Done \cup Exe : job[k] # NULL
    BY <1>1, NullIsNothing DEF IInv, OneHolder
  <2>2. \A x, y \in W : x = y
    BY <2>1 DEF Holds, Distinct
  <2>3. \A x, y \in D : x = y
    BY <2>1 DEF Holds, Distinct
  <2>4. \A x, y \in E : x = y
    BY <2>1 DEF Executes, ExeDistinct, IsExe
  <2>5. W # {} => j \in Waiting
    BY InQueue DEF Holds, Waiting
  <2>6. D # {} => j \in Done
    BY InQueue DEF Holds, Done
  <2>7. E # {} => j \in Exe
    BY <2>1 DEF Executes, Exe, ExeJobs, IsExe
  <2> HIDE DEF W, D, E
  <2>8. /\ Cardinality(W) \in {0, 1} /\ (Cardinality(W) = 1 <=> W # {})
        /\ Cardinality(D) \in {0, 1} /\ (Cardinality(D) = 1 <=> D # {})
        /\ Cardinality(E) \in {0, 1} /\ (Cardinality(E) = 1 <=> E # {})
    BY <2>2, <2>3, <2>4, AtMostOne
  <2>9. JobOwners(j) = Cardinality(W) + Cardinality(D) + Cardinality(E)
    BY DEF JobOwners, W, D, E
  <2> QED BY <2>1, <2>5, <2>6, <2>7, <2>8, <2>9
<1> QED BY <1>1, Invariance, PTL

-----------------------------------------------------------------------------
(***************************************************************************)
(* The masters.  A job that was asked of any task dies with that task, and *)
(* JobResGet polls what was freed; and TaskEnd of a pop-up does not kill   *)
(* Adam.  What follows is about systems in which only Adam is asked for    *)
(* results, and only other tasks call PopUp.                               *)
(***************************************************************************)
OnlyAdamServes == Servers \subseteq {Adam} /\ Adam \notin PopUpMasters

\* The calls that keep a pointer to the job they wait for.
Refers(call) == call.at \in {"asked", "get", "handle"}
Waits(t, i) == t \in valid /\ ~Killed(t) /\ i \in DOMAIN code[t] /\ Refers(code[t][i])

\* While its master lives, a job that was asked for stays allocated: its server is
\* Adam, who does not end, or the pop-up that ends after its master.
AskedBy(t, call) ==
  /\ call.job # NULL /\ job[call.job] # NULL
  /\ job[call.job].master = t /\ "FREE_ON_COMPLETE" \notin job[call.job].flags
  /\ \/ job[call.job].srv = Adam
     \/ call.at = "asked" /\ call.task # NULL /\ call.task = popup_task[t]
                          /\ job[call.job].srv = call.task

Masters ==
  /\ \A t \in Task : \A i \in DOMAIN code[t] : Waits(t, i) => AskedBy(t, code[t][i])
  /\ \A t \in Task : \A i, k \in DOMAIN code[t] :
       Waits(t, i) /\ Waits(t, k) /\ code[t][i].job = code[t][k].job => i = k

\* Suspended in Adam() or PopUp, a master calls nothing else.
AskedIsTop ==
  \A t \in Task : \A i \in DOMAIN code[t] : code[t][i].at = "asked" => i = Len(code[t])

DoneIsMasters ==
  \A t \in Task : \A j \in ToSet(next_done[t]) : job[j].master \in {t, NULL}

Sleepers ==
  /\ popup_task[Adam] = NULL
  /\ mode = "run" => "SUSPENDED" \notin task_flags[Fs]
  /\ \A t \in Task \ valid : "SUSPENDED" \notin task_flags[t]

MInv == IInv /\ Masters /\ AskedIsTop /\ DoneIsMasters /\ Sleepers /\ WillWake

\* What a step does to the stacks: that of the running task keeps its first m calls,
\* and may get one more; those of the others do not change, a new task's apart.
Keeps(m) ==
  /\ m \in 0 .. Len(code[Fs]) /\ DOMAIN code'[Fs] = 1 .. m /\ Len(code'[Fs]) = m
  /\ \A i \in 1 .. m : code'[Fs][i] = code[Fs][i]
Puts(m, c) ==
  /\ m \in 0 .. Len(code[Fs]) /\ DOMAIN code'[Fs] = 1 .. m + 1 /\ Len(code'[Fs]) = m + 1
  /\ \A i \in 1 .. m : code'[Fs][i] = code[Fs][i]
  /\ code'[Fs][m + 1] = c
  /\ m = Len(code[Fs]) => Top(Fs).at \in {"code", "serve", "handle"}
Others ==
  \A u \in Task : u # Fs => \/ code'[u] = code[u]
                            \/ u \notin valid /\ code'[u] = <<Call("serve", NULL, NULL)>>
PutsOne(m) == \E c : Puts(m, c) /\ ~Refers(c)

\* Only these steps take code off the stack that has more to do.
Cut == JobDone \/ CodeExits \/ TaskEnd
Below(m) == m = Len(code[Fs]) \/ (m = Len(code[Fs]) - 1 /\ Top(Fs).at \in Returning)

LEMMA PushPuts ==
  ASSUME IInv, mode = "run", NEW c, Callable(c), Push(c), Top(Fs).at \in {"code", "serve", "handle"}
  PROVE  Others /\ Puts(Len(code[Fs]), c)
<1>1. Stacks(Fs, Append(code[Fs], c))
  BY DEF Push, Stacks
<1>2. /\ StackPart' /\ \A u \in Task : u # Fs => code'[u] = code[u]
      /\ DOMAIN code'[Fs] = 1 .. Len(code[Fs]) + 1 /\ code'[Fs][Len(code[Fs]) + 1] = c
      /\ \A i \in 1 .. Len(code[Fs]) : code'[Fs][i] = code[Fs][i]
      /\ Len(code[Fs]) \in Nat /\ Fs \in Task
  BY <1>1, Tops, StackPartOf, PushKeeps DEF IInv
<1>3. Len(code'[Fs]) = Len(code[Fs]) + 1
  <2>1. code'[Fs] \in Seq(CallType) BY <1>2 DEF StackPart, StackTypes
  <2> QED BY <1>2, <2>1
<1> QED BY <1>2, <1>3 DEF Others, Puts

LEMMA PopKeepsFew ==
  ASSUME IInv, mode = "run", Pop, Top(Fs).at \in Returning \/ IsExe(Top(Fs))
  PROVE  Others /\ Keeps(Len(code[Fs]) - 1)
<1>1. Stacks(Fs, Front(code[Fs]))
  BY DEF Pop, Stacks
<1>2. /\ StackPart' /\ \A u \in Task : u # Fs => code'[u] = code[u]
      /\ DOMAIN code'[Fs] = 1 .. Len(code[Fs]) - 1
      /\ \A i \in 1 .. Len(code[Fs]) - 1 : code'[Fs][i] = code[Fs][i]
      /\ Len(code[Fs]) \in Nat \ {0} /\ Fs \in Task
  BY <1>1, Tops, StackPartOf, PopKeeps DEF IInv
<1>3. Len(code'[Fs]) = Len(code[Fs]) - 1
  <2>1. code'[Fs] \in Seq(CallType) BY <1>2 DEF StackPart, StackTypes
  <2> QED BY <1>2, <2>1
<1> QED BY <1>2, <1>3 DEF Others, Keeps

LEMMA BecomesPuts ==
  ASSUME IInv, mode = "run", NEW c, Callable(c), Becomes(c), Top(Fs).at \in Returning
  PROVE  Others /\ Puts(Len(code[Fs]) - 1, c)
<1>1. Stacks(Fs, Append(Front(code[Fs]), c))
  BY DEF Becomes, Stacks
<1>2. /\ StackPart' /\ \A u \in Task : u # Fs => code'[u] = code[u]
      /\ DOMAIN code'[Fs] = 1 .. Len(code[Fs]) /\ code'[Fs][Len(code[Fs])] = c
      /\ \A i \in 1 .. Len(code[Fs]) - 1 : code'[Fs][i] = code[Fs][i]
      /\ Len(code[Fs]) \in Nat \ {0} /\ Fs \in Task
  BY <1>1, Tops, StackPartOf, SwapKeeps DEF IInv
<1>3. Len(code'[Fs]) = Len(code[Fs])
  <2>1. code'[Fs] \in Seq(CallType) BY <1>2 DEF StackPart, StackTypes
  <2> QED BY <1>2, <2>1
<1>4. (Len(code[Fs]) - 1) + 1 = Len(code[Fs])
  BY <1>2
<1> QED BY <1>2, <1>3, <1>4 DEF Others, Puts

LEMMA ExitKeepsNone == ASSUME IInv, code' = [code EXCEPT ![Fs] = <<>>] PROVE Others /\ Keeps(0)
<1>1. code'[Fs] = <<>> /\ \A u \in Task : u # Fs => code'[u] = code[u]
  BY DEF IInv, TypeOK
<1>2. Len(code[Fs]) \in Nat
  BY DEF IInv, TypeOK
<1> QED BY <1>1, <1>2 DEF Others, Keeps

\* The steps that ask for a job put the call that waits for it on the stack.
Asking == AdamAsksItself \/ AskAdam \/ PopUp \/ \E srv \in Servers : Ask(srv)

LEMMA AskingMoves ==
  ASSUME IInv, Asking
  PROVE  /\ Others /\ mode = "run" /\ Fs \in Task /\ Fs \in valid /\ NewJob \in Job
         /\ \/ AdamAsksItself /\ Puts(Len(code[Fs]), Call("handle", NewJob, NULL))
            \/ AskAdam /\ Puts(Len(code[Fs]) - 1, Call("asked", NewJob, NULL))
            \/ PopUp /\ Puts(Len(code[Fs]), Call("asked", NewJob, NewTask))
            \/ (\E srv \in Servers : Ask(srv)) /\ Puts(Len(code[Fs]), Call("get", NewJob, NULL))
<1>1. /\ mode = "run" /\ Fs \in Task /\ Fs \in valid /\ code[Fs] # <<>>
      /\ DOMAIN code[Fs] = 1 .. Len(code[Fs]) /\ Len(code[Fs]) \in Nat /\ code[Fs] \in Seq(CallType)
  BY Tops DEF IInv, Asking, AdamAsksItself, AskAdam, PopUp, Ask, MayCall, At
<1>2. NewJob \in Job
  BY NewJobIsFree DEF Asking, AdamAsksItself, AskAdam, PopUp, Ask, TaskExe
<1>3. CASE AdamAsksItself
  <2>1. Callable(Call("handle", NewJob, NULL))
    BY <1>2 DEF Callable, Call, CallType, Places
  <2> QED BY <1>1, <1>2, <1>3, <2>1, PushPuts DEF AdamAsksItself, MayCall, At
<1>4. CASE AskAdam
  <2>1. Callable(Call("asked", NewJob, NULL))
    BY <1>2, NullIsNothing, AdamIsTask DEF Callable, Call, CallType, Places
  <2> QED BY <1>1, <1>2, <1>4, <2>1, BecomesPuts DEF AskAdam, At, Returning
<1>5. CASE \E srv \in Servers : Ask(srv)
  <2>1. Callable(Call("get", NewJob, NULL))
    BY <1>2 DEF Callable, Call, CallType, Places
  <2>2. Push(Call("get", NewJob, NULL)) /\ Top(Fs).at = "code"
    BY <1>5 DEF Ask, MayCall, At
  <2>3. Others /\ Puts(Len(code[Fs]), Call("get", NewJob, NULL))
    BY <1>1, <2>1, <2>2, PushPuts
  <2> QED BY <1>1, <1>2, <1>5, <2>3
<1>6. CASE PopUp
  <2> DEFINE c == Call("asked", NewJob, NewTask)
             born == <<Call("serve", NULL, NULL)>>
             s == code[Fs]
             r == Append(s, c)
  <2>1. NewTask \in Task /\ NewTask # Adam /\ NewTask \notin valid /\ NewTask # Fs
    <3>1. \E k \in Task : Unborn(k) BY <1>6 DEF PopUp, Spawn
    <3> QED BY <1>1, <3>1, NewTaskIsFree, UnbornIsNotValid DEF IInv
  <2>2. c \in CallType /\ c # NULL
    <3>1. c \in CallType BY <1>2, <2>1 DEF Call, CallType, Places
    <3> QED BY <3>1, NullIsNoRecord
  <2>3. code' = [code EXCEPT ![NewTask] = born, ![Fs] = r]
    BY <1>6, <2>2 DEF PopUp, Spawn
  <2> HIDE DEF c
  <2>4. /\ code'[Fs] = r /\ code'[NewTask] = born
        /\ \A u \in Task : u # NewTask /\ u # Fs => code'[u] = code[u]
    BY <1>1, <2>1, <2>3 DEF IInv, TypeOK
  <2> HIDE DEF s
  <2>5. /\ r \in Seq(CallType) /\ DOMAIN r = 1 .. Len(s) + 1 /\ Len(s) \in Nat
        /\ \A i \in 1 .. Len(s) : r[i] = s[i]
        /\ r[Len(s) + 1] = c
    BY <1>1, <2>2, AppendElements DEF s
  <2>6. Len(r) = Len(s) + 1
    BY <2>5
  <2> HIDE DEF r
  <2>7. Others
    BY <2>1, <2>4 DEF Others
  <2>8. Puts(Len(s), c)
    BY <1>6, <2>4, <2>5, <2>6 DEF Puts, s, PopUp, MayCall, At
  <2> QED BY <1>1, <1>2, <1>6, <2>7, <2>8 DEF c, s
<1> QED BY <1>3, <1>4, <1>5, <1>6 DEF Asking

\* A job that is done, and a result that is taken, take the call off the stack.
LEMMA TakingMoves ==
  ASSUME IInv, JobDone \/ JobResGet \/ AdamHasResult \/ PopUpHasResult
  PROVE  /\ Others
         /\ \E m \in 0 .. Len(code[Fs]) - 1 :
              (Keeps(m) \/ PutsOne(m)) /\ (JobDone \/ Below(m))
<1>1. mode = "run" /\ Len(code[Fs]) \in Nat \ {0} /\ Fs \in Task
  BY Tops DEF IInv, JobDone, JobResGet, AdamHasResult, PopUpHasResult, At
<1>2. Len(code[Fs]) - 1 \in 0 .. Len(code[Fs]) - 1 /\ 0 \in 0 .. Len(code[Fs]) - 1
  BY <1>1
<1>3. CASE JobDone
  <2>1. Top(Fs).at = "code" /\ Top(Fs).job # NULL /\ (Pop \/ code' = [code EXCEPT ![Fs] = <<>>])
    BY <1>3 DEF JobDone, At, Exit
  <2>2. CASE Pop
    <3>1. Others /\ Keeps(Len(code[Fs]) - 1)
      BY <1>1, <2>1, <2>2, PopKeepsFew DEF IsExe
    <3> QED BY <1>2, <1>3, <3>1
  <2>3. CASE code' = [code EXCEPT ![Fs] = <<>>]
    <3>1. Others /\ Keeps(0)
      BY <2>3, ExitKeepsNone
    <3> QED BY <1>2, <1>3, <3>1
  <2> QED BY <2>1, <2>2, <2>3
<1>4. CASE ~JobDone
  <2>1. /\ Top(Fs).at \in Returning /\ Fs \in valid
        /\ Pop \/ (PopUpHasResult /\ Becomes(Call("kill", NULL, Top(Fs).task))
                     /\ TaskValidate(Top(Fs).task))
    BY <1>1, <1>4, Tops DEF JobResGet, AdamHasResult, PopUpHasResult, At, Returning, IInv
  <2>2. CASE Pop
    BY <1>1, <1>2, <1>4, <2>1, <2>2, PopKeepsFew DEF Below
  <2>3. CASE Becomes(Call("kill", NULL, Top(Fs).task)) /\ TaskValidate(Top(Fs).task)
    <3> DEFINE c == Call("kill", NULL, Top(Fs).task)
    <3>1. Callable(c) /\ ~Refers(c)
      BY <2>3 DEF IInv, TypeOK, TaskValidate, Callable, Call, CallType, Places, Refers
    <3>2. Becomes(c) BY <2>3
    <3> HIDE DEF c
    <3>3. Others /\ Puts(Len(code[Fs]) - 1, c)
      BY <1>1, <2>1, <3>1, <3>2, BecomesPuts
    <3> QED BY <1>2, <1>4, <2>1, <3>1, <3>3 DEF PutsOne, Below
  <2> QED BY <2>1, <2>2, <2>3
<1> QED BY ZenonT(60), <1>3, <1>4

\* The other steps put no call on a stack that waits for a job.
LEMMA OtherMoves ==
  ASSUME IInv, Next, ~Asking
  PROVE  Others /\ \E m : (Keeps(m) \/ PutsOne(m)) /\ (Cut \/ Below(m))
<1>1. Fs \in Task /\ Len(code[Fs]) \in Nat /\ DOMAIN code[Fs] = 1 .. Len(code[Fs])
  BY DEF IInv, TypeOK
<1>2. CASE UNCHANGED code
  <2>1. Keeps(Len(code[Fs]))
    BY <1>1, <1>2 DEF Keeps
  <2> QED BY <1>2, <2>1 DEF Others, Below
<1>3. CASE JobDone \/ JobResGet \/ AdamHasResult \/ PopUpHasResult
  BY <1>3, TakingMoves DEF Cut
<1>4. CASE CodeExits \/ TaskEnd
  <2>1. code' = [code EXCEPT ![Fs] = <<>>]
    BY <1>4 DEF CodeExits, Exit, TaskEnd
  <2> QED BY <1>4, <2>1, ExitKeepsNone DEF Cut
<1>5. ASSUME NEW c, Callable(c), ~Refers(c), Push(c), mode = "run",
             Top(Fs).at \in {"code", "serve", "handle"}
      PROVE  Others /\ \E m : PutsOne(m) /\ Below(m)
  BY <1>5, PushPuts DEF PutsOne, Below
<1>6. CASE CallAdam
  <2>1. Callable(Call("wait", NULL, Adam)) /\ ~Refers(Call("wait", NULL, Adam))
    BY AdamIsTask DEF Callable, Call, CallType, Places, Refers
  <2>2. Push(Call("wait", NULL, Adam)) /\ mode = "run" /\ Top(Fs).at = "code"
    BY <1>6 DEF CallAdam, MayCall, At
  <2> QED BY <1>5, <2>1, <2>2
<1>7. CASE \E t \in Task : Kill(t)
  <2>1. PICK t \in Task : Kill(t)
    BY <1>7
  <2>2. Callable(Call("kill", NULL, t)) /\ ~Refers(Call("kill", NULL, t))
    BY DEF Callable, Call, CallType, Places, Refers
  <2>3. Push(Call("kill", NULL, t)) /\ mode = "run" /\ Top(Fs).at = "code"
    BY <2>1 DEF Kill, MayCall, At
  <2> QED BY <1>5, <2>2, <2>3
<1>8. CASE JobRunOne
  <2> DEFINE c == Call("code", Head(next_waiting[Fs]), NULL)
  <2>1. Head(next_waiting[Fs]) \in Job
    BY <1>1, <1>8 DEF JobRunOne, IInv, TypeOK
  <2>2. Callable(c) /\ ~Refers(c)
    BY <2>1 DEF Callable, Call, CallType, Places, Refers
  <2>3. Push(c) /\ mode = "run" /\ Top(Fs).at \in {"code", "serve", "handle"}
    BY <1>8 DEF JobRunOne, At
  <2> HIDE DEF c
  <2> QED BY <1>5, <2>2, <2>3
<1>9. CASE KillWait
  <2>1. mode = "run" /\ Top(Fs).at = "kill" /\ (Pop \/ UNCHANGED code)
    BY <1>9 DEF KillWait, At
  <2>2. Pop => Others /\ Keeps(Len(code[Fs]) - 1)
    BY <2>1, PopKeepsFew DEF Returning
  <2>3. Below(Len(code[Fs]) - 1)
    BY <2>1 DEF Returning, Below
  <2> QED BY <1>2, <2>1, <2>2, <2>3
<1>10. CASE PopUpAlone
  <2> DEFINE born == <<Call("serve", NULL, NULL)>>
  <2>1. NewTask \in Task /\ NewTask \notin valid /\ NewTask # Fs
    <3>1. (\E k \in Task : Unborn(k)) /\ Fs \in valid
      BY <1>10 DEF PopUpAlone, Spawn, IInv, TypeOK
    <3> QED BY <1>1, <3>1, NewTaskIsFree, UnbornIsNotValid DEF IInv
  <2>2. code' = [code EXCEPT ![NewTask] = born, ![Fs] = code[Fs]]
    BY <1>10, <2>1, <1>1 DEF PopUpAlone, Spawn, IInv, TypeOK
  <2>3. /\ code'[Fs] = code[Fs] /\ code'[NewTask] = born
        /\ \A u \in Task : u # NewTask /\ u # Fs => code'[u] = code[u]
    BY ZenonT(60), <1>1, <2>1, <2>2 DEF IInv, TypeOK
  <2>4. Others /\ Keeps(Len(code[Fs]))
    BY SMTT(30), <1>1, <2>1, <2>3 DEF Others, Keeps
  <2> QED BY <2>4 DEF Below
<1> QED BY <1>2, <1>3, <1>4, <1>6, <1>7, <1>8, <1>9, <1>10 DEF Asking, Next, Calls, Scheduler,
     Restore, Skip, EndPopUp, EndChildren, TaskWait, SrvTaskCont, Works, JobResWait

LEMMA BornServes ==
  ASSUME IInv, Next, NEW t \in valid', t \notin valid
  PROVE  t \in Task /\ t # Fs /\ code'[t] = <<Call("serve", NULL, NULL)>>
<1>1. Fs \in Task /\ Fs \in valid
  BY DEF IInv, TypeOK
<1>2. CASE valid' \subseteq valid
  BY <1>2
<1>3. CASE PopUp \/ PopUpAlone
  <2>1. /\ \E k \in Task : Unborn(k)
        /\ valid' = valid \cup {NewTask}
        /\ \E s : code' = [code EXCEPT ![NewTask] = <<Call("serve", NULL, NULL)>>, ![Fs] = s]
    BY <1>3 DEF PopUp, PopUpAlone, Spawn
  <2>2. t = NewTask /\ t \in Task /\ t # Fs
    BY <1>1, <2>1, NewTaskIsFree
  <2> QED BY <2>1, <2>2 DEF IInv, TypeOK
<1> QED BY <1>2, <1>3 DEF Next, Calls, Scheduler, Restore, Skip, EndPopUp, EndChildren, TaskEnd, CallAdam,
     AdamAsksItself, Kill, Ask, TaskWait, AskAdam, JobRunOne, SrvTaskCont, JobDone, CodeExits, Works,
     JobResWait, JobResGet, AdamHasResult, PopUpHasResult, KillWait

\* What a step does to a job.
LEMMA JobEffects ==
  ASSUME IInv, Next, NEW j \in Job, job[j] # NULL
  PROVE  \/ job'[j] = job[j]
         \/ JobDone /\ j = Top(Fs).job /\ "FREE_ON_COMPLETE" \in job[j].flags /\ job'[j] = NULL
         \/ /\ JobDone /\ j = Top(Fs).job
            /\ job'[j] # NULL /\ job'[j].srv = job[j].srv /\ job'[j].master = job[j].master
            /\ job'[j].flags = job[j].flags \cup {"DONE"}
         \/ /\ JobResGet \/ AdamHasResult \/ PopUpHasResult
            /\ Refers(Top(Fs)) /\ j = Top(Fs).job /\ j \in ToSet(next_done[Fs]) /\ job'[j] = NULL
         \/ TaskEnd /\ j \in QueuedJobs(Fs) /\ job'[j] = NULL
<1>1. job \in [Job -> CJob \cup {NULL}] /\ job[j] \in CJob
  BY DEF IInv, TypeOK
<1>2. CASE UNCHANGED job
  BY <1>2
<1>3. CASE \E srv, master, flags : TaskExe(srv, master, flags)
  <2>1. PICK srv, master, flags : TaskExe(srv, master, flags)
    BY <1>3
  <2>2. NewJob # j
    BY <2>1, NewJobIsFree DEF TaskExe
  <2>3. job' = [job EXCEPT ![NewJob] = [srv |-> srv, master |-> master, flags |-> flags]]
    BY <2>1 DEF TaskExe
  <2>4. job'[j] = job[j]
    BY <1>1, <2>2, <2>3
  <2> QED BY <2>4
<1>4. CASE JobDone
  <2> DEFINE k == Top(Fs).job
  <2>1. k \in Job
    BY <1>4, Tops DEF IInv, JobDone, At, CallType
  <2>2. \/ "FREE_ON_COMPLETE" \in job[k].flags /\ job' = [job EXCEPT ![k] = NULL]
        \/ job' = [job EXCEPT ![k].flags = job[k].flags \cup {"DONE"}]
    BY <1>4 DEF JobDone
  <2> HIDE DEF k
  <2>3. CASE j # k
    BY <1>1, <2>1, <2>2, <2>3
  <2>4. CASE j = k /\ "FREE_ON_COMPLETE" \in job[k].flags /\ job' = [job EXCEPT ![k] = NULL]
    <3>1. job'[j] = NULL BY <1>1, <2>4
    <3> QED BY <1>4, <2>4, <3>1 DEF k
  <2>5. CASE j = k /\ job' = [job EXCEPT ![k].flags = job[k].flags \cup {"DONE"}]
    <3>1. job'[j] = [job[j] EXCEPT !.flags = job[j].flags \cup {"DONE"}]
      BY <1>1, <2>5
    <3>2. /\ job'[j] \in CJob /\ job'[j].srv = job[j].srv /\ job'[j].master = job[j].master
          /\ job'[j].flags = job[j].flags \cup {"DONE"}
      BY <1>1, <3>1 DEF CJob
    <3> QED BY <1>4, <2>5, <3>2, NullIsNoRecord DEF k
  <2> QED BY <2>2, <2>3, <2>4, <2>5
<1>5. CASE JobResGet \/ AdamHasResult \/ PopUpHasResult
  <2>1. JobResScan(Top(Fs).job) /\ Refers(Top(Fs))
    BY <1>5 DEF JobResGet, AdamHasResult, PopUpHasResult, At, Refers
  <2>2. CASE job' = [job EXCEPT ![Top(Fs).job] = NULL] /\ Top(Fs).job \in ToSet(next_done[Fs])
    BY <1>1, <1>5, <2>1, <2>2
  <2> QED BY <1>2, <2>1, <2>2 DEF JobResScan
<1>6. CASE TaskEnd
  <2>1. job' = [k \in Job |-> IF k \in QueuedJobs(Fs) THEN NULL ELSE job[k]]
    BY <1>6 DEF TaskEnd
  <2> QED BY <1>6, <2>1
<1> QED BY <1>2, <1>3, <1>4, <1>5, <1>6 DEF Next, Calls, Scheduler, Restore, Skip, EndPopUp, EndChildren,
     CallAdam, AdamAsksItself, PopUp, PopUpAlone, Kill, Ask, TaskWait, AskAdam, JobRunOne, SrvTaskCont,
     CodeExits, Works, JobResWait, KillWait, jobVars

\* The call a result is taken for, or a job has been, is not on the stack any more.
LEMMA TopIsTaken ==
  ASSUME IInv, JobDone \/ JobResGet \/ AdamHasResult \/ PopUpHasResult,
         NEW i \in DOMAIN code[Fs], i \in DOMAIN code'[Fs], code'[Fs][i] = code[Fs][i],
         Refers(code[Fs][i])
  PROVE  i # Len(code[Fs])
<1>1. PICK m \in 0 .. Len(code[Fs]) - 1 : Keeps(m) \/ (\E c : Puts(m, c) /\ ~Refers(c))
  BY TakingMoves DEF PutsOne
<1>2. Len(code[Fs]) \in Nat
  BY DEF IInv, TypeOK
<1> QED BY SMTT(30), <1>1, <1>2 DEF Keeps, Puts

\* The pop-up of a master stays its pop-up until one of them ends.
LEMMA PopUpStays ==
  ASSUME MInv, Next, NEW t \in Task, NEW i \in DOMAIN code[t], Waits(t, i), code[t][i].at = "asked",
         i \in DOMAIN code'[t], code'[t][i] = code[t][i], ~Killed(t)'
  PROVE  popup_task'[t] = popup_task[t]
<1>1. IInv /\ Fs \in Task /\ Fs \in valid /\ i = Len(code[t]) /\ t \in valid /\ Refers(code[t][i])
  BY DEF MInv, IInv, TypeOK, AskedIsTop, Waits
<1>2. CASE UNCHANGED popup_task
  BY <1>2
<1>3. CASE PopUp
  <2>1. mode = "run" /\ Top(Fs).at = "code" /\ popup_task' = [popup_task EXCEPT ![Fs] = NewTask]
    BY <1>3 DEF PopUp, MayCall, At
  <2>2. Top(Fs) = code[Fs][Len(code[Fs])]
    BY <1>1, <2>1, Tops DEF IInv
  <2>3. t # Fs
    BY <1>1, <2>1, <2>2
  <2> QED BY <1>1, <2>1, <2>3 DEF IInv, TypeOK
<1>4. CASE PopUpHasResult
  <2>1. mode = "run" /\ popup_task' = [popup_task EXCEPT ![Fs] = NULL]
    BY <1>4 DEF PopUpHasResult, At
  <2>2. t # Fs
    BY <1>1, <1>4, TopIsTaken
  <2> QED BY <1>1, <2>1, <2>2 DEF IInv, TypeOK
<1>5. CASE EndPopUp
  <2> DEFINE p == parent_task[Fs]
  <2>1. /\ popup_task' = [popup_task EXCEPT ![p] = NULL] /\ popup_task[p] = Fs
        /\ task_flags' = Kills({p} \cap (valid \ {Adam}))
    BY <1>5 DEF EndPopUp, IsPopUp
  <2> HIDE DEF p
  <2>2. CASE t = p
    <3>1. t # Adam
      BY <1>1, <2>1, <2>2, NullIsNothing DEF MInv, Sleepers
    <3>2. "KILL_TASK" \in task_flags'[t]
      BY <1>1, <2>1, <2>2, <3>1 DEF Kills
    <3> QED BY <3>2 DEF Killed
  <2> QED BY <1>1, <2>1, <2>2 DEF IInv, TypeOK
<1> QED BY <1>2, <1>3, <1>4, <1>5 DEF Next, Calls, Scheduler, Restore, Skip, EndChildren, TaskEnd,
     CallAdam, AdamAsksItself, PopUpAlone, Kill, Ask, TaskWait, AskAdam, JobRunOne, SrvTaskCont,
     JobDone, CodeExits, Works, JobResWait, JobResGet, AdamHasResult, KillWait

\* As long as its master lives, what was asked for stays so.
LEMMA StaysAsked ==
  ASSUME MInv, Next, NEW t \in Task, NEW i \in DOMAIN code[t], Waits(t, i),
         i \in DOMAIN code'[t], code'[t][i] = code[t][i], t \in valid', ~Killed(t)',
         NEW c, c = code[t][i]
  PROVE  AskedBy(t, c)'
<1> DEFINE j == c.job
<1>1. AskedBy(t, c) /\ Refers(c) /\ t \in valid /\ ~Killed(t) /\ t # NULL
  BY NullIsNothing DEF MInv, Masters, Waits
<1>2. j \in Job /\ job[j] # NULL /\ job[j].master = t /\ "FREE_ON_COMPLETE" \notin job[j].flags
  <2>1. c \in CallType
    BY DEF MInv, IInv, TypeOK
  <2> QED BY <1>1, <2>1 DEF AskedBy, CallType
<1>3. IInv /\ Fs \in Task /\ Fs \in valid
  BY DEF MInv, IInv, TypeOK
<1>4. /\ job'[j] # NULL /\ job'[j].srv = job[j].srv /\ job'[j].master = t
      /\ "FREE_ON_COMPLETE" \notin job'[j].flags
  <2>1. CASE job'[j] = job[j]
    BY <1>2, <2>1
  <2>2. CASE /\ JobDone /\ j = Top(Fs).job
             /\ job'[j] # NULL /\ job'[j].srv = job[j].srv /\ job'[j].master = job[j].master
             /\ job'[j].flags = job[j].flags \cup {"DONE"}
    BY <1>2, <2>2
  <2>3. CASE /\ JobResGet \/ AdamHasResult \/ PopUpHasResult
             /\ Refers(Top(Fs)) /\ j = Top(Fs).job
    <3>1. /\ mode = "run" /\ ~Killed(Fs) /\ Len(code[Fs]) \in DOMAIN code[Fs]
          /\ Top(Fs) = code[Fs][Len(code[Fs])]
      <4>1. mode = "run"
        BY <2>3 DEF JobResGet, AdamHasResult, PopUpHasResult, At
      <4> QED BY <1>3, <4>1, Tops DEF IInv
    <3>2. Waits(Fs, Len(code[Fs]))
      BY <1>3, <2>3, <3>1 DEF Waits
    <3>3. AskedBy(Fs, Top(Fs))
      BY <1>3, <3>1, <3>2 DEF MInv, Masters
    <3>4. t = Fs
      BY <1>2, <2>3, <3>3 DEF AskedBy
    <3>5. i = Len(code[Fs])
      BY <1>3, <2>3, <3>1, <3>2, <3>4 DEF MInv, Masters
    <3> QED BY <1>1, <1>3, <2>3, <3>4, <3>5, TopIsTaken
  <2>4. CASE TaskEnd /\ j \in QueuedJobs(Fs)
    <3>1. Killed(Fs) /\ ~IsPopUp(Fs) /\ valid' = valid \ {Fs} /\ Fs # Adam
      BY <1>3, <2>4 DEF TaskEnd, IInv, AdamSafe
    <3>2. CASE j \in ToSet(next_waiting[Fs])
      <4>1. job[j].srv = Fs
        BY <1>3, <3>2 DEF IInv, AskedOfServer
      <4>2. popup_task[t] = Fs
        BY <1>1, <3>1, <4>1 DEF AskedBy
      <4>3. parent_task[Fs] = t
        BY <1>3, <4>2, NullIsNothing DEF IInv, PopUpIsChild
      <4> QED BY <1>1, <3>1, <4>2, <4>3 DEF IsPopUp
    <3>3. CASE j \in ToSet(next_done[Fs])
      <4>1. t = Fs
        BY <1>1, <1>2, <1>3, <3>3 DEF MInv, DoneIsMasters
      <4> QED BY <3>1, <4>1
    <3> QED BY <2>4, <3>2, <3>3 DEF QueuedJobs
  <2> QED BY <1>2, <1>3, <2>1, <2>2, <2>3, <2>4, JobEffects
<1>5. CASE job[j].srv = Adam
  BY <1>1, <1>4, <1>5 DEF AskedBy
<1>6. CASE c.at = "asked" /\ c.task # NULL /\ c.task = popup_task[t] /\ job[j].srv = c.task
  <2>2. popup_task'[t] = popup_task[t]
    BY <1>1, <1>6, PopUpStays
  <2> QED BY <1>1, <1>4, <1>6, <2>2 DEF AskedBy
<1> QED BY <1>1, <1>5, <1>6 DEF AskedBy

\* A call that waits after the step did so before, or has just been made.
LEMMA KeptOrNew ==
  ASSUME IInv, Next, NEW t \in Task, NEW i \in DOMAIN code'[t], Waits(t, i)'
  PROVE  \/ i \in DOMAIN code[t] /\ code'[t][i] = code[t][i] /\ Waits(t, i)
         \/ Asking /\ t = Fs /\ i = Len(code'[Fs]) /\ code'[Fs][i].job = NewJob
<1>1. t \in valid' /\ ~Killed(t)' /\ Refers(code'[t][i]) /\ Fs \in Task
  BY DEF Waits, Refers, IInv, TypeOK
<1>2. t \in valid
  <2> SUFFICES ASSUME t \notin valid PROVE FALSE
    OBVIOUS
  <2>1. code'[t] = <<Call("serve", NULL, NULL)>>
    BY <1>1, BornServes
  <2>2. code'[t][i] = Call("serve", NULL, NULL)
    BY <2>1
  <2> QED BY <1>1, <2>2 DEF Refers, Call
<1>3. ~Killed(t)
  BY <1>1, <1>2, NextFlags DEF FlagPart
<1>4. Others
  BY AskingMoves, OtherMoves
<1>5. CASE t # Fs
  BY <1>1, <1>2, <1>3, <1>4, <1>5 DEF Others, Waits
<1>6. CASE t = Fs
  <2>1. \/ \E m : Keeps(m)
        \/ \E m, c : Puts(m, c) /\ ~Refers(c)
        \/ \E m, c : Puts(m, c) /\ Asking /\ c.job = NewJob
    <3>1. CASE Asking
      <4>1. PICK m, c : Puts(m, c) /\ (c = Call("handle", NewJob, NULL) \/ c = Call("asked", NewJob, NULL)
                                       \/ c = Call("asked", NewJob, NewTask) \/ c = Call("get", NewJob, NULL))
        BY <3>1, AskingMoves
      <4> QED BY <3>1, <4>1 DEF Call
    <3>2. CASE ~Asking
      BY <3>2, OtherMoves DEF PutsOne
    <3> QED BY <3>1, <3>2
  <2>2. Len(code[Fs]) \in Nat /\ DOMAIN code[Fs] = 1 .. Len(code[Fs])
    BY <1>1 DEF IInv, TypeOK
  <2>3. CASE \E m : Keeps(m)
    BY <1>1, <1>2, <1>3, <1>6, <2>2, <2>3 DEF Keeps, Waits
  <2>4. ASSUME NEW m, NEW c, Puts(m, c), ~Refers(c) \/ (Asking /\ c.job = NewJob)
        PROVE  \/ i \in DOMAIN code[t] /\ code'[t][i] = code[t][i] /\ Waits(t, i)
               \/ Asking /\ t = Fs /\ i = Len(code'[Fs]) /\ code'[Fs][i].job = NewJob
    <3>1. i \in 1 .. m + 1 /\ m \in 0 .. Len(code[Fs])
      BY <1>6, <2>4 DEF Puts
    <3>2. CASE i \in 1 .. m
      BY <1>1, <1>2, <1>3, <1>6, <2>2, <2>4, <3>1, <3>2 DEF Puts, Waits
    <3>3. CASE i = m + 1
      BY <1>1, <1>6, <2>4, <3>3 DEF Puts
    <3> QED BY <2>2, <3>1, <3>2, <3>3
  <2> QED BY <2>1, <2>3, <2>4
<1> QED BY <1>5, <1>6

\* What was just asked for is allocated, and the master is the one who asked.
LEMMA NewAsked ==
  ASSUME IInv, OnlyAdamServes, Next, Asking, NEW t, t = Fs, NEW c, c = code'[t][Len(code'[t])]
  PROVE  t \in Task /\ job[NewJob] = NULL /\ c.job = NewJob /\ AskedBy(t, c)'
<1>1. /\ t \in Task /\ t \in valid /\ NewJob \in Job /\ mode = "run"
      /\ job \in [Job -> CJob \cup {NULL}] /\ popup_task \in [Task -> Task \cup {NULL}]
  BY AskingMoves DEF IInv, TypeOK
<1>2. job[NewJob] = NULL
  BY NewJobIsFree DEF Asking, AdamAsksItself, AskAdam, PopUp, Ask, TaskExe
<1>3. \E srv \in Task, flags \in {{}, {"WAKE_MASTER"}} :
         /\ TaskExe(srv, t, flags) /\ c.job = NewJob
         /\ srv = Adam \/ (c.at = "asked" /\ c.task = srv /\ popup_task'[t] = srv)
  <2>1. CASE AdamAsksItself /\ Puts(Len(code[Fs]), Call("handle", NewJob, NULL))
    BY <1>1, <2>1, AdamIsTask DEF AdamAsksItself, Puts, Call
  <2>2. CASE AskAdam /\ Puts(Len(code[Fs]) - 1, Call("asked", NewJob, NULL))
    BY <1>1, <2>2, AdamIsTask DEF AskAdam, Puts, Call
  <2>3. CASE PopUp /\ Puts(Len(code[Fs]), Call("asked", NewJob, NewTask))
    <3>1. NewTask \in Task
      BY <2>3, NewTaskIsFree DEF PopUp, Spawn
    <3>2. TaskExe(NewTask, t, {"WAKE_MASTER"}) /\ popup_task'[t] = NewTask
      BY <1>1, <2>3 DEF PopUp
    <3>3. c = Call("asked", NewJob, NewTask)
      BY <2>3 DEF Puts
    <3> QED BY <3>1, <3>2, <3>3 DEF Call
  <2>4. CASE (\E srv \in Servers : Ask(srv)) /\ Puts(Len(code[Fs]), Call("get", NewJob, NULL))
    BY <1>1, <2>4, AdamIsTask DEF OnlyAdamServes, Ask, Puts, Call
  <2> QED BY <2>1, <2>2, <2>3, <2>4, AskingMoves
<1>4. PICK srv \in Task, flags \in {{}, {"WAKE_MASTER"}} :
         /\ TaskExe(srv, t, flags) /\ c.job = NewJob
         /\ srv = Adam \/ (c.at = "asked" /\ c.task = srv /\ popup_task'[t] = srv)
  BY <1>3
<1> DEFINE cjob == [srv |-> srv, master |-> t, flags |-> flags]
<1>5. job' = [job EXCEPT ![NewJob] = cjob]
  BY <1>4 DEF TaskExe
<1>6. cjob \in CJob /\ cjob.srv = srv /\ cjob.master = t /\ cjob.flags = flags
  BY <1>1 DEF CJob
<1> HIDE DEF cjob
<1>7. job'[c.job] = cjob /\ cjob # NULL
  BY <1>1, <1>4, <1>5, <1>6, NullIsNoRecord
<1>8. c.job # NULL /\ srv # NULL
  BY <1>1, <1>4, NullIsNothing
<1> QED BY <1>1, <1>2, <1>4, <1>6, <1>7, <1>8 DEF AskedBy

LEMMA NextMasters == ASSUME MInv, OnlyAdamServes, Next PROVE Masters'
<1>1. IInv
  BY DEF MInv
<1>2. ASSUME NEW t \in Task, NEW i \in DOMAIN code'[t], Waits(t, i)'
      PROVE  AskedBy(t, code[t][i])'
  <2>1. CASE i \in DOMAIN code[t] /\ code'[t][i] = code[t][i] /\ Waits(t, i)
    <3>1. t \in valid' /\ ~Killed(t)'
      BY <1>2 DEF Waits
    <3>2. \A c : c = code[t][i] => AskedBy(t, c)'
      BY <2>1, <3>1, StaysAsked
    <3> QED BY <2>1, <3>2 DEF AskedBy
  <2>2. CASE Asking /\ t = Fs /\ i = Len(code'[Fs])
    <3>1. \A c : c = code'[t][Len(code'[t])] => AskedBy(t, c)'
      BY <1>1, <2>2, NewAsked
    <3> QED BY <2>2, <3>1 DEF AskedBy
  <2> QED BY <1>1, <1>2, <2>1, <2>2, KeptOrNew
<1>3. ASSUME NEW t \in Task, NEW i \in DOMAIN code'[t], NEW k \in DOMAIN code'[t],
             Waits(t, i)', Waits(t, k)', code'[t][i].job = code'[t][k].job
      PROVE  i = k
  <2> DEFINE Old(x) == x \in DOMAIN code[t] /\ code'[t][x] = code[t][x] /\ Waits(t, x)
             New(x) == Asking /\ t = Fs /\ x = Len(code'[Fs]) /\ code'[Fs][x].job = NewJob
  <2>1. (Old(i) \/ New(i)) /\ (Old(k) \/ New(k))
    BY <1>1, <1>3, KeptOrNew
  <2>2. CASE Old(i) /\ Old(k)
    BY <1>3, <2>2 DEF MInv, Masters
  <2>3. ASSUME NEW x \in {i, k}, NEW y \in {i, k}, Old(x), New(y) PROVE FALSE
    <3>1. AskedBy(t, code[t][x])
      BY <2>3 DEF MInv, Masters
    <3>2. job[NewJob] = NULL
      BY <2>3, NewJobIsFree DEF Asking, AdamAsksItself, AskAdam, PopUp, Ask, TaskExe
    <3>3. code[t][x].job = NewJob
      BY <1>3, <2>3
    <3> QED BY <3>1, <3>2, <3>3 DEF AskedBy
  <2> QED BY <2>1, <2>2, <2>3
<1> QED BY <1>2, <1>3 DEF Masters

LEMMA NextAskedIsTop == ASSUME MInv, Next PROVE AskedIsTop'
<1>1. Others /\ ((\E m : Keeps(m)) \/ (\E m, c : Puts(m, c)))
  BY AskingMoves, OtherMoves DEF MInv, PutsOne
<1>2. Fs \in Task /\ Len(code[Fs]) \in Nat /\ DOMAIN code[Fs] = 1 .. Len(code[Fs])
  BY DEF MInv, IInv, TypeOK
<1>3. ASSUME NEW t \in Task, NEW i \in DOMAIN code'[t], code'[t][i].at = "asked"
      PROVE  i = Len(code'[t])
  <2>1. CASE t # Fs
    <3>1. CASE code'[t] = code[t]
      BY <1>3, <3>1 DEF MInv, AskedIsTop
    <3>2. CASE code'[t] = <<Call("serve", NULL, NULL)>>
      BY <1>3, <3>2 DEF Call
    <3> QED BY <1>1, <2>1, <3>1, <3>2 DEF Others
  <2>2. CASE t = Fs
    <3>1. ASSUME NEW m, Keeps(m) PROVE i = Len(code'[t])
      <4>1. i \in DOMAIN code[Fs] /\ code[Fs][i].at = "asked" /\ i \in 1 .. m
        BY <1>2, <1>3, <2>2, <3>1 DEF Keeps
      <4>2. i = Len(code[Fs])
        BY <1>2, <4>1 DEF MInv, AskedIsTop
      <4> QED BY <1>2, <2>2, <3>1, <4>1, <4>2 DEF Keeps
    <3>2. ASSUME NEW m, NEW c, Puts(m, c) PROVE i = Len(code'[t])
      <4>1. CASE i = m + 1
        BY <2>2, <3>2, <4>1 DEF Puts
      <4>2. CASE i # m + 1
        <5>1. i \in DOMAIN code[Fs] /\ code[Fs][i].at = "asked" /\ i \in 1 .. m
          BY <1>2, <1>3, <2>2, <3>2, <4>2 DEF Puts
        <5>2. i = Len(code[Fs])
          BY <1>2, <5>1 DEF MInv, AskedIsTop
        <5>3. m = Len(code[Fs]) /\ Top(Fs).at \in {"code", "serve", "handle"}
          BY <1>2, <3>2, <5>1, <5>2 DEF Puts
        <5> QED BY <5>1, <5>2, <5>3 DEF Top, Last
      <4> QED BY <4>1, <4>2
    <3> QED BY <1>1, <3>1, <3>2
  <2> QED BY <2>1, <2>2
<1> QED BY <1>3 DEF AskedIsTop

\* What is in a queue of jobs that are done has been there, or is the one just done.
LEMMA DoneAfter ==
  ASSUME IInv, Next, NEW t \in Task, NEW j \in ToSet(next_done'[t])
  PROVE  \/ j \in ToSet(next_done[t])
         \/ JobDone /\ j = Top(Fs).job /\ job[j].master \in {t, NULL}
<1>1. next_done \in [Task -> Seq(Job)] /\ Fs \in Task /\ job \in [Job -> CJob \cup {NULL}]
  BY DEF IInv, TypeOK
<1>2. CASE UNCHANGED next_done
  BY <1>2
<1>3. CASE JobDone /\ ~UNCHANGED next_done
  <2> DEFINE k == Top(Fs).job
             taker == IF job[k].master = NULL THEN Fs ELSE job[k].master
             s == next_done[taker]
             r == Append(s, k)
  <2>1. k \in Job /\ job[k] # NULL
    <3>1. k \in Job /\ IsExe(Top(Fs)) /\ Len(code[Fs]) \in DOMAIN code[Fs] /\ Top(Fs) = code[Fs][Len(code[Fs])]
      BY <1>3, Tops DEF IInv, JobDone, At, CallType, IsExe
    <3>2. k \in Exe
      BY <1>1, <3>1 DEF Exe, ExeJobs
    <3> QED BY ZenonT(60), <3>1, <3>2 DEF IInv, OneHolder
  <2>2. taker \in Task /\ job[k].master \in {taker, NULL}
    BY ZenonT(60), <1>1, <2>1 DEF CJob
  <2>3. next_done' = [next_done EXCEPT ![taker] = r]
    BY <1>3 DEF JobDone
  <2> HIDE DEF taker
  <2>4. s \in Seq(Job)
    BY <1>1, <2>2
  <2>5. next_done'[taker] = r /\ \A u \in Task : u # taker => next_done'[u] = next_done[u]
    BY <1>1, <2>2, <2>3
  <2> HIDE DEF s, k
  <2>6. ToSet(r) = ToSet(s) \cup {k}
    <3>1. /\ DOMAIN s = 1 .. Len(s) /\ DOMAIN r = 1 .. Len(s) + 1 /\ Len(s) \in Nat
          /\ \A i \in 1 .. Len(s) : r[i] = s[i]
          /\ r[Len(s) + 1] = k
      BY <2>1, <2>4, AppendElements
    <3> HIDE DEF r
    <3> QED BY <3>1 DEF ToSet
  <2> HIDE DEF r
  <2>7. CASE t # taker
    BY <2>5, <2>7
  <2>8. CASE t = taker
    BY <1>3, <2>2, <2>5, <2>6, <2>8 DEF s, k
  <2> QED BY <2>7, <2>8
<1>4. CASE TaskEnd
  <2>1. next_done' = [next_done EXCEPT ![Fs] = <<>>]
    BY <1>4 DEF TaskEnd
  <2>2. t # Fs /\ next_done'[t] = next_done[t]
    BY <1>1, <2>1 DEF ToSet
  <2> QED BY <2>2
<1>5. CASE /\ Top(Fs).job \in ToSet(next_done[Fs])
           /\ next_done' = [next_done EXCEPT
                              ![Fs] = RemoveAt(next_done[Fs], Place(next_done[Fs], Top(Fs).job))]
  <2> DEFINE s == next_done[Fs]
             k == Place(s, Top(Fs).job)
             r == RemoveAt(s, k)
  <2>1. s \in Seq(Job) /\ k \in DOMAIN s
    BY <1>1, <1>5, PlaceIsThere
  <2>2. next_done'[Fs] = r /\ \A u \in Task : u # Fs => next_done'[u] = next_done[u]
    BY <1>1, <1>5
  <2> HIDE DEF k, s
  <2>3. /\ r \in Seq(Job) /\ Len(r) = Len(s) - 1
        /\ \A i \in 1 .. Len(s) - 1 : r[i] = IF i < k THEN s[i] ELSE s[i + 1]
        /\ DOMAIN s = 1 .. Len(s) /\ Len(s) \in Nat
    BY <2>1, RemoveAtElements
  <2> HIDE DEF r
  <2>4. ToSet(r) \subseteq ToSet(s)
    BY SMTT(60), <2>3 DEF ToSet
  <2> QED BY <2>2, <2>4 DEF s
<1> QED BY <1>2, <1>3, <1>4, <1>5 DEF Next, Calls, Scheduler, Restore, Skip, EndPopUp, EndChildren,
     CallAdam, AdamAsksItself, PopUp, PopUpAlone, Kill, Ask, TaskExe, TaskWait, AskAdam, JobRunOne,
     SrvTaskCont, CodeExits, Works, JobResWait, JobResGet, AdamHasResult, PopUpHasResult, JobResScan,
     KillWait, jobVars

LEMMA NextDone == ASSUME MInv, Next PROVE DoneIsMasters'
<1>1. IInv /\ IInv'
  BY Preserved DEF MInv
<1> SUFFICES ASSUME NEW t \in Task, NEW j \in ToSet(next_done'[t]) PROVE job'[j].master \in {t, NULL}
  BY DEF DoneIsMasters
<1>2. j \in Job /\ job'[j] # NULL
  <2>1. next_done'[t] \in Seq(Job)
    BY <1>1 DEF IInv, TypeOK
  <2>2. j \in Done'
    BY DEF Done, JobsIn
  <2> QED BY <1>1, <2>1, <2>2 DEF ToSet, IInv, OneHolder
<1>3. job[j].master \in {t, NULL} /\ job[j] # NULL
  <2>1. CASE j \in ToSet(next_done[t])
    <3>1. j \in Done BY <2>1 DEF Done, JobsIn
    <3> QED BY <1>1, <2>1, <3>1 DEF MInv, DoneIsMasters, IInv, OneHolder
  <2>2. CASE JobDone /\ j = Top(Fs).job /\ job[j].master \in {t, NULL}
    <3>1. /\ IsExe(Top(Fs)) /\ Len(code[Fs]) \in DOMAIN code[Fs] /\ Fs \in Task
          /\ Top(Fs) = code[Fs][Len(code[Fs])]
      BY <1>1, <2>2, Tops DEF IInv, JobDone, At, IsExe
    <3>2. j \in Exe
      BY <1>2, <2>2, <3>1 DEF Exe, ExeJobs
    <3> QED BY <1>1, <2>2, <3>2 DEF IInv, OneHolder
  <2> QED BY <1>1, <2>1, <2>2, DoneAfter
<1> QED BY <1>1, <1>2, <1>3, JobEffects

\* Only PopUp and AskAdam suspend a task, and that is the task that calls them.
LEMMA SuspendedAfter ==
  ASSUME IInv, Next, NEW t \in Task, "SUSPENDED" \in task_flags'[t]
  PROVE  "SUSPENDED" \in task_flags[t] \/ (t = Fs /\ (PopUp \/ AskAdam))
<1>1. FlagTypes /\ Fs \in Task /\ valid \subseteq Task
  BY DEF IInv, TypeOK, FlagTypes, TaskFlags
<1>2. CASE UNCHANGED task_flags
  BY <1>2
<1>3. CASE EndPopUp \/ EndChildren \/ PopUpHasResult \/ \E u \in Task : Kill(u)
  <2>1. UNCHANGED task_flags \/ \E ts : task_flags' = Kills(ts)
    BY <1>3 DEF EndPopUp, EndChildren, PopUpHasResult, Kill
  <2>2. \A ts : task_flags' = Kills(ts) => "SUSPENDED" \in task_flags[t]
    BY DEF Kills
  <2> QED BY <2>1, <2>2
<1>4. CASE TaskEnd
  <2>1. task_flags' = [task_flags EXCEPT ![Fs] = {}]
    BY <1>4 DEF TaskEnd
  <2> QED BY <1>1, <2>1 DEF FlagTypes
<1>5. CASE PopUp \/ AskAdam
  <2>1. PICK srv \in Task : task_flags' = SuspendsMaster(srv)
    <3>1. CASE PopUp
      BY <3>1, NewTaskIsFree DEF PopUp, Spawn
    <3>2. CASE AskAdam
      BY <3>2, AdamIsTask DEF AskAdam
    <3> QED BY <1>5, <3>1, <3>2
  <2>2. {} \in SUBSET TaskFlags
    OBVIOUS
  <2>3. /\ SuspendsMaster(srv)[t] = WakesServer(srv)[t] \cup IF t = Fs THEN {"SUSPENDED"} ELSE {}
        /\ WakesServer(srv)[t] = task_flags[t] \ IF t = srv THEN {"IDLE", "AWAITING_MSG"} ELSE {}
    BY <1>1, <2>2, FlagsAfter
  <2> QED BY <1>5, <2>1, <2>3
<1>6. CASE PopUpAlone \/ AdamAsksItself \/ \E srv \in Servers : Ask(srv)
  <2>1. PICK srv \in Task : task_flags' = WakesServer(srv)
    <3>1. CASE PopUpAlone
      BY <3>1, NewTaskIsFree DEF PopUpAlone, Spawn
    <3>2. CASE AdamAsksItself
      BY <3>2, AdamIsTask DEF AdamAsksItself
    <3>3. CASE \E srv \in Servers : Ask(srv)
      BY <1>1, <3>3 DEF Ask, Accepts, TaskValidate
    <3> QED BY <1>6, <3>1, <3>2, <3>3
  <2> QED BY <1>1, <2>1 DEF WakesServer, ClearFlags, FlagTypes
<1>7. CASE JobRunOne \/ JobResGet \/ SrvTaskCont \/ CodeExits \/ JobResWait
  <2>1. PICK fl \in SUBSET {"IDLE", "AWAITING_MSG", "KILL_TASK"} :
          task_flags' = SetFlags(Fs, fl) \/ task_flags' = ClearFlags(Fs, fl)
    BY <1>7 DEF JobRunOne, JobResGet, SrvTaskCont, CodeExits, JobResWait
  <2> QED BY <1>1, <2>1 DEF SetFlags, ClearFlags, FlagTypes
<1>8. CASE JobDone
  BY <1>8 DEF JobDone
<1> QED BY <1>2, <1>3, <1>4, <1>5, <1>6, <1>7, <1>8 DEF Next, Calls, Scheduler, Restore, Skip, CallAdam,
     TaskWait, Works, AdamHasResult, KillWait

LEMMA NextSleepers == ASSUME MInv, OnlyAdamServes, Next PROVE Sleepers'
<1>1. /\ IInv /\ Fs \in Task /\ Fs \in valid /\ valid \subseteq Task /\ FlagTypes
      /\ popup_task \in [Task -> Task \cup {NULL}] /\ popup_task[Adam] = NULL
  BY ZenonT(60) DEF MInv, Sleepers, IInv, TypeOK, FlagTypes, TaskFlags
<1>2. popup_task'[Adam] = NULL
  <2>1. CASE UNCHANGED popup_task
    BY <1>1, <2>1
  <2>2. CASE PopUp
    BY <1>1, <2>2, AdamIsTask DEF PopUp, OnlyAdamServes
  <2>3. CASE EndPopUp \/ PopUpHasResult
    <3>1. \E p : popup_task' = [popup_task EXCEPT ![p] = NULL]
      BY <2>3 DEF EndPopUp, PopUpHasResult
    <3> QED BY <1>1, <3>1, AdamIsTask
  <2> QED BY <2>1, <2>2, <2>3 DEF Next, Calls, Scheduler, Restore, Skip, EndChildren, TaskEnd,
       CallAdam, AdamAsksItself, PopUpAlone, Kill, Ask, TaskWait, AskAdam, JobRunOne, SrvTaskCont,
       JobDone, CodeExits, Works, JobResWait, JobResGet, AdamHasResult, KillWait
<1>3. ASSUME mode' = "run" PROVE "SUSPENDED" \notin task_flags'[Fs']
  <2>1. CASE Restore
    BY <1>1, <2>1 DEF Restore, Blocked
  <2>2. ASSUME mode = "run", UNCHANGED Fs, ~PopUp, ~AskAdam PROVE "SUSPENDED" \notin task_flags'[Fs']
    BY ZenonT(60), <1>1, <2>2, SuspendedAfter DEF MInv, Sleepers
  <2>3. Restore \/ (mode = "run" /\ UNCHANGED Fs /\ ~PopUp /\ ~AskAdam)
    BY ZenonT(60), <1>3 DEF Next, Calls, Scheduler, Skip, EndPopUp, EndChildren, TaskEnd, CallAdam, AdamAsksItself,
      PopUp, PopUpAlone, Kill, Ask, TaskWait, AskAdam, JobRunOne, SrvTaskCont, JobDone, CodeExits, Works,
      JobResWait, JobResGet, AdamHasResult, PopUpHasResult, KillWait, Yield, Returns, Exit, MayCall, At
  <2> QED BY <2>1, <2>2, <2>3
<1>4. ASSUME NEW t \in Task \ valid' PROVE "SUSPENDED" \notin task_flags'[t]
  <2>1. t \in valid => TaskEnd /\ t = Fs
    BY DEF Next, Calls, Scheduler, Restore, Skip, EndPopUp, EndChildren, TaskEnd, CallAdam, AdamAsksItself,
      PopUp, PopUpAlone, Spawn, Kill, Ask, TaskWait, AskAdam, JobRunOne, SrvTaskCont, JobDone, CodeExits,
      Works, JobResWait, JobResGet, AdamHasResult, PopUpHasResult, KillWait
  <2>2. CASE TaskEnd /\ t = Fs
    BY <1>1, <2>2 DEF TaskEnd, FlagTypes
  <2>3. CASE t \notin valid
    <3>1. t # Fs /\ "SUSPENDED" \notin task_flags[t]
      BY <1>1, <2>3 DEF MInv, Sleepers
    <3> QED BY <1>1, <3>1, SuspendedAfter
  <2> QED BY ZenonT(60), <2>1, <2>2, <2>3
<1> QED BY <1>2, <1>3, <1>4 DEF Sleepers

\* A job that waits is in the queue still, or in execution, or was freed with its server.
LEMMA WaitersAfter ==
  ASSUME IInv, Next, NEW srv \in Task, NEW j \in ToSet(next_waiting[srv])
  PROVE  \/ j \in ToSet(next_waiting'[srv])
         \/ JobRunOne /\ srv = Fs /\ j = Head(next_waiting[Fs])
         \/ TaskEnd /\ srv = Fs
<1>1. next_waiting \in [Task -> Seq(Job)] /\ Fs \in Task
  BY DEF IInv, TypeOK
<1>2. CASE UNCHANGED next_waiting
  BY <1>2
<1>3. CASE TaskEnd
  <2>1. next_waiting' = [next_waiting EXCEPT ![Fs] = <<>>]
    BY <1>3 DEF TaskEnd
  <2> QED BY <1>1, <1>3, <2>1
<1>4. CASE JobRunOne
  <2> DEFINE s == next_waiting[Fs]
  <2>1. next_waiting' = [next_waiting EXCEPT ![Fs] = Tail(s)] /\ s \in Seq(Job) /\ s # <<>>
    BY <1>1, <1>4 DEF JobRunOne
  <2>2. next_waiting'[Fs] = Tail(s) /\ \A u \in Task : u # Fs => next_waiting'[u] = next_waiting[u]
    BY <1>1, <2>1
  <2> HIDE DEF s
  <2>3. /\ Len(s) \in Nat /\ DOMAIN s = 1 .. Len(s) /\ DOMAIN Tail(s) = 1 .. Len(s) - 1
        /\ \A i \in 1 .. Len(s) - 1 : Tail(s)[i] = s[i + 1]
        /\ s[1] = Head(s)
    BY <2>1
  <2>4. ASSUME srv = Fs, j # Head(s) PROVE j \in ToSet(Tail(s))
    <3>1. PICK i \in 1 .. Len(s) : s[i] = j
      BY <2>3, <2>4 DEF ToSet, s
    <3>2. i # 1
      BY <2>3, <2>4, <3>1
    <3>3. PICK k \in 1 .. Len(s) - 1 : i = k + 1
      <4>1. i - 1 \in 1 .. Len(s) - 1 /\ i = (i - 1) + 1
        BY <2>3, <3>1, <3>2
      <4> QED BY <4>1
    <3> QED BY <2>3, <3>1, <3>3 DEF ToSet
  <2> QED BY <1>4, <2>2, <2>4 DEF s
<1>5. CASE \E u, master, flags : TaskExe(u, master, flags)
  <2>1. PICK u : next_waiting' = [next_waiting EXCEPT ![u] = Append(next_waiting[u], NewJob)]
    BY <1>5 DEF TaskExe
  <2>2. NewJob \in Job
    BY <1>5, NewJobIsFree DEF TaskExe
  <2>3. CASE srv # u
    BY <1>1, <2>1, <2>3
  <2>4. CASE srv = u
    <3> DEFINE s == next_waiting[srv]
               r == Append(s, NewJob)
    <3>1. s \in Seq(Job) /\ next_waiting'[srv] = r
      BY <1>1, <2>1, <2>4
    <3> HIDE DEF s
    <3>2. /\ DOMAIN s = 1 .. Len(s) /\ DOMAIN r = 1 .. Len(s) + 1 /\ Len(s) \in Nat
          /\ \A i \in 1 .. Len(s) : r[i] = s[i]
      BY <2>2, <3>1, AppendElements
    <3> HIDE DEF r
    <3>3. ToSet(s) \subseteq ToSet(r)
      BY <3>2 DEF ToSet
    <3> QED BY <3>1, <3>3 DEF s
  <2> QED BY <2>3, <2>4
<1> QED BY <1>2, <1>3, <1>4, <1>5 DEF Next, Calls, Scheduler, Restore, Skip, EndPopUp, EndChildren,
     CallAdam, AdamAsksItself, PopUp, PopUpAlone, Kill, Ask, TaskWait, AskAdam, SrvTaskCont, JobDone,
     CodeExits, Works, JobResWait, JobResGet, AdamHasResult, PopUpHasResult, JobResScan, KillWait, jobVars

\* A job in execution is so still, or it is done, or its server has exited.
LEMMA ExecutesAfter ==
  ASSUME IInv, Next, NEW srv \in valid, NEW j \in Job, Executes(srv, j)
  PROVE  \/ Executes(srv, j)'
         \/ srv = Fs /\ JobDone /\ j = Top(Fs).job
         \/ srv = Fs /\ Fs # Adam /\ "KILL_TASK" \in task_flags'[Fs]
         \/ srv = Fs /\ TaskEnd
<1>1. PICK i \in DOMAIN code[srv] : code[srv][i].at = "code" /\ code[srv][i].job = j
  BY DEF Executes
<1>2. /\ Fs \in Task /\ srv \in Task /\ task_flags \in [Task -> SUBSET TaskFlags] /\ Len(code[Fs]) \in Nat
      /\ DOMAIN code[Fs] = 1 .. Len(code[Fs]) /\ j # NULL
  BY NullIsNothing DEF IInv, TypeOK, TaskFlags
<1>3. CASE srv # Fs
  <2>1. code'[srv] = code[srv]
    BY <1>2, <1>3, AskingMoves, OtherMoves DEF Others
  <2> QED BY <1>1, <2>1 DEF Executes
<1>4. CASE srv = Fs /\ CodeExits
  BY <1>2, <1>4 DEF CodeExits, SetFlags
<1>5. CASE srv = Fs /\ JobDone
  <2> DEFINE k == Top(Fs).job
             n == Len(code[Fs])
  <2>1. /\ mode = "run" /\ n \in DOMAIN code[Fs] /\ code[Fs][n] = Top(Fs) /\ IsExe(Top(Fs)) /\ k \in Job
    BY <1>5, Tops DEF IInv, JobDone, At, CallType, IsExe
  <2>2. CASE Exit /\ "EXIT_ON_COMPLETE" \in job[k].flags
    <3>1. k \in Exe
      BY <1>2, <2>1 DEF Exe, ExeJobs
    <3>2. job[k].srv = Fs /\ job[k] # NULL
      BY <1>2, <2>1, <3>1 DEF IInv, AskedOfServer, OneHolder
    <3>3. Fs # Adam
      BY <2>1, <2>2, <3>2 DEF IInv, AskedOfServer
    <3>4. "KILL_TASK" \in task_flags'[Fs]
      BY <1>2, <1>5, <2>2 DEF JobDone
    <3> QED BY <1>5, <3>3, <3>4
  <2>3. CASE Pop
    <3>1. Keeps(n - 1)
      BY <2>1, <2>3, PopKeepsFew
    <3>2. CASE i = n
      BY <1>1, <1>5, <2>1, <3>2
    <3>3. CASE i # n
      <4>1. i \in 1 .. n - 1
        BY <1>1, <1>2, <1>5, <3>3
      <4> QED BY <1>1, <1>5, <3>1, <4>1 DEF Keeps, Executes
    <3> QED BY <3>2, <3>3
  <2> QED BY <1>5, <2>2, <2>3 DEF JobDone
<1>6. CASE srv = Fs /\ ~Cut
  <2>1. \E m, c : (Keeps(m) \/ Puts(m, c)) /\ Below(m)
    <3>1. CASE Asking
      <4>1. AskAdam => Below(Len(code[Fs]) - 1)
        BY DEF AskAdam, At, Below, Returning
      <4>2. Below(Len(code[Fs]))
        BY DEF Below
      <4> QED BY <3>1, <4>1, <4>2, AskingMoves
    <3>2. CASE ~Asking
      BY <1>6, <3>2, OtherMoves DEF PutsOne
    <3> QED BY <3>1, <3>2
  <2>2. PICK m, c : (Keeps(m) \/ Puts(m, c)) /\ Below(m)
    BY <2>1
  <2>3. i \in 1 .. m
    <3>1. CASE m = Len(code[Fs])
      BY <1>1, <1>2, <1>6, <3>1
    <3>2. CASE m = Len(code[Fs]) - 1 /\ Top(Fs).at \in Returning
      <4>1. i # Len(code[Fs])
        BY <1>1, <1>6, <3>2 DEF Top, Last, Returning
      <4> QED BY <1>1, <1>2, <1>6, <3>2, <4>1
    <3> QED BY <2>2, <3>1, <3>2 DEF Below
  <2>4. i \in DOMAIN code'[Fs] /\ code'[Fs][i] = code[Fs][i]
    BY <1>2, <2>2, <2>3 DEF Keeps, Puts
  <2> QED BY <1>1, <1>6, <2>4 DEF Executes
<1> QED BY <1>3, <1>4, <1>5, <1>6 DEF Cut

\* A master that has just been suspended has its job in the queue of a valid task.
LEMMA NewSleeper ==
  ASSUME MInv, OnlyAdamServes, Next, PopUp \/ AskAdam, NEW t, t = Fs
  PROVE  \E j : Top(t)'.at = "asked" /\ Top(t)'.job = j /\ HasWaker(t, j)'
<1>1. IInv /\ IInv' /\ Asking /\ t \in Task /\ t \in valid /\ NewJob \in Job
  BY Preserved, AskingMoves DEF MInv, Asking, IInv, TypeOK
<1> PICK c : c = code'[t][Len(code'[t])]
  OBVIOUS
<1> PICK j : j = NewJob
  OBVIOUS
<1>2. c.job = NewJob /\ AskedBy(t, c)'
  BY <1>1, NewAsked
<1>3. Top(t)' = c
  BY DEF Top, Last
<1>4. /\ code'[t][Len(code'[t])].at = "asked"
      /\ \E srv \in valid' : TaskExe(srv, t, {"WAKE_MASTER"})
  <2>1. CASE AskAdam
    <3>1. mode = "run" /\ Adam \in valid' /\ TaskExe(Adam, t, {"WAKE_MASTER"})
      BY <2>1 DEF AskAdam, At, Accepts, TaskValidate
    <3>2. Puts(Len(code[Fs]) - 1, Call("asked", NewJob, NULL))
      <4>1. Callable(Call("asked", NewJob, NULL))
        BY <1>1, NullIsNothing, AdamIsTask DEF Callable, Call, CallType, Places
      <4> QED BY <1>1, <2>1, <3>1, <4>1, BecomesPuts DEF AskAdam, At, Returning
    <3> QED BY <3>1, <3>2 DEF Puts, Call
  <2>2. CASE PopUp
    <3>1. NewTask \in valid' /\ TaskExe(NewTask, t, {"WAKE_MASTER"}) /\ At("code")
      BY <2>2 DEF PopUp, Spawn, MayCall
    <3>2. valid' # valid
      <4>1. (\E k \in Task : Unborn(k)) /\ valid' = valid \cup {NewTask}
        BY <2>2 DEF PopUp, Spawn
      <4> QED BY <1>1, <4>1, NewTaskIsFree, UnbornIsNotValid DEF IInv
    <3>3. ~AdamAsksItself /\ ~AskAdam /\ ~(\E srv \in Servers : Ask(srv))
      BY <3>2 DEF AdamAsksItself, AskAdam, Ask
    <3>4. Puts(Len(code[Fs]), Call("asked", NewJob, NewTask))
      BY <1>1, <3>3, AskingMoves
    <3> QED BY <3>1, <3>4 DEF Puts, Call
  <2> QED BY <2>1, <2>2
<1>5. PICK srv \in valid' : TaskExe(srv, t, {"WAKE_MASTER"})
  BY <1>4
<1>6. job'[j].flags = {"WAKE_MASTER"} /\ job'[j].master = t
  BY <1>1, <1>5 DEF TaskExe, IInv, TypeOK
<1>7. j \in ToSet(next_waiting'[srv])
  <2> DEFINE s == next_waiting[srv]
             r == Append(s, NewJob)
  <2>1. srv \in Task
    BY <1>1 DEF IInv, TypeOK
  <2>2. s \in Seq(Job) /\ next_waiting'[srv] = r
    BY <1>5, <2>1 DEF TaskExe, MInv, IInv, TypeOK
  <2> HIDE DEF s
  <2>3. DOMAIN r = 1 .. Len(s) + 1 /\ Len(s) \in Nat /\ r[Len(s) + 1] = NewJob
    BY <1>1, <2>2, AppendElements
  <2>4. Len(s) + 1 \in DOMAIN r
    BY <2>3
  <2> QED BY <2>2, <2>3, <2>4 DEF ToSet
<1>8. HasWaker(t, j)'
  BY ZenonT(60), <1>5, <1>6, <1>7 DEF HasWaker
<1> QED BY <1>2, <1>3, <1>4, <1>8

LEMMA OnlyTaskEnds ==
  ASSUME Next, NEW t \in valid, t \notin valid' PROVE TaskEnd /\ t = Fs
  BY DEF Next, Calls, Scheduler, Restore, Skip, EndPopUp, EndChildren, TaskEnd, CallAdam, AdamAsksItself,
    PopUp, PopUpAlone, Spawn, Kill, Ask, TaskWait, AskAdam, JobRunOne, SrvTaskCont, JobDone, CodeExits,
    Works, JobResWait, JobResGet, AdamHasResult, PopUpHasResult, KillWait

\* The job JobRunOne takes is in execution afterwards.
LEMMA TakenIsExecuted ==
  ASSUME IInv, JobRunOne, NEW j, j = Head(next_waiting[Fs]) PROVE Executes(Fs, j)' /\ UNCHANGED Fs
<1> DEFINE c == Call("code", j, NULL)
           n == Len(code[Fs])
<1>1. Fs \in Task /\ n \in Nat /\ j \in Job /\ UNCHANGED Fs
  BY DEF JobRunOne, IInv, TypeOK, Returns
<1>2. Callable(c) /\ c.at = "code" /\ c.job = j
  BY <1>1 DEF Callable, Call, CallType, Places
<1>3. Push(c) /\ mode = "run" /\ Top(Fs).at \in {"code", "serve", "handle"}
  BY DEF JobRunOne, At
<1> HIDE DEF c
<1>4. Puts(n, c)
  BY <1>2, <1>3, PushPuts
<1>5. n + 1 \in DOMAIN code'[Fs] /\ code'[Fs][n + 1] = c
  BY <1>1, <1>4 DEF Puts
<1> HIDE DEF n
<1> QED BY <1>1, <1>2, <1>5 DEF Executes

\* A master that stays suspended stands still, its job and its pop-up with it.
Asleep(t) == t \in valid /\ "SUSPENDED" \in task_flags[t] /\ ~Killed(t)
LEMMA StaysAsleep ==
  ASSUME MInv, OnlyAdamServes, Next, NEW t, Asleep(t)', ~(t = Fs /\ (PopUp \/ AskAdam))
  PROVE  /\ t \in Task /\ Asleep(t) /\ code'[t] = code[t] /\ popup_task'[t] = popup_task[t]
         /\ Top(t).at = "asked" /\ (HasWaker(t, Top(t).job) \/ PopUpKilled(t))
         /\ AskedBy(t, Top(t))
         /\ \E c : c = Top(t) /\ AskedBy(t, c)'
<1>1. IInv /\ FlagPart /\ Sleepers' /\ t \in Task /\ Fs \in Task /\ Fs \in valid
  BY ZenonT(60), NextFlags, NextSleepers, Preserved DEF MInv, Asleep, IInv, TypeOK
<1>2. Asleep(t)
  <2>1. "SUSPENDED" \in task_flags[t]
    BY <1>1, SuspendedAfter DEF Asleep
  <2>2. t \in valid
    BY <1>1, <2>1 DEF MInv, Sleepers
  <2> QED BY <1>1, <2>1, <2>2 DEF Asleep, FlagPart
<1>3. code'[t] = code[t]
  <2>1. CASE t = Fs
    <3>1. mode # "run" /\ ~TaskEnd
      BY <1>2, <2>1 DEF MInv, Sleepers, Asleep, TaskEnd
    <3> QED BY <3>1 DEF Next, Calls, Scheduler, Restore, Skip, EndPopUp, EndChildren, CallAdam,
      AdamAsksItself, PopUp, PopUpAlone, Kill, Ask, TaskWait, AskAdam, JobRunOne, SrvTaskCont, JobDone,
      CodeExits, Works, JobResWait, JobResGet, AdamHasResult, PopUpHasResult, KillWait, MayCall, At
  <2>2. CASE t # Fs
    BY <1>1, <1>2, <2>2, AskingMoves, OtherMoves DEF Others, Asleep
  <2> QED BY <2>1, <2>2
<1>4. Top(t).at = "asked" /\ (HasWaker(t, Top(t).job) \/ PopUpKilled(t))
  BY <1>2 DEF MInv, WillWake, Asleep
<1> DEFINE n == Len(code[t])
<1>5. n \in DOMAIN code[t] /\ code[t][n] = Top(t)
  <2>1. code[t] # <<>> /\ code[t] \in Seq(CallType)
    BY <1>1, <1>2 DEF IInv, StacksSound, TypeOK, Asleep
  <2> QED BY <2>1 DEF Top, Last
<1>6. Waits(t, n)
  BY <1>2, <1>4, <1>5 DEF Waits, Refers, Asleep
<1>7. AskedBy(t, Top(t))
  BY <1>1, <1>5, <1>6 DEF MInv, Masters
<1>8. n \in DOMAIN code'[t] /\ code'[t][n] = code[t][n] /\ t \in valid' /\ ~Killed(t)'
  BY <1>3, <1>5 DEF Asleep
<1> HIDE DEF n
<1>9. popup_task'[t] = popup_task[t]
  BY <1>1, <1>4, <1>5, <1>6, <1>8, PopUpStays
<1>10. PICK c : c = Top(t)
  OBVIOUS
<1>11. AskedBy(t, c)'
  BY <1>1, <1>5, <1>6, <1>8, <1>10, StaysAsked
<1> QED BY <1>1, <1>2, <1>3, <1>4, <1>7, <1>9, <1>10, <1>11

\* The job a sleeping master waits for stays in the hands of its server, or the
\* server was the pop-up and is being killed.
LEMMA SleeperHasWaker ==
  ASSUME MInv, OnlyAdamServes, Next, NEW t, Asleep(t)', ~(t = Fs /\ (PopUp \/ AskAdam)),
         NEW j, j = Top(t).job, HasWaker(t, j)
  PROVE  HasWaker(t, j)' \/ PopUpKilled(t)'
<1>1. /\ t \in Task /\ Asleep(t) /\ popup_task'[t] = popup_task[t] /\ AskedBy(t, Top(t))
      /\ job'[j] # NULL /\ j # NULL /\ job[j] # NULL
      /\ job[j].master = t /\ "WAKE_MASTER" \in job[j].flags /\ "FREE_ON_COMPLETE" \notin job[j].flags
  BY StaysAsleep DEF AskedBy, HasWaker
<1>2. /\ IInv /\ IInv' /\ FlagPart /\ Fs \in Task /\ Fs \in valid /\ valid \subseteq Task /\ FlagTypes
      /\ job \in [Job -> CJob \cup {NULL}] /\ next_waiting \in [Task -> Seq(Job)]
  BY NextFlags, Preserved DEF MInv, IInv, TypeOK, FlagTypes, TaskFlags
<1>3. PICK srv \in valid : j \in ToSet(next_waiting[srv]) \/ Executes(srv, j)
  BY DEF HasWaker
<1>4. job[j].srv = srv /\ srv \in Task /\ j \in Job
  <2>1. CASE j \in ToSet(next_waiting[srv])
    <3>1. next_waiting[srv] \in Seq(Job)
      BY <1>2
    <3>2. j \in Job
      BY <2>1, <3>1 DEF ToSet
    <3> QED BY <1>2, <2>1, <3>2 DEF IInv, AskedOfServer
  <2>2. CASE Executes(srv, j)
    <3>1. PICK i \in DOMAIN code[srv] : code[srv][i].at = "code" /\ code[srv][i].job = j
      BY <2>2 DEF Executes
    <3>2. IsExe(code[srv][i])
      BY <1>1, <3>1 DEF IsExe
    <3>3. code[srv] \in Seq(CallType)
      BY <1>2 DEF IInv, TypeOK
    <3>4. code[srv][i] \in CallType
      BY <3>1, <3>3
    <3>5. j \in Job
      BY <1>1, <3>1, <3>4 DEF CallType
    <3> QED BY <1>2, <3>1, <3>2, <3>5 DEF IInv, AskedOfServer
  <2> QED BY <1>3, <2>1, <2>2
<1>5. ~(JobDone /\ j = Top(Fs).job)
  <2> SUFFICES ASSUME JobDone, j = Top(Fs).job PROVE FALSE
    OBVIOUS
  <2>1. task_flags'[t] = (task_flags[t] \ {"SUSPENDED"})
                           \cup IF t = Fs /\ "EXIT_ON_COMPLETE" \in job[j].flags THEN {"KILL_TASK"} ELSE {}
    BY <1>1 DEF JobDone, Asleep
  <2> QED BY <2>1 DEF Asleep
<1>6. job'[j].master = t /\ "WAKE_MASTER" \in job'[j].flags
  BY <1>1, <1>2, <1>4, <1>5, JobEffects
<1>7. srv # Adam => popup_task'[t] = srv
  BY <1>1, <1>4 DEF AskedBy
<1>8. srv # Adam => srv \in valid'
  BY <1>1, <1>2, <1>4, <1>7, NullIsNothing DEF Asleep, IInv, RingSound
<1>9. ~(TaskEnd /\ srv = Fs)
  <2>1. TaskEnd => Fs # Adam /\ Fs \notin valid'
    BY <1>2 DEF TaskEnd, IInv, AdamSafe
  <2> QED BY <1>8, <2>1
<1>10. srv \in valid'
  BY <1>9, <1>3, OnlyTaskEnds
<1>11. CASE j \in ToSet(next_waiting[srv])
  <2>1. j \in ToSet(next_waiting'[srv]) \/ (JobRunOne /\ srv = Fs /\ j = Head(next_waiting[Fs]))
    BY <1>2, <1>4, <1>9, <1>11, WaitersAfter
  <2>2. CASE JobRunOne /\ srv = Fs /\ j = Head(next_waiting[Fs])
    <3>1. PICK u : u = Fs
      OBVIOUS
    <3>2. Executes(u, j)'
      BY <1>2, <2>2, <3>1, TakenIsExecuted
    <3> QED BY <1>6, <1>10, <2>2, <3>1, <3>2 DEF HasWaker
  <2> QED BY <1>6, <1>10, <2>1, <2>2 DEF HasWaker
<1>12. CASE Executes(srv, j)
  <2>1. Executes(srv, j)' \/ (srv # Adam /\ "KILL_TASK" \in task_flags'[srv])
    BY <1>2, <1>3, <1>4, <1>5, <1>9, <1>12, ExecutesAfter
  <2>2. CASE srv # Adam /\ "KILL_TASK" \in task_flags'[srv]
    BY <1>4, <1>7, <2>2, NullIsNothing DEF PopUpKilled, Killed
  <2> QED BY <1>6, <1>10, <2>1, <2>2 DEF HasWaker
<1> QED BY <1>3, <1>11, <1>12

LEMMA NextWillWake == ASSUME MInv, OnlyAdamServes, Next PROVE WillWake'
<1> SUFFICES ASSUME NEW t, Asleep(t)'
             PROVE  \E j : /\ Top(t)'.at = "asked" /\ Top(t)'.job = j
                           /\ HasWaker(t, j)' \/ PopUpKilled(t)'
  BY DEF WillWake, Asleep
<1>1. CASE t = Fs /\ (PopUp \/ AskAdam)
  BY <1>1, NewSleeper
<1>2. CASE ~(t = Fs /\ (PopUp \/ AskAdam))
  <2>1. /\ t \in Task /\ Asleep(t) /\ code'[t] = code[t] /\ popup_task'[t] = popup_task[t]
        /\ Top(t).at = "asked" /\ (HasWaker(t, Top(t).job) \/ PopUpKilled(t))
    BY <1>2, StaysAsleep
  <2>2. PICK j : j = Top(t).job
    OBVIOUS
  <2>3. Top(t)' = Top(t)
    BY <2>1 DEF Top, Last
  <2>4. HasWaker(t, j)' \/ PopUpKilled(t)'
    <3>1. CASE HasWaker(t, j)
      BY <1>2, <2>2, <3>1, SleeperHasWaker
    <3>2. CASE PopUpKilled(t)
      <4>1. IInv' /\ FlagPart
        BY NextFlags, Preserved DEF MInv
      <4>2. popup_task'[t] \in valid'
        BY <2>1, <3>2, <4>1 DEF PopUpKilled, IInv, RingSound, Asleep
      <4> QED BY <2>1, <3>2, <4>1, <4>2 DEF PopUpKilled, FlagPart, Killed
    <3> QED BY <2>1, <2>2, <3>1, <3>2
  <2> QED BY <2>1, <2>2, <2>3, <2>4
<1> QED BY <1>1, <1>2

\* In the beginning no call waits for a job, and nobody is suspended.
LEMMA MInvBegins == ASSUME Init PROVE MInv
<1>1. IInv
  BY InitHolds
<1>2. \A t \in Task : \A i \in DOMAIN code[t] : ~Refers(code[t][i])
  <2> TAKE t \in Task
  <2> TAKE i \in DOMAIN code[t]
  <2>1. code[t] \in {<<Call("serve", NULL, NULL)>>, <<Call("code", NULL, NULL)>>, <<>>}
    BY DEF Init
  <2>2. code[t][i] \in {Call("serve", NULL, NULL), Call("code", NULL, NULL)}
    BY <2>1
  <2> QED BY <2>2 DEF Call, Refers
<1>3. Masters /\ AskedIsTop
  BY <1>2 DEF Masters, AskedIsTop, Waits, Refers
<1>4. DoneIsMasters
  BY DEF Init, DoneIsMasters, ToSet
<1>5. \A t \in Task : task_flags[t] = {} /\ popup_task[t] = NULL
  BY DEF Init
<1>6. valid \subseteq Task /\ Fs \in Task
  BY <1>1 DEF IInv, TypeOK
<1>7. Sleepers /\ WillWake
  BY <1>5, <1>6, AdamIsTask DEF Sleepers, WillWake
<1> QED BY <1>1, <1>3, <1>4, <1>7 DEF MInv

LEMMA MInvStutters == ASSUME MInv, UNCHANGED vars PROVE MInv'
<1>1. IInv'
  BY Stutters DEF MInv
<1>2. Masters' /\ AskedIsTop'
  BY DEF vars, MInv, Masters, AskedIsTop, Waits, AskedBy, Killed
<1>3. DoneIsMasters' /\ Sleepers'
  BY DEF vars, MInv, DoneIsMasters, Sleepers
<1>4. WillWake'
  BY DEF vars, MInv, WillWake, HasWaker, PopUpKilled, Executes, Killed, Top
<1> QED BY <1>1, <1>2, <1>3, <1>4 DEF MInv

\* Where only Adam is asked for results and Adam does not call PopUp, what masters
\* rely on (TaskExe, JobResScan, PopUp and Adam, Job.HC and KTask.HC) always holds.
THEOREM MastersAreSafe == ASSUME OnlyAdamServes PROVE Spec => []MInv
<1>1. Init => MInv
  BY MInvBegins
<1>2. MInv /\ [Next]_vars => MInv'
  <2>1. ASSUME MInv, Next PROVE MInv'
    BY <2>1, Preserved, NextMasters, NextAskedIsTop, NextDone, NextSleepers, NextWillWake DEF MInv
  <2> QED BY <2>1, MInvStutters
<1> QED BY <1>1, <1>2, PTL DEF Spec

\* There, the pointer a master keeps to its job never dangles: until the master has
\* the result the job is allocated, and its own (JobResGet, Adam, PopUp).
THEOREM JobsDoNotDangle == ASSUME OnlyAdamServes PROVE Spec => []NoDangling
<1>1. ASSUME MInv PROVE NoDangling
  <2>1. Masters /\ valid \subseteq Task
    BY <1>1 DEF MInv, IInv, TypeOK
  <2> QED BY <2>1 DEF NoDangling, Masters, Waits, Refers, AskedBy
<1> QED BY <1>1, MastersAreSafe, PTL

\* There, whoever is suspended in PopUp or Adam() will be woken: a valid task has the
\* job that does it, or the pop-up or the sleeper itself is being killed.
THEOREM SleepersAreWoken == ASSUME OnlyAdamServes PROVE Spec => []WillWake
<1>1. MInv => WillWake
  BY DEF MInv
<1> QED BY <1>1, MastersAreSafe, PTL
=============================================================================
