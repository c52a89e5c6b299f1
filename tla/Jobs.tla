-------------------------------- MODULE Jobs --------------------------------
(***************************************************************************)
(* Tasks that ask each other to execute code (Job.HC): TaskExe queues a    *)
(* job at a server, JobsHndlr runs it, the result comes back on the        *)
(* master's next_done.  PopUp and Adam suspend the master for that long.   *)
(*                                                                         *)
(* What the code of a job or of a user's task does is its own affair: it   *)
(* works on, it returns, or it calls one of the functions below.  The      *)
(* model begins when Adam serves: KMain calls SrvTaskCont once StartOS is  *)
(* done; RuntimeStartOS of the hosted runtime ends the process instead, so *)
(* there it is for StartOS to call SrvTaskCont.  TaskText and TaskMsg,     *)
(* with the input filters, are not modelled.                               *)
(***************************************************************************)
EXTENDS Tasks

CONSTANTS
  User,        \* a task that runs code from the start
  MaxCalls,    \* bound: the calls a stack holds
  PopUpMasters,\* the tasks that call PopUp(buf,Fs)
  Servers      \* the tasks that others ask with TaskExe and JobResGet

ASSUME UserIsTask == User \in Task \ {Adam}

\* The calls a stack holds.  "code" runs the text of a job, or a user's task
\* when it has none; "serve" is SrvTaskCont; "handle" the JobsHndlr of Adam();
\* "asked" has suspended its task until the job is done; "wait" is TaskWait;
\* "kill" waits for a task to end.
Call(at, j, t) == [at |-> at, job |-> j, task |-> t]

Init ==
  /\ mode = "run" /\ Fs = User /\ ran = TRUE
  /\ ring = <<Adam, User>> /\ valid = {Adam, User}
  /\ task_flags = [t \in Task |-> {}]
  /\ parent_task = [t \in Task |-> IF t = User THEN Adam ELSE NULL]
  /\ popup_task = [t \in Task |-> NULL]
  /\ next_waiting = [t \in Task |-> <<>>] /\ next_done = [t \in Task |-> <<>>]
  /\ job = [j \in Job |-> NULL]
  /\ code = [t \in Task |-> IF t = Adam THEN <<Call("serve", NULL, NULL)>>
                            ELSE IF t = User THEN <<Call("code", NULL, NULL)>> ELSE <<>>]

Top(t) == Last(code[t])
At(where) == mode = "run" /\ Top(Fs).at = where
Push(call) == code' = [code EXCEPT ![Fs] = Append(@, call)]
Pop == code' = [code EXCEPT ![Fs] = Front(@)]
Becomes(call) == code' = [code EXCEPT ![Fs] = Append(Front(@), call)]
Returns == UNCHANGED <<mode, Fs, ran>>
MayCall == At("code") /\ Len(code[Fs]) < MaxCalls

-----------------------------------------------------------------------------
(***************************************************************************)
(* Requests.                                                               *)
(***************************************************************************)
\* TaskExe accepts a job for a valid task without a pop-up ...
Accepts(srv) == TaskValidate(srv) /\ popup_task[srv] = NULL

\* ... puts it last in the queue, and wakes the task (TaskRstAwaitingMsg).  The
\* CJob gets an address that is free; which one makes no difference.
NewJob == CHOOSE j \in Job : job[j] = NULL

TaskExe(srv, master, flags) ==
  /\ \E j \in Job : job[j] = NULL
  /\ job' = [job EXCEPT ![NewJob] = [srv |-> srv, master |-> master, flags |-> flags]]
  /\ next_waiting' = [next_waiting EXCEPT ![srv] = Append(@, NewJob)]
  /\ UNCHANGED next_done

MutWakesServer_IdleOnly(srv) == ClearFlags(srv, {"IDLE"})
WakesServer(srv) == ClearFlags(srv, {"IDLE", "AWAITING_MSG"})

\* JOBf_WAKE_MASTER: the server is woken and the master, Fs, suspended.
SuspendsMaster(srv) == [WakesServer(srv) EXCEPT ![Fs] = @ \cup {"SUSPENDED"}]

\* Spawn of a task, in the ring before the caller; SrvCmdLine serves jobs.
Unborn(t) == t # Adam /\ parent_task[t] = NULL
NewTask == CHOOSE t \in Task : Unborn(t)

Spawn(t, parent, call) ==
  /\ \E k \in Task : Unborn(k)
  /\ ring' = TaskQueIns(t, Fs) /\ valid' = valid \cup {t}
  /\ parent_task' = [parent_task EXCEPT ![t] = parent]
  /\ code' = [code EXCEPT ![t] = <<Call("serve", NULL, NULL)>>,
                           ![Fs] = IF call = NULL THEN @ ELSE Append(@, call)]

\* PopUp(buf,Fs): the pop-up is a child that executes buf while Fs waits.
PopUp ==
  /\ MayCall /\ Fs \in PopUpMasters
  /\ Spawn(NewTask, Fs, Call("asked", NewJob, NewTask))
  /\ popup_task' = [popup_task EXCEPT ![Fs] = NewTask]
  /\ TaskExe(NewTask, Fs, {"WAKE_MASTER"})
  /\ task_flags' = SuspendsMaster(NewTask)
  /\ Yield

\* PopUp(buf): a child of Adam executes buf and exits; nobody waits.
PopUpAlone ==
  /\ MayCall
  /\ Spawn(NewTask, Adam, NULL)
  /\ TaskExe(NewTask, NULL, {"EXIT_ON_COMPLETE", "FREE_ON_COMPLETE"})
  /\ task_flags' = WakesServer(NewTask)
  /\ Returns /\ UNCHANGED popup_task

\* Adam(): any other task first waits until Adam is idle (TaskWait) ...
CallAdam ==
  /\ MayCall /\ Fs # Adam
  /\ Push(Call("wait", NULL, Adam))
  /\ Returns /\ UNCHANGED <<ring, task_flags, valid, parent_task, popup_task, jobVars>>

Idle(t) == next_waiting[t] = <<>> /\ "IDLE" \in task_flags[t]

TaskWait ==
  /\ At("wait") /\ ~Idle(Adam)
  /\ UNCHANGED <<ring, task_flags, valid, parent_task, popup_task, jobVars, code>> /\ Yield

\* ... then it suspends itself until Adam has run the job.
AskAdam ==
  /\ At("wait") /\ Idle(Adam) /\ Accepts(Adam)
  /\ TaskExe(Adam, Fs, {"WAKE_MASTER"})
  /\ task_flags' = SuspendsMaster(Adam)
  /\ Becomes(Call("asked", NewJob, NULL))
  /\ UNCHANGED <<ring, valid, parent_task, popup_task>> /\ Yield

\* Adam itself runs what is in its queue, this job last.
AdamAsksItself ==
  /\ MayCall /\ Fs = Adam /\ Accepts(Adam)
  /\ TaskExe(Adam, Adam, {})
  /\ task_flags' = WakesServer(Adam)
  /\ Push(Call("handle", NewJob, NULL))
  /\ Returns /\ UNCHANGED <<ring, valid, parent_task, popup_task>>

\* TaskExe to a server and JobResGet, which waits without being suspended.
Ask(srv) ==
  /\ MayCall /\ srv # Fs /\ Accepts(srv)
  /\ TaskExe(srv, Fs, {})
  /\ task_flags' = WakesServer(srv)
  /\ Push(Call("get", NewJob, NULL))
  /\ Returns /\ UNCHANGED <<ring, valid, parent_task, popup_task>>

-----------------------------------------------------------------------------
(***************************************************************************)
(* Serving.                                                                *)
(***************************************************************************)
\* JobsHndlr, from SrvTaskCont or Adam(), takes the first job and runs it.
JobRunOne ==
  /\ At("serve") \/ At("handle")
  /\ next_waiting[Fs] # <<>>
  /\ next_waiting' = [next_waiting EXCEPT ![Fs] = Tail(@)]
  /\ task_flags' = ClearFlags(Fs, {"IDLE"})
  /\ Push(Call("code", Head(next_waiting[Fs]), NULL))
  /\ Returns /\ UNCHANGED <<ring, valid, parent_task, popup_task, next_done, job>>

\* SrvTaskCont without a job: wait for a message.
SrvTaskCont ==
  /\ At("serve") /\ next_waiting[Fs] = <<>>
  /\ task_flags' = SetFlags(Fs, {"IDLE", "AWAITING_MSG"})
  /\ UNCHANGED <<ring, valid, parent_task, popup_task, jobVars, code>> /\ Yield

\* Exit marks the task and goes straight to TaskEnd, never to return.
Exit == mode' = "sched" /\ code' = [code EXCEPT ![Fs] = <<>>] /\ UNCHANGED <<Fs, ran>>

\* The code of a job has returned: its result goes to the master's queue (the
\* server's own, when there is no master), the master is woken, and the server
\* may have to exit.
JobDone ==
  /\ At("code") /\ Top(Fs).job # NULL
  /\ LET j      == Top(Fs).job
         master == job[j].master
         Has(f) == f \in job[j].flags
         wakes  == IF Has("WAKE_MASTER") THEN {master} \cap valid ELSE {}
         taker  == IF master = NULL THEN Fs ELSE master
     IN  /\ next_done' = IF Has("FREE_ON_COMPLETE") THEN next_done
                         ELSE [next_done EXCEPT ![taker] = Append(@, j)]
         /\ job' = IF Has("FREE_ON_COMPLETE") THEN [job EXCEPT ![j] = NULL]
                   ELSE [job EXCEPT ![j].flags = @ \cup {"DONE"}]
         /\ task_flags' = [t \in Task |->
                (task_flags[t] \ IF t \in wakes THEN {"SUSPENDED"} ELSE {})
                \cup IF t = Fs /\ Has("EXIT_ON_COMPLETE") THEN {"KILL_TASK"} ELSE {}]
         /\ IF Has("EXIT_ON_COMPLETE") THEN Exit ELSE Returns /\ Pop
  /\ UNCHANGED <<ring, valid, parent_task, popup_task, next_waiting>>

\* The code calls Exit, or that of a user's task returns.  Adam's does not:
\* without the Seth task there is no scheduler.
CodeExits ==
  /\ At("code") /\ Fs # Adam
  /\ task_flags' = SetFlags(Fs, {"KILL_TASK"})
  /\ Exit /\ UNCHANGED <<ring, valid, parent_task, popup_task, jobVars>>

\* The code works on.
Works ==
  /\ At("code")
  /\ UNCHANGED <<ring, task_flags, valid, parent_task, popup_task, jobVars, code>> /\ Yield

-----------------------------------------------------------------------------
(***************************************************************************)
(* Results.                                                                *)
(***************************************************************************)
\* JobResScan: a job that is done is taken from the caller's queue and freed.
IsDone(j) == job[j] # NULL /\ "DONE" \in job[j].flags
MutJobResScan_LeftInQueue(j) ==
  /\ job' = IF IsDone(j) /\ j \in ToSet(next_done[Fs]) THEN [job EXCEPT ![j] = NULL] ELSE job
  /\ UNCHANGED <<next_waiting, next_done>>
JobResScan(j) ==
  /\ IF IsDone(j) /\ j \in ToSet(next_done[Fs])
     THEN /\ next_done' = [next_done EXCEPT ![Fs] = RemoveAt(@, Place(@, j))]
          /\ job' = [job EXCEPT ![j] = NULL]
     ELSE UNCHANGED <<next_done, job>>
  /\ UNCHANGED next_waiting

\* JobResGet
JobResWait ==
  /\ At("get") /\ ~IsDone(Top(Fs).job)
  /\ task_flags' = SetFlags(Fs, {"IDLE"})
  /\ UNCHANGED <<ring, valid, parent_task, popup_task, jobVars, code>> /\ Yield

JobResGet ==
  /\ At("get") /\ IsDone(Top(Fs).job)
  /\ task_flags' = ClearFlags(Fs, {"IDLE"})
  /\ JobResScan(Top(Fs).job) /\ Pop
  /\ Returns /\ UNCHANGED <<ring, valid, parent_task, popup_task>>

\* Adam() has its result.
AdamHasResult ==
  /\ \/ At("asked") /\ Top(Fs).task = NULL
     \/ At("handle") /\ next_waiting[Fs] = <<>>
  /\ JobResScan(Top(Fs).job) /\ Pop
  /\ Returns /\ UNCHANGED <<ring, task_flags, valid, parent_task, popup_task>>

\* PopUp has its result, and ends the pop-up.
PopUpHasResult ==
  /\ At("asked") /\ Top(Fs).task # NULL
  /\ UNCHANGED <<ring, valid, parent_task>>
  /\ JobResScan(Top(Fs).job)
  /\ popup_task' = [popup_task EXCEPT ![Fs] = NULL]
  /\ IF TaskValidate(Top(Fs).task)
     THEN /\ task_flags' = Kills({Top(Fs).task})
          /\ Becomes(Call("kill", NULL, Top(Fs).task)) /\ Yield
     ELSE Pop /\ Returns /\ UNCHANGED task_flags

\* Kill(task), which waits for the task to end.
Kill(t) ==
  /\ MayCall /\ TaskValidate(t) /\ t # Adam
  /\ task_flags' = Kills({t})
  /\ Push(Call("kill", NULL, t))
  /\ UNCHANGED <<ring, valid, parent_task, popup_task, jobVars>> /\ Yield

KillWait ==
  /\ At("kill")
  /\ UNCHANGED <<ring, task_flags, valid, parent_task, popup_task, jobVars>>
  /\ IF TaskValidate(Top(Fs).task) /\ Killed(Top(Fs).task)
     THEN Yield /\ UNCHANGED code
     ELSE Returns /\ Pop

-----------------------------------------------------------------------------
Calls ==
  \/ CallAdam \/ AdamAsksItself \/ PopUp \/ PopUpAlone
  \/ \E t \in Task : Kill(t)
  \/ \E srv \in Servers : Ask(srv)

Next ==
  \/ Scheduler \/ Calls
  \/ TaskWait \/ AskAdam
  \/ JobRunOne \/ SrvTaskCont \/ JobDone \/ CodeExits \/ Works
  \/ JobResWait \/ JobResGet \/ AdamHasResult \/ PopUpHasResult \/ KillWait

\* The CPU does not stop, and the code of a job returns in the end, however deep
\* in the stack: JobsHndlr is below it, so the depth is even.
JobDepths == {n \in 1 .. MaxCalls + 1 : n % 2 = 0}
Fairness ==
  /\ WF_vars(Next)
  /\ \A t \in Task \ {User} : \A n \in JobDepths :
       SF_vars(Fs = t /\ Len(code[t]) = n /\ JobDone)

Spec == Init /\ [][Next]_vars /\ Fairness

-----------------------------------------------------------------------------
(***************************************************************************)
(* Properties.                                                             *)
(***************************************************************************)
Places == {"code", "serve", "handle", "asked", "wait", "get", "kill"}
CallType == [at : Places, job : Job \cup {NULL}, task : Task \cup {NULL}]
CJob == [srv : Task, master : Task \cup {NULL},
         flags : SUBSET {"WAKE_MASTER", "EXIT_ON_COMPLETE", "FREE_ON_COMPLETE", "DONE"}]

ASSUME NullIsNoRecord == NULL \notin CJob \cup CallType

\* Flags, links, queues and stacks hold what CTask and CJob can hold; the task
\* that runs is valid.
TypeOK ==
  /\ mode \in {"run", "sched", "idle"} /\ Fs \in valid /\ ran \in BOOLEAN
  /\ ring \in Seq(Task) /\ valid \subseteq Task
  /\ task_flags \in [Task -> SUBSET {"KILL_TASK", "SUSPENDED", "AWAITING_MSG", "IDLE"}]
  /\ parent_task \in [Task -> Task \cup {NULL}] /\ popup_task \in [Task -> Task \cup {NULL}]
  /\ next_waiting \in [Task -> Seq(Job)] /\ next_done \in [Task -> Seq(Job)]
  /\ job \in [Job -> CJob \cup {NULL}]
  /\ code \in [Task -> Seq(CallType)]

\* The scheduler's ring links exactly the valid tasks, each once, the Seth task
\* at its head: a round that passes nobody twice ends at Seth (Sched.HC).  And a
\* task is ended only after its children and its pop-up (TaskEnd): no valid task
\* has a link to a structure that was given up.
RingSound ==
  /\ IsInjective(ring) /\ ToSet(ring) = valid /\ Head(ring) = Adam
  /\ \A t \in valid : /\ t # Adam => parent_task[t] \in valid
                      /\ popup_task[t] # NULL => popup_task[t] \in valid

\* A CJob has one owner: it is in one queue, or some stack runs it, never both,
\* and what is in a queue has not been freed (JobRunOne, JobResScan, TaskEnd).
Executes(t, j) == \E i \in DOMAIN code[t] : code[t][i].at = "code" /\ code[t][i].job = j
Holds(queue, j) == {p \in Task \X (1 .. Cardinality(Job)) :
                      p[2] \in DOMAIN queue[p[1]] /\ queue[p[1]][p[2]] = j}
JobOwners(j) ==
  Cardinality(Holds(next_waiting, j)) + Cardinality(Holds(next_done, j))
    + Cardinality({t \in Task : Executes(t, j)})
JobOneOwner == \A j \in Job : /\ JobOwners(j) <= 1
                              /\ JobOwners(j) = 1 => job[j] # NULL

\* The pointer a master keeps to the job it asked for does not dangle: until the
\* master has the result, the job is there and is its own, also when the server
\* is killed -- unless the master is being killed too and never looks again.
NoDangling ==
  \A t \in valid : \A i \in DOMAIN code[t] :
    (code[t][i].at \in {"asked", "get", "handle"} /\ code[t][i].job # NULL /\ ~Killed(t))
    => job[code[t][i].job] # NULL /\ job[code[t][i].job].master = t

\* A suspended master is not forgotten: a valid task has the job that wakes it,
\* waiting or in execution, or its pop-up is killed (and TaskEnd kills the master
\* with it), or the master is killed itself.
HasWaker(t, j) ==
  /\ job[j].master = t /\ "WAKE_MASTER" \in job[j].flags
  /\ \E srv \in valid : j \in ToSet(next_waiting[srv]) \/ Executes(srv, j)
PopUpKilled(t) == popup_task[t] # NULL /\ Killed(popup_task[t])
WillWake ==
  \A t \in valid :
    "SUSPENDED" \in task_flags[t] /\ ~Killed(t) =>
      Top(t).at = "asked" /\ (HasWaker(t, Top(t).job) \/ PopUpKilled(t))

\* A task that is killed ends, its children and pop-up first.
KilledDies == \A t \in Task : "KILL_TASK" \in task_flags[t] ~> t \notin valid

\* A job that is queued at a server is taken up, or dies with its server.
JobsServed == \A t \in Task : next_waiting[t] # <<>> ~> next_waiting[t] = <<>>
=============================================================================
