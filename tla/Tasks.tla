------------------------------- MODULE Tasks -------------------------------
(***************************************************************************)
(* The guest's tasks on its one CPU: the scheduler (Sched.HC), Spawn, Kill *)
(* and TaskEnd (KTask.HC), and the queues of jobs each task serves         *)
(* (CJobCtrl, Job.HC).                                                     *)
(*                                                                         *)
(* A task runs until it calls Yield, so everything it does between two     *)
(* Yields is one step and JOBCf_LOCKED, held within such a step only, is   *)
(* left out.  Core0StartMP is not called (InitRuntime.HC): there is one    *)
(* CPU, whose Seth task is Adam.  Not modelled: sleeping (wake_jiffy),     *)
(* SEMA_SINGLE_USER, the CTRL-ALT keys, and task_end_cb and                *)
(* sys_task_being_scrn_updated, which nothing in the kernel sets.  The     *)
(* memory of a dead task is not used again: its structure stays in the     *)
(* queue of the dying as long as jiffies stand still.  The guest is a      *)
(* process: its RFLAGS always have IF, so CPUf_RAN_A_TASK is set by every  *)
(* task that runs, and the idle task's STI ends it.                        *)
(*                                                                         *)
(* An operator Mut<Op>_<Bug> is <Op> with a bug it must not have, used to  *)
(* test that the properties notice.                                        *)
(***************************************************************************)
EXTENDS Integers, Sequences, SequencesExt, FiniteSets

CONSTANTS
  Task,     \* the addresses CTask structures get
  Adam,     \* adam_task, the Seth task of CPU 0
  Job,      \* the addresses CJob structures get
  NULL

ASSUME AdamIsTask == Adam \in Task
ASSUME NullIsNothing == NULL \notin Task \cup Job

VARIABLES
  mode,        \* "run": a task runs; "sched": the scheduler looks at one; "idle"
  Fs,          \* that task
  ran,         \* CPUf_RAN_A_TASK
  ring,        \* the tasks in the order of next_task, from Adam on
  task_flags,  \* TASKf_KILL_TASK, TASKf_SUSPENDED, TASKf_AWAITING_MSG, TASKf_IDLE
  valid,       \* the tasks with a signature
  parent_task, popup_task,
  next_waiting, next_done,  \* srv_ctrl of each task
  job,         \* the CJob at each address, or NULL
  code         \* what each task's stack holds: a sequence of calls, innermost last

schedVars == <<mode, Fs, ran, ring, task_flags, valid, parent_task, popup_task>>
jobVars   == <<next_waiting, next_done, job>>
vars      == <<mode, Fs, ran, ring, task_flags, valid, parent_task, popup_task,
               next_waiting, next_done, job, code>>

TaskValidate(t) == t \in valid
Children(t) == {c \in valid : parent_task[c] = t}

\* next_task, and the place before a task (TaskQueIns with that pred).
Place(r, t) == CHOOSE i \in DOMAIN r : r[i] = t
Index(t) == Place(ring, t)
NextIn(r, t) == r[(Place(r, t) % Len(r)) + 1]
MutNextTask_Stays(t) == t
NextTask(t) == NextIn(ring, t)
TaskQueIns(t, pred) ==
  IF pred = Adam THEN Append(ring, t) ELSE InsertAt(ring, Index(pred), t)
MutTaskQueRem_Next(t) == RemoveAt(ring, (Index(t) % Len(ring)) + 1)
TaskQueRem(t) == RemoveAt(ring, Index(t))

SetFlags(t, on)  == [task_flags EXCEPT ![t] = @ \cup on]
ClearFlags(t, off) == [task_flags EXCEPT ![t] = @ \ off]

-----------------------------------------------------------------------------
(***************************************************************************)
(* The scheduler.                                                          *)
(***************************************************************************)
Running(t) == mode = "run" /\ Fs = t

\* The running task gives the CPU away, to the next task of the ring as it then is.
Yield == mode' = "sched" /\ Fs' = NextIn(ring', Fs) /\ UNCHANGED ran

Blocked(t) == task_flags[t] \cap {"AWAITING_MSG", "SUSPENDED"} # {}
MutKilled_NotSuspended(t) == "KILL_TASK" \in task_flags[t] /\ ~Blocked(t)
Killed(t)  == "KILL_TASK" \in task_flags[t]

Restore ==
  /\ mode = "sched" /\ ~Killed(Fs) /\ ~Blocked(Fs)
  /\ mode' = "run" /\ ran' = TRUE
  /\ UNCHANGED <<Fs, ring, task_flags, valid, parent_task, popup_task, jobVars, code>>

\* A round without a ready task ends in the idle task (STI, HLT).
Skip ==
  /\ mode = "sched" /\ ~Killed(Fs) /\ Blocked(Fs)
  /\ Fs' = NextTask(Fs)
  /\ IF NextTask(Fs) # Adam THEN UNCHANGED <<mode, ran>>
     ELSE ran' = FALSE /\ mode' = IF ran THEN "sched" ELSE "idle"
  /\ UNCHANGED <<ring, task_flags, valid, parent_task, popup_task, jobVars, code>>

\* Kill(task,FALSE).
MutKills_NotSuspended(ts) ==
  [t \in Task |-> task_flags[t] \cup
     IF t \in ts /\ "SUSPENDED" \notin task_flags[t] THEN {"KILL_TASK"} ELSE {}]
Kills(ts) == [t \in Task |-> task_flags[t] \cup
                 IF t \in ts THEN {"KILL_TASK"} ELSE {}]

MutIsPopUp_Never(t) == FALSE
IsPopUp(t) == parent_task[t] # NULL /\ popup_task[parent_task[t]] = t

\* TaskEnd of a pop-up first kills the task that waits for it, which must not
\* be the Seth task ...
EndPopUp ==
  /\ mode = "sched" /\ Killed(Fs) /\ IsPopUp(Fs)
  /\ LET p == parent_task[Fs] IN
     /\ popup_task' = [popup_task EXCEPT ![p] = NULL]
     /\ task_flags' = Kills({p} \cap (valid \ {Adam}))
     /\ Fs' = p
  /\ UNCHANGED <<mode, ran, ring, valid, parent_task, jobVars, code>>

\* ... that of a parent its children; it comes again in the next round ...
EndChildren ==
  /\ mode = "sched" /\ Killed(Fs) /\ ~IsPopUp(Fs) /\ Children(Fs) # {}
  /\ task_flags' = Kills(Children(Fs))
  /\ Fs' = NextTask(Fs)
  /\ UNCHANGED <<mode, ran, ring, valid, parent_task, popup_task, jobVars, code>>

\* ... and then the task goes, with all jobs in its queues.  (The flags of a task
\* that is not valid are not looked at again; the model clears them.)
QueuedJobs(t) == ToSet(next_waiting[t]) \cup ToSet(next_done[t])

TaskEnd ==
  /\ mode = "sched" /\ Killed(Fs) /\ ~IsPopUp(Fs) /\ Children(Fs) = {}
  /\ job' = [j \in Job |-> IF j \in QueuedJobs(Fs) THEN NULL ELSE job[j]]
  /\ next_waiting' = [next_waiting EXCEPT ![Fs] = <<>>]
  /\ next_done' = [next_done EXCEPT ![Fs] = <<>>]
  /\ valid' = valid \ {Fs}
  /\ ring' = TaskQueRem(Fs)
  /\ Fs' = NextTask(Fs)
  /\ task_flags' = [task_flags EXCEPT ![Fs] = {}]
  /\ code' = [code EXCEPT ![Fs] = <<>>]
  /\ UNCHANGED <<mode, ran, parent_task, popup_task>>

Scheduler == Restore \/ Skip \/ EndPopUp \/ EndChildren \/ TaskEnd
=============================================================================
