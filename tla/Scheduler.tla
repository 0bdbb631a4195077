----------------------------- MODULE Scheduler -----------------------------
(***************************************************************************)
(* kernel/src/proc/mod.rs: the cooperative scheduler.  proc::init spawns   *)
(* the tasks "init" and "sh" into a table of MAX_TASKS slots; the main     *)
(* loop (main.rs run_loop) reads time::ticks() and later calls             *)
(* proc::run_once(ticks), which wakes the sleepers whose tick has come,    *)
(* picks the next Ready slot round-robin from the cursor and runs one step *)
(* of that task.  A step ends in a syscall: yield, sleep or exit.  The     *)
(* PIT interrupt advances the tick counter at any point.                   *)
(*                                                                         *)
(* Time is kept relative to TIMER_TICKS: a sleeper's deadline is          *)
(* until_tick - TIMER_TICKS, and the main loop's stale reading is lag      *)
(* ticks behind, so run_once's now_ticks is -lag.  The comparisons of     *)
(* wake_sleeping and the sums of SYS_SLEEP are unchanged by the shift.    *)
(*                                                                         *)
(* run_once runs under SCHED_LOCK and takes now_ticks as an argument, so   *)
(* the timer interrupt cannot change what it sees: it is one step.  The   *)
(* bytes the shell reads come from USER_SHELL_SCRIPT, a build constant; a  *)
(* byte is abstracted to its class in handle_shell_byte.  The syscall      *)
(* statistics, the text written to serial and what run_shell_command does  *)
(* in the network stack are left out.                                      *)
(***************************************************************************)
EXTENDS Integers, Sequences, FiniteSets

CONSTANTS
  MAX_TASKS,
  MAX_LINE_LEN,
  Script,     \* USER_SHELL_SCRIPT, as byte classes "nl", "bs", "pr", "ctl"
  MaxLag,     \* bound: timer ticks between run_loop's read of ticks and run_once
  \* the sleeps of run_init_task (25 and 80 ticks) and of run_shell_task (20)
  INIT_START_SLEEP, INIT_STEP_SLEEP, SHELL_IDLE_SLEEP

Slots == 0 .. MAX_TASKS - 1
NoSlot == MAX_TASKS

(* TaskState *)
Ready == [st |-> "Ready", until |-> 0]
Sleeping(u) == [st |-> "Sleeping", until |-> u]
Exited == [st |-> "Exited", until |-> 0]

(* Task::new *)
NewTask(pid, kind) ==
  [pid |-> pid, kind |-> kind, state |-> Ready, started |-> FALSE,
   step |-> 0, lineLen |-> 0]
NoTask == [pid |-> 0, kind |-> "None", state |-> Exited, started |-> FALSE,
           step |-> 0, lineLen |-> 0]

VARIABLES
  initialized, nextPid, cursor, tasks,   \* Scheduler
  scriptIndex,                           \* input_script.index
  loopPc,                                \* run_loop: "init", "read" or "run"
  lag,                                   \* TIMER_TICKS - run_loop's local ticks
  waited                                 \* history: runs of others while Ready

vars == <<initialized, nextPid, cursor, tasks, scriptIndex, loopPc, lag,
          waited>>

Occupied(ts) == {i \in Slots : ts[i] # NoTask}
IsReady(ts, i) == ts[i] # NoTask /\ ts[i].state = Ready

(* Scheduler::new, before kernel_main reaches proc::init. *)
Init ==
  /\ initialized = FALSE /\ nextPid = 1 /\ cursor = 0
  /\ tasks = [i \in Slots |-> NoTask]
  /\ scriptIndex = 0 /\ lag = 0
  /\ loopPc = "init"
  /\ waited = [i \in Slots |-> 0]

----------------------------------------------------------------------------
(* spawn_task: the pid is taken and next_pid bumped before the table is    *)
(* searched; the task goes into the first empty slot.                      *)
FirstFree(ts) ==
  LET free == {i \in Slots : ts[i] = NoTask}
  IN IF free = {} THEN NoSlot ELSE CHOOSE i \in free : \A j \in free : i <= j

SpawnTask(ts, pid, kind) ==
  IF FirstFree(ts) = NoSlot THEN ts
  ELSE [ts EXCEPT ![FirstFree(ts)] = NewTask(pid, kind)]

(* dispatch_syscall's SYS_SLEEP and SYS_EXIT; SYS_YIELD and SYS_WRITE     *)
(* leave the task as it is.                                                *)
SysSleep(t, delta, n) ==
  [t EXCEPT !.state = Sleeping(n + (IF delta > 1 THEN delta ELSE 1))]
SysExit(t) == [t EXCEPT !.state = Exited]

(* wake_sleeping *)
WakeSleeping(ts, n) ==
  [i \in Slots |->
     IF ts[i] # NoTask /\ ts[i].state.st = "Sleeping" /\ n >= ts[i].state.until
     THEN [ts[i] EXCEPT !.state = Ready]
     ELSE ts[i]]

(* Mutant: the cursor left on the slot that ran instead of the one after. *)
PickNextStay(ts, c) ==
  LET ks == {k \in 0 .. MAX_TASKS - 1 : IsReady(ts, (c + k) % MAX_TASKS)}
      k == CHOOSE k \in ks : \A j \in ks : k <= j
  IN IF ks = {} THEN [index |-> NoSlot, cursor |-> c]
     ELSE [index |-> (c + k) % MAX_TASKS, cursor |-> (c + k) % MAX_TASKS]

(* run_once's loop: from the cursor, the first Ready slot; the cursor      *)
(* moves one past every slot looked at.                                    *)
PickNext(ts, c) ==
  LET ks == {k \in 0 .. MAX_TASKS - 1 : IsReady(ts, (c + k) % MAX_TASKS)}
      k == CHOOSE k \in ks : \A j \in ks : k <= j
  IN IF ks = {} THEN [index |-> NoSlot, cursor |-> c]
     ELSE [index |-> (c + k) % MAX_TASKS, cursor |-> (c + k + 1) % MAX_TASKS]

(* Mutant: step 1 sleeps without moving on to step 2. *)
RunInitTaskNoStep(t, n) ==
  IF ~t.started THEN SysSleep([t EXCEPT !.started = TRUE], INIT_START_SLEEP, n)
  ELSE CASE t.step = 0 -> [t EXCEPT !.step = 1]
         [] t.step = 1 -> SysSleep(t, INIT_STEP_SLEEP, n)
         [] OTHER -> SysExit(t)

(* run_init_task: start and sleep; write and yield; sleep; exit(0).      *)
RunInitTask(t, n) ==
  IF ~t.started THEN SysSleep([t EXCEPT !.started = TRUE], INIT_START_SLEEP, n)
  ELSE CASE t.step = 0 -> [t EXCEPT !.step = 1]
         [] t.step = 1 -> SysSleep([t EXCEPT !.step = 2], INIT_STEP_SLEEP, n)
         [] OTHER -> SysExit(t)

(* handle_shell_byte: Enter runs the line and clears it, backspace drops a *)
(* byte, a printable byte is kept while the line has room.                 *)
HandleShellByte(t, b) ==
  CASE b = "nl" -> [t EXCEPT !.lineLen = 0]
    [] b = "bs" /\ t.lineLen > 0 -> [t EXCEPT !.lineLen = @ - 1]
    [] b = "pr" /\ t.lineLen < MAX_LINE_LEN - 1 -> [t EXCEPT !.lineLen = @ + 1]
    [] OTHER -> t

(* run_shell_task: start and yield; then sys_read one byte of the script: *)
(* a byte is handled and the task yields, none and it sleeps.             *)
RunShellTask(t, n, idx) ==
  IF ~t.started THEN [task |-> [t EXCEPT !.started = TRUE], idx |-> idx]
  ELSE IF idx < Len(Script)
  THEN [task |-> HandleShellByte(t, Script[idx + 1]), idx |-> idx + 1]
  ELSE [task |-> SysSleep(t, SHELL_IDLE_SLEEP, n), idx |-> idx]

RunTask(t, n, idx) ==
  IF t.kind = "Init" THEN [task |-> RunInitTask(t, n), idx |-> idx]
  ELSE RunShellTask(t, n, idx)

----------------------------------------------------------------------------
(* proc::init from kernel_main: spawn "init" and "sh" once. *)
ProcInit ==
  /\ loopPc = "init"
  /\ IF ~initialized
     THEN LET ts1 == SpawnTask(tasks, nextPid, "Init")
          IN /\ tasks' = SpawnTask(ts1, nextPid + 1, "Shell")
             /\ nextPid' = nextPid + 2
             /\ initialized' = TRUE
     ELSE UNCHANGED <<tasks, nextPid, initialized>>
  /\ loopPc' = "read"
  /\ UNCHANGED <<cursor, scriptIndex, lag, waited>>

(* run_loop: let ticks = time::ticks(); *)
ReadTicks ==
  /\ loopPc = "read"
  /\ lag' = 0
  /\ loopPc' = "run"
  /\ UNCHANGED <<initialized, nextPid, cursor, tasks, scriptIndex, waited>>

(* proc::run_once(ticks): the whole call under SCHED_LOCK.  waited counts, *)
(* for each slot Ready after the wake-up, the runs of other tasks.         *)
RunOnce ==
  /\ loopPc = "run"
  /\ LET woke == WakeSleeping(tasks, -lag)
         p == PickNext(woke, cursor)
         r == RunTask(woke[p.index], -lag, scriptIndex)
     IN /\ cursor' = p.cursor
        /\ IF p.index = NoSlot
           THEN tasks' = woke /\ UNCHANGED scriptIndex
           ELSE tasks' = [woke EXCEPT ![p.index] = r.task] /\ scriptIndex' = r.idx
        /\ waited' = [i \in Slots |->
              IF i = p.index \/ ~IsReady(woke, i) THEN 0
              ELSE IF p.index = NoSlot THEN waited[i] ELSE waited[i] + 1]
  /\ loopPc' = "read" /\ lag' = 0    \* ticks is dead after the call
  /\ UNCHANGED <<initialized, nextPid>>

(* The PIT interrupt: time::on_timer_tick.  Every deadline comes one tick *)
(* closer; one already MaxLag ticks past stays there, as it wakes at any  *)
(* lag.                                                                    *)
Tick ==
  /\ loopPc = "run" => lag < MaxLag
  /\ lag' = IF loopPc = "run" THEN lag + 1 ELSE 0
  /\ tasks' = [i \in Slots |->
       IF tasks[i] # NoTask /\ tasks[i].state.st = "Sleeping"
       THEN [tasks[i] EXCEPT !.state.until =
               IF @ > -MaxLag THEN @ - 1 ELSE @]
       ELSE tasks[i]]
  /\ UNCHANGED <<initialized, nextPid, cursor, scriptIndex, loopPc, waited>>

Next == ProcInit \/ ReadTicks \/ RunOnce \/ Tick

(* run_loop never ends, and hlt returns at the latest at the next PIT     *)
(* interrupt, which the PIT raises periodically.                           *)
Spec == Init /\ [][Next]_vars
          /\ WF_vars(ProcInit) /\ WF_vars(ReadTicks) /\ WF_vars(RunOnce)
          /\ WF_vars(Tick)

----------------------------------------------------------------------------
(* Round-robin: while a task is Ready, run_once runs every other task at   *)
(* most once before it runs that task, whatever yields, sleeps and         *)
(* wake-ups happen meanwhile.                                              *)
RoundRobinBound ==
  \A i \in Slots : waited[i] <= Cardinality(Occupied(tasks) \ {i})

(* The init task reaches exit(0): its sleeps end at the ticks they asked  *)
(* for, and run_once comes back to it.                                     *)
InitExits ==
  <>(\E i \in Slots : tasks[i].kind = "Init" /\ tasks[i].state = Exited)
=============================================================================
