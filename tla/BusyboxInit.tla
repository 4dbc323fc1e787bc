----------------------------- MODULE BusyboxInit -----------------------------
(***************************************************************************)
(* packages/busybox/source/init/init.c: process 1 of the target.           *)
(* rpi_rootfs/init execs it; it runs the entries of /etc/inittab, starts   *)
(* the respawn and askfirst ones again when they end, rereads the file on  *)
(* SIGHUP and takes the machine down on SIGTERM, SIGUSR1, SIGUSR2 and      *)
(* SIGPWR.                                                                 *)
(*                                                                         *)
(* Three parties interleave: init itself, one step per system call that    *)
(* can block or be interrupted; its children, which end when they like;    *)
(* and whoever sends signals and edits /etc/inittab.                       *)
(***************************************************************************)
EXTENDS Integers, SequencesExt

CONSTANTS
    Commands,     \* the command and terminal of an entry of the inittab
    Inittabs,     \* contents of /etc/inittab: sequences of [cmd, type]
    Pids,         \* process identifiers
    Signals,      \* delayed signals that are sent to init
    MaxSignals,   \* bound on the signals sent
    MaxDaemons,   \* bound on the daemons a sysinit script leaves behind
    ForkFailsIn,  \* the stages in which a fork may fail
    StopsIn       \* the stages in which SIGTSTP may arrive

Types == {"sysinit", "wait", "once", "respawn", "askfirst",
          "ctrlaltdel", "shutdown", "restart"}

(* run_actions is called once per stage; the other stages are what init    *)
(* does in between.                                                        *)
WaitStages == {"sysinit", "wait", "ctrlaltdel", "shutdown"}
RunStages  == WaitStages \cup {"once", "respawn"}
PollStages == {"poll1", "poll2", "sigwait"}
Stages     == RunStages \cup PollStages \cup {"reap", "term", "kill", "down"}

DelayedSignals == {"HUP", "INT", "QUIT", "USR1", "USR2", "TERM", "CHLD", "PWR"}

NoPid == 0
ForkError == -1

ASSUME InitAssumption ==
    /\ \A t \in Inittabs : t \in Seq([cmd : Commands, type : Types])
    /\ Pids \subseteq Nat \ {0}
    /\ Signals \subseteq DelayedSignals \ {"CHLD"}
    /\ MaxSignals \in Nat /\ MaxDaemons \in Nat
    /\ ForkFailsIn \subseteq RunStages
    /\ StopsIn \subseteq Stages \ {"shutdown", "term", "kill", "down"}

VARIABLES
    inittab,   \* the file /etc/inittab
    loaded,    \* the inittab that was parsed last
    list,      \* G.init_action_list: a sequence of [cmd, type, pid]
    proc,      \* proc[p]: "free", "running" or "zombie"
    job,       \* job[p]: the command p runs and the stage it was started in
    pending,   \* delayed signals not yet taken by sigtimedwait
    stage,     \* where init is
    back,      \* the stage that follows the ctrlaltdel actions
    at,        \* run_actions looks at the list from here on
    forked,    \* what run() returned, before it is stored in a->pid
    waited,    \* the process waitfor() waits for
    stopped,   \* init is in stop_handler
    final,     \* what the machine does once it is down
    ended,     \* the shutdown commands that have run to their end
    sent, daemons   \* how many signals and daemons there were

vars == <<inittab, loaded, list, proc, job, pending, stage, back, at, forked,
          waited, stopped, final, ended, sent, daemons>>

processes == <<proc, job>>
world == <<inittab, sent, daemons>>
control == <<stage, back, at, forked, waited, stopped, final, ended>>

NoJob == [cmd |-> "none", how |-> "none"]
Daemon == [cmd |-> "daemon", how |-> "none"]

-----------------------------------------------------------------------------
(* The list of actions.                                                    *)

Actions == [cmd : Commands, type : Types \cup {"removed"}, pid : Pids \cup {NoPid, ForkError}]

Entry(c, t, p) == [cmd |-> c, type |-> t, pid |-> p]

(* The entries with command c: there is at most one.                       *)
Matching(l, c) == { i \in DOMAIN l : l[i].cmd = c }

(* Fault: entries are added at the head of the list.                       *)
PrependAction(l, e) ==
    LET found == Matching(l, e.cmd) IN
    IF found = {}
      THEN <<Entry(e.cmd, e.type, NoPid)>> \o l
      ELSE <<Entry(e.cmd, e.type, l[Min(found)].pid)>> \o RemoveAt(l, Min(found))

(* The first entry with the same command and terminal is moved to the end  *)
(* and keeps its process; if there is none a new entry is appended.        *)
new_init_action(l, e) ==
    LET found == Matching(l, e.cmd) IN
    IF found = {}
      THEN Append(l, Entry(e.cmd, e.type, NoPid))
      ELSE Append(RemoveAt(l, Min(found)), Entry(e.cmd, e.type, l[Min(found)].pid))

parse_inittab(l, tab) ==
    LET add == [n \in DOMAIN tab |-> [a \in Seq(Actions) |-> new_init_action(a, tab[n])]]
        parsed[n \in 0 .. Len(tab)] == IF n = 0 THEN l ELSE add[n][parsed[n - 1]]
    IN  parsed[Len(tab)]

Disabled(l) == [i \in DOMAIN l |-> [l[i] EXCEPT !.type = "removed"]]

(* Fault: a removed entry is dropped although its process still runs.      *)
DropsRunning(a) == a.type \in {"removed", "sysinit"}

(* Entries that are still disabled, or sysinit, and have no process.       *)
Stale(a) == a.type \in {"removed", "sysinit"} /\ a.pid = NoPid

RemoveStale(l) ==
    LET kept[n \in 0 .. Len(l)] ==
            IF n = 0 THEN <<>>
            ELSE IF Stale(l[n]) THEN kept[n - 1] ELSE Append(kept[n - 1], l[n])
    IN  kept[Len(l)]

(* All entries are disabled, the file is parsed, and what is stale goes.   *)
reload_inittab(l, tab) == RemoveStale(parse_inittab(Disabled(l), tab))

(* Fault: the entry of the process is not looked up.                       *)
MarkNothing(l, p) == l

(* The first entry with this pid.                                          *)
mark_terminated(l, p) ==
    [i \in DOMAIN l |->
        IF l[i].pid = p /\ (\A j \in DOMAIN l : l[j].pid = p => i <= j)
          THEN [l[i] EXCEPT !.pid = NoPid] ELSE l[i]]

Init ==
    /\ inittab \in Inittabs
    /\ loaded = inittab
    /\ list = parse_inittab(<<>>, inittab)
    /\ proc = [p \in Pids |-> "free"] /\ job = [p \in Pids |-> NoJob]
    /\ pending = {} /\ sent = 0 /\ daemons = 0
    /\ stage = "sysinit" /\ back = "none" /\ at = 1
    /\ forked = NoPid /\ waited = NoPid /\ stopped = FALSE
    /\ final = "none" /\ ended = <<>>

-----------------------------------------------------------------------------
(* run_actions, run and waitfor.                                           *)

(* Fault: askfirst entries are started at boot only.                       *)
WantedRespawn == {stage}

Wanted == IF stage = "respawn" THEN {"respawn", "askfirst"} ELSE {stage}

Runs(a) == a.type \in Wanted /\ (stage = "respawn" => a.pid = NoPid)

Remaining == { i \in at..Len(list) : Runs(list[i]) }

InRunActions == stage \in RunStages /\ forked = NoPid /\ waited = NoPid /\ ~stopped

(* The lowest free pid is given out: pids are interchangeable but for the  *)
(* reuse of one that was just reaped, which this makes as likely as it can *)
(* be.                                                                     *)
Fork(p, j) ==
    /\ proc[p] = "free"
    /\ \A q \in Pids : proc[q] = "free" => p <= q
    /\ proc' = [proc EXCEPT ![p] = "running"]
    /\ job' = [job EXCEPT ![p] = j]

(* run(a): once entries are left alone, respawn and askfirst ones get      *)
(* their pid stored by the next step, the others are waited for.           *)
RunEntry(p) ==
    /\ InRunActions
    /\ Remaining # {}
    /\ LET i == Min(Remaining) IN
        /\ Fork(p, [cmd |-> list[i].cmd, how |-> stage])
        /\ at' = IF stage = "respawn" THEN i ELSE i + 1
    /\ forked' = IF stage = "respawn" THEN p ELSE NoPid
    /\ waited' = IF stage \in WaitStages THEN p ELSE NoPid
    /\ UNCHANGED <<world, loaded, list, pending, stage, back, stopped, final, ended>>

StorePid ==
    /\ forked # NoPid
    /\ ~stopped
    /\ list' = [list EXCEPT ![at].pid = forked]
    /\ forked' = NoPid
    /\ at' = at + 1
    /\ UNCHANGED <<world, processes, loaded, pending, stage, back, waited, stopped, final, ended>>

(* "can't fork": run() returns -1, which a respawn entry keeps as its pid. *)
RunFails ==
    /\ InRunActions
    /\ stage \in ForkFailsIn
    /\ Remaining # {}
    /\ LET i == Min(Remaining) IN
        /\ at' = i + 1
        /\ list' = IF stage = "respawn" THEN [list EXCEPT ![i].pid = ForkError] ELSE list
    /\ UNCHANGED <<world, processes, loaded, pending, stage, back, forked, waited,
                   stopped, final, ended>>

After == CASE stage = "sysinit"    -> "poll1"
           [] stage = "wait"       -> "poll2"
           [] stage = "once"       -> "respawn"
           [] stage = "respawn"    -> "sigwait"
           [] stage = "ctrlaltdel" -> back
           [] stage = "shutdown"   -> "term"

EndActions ==
    /\ InRunActions
    /\ Remaining = {}
    /\ stage' = After
    /\ at' = 1
    /\ UNCHANGED <<world, processes, loaded, list, pending, back, forked, waited,
                   stopped, final, ended>>

Reap(p) ==
    /\ proc[p] = "zombie"
    /\ proc' = [proc EXCEPT ![p] = "free"]
    /\ job' = [job EXCEPT ![p] = NoJob]
    /\ list' = mark_terminated(list, p)

(* wpid = wait(NULL): a child that ended, or none when there is no child.  *)
WaitAny(wpid) ==
    IF wpid = NoPid
      THEN (\A p \in Pids : proc[p] = "free") /\ UNCHANGED <<processes, list>>
      ELSE Reap(wpid)

(* One round of waitfor(): the loop is left when the awaited process was    *)
(* reaped, by this wait or, as kill(pid, 0) finds out, by an earlier one.  *)
waitfor(wpid) ==
    /\ waited # NoPid
    /\ ~stopped
    /\ WaitAny(wpid)
    /\ LET over == proc'[waited] = "free" IN
        /\ waited' = IF over THEN NoPid ELSE waited
        /\ ended' = IF over /\ stage = "shutdown"
                      THEN Append(ended, job[waited].cmd) ELSE ended
    /\ UNCHANGED <<world, loaded, pending, stage, back, at, forked, stopped, final>>

-----------------------------------------------------------------------------
(* check_delayed_sigs and the main loop.                                   *)

(* Fault: a signal brings init back to run_actions without reaping.        *)
ThenRespawns == CASE stage = "poll1" -> "wait" [] stage = "poll2" -> "once" [] stage = "sigwait" -> "respawn"

Then == CASE stage = "poll1" -> "wait" [] stage = "poll2" -> "once" [] stage = "sigwait" -> "reap"

(* sigtimedwait takes the pending signal with the lowest number.           *)
Precedence == <<"HUP", "INT", "QUIT", "USR1", "USR2", "TERM", "CHLD", "PWR">>
FirstPending == Precedence[SelectInSeq(Precedence, LAMBDA s : s \in pending)]

PollNothing ==
    /\ stage \in {"poll1", "poll2"}
    /\ ~stopped
    /\ pending = {}
    /\ stage' = Then
    /\ UNCHANGED <<world, processes, loaded, list, pending, back, at, forked, waited,
                   stopped, final, ended>>

TakeSignal(s) ==
    /\ stage \in PollStages
    /\ ~stopped
    /\ pending # {}
    /\ s = FirstPending

Restarts == \E i \in DOMAIN list : list[i].type = "restart"

(* SIGCHLD only wakes init up; so does SIGQUIT without a restart entry.    *)
TakeWakeup ==
    /\ \/ TakeSignal("CHLD")
       \/ TakeSignal("QUIT") /\ ~Restarts
    /\ pending' = pending \ {FirstPending}
    /\ stage' = Then
    /\ UNCHANGED <<world, processes, loaded, list, back, at, forked, waited, stopped,
                   final, ended>>

(* Fault: a reload forgets the other pending signals.                      *)
ReloadForgetsSignals ==
    /\ TakeSignal("HUP")
    /\ pending' = {}
    /\ list' = reload_inittab(list, inittab)
    /\ loaded' = inittab
    /\ stage' = Then
    /\ UNCHANGED <<world, processes, back, at, forked, waited, stopped, final, ended>>

TakeReload ==
    /\ TakeSignal("HUP")
    /\ pending' = pending \ {"HUP"}
    /\ list' = reload_inittab(list, inittab)
    /\ loaded' = inittab
    /\ stage' = Then
    /\ UNCHANGED <<world, processes, back, at, forked, waited, stopped, final, ended>>

(* Fault: the ctrlaltdel actions do not return to where they came from.    *)
CtrlAltDelNoReturn ==
    /\ TakeSignal("INT")
    /\ pending' = pending \ {"INT"}
    /\ stage' = "ctrlaltdel"
    /\ UNCHANGED <<world, processes, loaded, list, back, at, forked, waited, stopped, final, ended>>

TakeCtrlAltDel ==
    /\ TakeSignal("INT")
    /\ pending' = pending \ {"INT"}
    /\ stage' = "ctrlaltdel"
    /\ back' = Then
    /\ UNCHANGED <<world, processes, loaded, list, at, forked, waited, stopped, final, ended>>

(* halt_reboot_pwoff and exec_restart_action: signals get their default    *)
(* handlers and are unblocked, which for process 1 means ignored.          *)
TakeShutdown ==
    /\ \/ TakeSignal("TERM") /\ final' = "reboot"
       \/ TakeSignal("USR1") /\ final' = "halt"
       \/ TakeSignal("PWR") /\ final' = "halt"
       \/ TakeSignal("USR2") /\ final' = "poweroff"
       \/ TakeSignal("QUIT") /\ Restarts /\ final' = "exec"
    /\ pending' = {}
    /\ stage' = "shutdown"
    /\ UNCHANGED <<world, processes, loaded, list, back, at, forked, waited, stopped, ended>>

(* while (waitpid(-1, NULL, WNOHANG) > 0), and the pause of a second.      *)
ReapOne(p) ==
    /\ stage = "reap"
    /\ ~stopped
    /\ Reap(p)
    /\ UNCHANGED <<world, loaded, pending, control>>

ReapDone ==
    /\ stage = "reap"
    /\ ~stopped
    /\ \A p \in Pids : proc[p] # "zombie"
    /\ stage' = "respawn"
    /\ UNCHANGED <<world, processes, loaded, list, pending, back, at, forked, waited,
                   stopped, final, ended>>

(* kill(-1, SIGTERM), a second later kill(-1, SIGKILL), then the reboot or *)
(* the exec.                                                               *)
KillAll ==
    /\ \/ stage = "term" /\ stage' = "kill" /\ UNCHANGED proc
       \/ /\ stage = "kill" /\ stage' = "down"
          /\ proc' = [p \in Pids |-> IF proc[p] = "running" THEN "zombie" ELSE proc[p]]
    /\ UNCHANGED <<world, job, loaded, list, pending, back, at, forked, waited, stopped,
                   final, ended>>

-----------------------------------------------------------------------------
(* stop_handler: init waits for SIGCONT and reaps whatever ends meanwhile. *)

Stop ==
    /\ stage \in StopsIn
    /\ ~stopped
    /\ sent < MaxSignals
    /\ sent' = sent + 1
    /\ stopped' = TRUE
    /\ UNCHANGED <<inittab, daemons, processes, loaded, list, pending, stage, back, at,
                   forked, waited, final, ended>>

StopReap(p) ==
    /\ stopped
    /\ Reap(p)
    /\ UNCHANGED <<world, loaded, pending, control>>

(* The interrupted sigtimedwait returns; wait(NULL) is restarted.          *)
Continue ==
    /\ stopped
    /\ stopped' = FALSE
    /\ stage' = IF stage = "sigwait" THEN "reap" ELSE stage
    /\ UNCHANGED <<world, processes, loaded, list, pending, back, at, forked, waited, final, ended>>

-----------------------------------------------------------------------------
(* The children and the operator.                                          *)

Up == stage \notin {"shutdown", "term", "kill", "down"}

Exit(p) ==
    /\ stage # "down"
    /\ proc[p] = "running"
    /\ proc' = [proc EXCEPT ![p] = "zombie"]
    /\ pending' = IF Up THEN pending \cup {"CHLD"} ELSE pending
    /\ UNCHANGED <<world, job, loaded, list, control>>

(* A sysinit script leaves a daemon behind, which init inherits.           *)
SpawnDaemon(p, q) ==
    /\ proc[p] = "running" /\ job[p].how = "sysinit"
    /\ daemons < MaxDaemons
    /\ Fork(q, Daemon)
    /\ daemons' = daemons + 1
    /\ UNCHANGED <<inittab, sent, loaded, list, pending, control>>

SendSignal(s) ==
    /\ Up
    /\ sent < MaxSignals
    /\ sent' = sent + 1
    /\ pending' = pending \cup {s}
    /\ UNCHANGED <<inittab, daemons, processes, loaded, list, control>>

EditInittab ==
    /\ Up
    /\ inittab' \in Inittabs \ {inittab}
    /\ UNCHANGED <<sent, daemons, processes, loaded, list, pending, control>>

InitSteps ==
    \/ \E p \in Pids : RunEntry(p) \/ ReapOne(p)
    \/ \E wpid \in Pids \cup {NoPid} : waitfor(wpid)
    \/ StorePid \/ RunFails \/ EndActions
    \/ PollNothing \/ TakeWakeup \/ TakeReload \/ TakeCtrlAltDel \/ TakeShutdown
    \/ ReapDone \/ KillAll

Stopping == Stop \/ Continue \/ \E p \in Pids : StopReap(p)

World ==
    \/ \E p \in Pids : Exit(p) \/ \E q \in Pids : SpawnDaemon(p, q)
    \/ \E s \in Signals : SendSignal(s)
    \/ EditInittab

Next == InitSteps \/ Stopping \/ World

(* init is scheduled; the commands it waits for end; who stops init lets   *)
(* it continue.                                                            *)
Fairness ==
    /\ WF_vars(InitSteps)
    /\ WF_vars(Continue)
    /\ \A p \in Pids : WF_vars(job[p].how \in WaitStages /\ Exit(p))

Spec == Init /\ [][Next]_vars /\ Fairness
-----------------------------------------------------------------------------
TypeOK ==
    /\ inittab \in Inittabs /\ loaded \in Inittabs
    /\ list \in Seq(Actions)
    /\ proc \in [Pids -> {"free", "running", "zombie"}]
    /\ job \in [Pids -> [cmd : Commands \cup {"none", "daemon"}, how : RunStages \cup {"none"}]]
    /\ pending \in SUBSET DelayedSignals
    /\ stage \in Stages /\ back \in Stages \cup {"none"}
    /\ at \in Nat \ {0}
    /\ forked \in Pids \cup {NoPid} /\ waited \in Pids \cup {NoPid}
    /\ stopped \in BOOLEAN
    /\ final \in {"none", "reboot", "halt", "poweroff", "exec"}
    /\ ended \in Seq(Commands)
    /\ sent \in 0..MaxSignals /\ daemons \in 0..MaxDaemons

(* An entry that holds a pid has a child with that pid, running the        *)
(* entry's command or not yet reaped ("Only run stuff with pid == 0. If    *)
(* pid != 0, it is already running").                                      *)
EntryPidRuns ==
    \A i \in DOMAIN list :
        LET p == list[i].pid IN
        p # NoPid => p \in Pids /\ proc[p] # "free" /\ job[p].cmd = list[i].cmd

Respawned(c) == { p \in Pids : proc[p] = "running" /\ job[p] = [cmd |-> c, how |-> "respawn"] }

(* However often the inittab is edited and reloaded, entries removed and   *)
(* added again included, no respawn or askfirst command runs twice         *)
(* ("duplicate is spawned when the entry is re-added").                    *)
OneInstance ==
    \A c \in Commands : \A p, q \in Respawned(c) : p = q

(* init never goes to sleep on the death of a child it has to restart: a   *)
(* SIGCHLD is pending as long as such a child is not reaped, although      *)
(* signals coalesce, other signals are taken first and children are reaped *)
(* in four places.                                                         *)
NoLostWakeup ==
    stage \in {"respawn", "sigwait"} =>
        \A i \in DOMAIN list :
            list[i].pid \in Pids /\ proc[list[i].pid] = "zombie" => "CHLD" \in pending

(* The lines of type t; of two lines with the same command the later one   *)
(* counts.                                                                 *)
LinesOf(tab, t) ==
    { i \in DOMAIN tab :
        tab[i].type = t /\ \A j \in DOMAIN tab : j > i => tab[j].cmd # tab[i].cmd }

(* s holds the commands of the lines of type t, in the order of the file.  *)
InFileOrder(s, tab, t) ==
    \E line \in [DOMAIN s -> LinesOf(tab, t)] :
        /\ \A m, n \in DOMAIN s : m < n => line[m] < line[n]
        /\ \A i \in LinesOf(tab, t) : \E m \in DOMAIN s : line[m] = i
        /\ \A m \in DOMAIN s : s[m] = tab[line[m]].cmd

(* When the processes are killed, every shutdown entry of the inittab      *)
(* loaded last has run to its end, in the order of the file ("On reload,   *)
(* we must ensure entries end up in correct order").                       *)
ShutdownInOrder ==
    stage \in {"term", "kill", "down"} => InFileOrder(ended, loaded, "shutdown")

Respawning(c) == \E i \in DOMAIN list : list[i].cmd = c /\ list[i].type \in {"respawn", "askfirst"}

(* The commands some inittab asks to be kept running.                      *)
KeptRunning == { c \in Commands : \E t \in Inittabs : \E i \in DOMAIN t :
                    t[i].cmd = c /\ t[i].type \in {"respawn", "askfirst"} }

(* A respawn or askfirst entry whose process has ended is started again,   *)
(* unless a reload removes it or the machine goes down.                    *)
RespawnsAgain ==
    \A c \in KeptRunning :
        Respawning(c) /\ Respawned(c) = {} ~> Respawned(c) # {} \/ ~Respawning(c) \/ ~Up

Halted == stage = "down" /\ final # "exec"

(* A SIGQUIT with a lower number is taken first, and the new init does not *)
(* know of the signals that were pending.                                  *)
QuitFirst == "QUIT" \in pending /\ Restarts

(* A halt, reboot or poweroff signal takes the machine down, also when it  *)
(* arrives during sysinit, a reload or the ctrlaltdel actions, unless a    *)
(* SIGQUIT sent before it is taken makes init exec another one.  SIGPWR    *)
(* is the halt signal with a number above SIGCHLD's: it does so as well,   *)
(* or children of init keep dying for ever.                                *)
GoesDown ==
    /\ pending \cap {"USR1", "USR2", "TERM"} # {} ~> Halted \/ QuitFirst
    /\ \/ "PWR" \in pending ~> Halted \/ QuitFirst
       \/ []<><<\E p \in Pids : Exit(p)>>_vars

(* SIGPWR takes the machine down as the other halt signals do: not while a *)
(* respawn command that ends at once keeps a SIGCHLD pending before it.    *)
PowerFailHalts == "PWR" \in pending ~> stage = "down"

(* waitfor() returns once the process it waits for is gone, whoever reaped *)
(* it ("waitfor() must have code which is resilient against this").        *)
WaitforReturns ==
    waited # NoPid /\ proc[waited] = "free" ~> waited = NoPid
=============================================================================
