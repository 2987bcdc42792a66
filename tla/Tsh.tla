--------------------------------- MODULE Tsh ---------------------------------
(***************************************************************************)
(* Job control of the shell (shelllab/tsh.c): the read/eval loop, the job  *)
(* list, the signal handlers that interrupt the loop and one another, and  *)
(* what the kernel does to child processes and signals.                    *)
(*                                                                         *)
(* The shell is one thread of control: the topmost handler runs, and the   *)
(* loop runs when there is none.  Signal installs handlers with an empty   *)
(* sa_mask, so a handler is interrupted by every signal but its own.       *)
(* Sections that only the loop writes, or that run with signals blocked,   *)
(* are one step; a section that a handler can split is several.            *)
(***************************************************************************)
EXTENDS Naturals, Sequences

CONSTANTS Pid,       \* process ids of children; one is given again only when forgotten
          NoPid,     \* pid 0, in an unused entry of the job list
          MAXJOBS,   \* length of the job list
          MaxJid,    \* bound: no new job is started once nextjid is past this
          Keys       \* the keyboard signals used: SIGINT by ctrl-c, SIGTSTP by ctrl-z

ASSUME PidAssumption == NoPid \notin Pid
ASSUME BoundAssumption == MAXJOBS \in Nat \ {0} /\ MaxJid \in Nat
ASSUME KeysAssumption == Keys \subseteq {"INT", "TSTP"}

Slot == 1..MAXJOBS
Sig == Keys \cup {"CHLD"}

VARIABLES job_list,  \* Slot -> [pid, jid, state]
          nextjid,
          pc,        \* where the read/eval loop is
          arg,       \* its pid: the child being started or waited for
          job,       \* its job pointer: the entry found by fg and bg
          blocked,   \* are SIGCHLD, SIGTSTP and SIGINT blocked?
          pending,   \* signals waiting to be delivered to the shell
          stack,     \* the handlers running, the interrupting one first
          frame,     \* Sig -> the handler's local state
          proc,      \* Pid -> the state the kernel keeps of the process
          news       \* stopped children waitpid has not reported yet

shellVars == <<job_list, nextjid, pc, arg, job, blocked>>
signalVars == <<pending, stack, frame>>
childVars == <<proc, news>>
vars == <<job_list, nextjid, pc, arg, job, blocked, pending, stack, frame, proc, news>>

-----------------------------------------------------------------------------
(* The job list.                                                           *)

Cleared == [pid |-> NoPid, jid |-> 0, state |-> "UNDEF"]

\* The first entry, in the order of the array, that satisfies Test.
IsFirst(i, Test(_)) == Test(i) /\ \A k \in 1..(i - 1) : ~Test(k)

PidAt(i) == job_list[i].pid
InList(p) == \E i \in Slot : PidAt(i) = p

\* A fault: the first job that is not stopped, whatever its state.
fgpid_AnyRunning(p) ==
  LET Fg(i) == job_list[i].state \in {"FG", "BG"}
  IN  \/ p = NoPid /\ \A i \in Slot : ~Fg(i)
      \/ \E i \in Slot : IsFirst(i, Fg) /\ p = PidAt(i)

\* fgpid returns p.
fgpid(p) ==
  LET Fg(i) == job_list[i].state = "FG"
  IN  \/ p = NoPid /\ \A i \in Slot : ~Fg(i)
      \/ \E i \in Slot : IsFirst(i, Fg) /\ p = PidAt(i)

addjob(p, state) ==
  LET Free(i) == PidAt(i) = NoPid
  IN  \/ /\ ~ \E i \in Slot : Free(i)      \* "Tried to create too many jobs"
         /\ UNCHANGED <<job_list, nextjid>>
      \/ \E i \in Slot :
           /\ IsFirst(i, Free)
           /\ job_list' = [job_list EXCEPT ![i] = [pid |-> p, jid |-> nextjid, state |-> state]]
           /\ nextjid' = IF nextjid + 1 > MAXJOBS THEN 1 ELSE nextjid + 1

\* m is the largest jid of the list jl, 0 if it is empty.
maxjid(jl, m) ==
  /\ m = 0 \/ \E i \in Slot : jl[i].jid = m
  /\ \A i \in Slot : jl[i].jid <= m

\* A fault: the largest jid in use is given again.
deletejob_NoIncrement(p) ==
  LET Is(i) == PidAt(i) = p
  IN  \/ ~InList(p) /\ UNCHANGED <<job_list, nextjid>>
      \/ \E i \in Slot :
           /\ IsFirst(i, Is)
           /\ job_list' = [job_list EXCEPT ![i] = Cleared]
           /\ \E m \in {0} \cup {job_list[k].jid : k \in Slot} :
                maxjid(job_list', m) /\ nextjid' = m

deletejob(p) ==
  LET Is(i) == PidAt(i) = p
  IN  \/ ~InList(p) /\ UNCHANGED <<job_list, nextjid>>
      \/ \E i \in Slot :
           /\ IsFirst(i, Is)
           /\ job_list' = [job_list EXCEPT ![i] = Cleared]
           /\ \E m \in {0} \cup {job_list[k].jid : k \in Slot} :
                maxjid(job_list', m) /\ nextjid' = m + 1

-----------------------------------------------------------------------------

Alive == pc \notin {"exited", "crashed"}

Off == [pc |-> "off", pid |-> NoPid, kind |-> "none"]
NoHandler == [s \in Sig |-> Off]

Init ==
  /\ job_list = [i \in Slot |-> Cleared] /\ nextjid = 1
  /\ pc = "prompt" /\ arg = NoPid /\ job = 0 /\ blocked = FALSE
  /\ pending = {} /\ stack = <<>> /\ frame = NoHandler
  /\ proc = [p \in Pid |-> "none"] /\ news = {}

-----------------------------------------------------------------------------
(* The read/eval loop, which runs while no handler does.                   *)

Main(from, to) == stack = <<>> /\ pc = from /\ pc' = to

\* A fault: eval forks with signals unblocked.
Fork_Unblocked(p, state) ==
  /\ Main("prompt", IF state = "BG" THEN "addBg" ELSE "addFg")
  /\ nextjid <= MaxJid
  /\ proc[p] = "none"
  /\ proc' = [proc EXCEPT ![p] = "born"]
  /\ arg' = p
  /\ UNCHANGED <<job_list, nextjid, job, blocked, signalVars, news>>

\* eval of a command that is not built in, up to fork: signals are blocked.
Fork(p, state) ==
  /\ Main("prompt", IF state = "BG" THEN "addBg" ELSE "addFg")
  /\ nextjid <= MaxJid
  /\ proc[p] = "none"
  /\ proc' = [proc EXCEPT ![p] = "born"]
  /\ arg' = p
  /\ blocked' = TRUE
  /\ UNCHANGED <<job_list, nextjid, job, signalVars, news>>

\* The parent's side after fork: addjob, unblock, and for a foreground job wait_fg.
AddBg ==
  /\ Main("addBg", "prompt")
  /\ addjob(arg, "BG")
  /\ blocked' = FALSE /\ arg' = NoPid
  /\ UNCHANGED <<job, signalVars, childVars>>

AddFg ==
  /\ Main("addFg", "wait")
  /\ addjob(arg, "FG")
  /\ blocked' = FALSE
  /\ UNCHANGED <<arg, job, signalVars, childVars>>

\* wait_fg spins until the first foreground entry is not the job waited for.
WaitDone ==
  /\ Main("wait", "prompt")
  /\ \E p \in Pid \cup {NoPid} : fgpid(p) /\ (p = NoPid \/ p # arg)
  /\ arg' = NoPid /\ job' = 0
  /\ UNCHANGED <<job_list, nextjid, blocked, signalVars, childVars>>

\* fg and bg look a job up by its jid; without one they go through a null pointer.
FindJob(jid, to) ==
  LET Is(i) == job_list[i].jid = jid
  IN  \/ /\ \A i \in Slot : ~Is(i)
         /\ Main("prompt", "crashed")
         /\ UNCHANGED job
      \/ /\ \E i \in Slot : IsFirst(i, Is) /\ job' = i
         /\ Main("prompt", to)

BuiltinBg(jid) ==
  /\ FindJob(jid, "bgSet")
  /\ UNCHANGED <<job_list, nextjid, arg, blocked, signalVars, childVars>>

BuiltinFg(jid) ==
  /\ FindJob(jid, "fgSet")
  /\ UNCHANGED <<job_list, nextjid, arg, blocked, signalVars, childVars>>

\* The entry may have been cleared, or used again, since it was found.
BgSet ==
  /\ Main("bgSet", "prompt")
  /\ job_list' = [job_list EXCEPT ![job].state = "BG"]
  /\ job' = 0
  /\ UNCHANGED <<nextjid, arg, blocked, signalVars, childVars>>

FgSet ==
  /\ Main("fgSet", "fgCont")
  /\ job_list' = [job_list EXCEPT ![job].state = "FG"]
  /\ UNCHANGED <<nextjid, arg, job, blocked, signalVars, childVars>>

\* SIGCONT also discards a stop that waitpid has not reported.
Continue(p) ==
  /\ news' = news \ {p}
  /\ IF proc[p] = "stopped"
     THEN proc' = [proc EXCEPT ![p] = "run"] /\ pending' = pending \cup {"CHLD"}
     ELSE UNCHANGED <<proc, pending>>

\* kill(-job->pid, SIGCONT): no group of that number yet, or kill(0), reach no job.
FgCont ==
  /\ Main("fgCont", "fgWait")
  /\ LET p == job_list[job].pid
     IN  IF p \in Pid /\ proc[p] # "born" THEN Continue(p) ELSE UNCHANGED <<childVars, pending>>
  /\ UNCHANGED <<job_list, nextjid, arg, job, blocked, stack, frame>>

\* wait_fg(job->pid): the pid is read once more.
FgWait ==
  /\ Main("fgWait", "wait")
  /\ arg' = job_list[job].pid
  /\ UNCHANGED <<job_list, nextjid, job, blocked, signalVars, childVars>>

\* quit, end of input, or SIGQUIT at any moment.
Quit ==
  /\ Alive /\ pc' = "exited"
  /\ stack' = <<>> /\ frame' = NoHandler
  /\ UNCHANGED <<job_list, nextjid, arg, job, blocked, pending, childVars>>

-----------------------------------------------------------------------------
(* Signals and handlers.                                                   *)

\* ctrl-c or ctrl-z, or the test driver, signals the shell.
Key(s) ==
  /\ Alive /\ pending' = pending \cup {s}
  /\ UNCHANGED <<shellVars, stack, frame, childVars>>

Deliver(s) ==
  /\ Alive /\ s \in pending /\ ~blocked /\ frame[s].pc = "off"
  /\ pending' = pending \ {s}
  /\ stack' = <<s>> \o stack
  /\ frame' = [frame EXCEPT ![s].pc = "start"]
  /\ UNCHANGED <<shellVars, childVars>>

Running(s, at) == Alive /\ stack # <<>> /\ Head(stack) = s /\ frame[s].pc = at

Return(s) == stack' = Tail(stack) /\ frame' = [frame EXCEPT ![s] = Off]

\* sigint_handler and sigtstp_handler read fgpid ...
ReadFg(s) ==
  /\ Running(s, "start")
  /\ \/ fgpid(NoPid) /\ Return(s)
     \/ \E p \in Pid :
          /\ fgpid(p)
          /\ frame' = [frame EXCEPT ![s] = [pc |-> "act", pid |-> p, kind |-> "none"]]
          /\ UNCHANGED stack
  /\ UNCHANGED <<shellVars, pending, childVars>>

\* A child stops or dies: the kernel sends SIGCHLD.
Stops(p) ==
  /\ proc[p] = "run" /\ proc' = [proc EXCEPT ![p] = "stopped"]
  /\ news' = news \cup {p} /\ pending' = pending \cup {"CHLD"}

Dies(p) ==
  /\ proc' = [proc EXCEPT ![p] = "zombie"]
  /\ pending' = pending \cup {"CHLD"} /\ UNCHANGED news

\* ... and signal its process group, which a child has only after its setpgid.
\* The signal may also be caught, or act later: then the child goes on.
Forward(s) ==
  /\ Running(s, "act")
  /\ LET p == frame[s].pid
     IN  \/ UNCHANGED <<proc, news, pending>>
         \/ s = "INT" /\ proc[p] = "run" /\ Dies(p)
         \/ s = "TSTP" /\ Stops(p)
  /\ Return(s)
  /\ UNCHANGED shellVars

\* sigchld_handler: waitpid reaps a dead child or reports a stopped one ...
WaitDead(p) ==
  /\ Running("CHLD", "start") /\ proc[p] = "zombie"
  /\ proc' = [proc EXCEPT ![p] = "none"]
  /\ frame' = [frame EXCEPT !["CHLD"] = [pc |-> "act", pid |-> p, kind |-> "dead"]]
  /\ UNCHANGED <<shellVars, pending, stack, news>>

\* A fault: a stopped child is taken for one that has ended.
WaitStopped_AsExit(p) ==
  /\ Running("CHLD", "start") /\ p \in news
  /\ news' = news \ {p}
  /\ frame' = [frame EXCEPT !["CHLD"] = [pc |-> "act", pid |-> p, kind |-> "dead"]]
  /\ UNCHANGED <<shellVars, pending, stack, proc>>

WaitStopped(p) ==
  /\ Running("CHLD", "start") /\ p \in news
  /\ news' = news \ {p}
  /\ frame' = [frame EXCEPT !["CHLD"] = [pc |-> "act", pid |-> p, kind |-> "stopped"]]
  /\ UNCHANGED <<shellVars, pending, stack, proc>>

\* A fault: the handler reaps one child, an if for the while.
WaitNone_Early ==
  /\ Running("CHLD", "start")
  /\ Return("CHLD")
  /\ UNCHANGED <<shellVars, pending, childVars>>

WaitNone ==
  /\ Running("CHLD", "start")
  /\ news = {} /\ \A p \in Pid : proc[p] # "zombie"
  /\ Return("CHLD")
  /\ UNCHANGED <<shellVars, pending, childVars>>

\* ... and the job list is brought up to date.
DeleteDead ==
  /\ Running("CHLD", "act") /\ frame["CHLD"].kind = "dead"
  /\ deletejob(frame["CHLD"].pid)
  /\ frame' = [frame EXCEPT !["CHLD"] = [Off EXCEPT !.pc = "start"]]
  /\ UNCHANGED <<pc, arg, job, blocked, pending, stack, childVars>>

\* A fault: a stopped job keeps its state in the list.
MarkStopped_KeepsState ==
  /\ Running("CHLD", "act") /\ frame["CHLD"].kind = "stopped"
  /\ InList(frame["CHLD"].pid)
  /\ frame' = [frame EXCEPT !["CHLD"] = [Off EXCEPT !.pc = "start"]]
  /\ UNCHANGED <<job_list, nextjid, pc, arg, job, blocked, pending, stack, childVars>>

MarkStopped ==
  LET Is(i) == PidAt(i) = frame["CHLD"].pid
  IN  /\ Running("CHLD", "act") /\ frame["CHLD"].kind = "stopped"
      /\ \E i \in Slot : IsFirst(i, Is) /\ job_list' = [job_list EXCEPT ![i].state = "ST"]
      /\ frame' = [frame EXCEPT !["CHLD"] = [Off EXCEPT !.pc = "start"]]
      /\ UNCHANGED <<nextjid, pc, arg, job, blocked, pending, stack, childVars>>

\* A stopped child that is not in the list: getjobpid gives a null pointer.
MarkNull ==
  /\ Running("CHLD", "act") /\ frame["CHLD"].kind = "stopped"
  /\ ~InList(frame["CHLD"].pid)
  /\ pc' = "crashed" /\ stack' = <<>> /\ frame' = NoHandler
  /\ UNCHANGED <<job_list, nextjid, arg, job, blocked, pending, childVars>>

-----------------------------------------------------------------------------
(* Children.                                                               *)

\* setpgid and exec of the user's program.
Exec(p) ==
  /\ Alive /\ proc[p] = "born" /\ proc' = [proc EXCEPT ![p] = "run"]
  /\ UNCHANGED <<shellVars, signalVars, news>>

\* The program, or the child before exec, exits or is ended by a signal.
Die(p) ==
  /\ Alive /\ proc[p] \in {"born", "run"}
  /\ Dies(p)
  /\ UNCHANGED <<shellVars, stack, frame>>

\* The program stops itself, or is stopped by a signal sent earlier.
Stop(p) ==
  /\ Alive /\ Stops(p)
  /\ UNCHANGED <<shellVars, stack, frame>>

-----------------------------------------------------------------------------

Shell ==
  \/ AddBg \/ AddFg \/ WaitDone \/ BgSet \/ FgSet \/ FgCont \/ FgWait

Handler(s) ==
  \/ s # "CHLD" /\ (ReadFg(s) \/ Forward(s))
  \/ s = "CHLD" /\ (\/ \E p \in Pid : WaitDead(p) \/ WaitStopped(p)
                    \/ WaitNone \/ DeleteDead \/ MarkStopped \/ MarkNull)

User ==
  \/ \E p \in Pid, state \in {"FG", "BG"} : Fork(p, state)
  \/ \E jid \in 1..(MaxJid + 1) : BuiltinFg(jid) \/ BuiltinBg(jid)
  \/ Quit
  \/ \E s \in Keys : Key(s)

Child(p) == Exec(p) \/ Die(p) \/ Stop(p)

Next ==
  \/ User \/ Shell
  \/ \E s \in Sig : Deliver(s) \/ Handler(s)
  \/ \E p \in Pid : Child(p)

Spec == Init /\ [][Next]_vars

\* The kernel runs the shell and delivers SIGCHLD, and keys are not pressed so fast
\* that their handlers keep the shell from everything else.  Users and children may
\* do nothing for ever.
FairSpec ==
  /\ Spec /\ SF_vars(Shell) /\ WF_vars(Deliver("CHLD"))
  /\ \A s \in Sig : SF_vars(Handler(s))

-----------------------------------------------------------------------------
(* Properties.                                                             *)

LoopStates == {"prompt", "addBg", "addFg", "wait", "bgSet", "fgSet", "fgCont", "fgWait",
               "exited", "crashed"}
JobStates == {"UNDEF", "FG", "BG", "ST"}
Frames ==
  [pc : {"off", "start"}, pid : {NoPid}, kind : {"none"}]
    \cup [pc : {"act"}, pid : Pid, kind : {"none", "dead", "stopped"}]

TypeOK ==
  /\ job_list \in [Slot -> [pid : Pid \cup {NoPid}, jid : Nat, state : JobStates]]
  /\ nextjid \in Nat \ {0}
  /\ pc \in LoopStates /\ arg \in Pid \cup {NoPid} /\ job \in {0} \cup Slot
  /\ blocked \in BOOLEAN
  /\ pending \subseteq Sig /\ stack \in Seq(Sig) /\ frame \in [Sig -> Frames]
  /\ proc \in [Pid -> {"none", "born", "run", "stopped", "zombie"}]
  /\ news \subseteq Pid

\* While no handler runs, every entry of the job list is a child that has not been
\* reaped, and no child has two entries: addjob, with signals blocked around it,
\* cannot come after the deletejob of the same child, nor meet the entry of an
\* earlier child of the same pid.
NoStaleJob ==
  Alive /\ stack = <<>> =>
    \A i \in Slot :
      PidAt(i) # NoPid =>
        /\ proc[PidAt(i)] # "none"
        /\ \A k \in Slot : PidAt(k) = PidAt(i) => k = i

\* With room in the list, every child that has not been reaped has its entry, from
\* addjob on: no interleaving of handlers and loop drops a job.
Tracked ==
  \A p \in Pid :
    Alive /\ proc[p] # "none" => InList(p) \/ (pc \in {"addBg", "addFg"} /\ arg = p)

\* A dead child, or a stop, waits for waitpid only while SIGCHLD is pending or the
\* handler is in its loop: signals that merge into one lose no child.
NoMissedChild ==
  Alive /\ (news # {} \/ \E p \in Pid : proc[p] = "zombie") =>
    "CHLD" \in pending \/ frame["CHLD"].pc # "off"

\* With room in the list, sigchld_handler never meets a stopped child without an entry.
HandlerSafe == [][~MarkNull]_vars

\* eval gives each job its own process group "so that our background children
\* don't receive SIGINT (SIGTSTP)": whatever interrupts a handler between its
\* fgpid and its kill, a job that is in the background is not signalled.
SparesBackground ==
  [][\A s \in Keys, i \in Slot :
       Forward(s) /\ PidAt(i) = frame[s].pid => job_list[i].state # "BG"]_vars

\* wait_fg gives up once its job is dead or stopped: the shell prompts again.
ForegroundEnds ==
  \A p \in Pid :
    pc = "wait" /\ arg = p /\ proc[p] \in {"zombie", "stopped"} ~> pc \in {"prompt", "exited"}

-----------------------------------------------------------------------------
(* What a comment of tsh.c says.                                           *)

\* No handler runs or is due, and the loop waits for a command.
Quiet == pc = "prompt" /\ stack = <<>> /\ pending = {}

\* "BG: running in background": a job the bg command has put there runs.
BackgroundRuns ==
  Quiet => \A i \in Slot : job_list[i].state = "BG" /\ PidAt(i) \in Pid => proc[PidAt(i)] # "stopped"
=============================================================================
