------------------------------ MODULE RunTrace ------------------------------
(***************************************************************************)
(* The shell under its test driver (tshlab-handout/runtrace.c): the driver *)
(* follows a script, the shell reads its commands from the driver's socket *)
(* and prints to it, and the jobs it starts are the helper programs, which *)
(* meet the driver on a second socket.  Every step of the shell, of its    *)
(* handlers and of the kernel is one of Tsh; this module says when it is   *)
(* taken and what it prints.                                               *)
(*                                                                         *)
(* A second is long for a process: the driver's 4 seconds pass only when   *)
(* nobody can do anything else, and the 10 that a job waits for its signal *)
(* only when the driver has given up.  What a run that has ended leaves    *)
(* behind is not followed.                                                 *)
(***************************************************************************)
EXTENDS Tsh, SequencesExt

CONSTANTS Scripts,         \* the scripts, sequences of [op |-> ...]
          Traces           \* those of them that come with the lab

\* The lines of the scripts, and those of them that the driver passes on to the shell.
Lines == UNION {Range(s) : s \in Scripts}
Commands == {"run", "jobs", "fg", "bg", "quit"}

\* Of two commands that a NEXT follows, the second has a NEXT before it: a script that
\* asks for prompts asks for each of them.
Paced(s) ==
  \A m \in DOMAIN s : \A j \in 1..(m - 1) : \A i \in 1..(j - 1) :
    s[m].op = "NEXT" /\ s[j].op \in Commands /\ s[i].op \in Commands =>
      \E k \in i..j : s[k].op = "NEXT"

\* fg and bg name a job that there can be, and a job may press either key.
ASSUME ScriptAssumption ==
  /\ Traces \subseteq Scripts /\ Scripts \subseteq Seq(Lines)
  /\ \A line \in Lines : line.op \in {"fg", "bg"} => line.jid \in 1..(MaxJid + 1)
ASSUME PacedAssumption == \A s \in Scripts : Paced(s)
ASSUME BothKeysAssumption == Keys = {"INT", "TSTP"}

VARIABLES script, pos,     \* the script and the next line of it
          driver,          \* what the driver does: reads the script, or waits for something
          cmds,            \* datafd: the lines sent to the shell
          out,             \* datafd: the datagrams sent by the shell
          held,            \* what the shell's stdout holds back
          io,              \* where the shell's loop is between two commands
          ready, go,       \* syncfd: datagrams from jobs, and to jobs
          prog,            \* Pid -> the helper program, and where it is
          killed           \* the children that a signal has ended

driverVars == <<script, pos, driver>>
outVars == <<cmds, out, held, io>>
jobVars == <<ready, go, prog, killed>>
shell == <<shellVars, signalVars, childVars>>
rtVars == <<shell, driverVars, outVars, jobVars>>

NoProgram == [name |-> "none", at |-> "none"]

RTInit ==
  /\ Init
  /\ script \in Scripts /\ pos = 1 /\ driver = "initial"
  /\ cmds = <<>> /\ out = <<>> /\ held = <<>> /\ io = "print"
  /\ ready = 0 /\ go = 0 /\ killed = {}
  /\ prog = [p \in Pid |-> NoProgram]

-----------------------------------------------------------------------------
(* The driver.                                                             *)

Op == IF pos <= Len(script) THEN script[pos].op ELSE "EOF"

\* It has done line pos of the script.
Done == pos' = pos + 1 /\ driver' = "read" /\ UNCHANGED script

\* It waits for a descriptor to become readable, or for the shell to end.
Select(for) == driver' = for /\ UNCHANGED <<script, pos>>

Ends(how) == driver' = how /\ UNCHANGED <<script, pos>>

\* The first datagram must be the prompt.
InitialPrompt ==
  /\ driver = "initial" /\ out # <<>> /\ out' = Tail(out)
  /\ driver' = IF Head(out) = <<"prompt">> THEN "read" ELSE "wrong prompt"
  /\ UNCHANGED <<script, pos, shell, cmds, held, io, jobVars>>

\* A line that is not the driver's is passed on to the shell.
PassOn ==
  /\ driver = "read" /\ Op \in Commands
  /\ cmds' = Append(cmds, script[pos])
  /\ Done
  /\ UNCHANGED <<shell, out, held, io, jobVars>>

\* A fault: the driver goes on without waiting for the job.
Wait_AtOnce ==
  /\ driver = "read" /\ Op = "WAIT" /\ Done
  /\ UNCHANGED <<shell, outVars, jobVars>>

Wait ==
  /\ driver = "read" /\ Op = "WAIT" /\ Select("sync")
  /\ UNCHANGED <<shell, outVars, jobVars>>

Synced ==
  /\ driver = "sync" /\ ready > 0 /\ ready' = ready - 1
  /\ Done
  /\ UNCHANGED <<shell, outVars, go, prog, killed>>

NextPrompt ==
  /\ driver = "read" /\ Op = "NEXT" /\ Select("prompt")
  /\ UNCHANGED <<shell, outVars, jobVars>>

\* A fault: any datagram is taken for the prompt.
Prompted_Any ==
  /\ driver = "prompt" /\ out # <<>> /\ out' = Tail(out)
  /\ Done
  /\ UNCHANGED <<shell, cmds, held, io, jobVars>>

\* A datagram that is the prompt and nothing else ends the wait; after any other it
\* starts again.
Prompted ==
  /\ driver = "prompt" /\ out # <<>> /\ out' = Tail(out)
  /\ IF Head(out) = <<"prompt">> THEN Done ELSE Select("prompt")
  /\ UNCHANGED <<shell, cmds, held, io, jobVars>>

SIGNAL ==
  /\ driver = "read" /\ Op = "SIGNAL" /\ go' = go + 1 /\ Done
  /\ UNCHANGED <<shell, outVars, ready, prog, killed>>

Kill(s) ==
  /\ driver = "read" /\ Op = (IF s = "INT" THEN "SIGINT" ELSE "SIGTSTP")
  /\ IF Alive THEN Key(s) ELSE UNCHANGED shell
  /\ Done
  /\ UNCHANGED <<outVars, jobVars>>

\* The script is at its end: an empty datagram is the shell's end of file.
EndOfScript ==
  /\ driver = "read" /\ Op = "EOF" /\ Select("shell")
  /\ cmds' = Append(cmds, [op |-> "quit"])
  /\ UNCHANGED <<shell, out, held, io, jobVars>>

Reaped ==
  /\ driver = "shell" /\ ~Alive /\ Ends("ended")
  /\ UNCHANGED <<shell, outVars, jobVars>>

Driver ==
  \/ InitialPrompt \/ PassOn \/ Wait \/ Synced \/ NextPrompt \/ Prompted
  \/ SIGNAL \/ (\E s \in Keys : Kill(s)) \/ EndOfScript \/ Reaped

-----------------------------------------------------------------------------
(* The shell's loop between two commands.  Output is held back until fflush. *)

Loop(from, to) == stack = <<>> /\ pc = "prompt" /\ io = from /\ io' = to

\* After eval, and after the prompt has been printed: one datagram, if there is anything.
Flush ==
  /\ Loop("flush", "print") \/ Loop("flush prompt", "read")
  /\ out' = IF held = <<>> THEN out ELSE Append(out, held)
  /\ held' = <<>>
  /\ UNCHANGED <<shell, driverVars, cmds, jobVars>>

PrintPrompt ==
  /\ Loop("print", "flush prompt")
  /\ held' = Append(held, "prompt")
  /\ UNCHANGED <<shell, driverVars, cmds, out, jobVars>>

\* fgets returns the next line.
Reads(op) ==
  /\ Loop("read", "flush")
  /\ cmds # <<>> /\ Head(cmds).op = op /\ cmds' = Tail(cmds)

Prints(text) == held' = Append(held, text)

Start(p) ==
  /\ Reads("run")
  /\ Fork(p, IF Head(cmds).bg THEN "BG" ELSE "FG")
  /\ prog' = [prog EXCEPT ![p] = [name |-> Head(cmds).prog, at |-> "start"]]
  /\ killed' = killed \ {p}
  /\ UNCHANGED <<driverVars, out, held, ready, go>>

\* listjobs does not go through stdout's buffer.
Jobs ==
  /\ Reads("jobs")
  /\ out' = IF \E i \in Slot : PidAt(i) # NoPid THEN Append(out, <<"text">>) ELSE out
  /\ UNCHANGED <<shell, driverVars, held, jobVars>>

Builtin ==
  /\ \/ Reads("fg") /\ BuiltinFg(Head(cmds).jid)
     \/ Reads("bg") /\ BuiltinBg(Head(cmds).jid)
     \/ Reads("quit") /\ Quit
  /\ UNCHANGED <<driverVars, out, held, jobVars>>

\* What the rest of eval prints.
Eval ==
  /\ \/ (AddFg \/ WaitDone \/ FgSet \/ FgCont \/ FgWait) /\ UNCHANGED held
     \/ (AddBg \/ BgSet) /\ Prints("text")
  /\ UNCHANGED <<driverVars, cmds, out, io, jobVars>>

\* A signalled or stopped child is reported by the handler.
Report ==
  /\ \/ DeleteDead /\ IF frame["CHLD"].pid \in killed THEN Prints("text") ELSE UNCHANGED held
     \/ MarkStopped /\ Prints("text")
  /\ UNCHANGED <<driverVars, cmds, out, io, jobVars>>

\* The helpers leave SIGINT and SIGTSTP their default action.
Forwards(s) ==
  /\ Forward(s)
  /\ LET p == frame[s].pid
     IN  /\ proc[p] = "run" => proc' # proc
         /\ killed' = IF proc[p] # "zombie" /\ proc'[p] = "zombie" THEN killed \cup {p} ELSE killed
  /\ UNCHANGED <<driverVars, outVars, ready, go, prog>>

Handles ==
  /\ \/ \E s \in Sig : Deliver(s)
     \/ \E s \in Keys : ReadFg(s)
     \/ \E p \in Pid : WaitDead(p) \/ WaitStopped(p)
     \/ WaitNone \/ MarkNull
  /\ UNCHANGED <<driverVars, outVars, jobVars>>

-----------------------------------------------------------------------------
(* The helper programs.                                                    *)

Runs(p, names, from) == proc[p] = "run" /\ prog[p].name \in names /\ prog[p].at = from

Goes(p, to) == prog' = [prog EXCEPT ![p].at = to]

Begins(p) ==
  /\ Exec(p)
  /\ UNCHANGED <<driverVars, outVars, jobVars>>

Exits(p) == Die(p) /\ UNCHANGED <<prog, killed>>

\* A fault: the job does not tell the driver that it is there.
Sync_Silent(p) ==
  /\ Runs(p, {"myspin1", "myspin2", "mysplit"}, "start") /\ Goes(p, "recv")
  /\ UNCHANGED <<shell, driverVars, outVars, ready, go, killed>>

\* myspin1, myspin2, and mysplit by a child of its own in the same process group:
\* they say that they are there ...
Sync(p) ==
  /\ Runs(p, {"myspin1", "myspin2", "mysplit"}, "start") /\ Goes(p, "recv")
  /\ ready' = ready + 1
  /\ UNCHANGED <<shell, driverVars, outVars, go, killed>>

\* ... and end when the driver has answered.
Released(p) ==
  /\ Runs(p, {"myspin1", "myspin2", "mysplit"}, "recv") /\ go > 0 /\ go' = go - 1
  /\ Exits(p)
  /\ UNCHANGED <<driverVars, outVars, ready>>

\* myintp and mytstpp signal the shell, and spin.
SignalsShell(p) ==
  /\ Runs(p, {"myintp", "mytstpp"}, "start") /\ Goes(p, "spin")
  /\ Key(IF prog[p].name = "myintp" THEN "INT" ELSE "TSTP")
  /\ UNCHANGED <<driverVars, outVars, ready, go, killed>>

SignalsItself(p) ==
  /\ \/ Runs(p, {"myints"}, "start") /\ Die(p) /\ killed' = killed \cup {p} /\ UNCHANGED prog
     \/ Runs(p, {"mytstps"}, "start") /\ Stop(p) /\ Goes(p, "resumed") /\ UNCHANGED killed
  /\ UNCHANGED <<driverVars, outVars, ready, go>>

\* mytstps when it is continued, and a program that prints a line.
Finishes(p) ==
  /\ \/ Runs(p, {"mytstps"}, "resumed") /\ UNCHANGED out
     \/ Runs(p, {"echo"}, "start") /\ out' = Append(out, <<"text">>)
  /\ Exits(p)
  /\ UNCHANGED <<driverVars, cmds, held, io, ready, go>>

Job(p) ==
  \/ Begins(p) \/ Sync(p) \/ Released(p) \/ SignalsShell(p)
  \/ SignalsItself(p) \/ Finishes(p)

-----------------------------------------------------------------------------

Running_ == driver \notin {"ended", "timed out", "wrong prompt"}

Work ==
  /\ Running_
  /\ \/ Driver
     \/ Flush \/ PrintPrompt \/ Jobs \/ Builtin \/ Eval \/ Report \/ Handles
     \/ \E p \in Pid : Start(p) \/ Job(p)
     \/ \E s \in Keys : Forwards(s)

\* DRIVER_TIMEOUT passes: the driver gives up.
TimesOut ==
  /\ driver \in {"sync", "prompt", "shell"} /\ ~ENABLED Work
  /\ Ends("timed out")
  /\ UNCHANGED <<shell, outVars, jobVars>>

RTNext == Work \/ TimesOut

RTSpec == RTInit /\ [][RTNext]_rtVars

\* Who can run runs, and time goes on.
RTFairSpec == RTSpec /\ WF_rtVars(Work) /\ WF_rtVars(TimesOut)

-----------------------------------------------------------------------------
(* Properties.                                                             *)

\* A NEXT that returns has read the prompt of the last command sent: the driver
\* and the shell are never out of step, whatever else was printed
\* (runtrace.c 402: "Print the shell response until the next prompt").
InStep ==
  [][driver = "prompt" /\ driver' = "read" =>
       cmds = <<>> /\ pc = "prompt" /\ io = "read" /\ <<"prompt">> \notin Range(out')]_rtVars

\* In a trace of the lab, a signal the driver sends after WAIT, or a job sends to the
\* shell, finds a foreground job that has its process group: "this allows the driver
\* to know that the job is available to receive signals" (myspin1.c 5).
SignalsArrive ==
  [][\A s \in Keys : script \in Traces /\ ReadFg(s) => \E p \in Pid : fgpid(p) /\ proc[p] = "run"]_rtVars

\* A run of any script ends, by a timeout if need be, and one of the lab's traces
\* ends as it should, with no timeout: every WAIT and NEXT gets what it waits for.
Passes == <>(~Running_ /\ (script \in Traces => driver = "ended"))
=============================================================================
