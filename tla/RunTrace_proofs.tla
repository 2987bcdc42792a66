-------------------------- MODULE RunTrace_proofs --------------------------
(***************************************************************************)
(* Proofs about the shell under its test driver: the composition does to   *)
(* the shell only what Tsh allows, so that whatever is proved of the shell *)
(* holds of it there; and the driver and the shell keep in step.           *)
(***************************************************************************)
EXTENDS RunTrace, Tsh_proofs

\* Commands come from the script, or are the end of file.
CmdsOK ==
  /\ script \in Scripts /\ pos \in Nat \ {0}
  /\ cmds \in Seq(Lines \cup {[op |-> "quit"]})

\* What the shell reads is a line the driver sends.
LEMMA ReadLine ==
  ASSUME CmdsOK, NEW op, Reads(op)
  PROVE  Head(cmds) \in Lines \cup {[op |-> "quit"]} /\ Head(cmds).op = op
BY DEF CmdsOK, Reads

\* A step of the composition is a step of the shell or leaves it alone.
LEMMA ShellStep ==
  ASSUME CmdsOK, [RTNext]_rtVars
  PROVE  [Next]_vars
<1>0. \A s \in {"INT", "TSTP"} : s \in Keys /\ s \in Sig /\ s # "CHLD"
  BY BothKeysAssumption DEF Sig
<1>1. CASE UNCHANGED shell
  BY <1>1 DEF shell, shellVars, signalVars, childVars, vars
<1>2. CASE Driver
  BY <1>1, <1>2 DEF Driver, InitialPrompt, PassOn, Wait, Synced, NextPrompt, Prompted,
                    SIGNAL, Kill, EndOfScript, Reaped, Next, User
<1>3. CASE Flush \/ PrintPrompt \/ Jobs
  BY <1>1, <1>3 DEF Flush, PrintPrompt, Jobs
<1>4. CASE Builtin
  <2>1. ASSUME Reads("fg") \/ Reads("bg") PROVE Head(cmds).jid \in 1..(MaxJid + 1)
    BY <2>1, ReadLine, ScriptAssumption
  <2> QED BY <1>4, <2>1 DEF Builtin, Next, User
<1>5. CASE Eval
  BY <1>5 DEF Eval, Next, Shell
<1>6. CASE Report
  BY <1>6 DEF Report, Next, Handler, Sig
<1>7. CASE Handles
  BY <1>0, <1>7, BothKeysAssumption DEF Handles, Next, Handler, Sig
<1>8. ASSUME NEW p \in Pid, Start(p) PROVE Next
  BY <1>8 DEF Start, Next, User
<1>9. ASSUME NEW p \in Pid, Job(p) PROVE [Next]_vars
  <2>1. CASE Begins(p) \/ Released(p) \/ SignalsItself(p) \/ Finishes(p)
    BY <2>1 DEF Begins, Released, SignalsItself, Finishes, Exits, Next, Child
  <2>2. CASE Sync(p)
    BY <1>1, <2>2 DEF Sync
  <2>3. CASE SignalsShell(p)
    BY <1>0, <2>3 DEF SignalsShell, Next, User
  <2> QED BY <1>9, <2>1, <2>2, <2>3 DEF Job
<1>10. ASSUME NEW s \in Keys, Forwards(s) PROVE Next
  BY <1>0, <1>10, BothKeysAssumption DEF Forwards, Next, Handler
<1>11. CASE TimesOut
  BY <1>1, <1>11 DEF TimesOut
<1>12. CASE UNCHANGED rtVars
  BY <1>1, <1>12 DEF rtVars
<1>13. CASE Work
  BY <1>13, <1>2, <1>3, <1>4, <1>5, <1>6, <1>7, <1>8, <1>9, <1>10 DEF Work
<1> QED BY <1>11, <1>12, <1>13 DEF RTNext

\* The driver has sent nothing at first.
LEMMA InitCmds == RTInit => Init /\ CmdsOK
BY DEF RTInit, CmdsOK

\* Only PassOn and the end of the script put a line into the socket.
LEMMA CmdsStep ==
  ASSUME CmdsOK, [RTNext]_rtVars
  PROVE  CmdsOK'
<1> DEFINE L == Lines \cup {[op |-> "quit"]}
<1>0. script \in Scripts /\ pos \in Nat \ {0} /\ cmds \in Seq(L)
  BY DEF CmdsOK
<1>1. ASSUME UNCHANGED script, pos' \in {pos, pos + 1}, cmds' \in Seq(L) PROVE CmdsOK'
  BY <1>0, <1>1 DEF CmdsOK
<1>2. CASE PassOn
  <2>1. script \in Seq(Lines) /\ pos \in 1..Len(script)
    BY <1>0, <1>2, ScriptAssumption DEF PassOn, Op, Commands
  <2>2. script[pos] \in L
    BY <2>1
  <2> QED BY <2>2, <1>0, <1>1, <1>2 DEF PassOn, Done
<1>3. CASE Driver /\ ~PassOn
  <2>1. UNCHANGED script /\ pos' \in {pos, pos + 1}
    BY <1>3 DEF Driver, InitialPrompt, Wait, Synced, NextPrompt, Prompted, SIGNAL, Kill,
                EndOfScript, Reaped, Done, Select, Ends
  <2>2. CASE EndOfScript
    <3>1. [op |-> "quit"] \in L
      OBVIOUS
    <3> QED BY <1>0, <1>1, <2>1, <2>2, <3>1 DEF EndOfScript
  <2>3. CASE UNCHANGED cmds
    BY <1>0, <1>1, <2>1, <2>3
  <2> QED BY <1>3, <2>2, <2>3 DEF Driver, InitialPrompt, Wait, Synced, NextPrompt, Prompted,
                                  SIGNAL, Kill, Reaped, outVars
<1>4. CASE UNCHANGED <<driverVars, cmds>>
  BY <1>0, <1>1, <1>4 DEF driverVars
<1>5. ASSUME NEW op, Reads(op), UNCHANGED driverVars PROVE CmdsOK'
  BY <1>0, <1>1, <1>5 DEF Reads, driverVars
<1>6. CASE Flush \/ PrintPrompt \/ Eval \/ Report \/ Handles
  BY <1>4, <1>6 DEF Flush, PrintPrompt, Eval, Report, Handles, outVars
<1>7. CASE Jobs \/ Builtin
  BY <1>5, <1>7 DEF Jobs, Builtin
<1>8. ASSUME NEW p \in Pid, Start(p) \/ Job(p) PROVE CmdsOK'
  <2>1. CASE Start(p)
    BY <1>5, <2>1 DEF Start
  <2>2. CASE Job(p)
    BY <1>4, <2>2 DEF Job, Begins, Sync, Released, SignalsShell, SignalsItself, Finishes, outVars
  <2> QED BY <1>8, <2>1, <2>2
<1>9. ASSUME NEW s \in Keys, Forwards(s) PROVE CmdsOK'
  BY <1>4, <1>9 DEF Forwards, outVars
<1>10. CASE TimesOut
  BY <1>0, <1>1, <1>10 DEF TimesOut, Ends, outVars
<1>11. CASE UNCHANGED rtVars
  BY <1>4, <1>11 DEF rtVars, driverVars, outVars
<1> QED BY <1>2, <1>3, <1>6, <1>7, <1>8, <1>9, <1>10, <1>11 DEF RTNext, Work

\* Under the driver the shell does what the shell does: every behaviour of the
\* composition is one of Tsh's.
THEOREM DrivenShell == RTSpec => Spec
<1>1. RTInit => Init /\ CmdsOK
  BY InitCmds
<1>2. CmdsOK /\ [RTNext]_rtVars => CmdsOK'
  BY CmdsStep
<1>3. CmdsOK /\ [RTNext]_rtVars => [Next]_vars
  BY ShellStep
<1> QED BY <1>1, <1>2, <1>3, PTL DEF RTSpec, Spec
-----------------------------------------------------------------------------
(* In step.  A command is answered by one prompt.  Until then it is a line *)
(* in the socket, the shell that works at it, or the prompt in the socket; *)
(* while the driver has a NEXT ahead, there is never more than one.        *)

Prompt == <<"prompt">>
Datagrams == Seq({"text", "prompt"})

Busy == ~(pc = "prompt" /\ io = "read")
IsPrompt(i) == i \in 1..Len(out) /\ out[i] = Prompt
Unanswered == cmds # <<>> \/ Busy \/ \E i \in 1..Len(out) : IsPrompt(i)

\* There is a NEXT ahead, and the driver may get there.
Listening ==
  /\ driver \in {"initial", "read", "sync", "prompt"}
  /\ \E m \in pos..Len(script) : script[m].op = "NEXT"

\* A command has been sent since the last NEXT.
Sent ==
  \E i \in 1..(pos - 1) :
    /\ i <= Len(script) /\ script[i].op \in Commands
    /\ \A k \in i..(pos - 1) : k <= Len(script) => script[k].op # "NEXT"

AtMostOne ==
  /\ Len(cmds) <= 1 /\ (cmds # <<>> => ~Busy)
  /\ \A i \in 1..Len(out) : IsPrompt(i) =>
       cmds = <<>> /\ ~Busy /\ \A k \in 1..Len(out) : IsPrompt(k) => k = i

OneAnswer == Listening => AtMostOne /\ (Unanswered => driver = "initial" \/ Sent)

\* Only what is printed after the shell's loop has come to the prompt is the prompt.
HeldOK ==
  /\ held \in Datagrams /\ out \in Seq(Datagrams)
  /\ io # "flush prompt" => held # Prompt

\* A waiting driver stands at the line that made it wait.
WaitsOK ==
  /\ driver = "sync" => Op = "WAIT"
  /\ driver = "prompt" => Op = "NEXT"

RTInv == CmdsOK /\ HeldOK /\ WaitsOK /\ OneAnswer

\* Driver and shell begin in step.
LEMMA InitRTInv == RTInit => RTInv
BY InitCmds DEF RTInit, Init, RTInv, HeldOK, WaitsOK, OneAnswer, AtMostOne, Datagrams, Prompt, Busy, Unanswered, IsPrompt

\* Appending to a queue and taking from it keep its type.
LEMMA SeqOps ==
  ASSUME NEW S, NEW q \in Seq(S)
  PROVE  (\A x \in S : Append(q, x) \in Seq(S)) /\ (q # <<>> => Tail(q) \in Seq(S))
OBVIOUS

\* An empty text, the prompt and another text are three datagrams.
LEMMA SomeDatagrams == <<>> \in Datagrams /\ <<"text">> \in Datagrams /\ <<>> # Prompt /\ <<"text">> # Prompt
<1>1. <<>> \in Datagrams /\ <<"text">> \in Datagrams
  BY DEF Datagrams
<1>2. Len(<<>>) = 0 /\ Len(<<"prompt">>) = 1
  OBVIOUS
<1>3. <<"text">>[1] = "text" /\ <<"prompt">>[1] = "prompt"
  OBVIOUS
<1> QED BY <1>1, <1>2, <1>3 DEF Prompt

\* What is appended to a datagram, or to the datagrams.
LEMMA AppendText ==
  ASSUME NEW d \in Datagrams, NEW x \in {"text", "prompt"}
  PROVE  Append(d, x) \in Datagrams /\ (x = "text" => Append(d, x) # Prompt)
<1>1. Append(d, x) \in Seq({"text", "prompt"}) /\ Append(d, x)[Len(Append(d, x))] = x
  BY DEF Datagrams
<1>2. Prompt[Len(Prompt)] = "prompt"
  BY DEF Prompt
<1>3. "text" # "prompt"
  OBVIOUS
<1> QED BY <1>1, <1>2, <1>3 DEF Datagrams

\* The prompt is a datagram of its own only when the shell's loop has come to it.
LEMMA HeldStep ==
  ASSUME HeldOK, [RTNext]_rtVars
  PROVE  HeldOK'
<1>0. /\ held \in Datagrams /\ out \in Seq(Datagrams) /\ <<>> \in Datagrams /\ <<>> # Prompt
      /\ <<"text">> \in Datagrams
  BY SomeDatagrams DEF HeldOK
<1>1. CASE UNCHANGED <<held, out, io>>
  BY <1>1 DEF HeldOK
<1>2. ASSUME UNCHANGED <<held, io>>, out # <<>>, out' = Tail(out) PROVE HeldOK'
  BY <1>0, <1>2, SeqOps DEF HeldOK
<1>3. ASSUME held' = Append(held, "text"), UNCHANGED <<out, io>> PROVE HeldOK'
  BY <1>0, <1>3, AppendText DEF HeldOK
<1>4. CASE Flush
  <2>1. Append(out, held) \in Seq(Datagrams)
    BY <1>0, SeqOps
  <2>2. out' \in {out, Append(out, held)} /\ held' = <<>>
    BY <1>4 DEF Flush
  <2> QED BY <1>0, <2>1, <2>2 DEF HeldOK
<1>5. CASE PrintPrompt
  <2>1. held' \in Datagrams
    BY <1>0, <1>5, AppendText DEF PrintPrompt
  <2> QED BY <1>5, <2>1, <1>0 DEF PrintPrompt, Loop, HeldOK
<1>6. ASSUME UNCHANGED held, out' \in {out, Append(out, <<"text">>)},
             io' = io \/ io # "flush prompt" PROVE HeldOK'
  <2>1. Append(out, <<"text">>) \in Seq(Datagrams)
    BY <1>0, SeqOps
  <2> QED BY <1>0, <1>6, <2>1 DEF HeldOK
<1>7. CASE Driver
  BY <1>1, <1>2, <1>7 DEF Driver, InitialPrompt, PassOn, Wait, Synced, NextPrompt, Prompted,
                          SIGNAL, Kill, EndOfScript, Reaped, outVars
<1>8. CASE Jobs \/ Builtin
  BY <1>6, <1>8 DEF Jobs, Builtin, Reads, Loop
<1>9. CASE Eval \/ Report \/ Handles
  BY <1>1, <1>3, <1>9 DEF Eval, Report, Handles, Prints, outVars
<1>10. ASSUME NEW p \in Pid, Start(p) \/ Job(p) PROVE HeldOK'
  <2>1. CASE Start(p)
    BY <1>6, <2>1 DEF Start, Reads, Loop
  <2>2. CASE Job(p)
    BY <1>1, <1>6, <2>2 DEF Job, Begins, Sync, Released, SignalsShell, SignalsItself, Finishes, outVars
  <2> QED BY <1>10, <2>1, <2>2
<1>11. ASSUME NEW s \in Keys, Forwards(s) PROVE HeldOK'
  BY <1>1, <1>11 DEF Forwards, outVars
<1>12. CASE TimesOut \/ UNCHANGED rtVars
  BY <1>1, <1>12 DEF TimesOut, rtVars, outVars
<1> QED BY <1>4, <1>5, <1>7, <1>8, <1>9, <1>10, <1>11, <1>12 DEF RTNext, Work

\* Only the driver's own steps move it.
LEMMA WaitsStep ==
  ASSUME WaitsOK, [RTNext]_rtVars
  PROVE  WaitsOK'
<1>1. CASE UNCHANGED driverVars
  BY <1>1 DEF WaitsOK, driverVars, Op
<1>2. CASE Driver
  BY <1>2 DEF Driver, InitialPrompt, PassOn, Wait, Synced, NextPrompt, Prompted,
              SIGNAL, Kill, EndOfScript, Reaped, Done, Select, Ends, WaitsOK, Op
<1>3. CASE TimesOut
  BY <1>3 DEF TimesOut, Ends, WaitsOK
<1>4. CASE Flush \/ PrintPrompt \/ Jobs \/ Builtin \/ Eval \/ Report \/ Handles
  BY <1>1, <1>4 DEF Flush, PrintPrompt, Jobs, Builtin, Eval, Report, Handles
<1>5. ASSUME NEW p \in Pid, Start(p) \/ Job(p) PROVE WaitsOK'
  BY <1>1, <1>5 DEF Start, Job, Begins, Sync, Released, SignalsShell, SignalsItself, Finishes
<1>6. ASSUME NEW s \in Keys, Forwards(s) PROVE WaitsOK'
  BY <1>1, <1>6 DEF Forwards
<1>7. CASE UNCHANGED rtVars
  BY <1>1, <1>7 DEF rtVars
<1> QED BY <1>2, <1>3, <1>4, <1>5, <1>6, <1>7 DEF RTNext, Work
\* The shell at work, or printing anything but the prompt.
LEMMA NoNewAnswer ==
  ASSUME HeldOK, UNCHANGED cmds, Busy' => Busy,
         NEW d \in Datagrams, d # Prompt, out' \in {out, Append(out, d)}
  PROVE  (AtMostOne => AtMostOne') /\ (Unanswered' => Unanswered)
<1>1. out \in Seq(Datagrams)
  BY DEF HeldOK
<1>2. \A i \in 1..Len(out') : IsPrompt(i)' => i \in 1..Len(out) /\ IsPrompt(i)
  BY <1>1 DEF IsPrompt
<1> QED BY <1>2 DEF AtMostOne, Unanswered

\* The shell takes a command.
LEMMA Taken ==
  ASSUME HeldOK, CmdsOK, AtMostOne, cmds # <<>>, cmds' = Tail(cmds),
         NEW d \in Datagrams, d # Prompt, out' \in {out, Append(out, d)}
  PROVE  AtMostOne' /\ Unanswered
<1>1. out \in Seq(Datagrams) /\ cmds \in Seq(Lines \cup {[op |-> "quit"]})
  BY DEF HeldOK, CmdsOK
<1>2. \A i \in 1..Len(out) : ~IsPrompt(i)
  BY DEF AtMostOne
<1>3. \A i \in 1..Len(out') : ~IsPrompt(i)'
  BY <1>1, <1>2 DEF IsPrompt
<1>4. cmds' = <<>>
  BY <1>1 DEF AtMostOne
<1>5. Len(<<>>) = 0
  OBVIOUS
<1> QED BY <1>3, <1>4, <1>5 DEF AtMostOne, Unanswered

\* The shell sends the prompt.
LEMMA Answered ==
  ASSUME HeldOK, AtMostOne, Busy, ~Busy', UNCHANGED cmds, out' \in {out, Append(out, held)}
  PROVE  AtMostOne' /\ Unanswered
<1>1. out \in Seq(Datagrams) /\ held \in Datagrams
  BY DEF HeldOK
<1>2. cmds = <<>> /\ \A i \in 1..Len(out) : ~IsPrompt(i)
  BY DEF AtMostOne
<1>3. \A i \in 1..Len(out') : IsPrompt(i)' => i = Len(out')
  BY <1>1, <1>2 DEF IsPrompt
<1>4. Len(<<>>) = 0
  OBVIOUS
<1> QED BY <1>2, <1>3, <1>4 DEF AtMostOne, Unanswered

\* The driver reads a datagram.
LEMMA Heard ==
  ASSUME HeldOK, AtMostOne, out # <<>>, out' = Tail(out), UNCHANGED <<cmds, pc, io>>
  PROVE  /\ AtMostOne' /\ (Unanswered' => Unanswered)
         /\ Head(out) = Prompt => ~Unanswered' /\ Prompt \notin Range(out')
<1>1. out \in Seq(Datagrams) /\ (Busy' <=> Busy)
  BY DEF HeldOK, Busy
<1>2. \A i \in 1..Len(out') : IsPrompt(i)' => i + 1 \in 1..Len(out) /\ IsPrompt(i + 1)
  BY <1>1 DEF IsPrompt
<1>3. AtMostOne' /\ (Unanswered' => Unanswered)
  BY <1>1, <1>2 DEF AtMostOne, Unanswered
<1>4. ASSUME Head(out) = Prompt PROVE ~Unanswered' /\ Prompt \notin Range(out')
  <2>1. 1 \in 1..Len(out) /\ IsPrompt(1)
    BY <1>1, <1>4 DEF IsPrompt
  <2>2. \A i \in 1..Len(out') : ~IsPrompt(i)'
    BY <1>2, <2>1, <1>1 DEF AtMostOne
  <2>3. ~Unanswered'
    BY <1>1, <2>1, <2>2 DEF AtMostOne, Unanswered
  <2>4. DOMAIN out' = 1..Len(out')
    BY <1>1
  <2> QED BY <2>2, <2>3, <2>4 DEF Range, IsPrompt
<1> QED BY <1>3, <1>4

\* Of the lines before the next one, only the last is new.
LEMMA Between ==
  ASSUME NEW p \in Nat, NEW q \in {p, p + 1}, NEW i \in 1..(p - 1)
  PROVE  i \in 1..(q - 1) /\ \A k \in i..(q - 1) : k \in i..(p - 1) \/ (k = p /\ q # p)
OBVIOUS

\* The driver has done a line that is no NEXT.
LEMMA StillSent ==
  ASSUME CmdsOK, UNCHANGED script, pos' \in {pos, pos + 1}, pos' = pos \/ Op # "NEXT", Sent
  PROVE  Sent'
<1>1. pos \in Nat
  BY DEF CmdsOK
<1>2. PICK i \in 1..(pos - 1) :
        /\ i <= Len(script) /\ script[i].op \in Commands
        /\ \A k \in i..(pos - 1) : k <= Len(script) => script[k].op # "NEXT"
  BY DEF Sent
<1>3. /\ i \in 1..(pos' - 1)
      /\ \A k \in i..(pos' - 1) : k \in i..(pos - 1) \/ (k = pos /\ pos' # pos)
  BY <1>1, Between
<1>4. ASSUME NEW k \in i..(pos' - 1), k <= Len(script) PROVE script[k].op # "NEXT"
  BY <1>2, <1>3, <1>4 DEF Op
<1> QED BY <1>2, <1>3, <1>4 DEF Sent

\* A driver that will listen for the prompt after this line has been doing so.
LEMMA StillListening ==
  ASSUME CmdsOK, UNCHANGED script, pos' \in {pos, pos + 1}, Listening',
         driver \in {"initial", "read", "sync", "prompt"}
  PROVE  Listening
<1>1. pos \in Nat \ {0} /\ script \in Seq(Lines)
  BY ScriptAssumption DEF CmdsOK
<1>2. PICK m \in (pos')..Len(script) : script[m].op = "NEXT"
  BY DEF Listening
<1>3. m \in pos..Len(script)
  BY <1>1
<1> QED BY <1>2, <1>3 DEF Listening

\* A command is sent only when the one before it has been answered.
LEMMA PassOnStep ==
  ASSUME CmdsOK, HeldOK, OneAnswer, PassOn
  PROVE  OneAnswer'
<1> SUFFICES ASSUME Listening' PROVE AtMostOne' /\ Sent'
  BY DEF OneAnswer
<1>1. /\ pos \in Nat \ {0} /\ script \in Seq(Lines) /\ pos \in 1..Len(script)
      /\ script[pos].op \in Commands /\ pos' = pos + 1 /\ driver = "read" /\ UNCHANGED script
      /\ cmds' = Append(cmds, script[pos]) /\ out' = out /\ (Busy' <=> Busy)
  BY ScriptAssumption DEF CmdsOK, PassOn, Op, Commands, Done, Busy, shell, shellVars
<1>2. PICK m \in (pos + 1)..Len(script) : script[m].op = "NEXT"
  BY <1>1 DEF Listening
<1>3. Listening
  BY <1>1, StillListening
<1>4. ~Sent
  <2> SUFFICES ASSUME Sent PROVE FALSE
    OBVIOUS
  <2>1. PICK i \in 1..(pos - 1) :
          /\ i <= Len(script) /\ script[i].op \in Commands
          /\ \A k \in i..(pos - 1) : k <= Len(script) => script[k].op # "NEXT"
    BY DEF Sent
  <2>2. m \in DOMAIN script /\ pos \in 1..(m - 1)
    BY <1>1
  <2>3. PICK k \in i..pos : script[k].op = "NEXT"
    BY <1>1, <1>2, <2>1, <2>2, PacedAssumption DEF Paced, CmdsOK
  <2>4. k # pos
    BY <1>1, <2>3 DEF Commands
  <2>5. k \in i..(pos - 1) /\ k <= Len(script)
    BY <1>1, <2>4
  <2> QED BY <2>1, <2>3, <2>5
<1>5. ~Unanswered
  BY <1>1, <1>3, <1>4 DEF OneAnswer
<1>6. cmds = <<>> /\ ~Busy /\ \A i \in 1..Len(out) : ~IsPrompt(i)
  BY <1>5 DEF Unanswered
<1>7. Len(cmds') = 1
  BY <1>1, <1>6
<1>8. AtMostOne'
  BY <1>1, <1>6, <1>7 DEF AtMostOne, IsPrompt
<1>9. Sent'
  <2>1. pos \in 1..(pos' - 1) /\ pos <= Len(script) /\ \A k \in pos..(pos' - 1) : k = pos
    BY <1>1
  <2>2. script[pos].op # "NEXT"
    BY <1>1 DEF Commands
  <2> QED BY <1>1, <2>1, <2>2 DEF Sent
<1> QED BY <1>8, <1>9

\* Every step keeps at most one prompt, or line to be answered with one, on the way.
LEMMA OneAnswerStep ==
  ASSUME RTInv, [RTNext]_rtVars, [~MarkNull]_vars
  PROVE  OneAnswer'
<1> USE DEF RTInv
<1>0. <<"text">> \in Datagrams /\ <<"text">> # Prompt
  BY SomeDatagrams
<1>1. ASSUME UNCHANGED driverVars, AtMostOne => AtMostOne' /\ (Unanswered' => Unanswered)
      PROVE  OneAnswer'
  <2>1. (Listening' <=> Listening) /\ (Sent' <=> Sent)
    BY <1>1 DEF driverVars, Listening, Sent
  <2> QED BY <1>1, <2>1 DEF OneAnswer, driverVars
<1>2. ASSUME UNCHANGED <<driverVars, cmds>>, Busy' => Busy,
             out' \in {out, Append(out, <<"text">>)} PROVE OneAnswer'
  BY <1>0, <1>1, <1>2, NoNewAnswer
<1>3. ASSUME NEW op, Reads(op), UNCHANGED driverVars,
             out' \in {out, Append(out, <<"text">>)} PROVE OneAnswer'
  BY <1>0, <1>1, <1>3, Taken DEF Reads
<1>4. ASSUME UNCHANGED <<script, cmds, out, pc, io>>, pos' \in {pos, pos + 1},
             driver \in {"read", "sync"}, pos' = pos \/ Op # "NEXT" PROVE OneAnswer'
  <2>1. Listening' => Listening
    BY <1>4, StillListening
  <2>2. Sent => Sent'
    BY <1>4, StillSent
  <2>3. (AtMostOne' <=> AtMostOne) /\ (Unanswered' <=> Unanswered)
    BY <1>4 DEF AtMostOne, Unanswered, IsPrompt, Busy
  <2> QED BY <1>4, <2>1, <2>2, <2>3 DEF OneAnswer
<1>5. ASSUME UNCHANGED <<script, cmds, pc, io>>, out # <<>>, out' = Tail(out),
             driver \in {"initial", "prompt"}, pos' \in {pos, pos + 1},
             Head(out) # Prompt => UNCHANGED <<driver, pos>> \/ driver' = "wrong prompt"
      PROVE  OneAnswer'
  <2> SUFFICES ASSUME Listening' PROVE AtMostOne' /\ (Unanswered' => driver' = "initial" \/ Sent')
    BY DEF OneAnswer
  <2>1. AtMostOne /\ (Unanswered => driver = "initial" \/ Sent)
    BY <1>5, StillListening DEF OneAnswer
  <2>2. AtMostOne' /\ (Unanswered' => Unanswered) /\ (Head(out) = Prompt => ~Unanswered')
    BY <1>5, <2>1, Heard
  <2>3. Head(out) # Prompt => (Sent' <=> Sent) /\ driver' = driver
    BY <1>5 DEF Sent, Listening
  <2> QED BY <2>1, <2>2, <2>3
<1>6. CASE Driver
  <2>1. CASE InitialPrompt \/ Prompted
    BY <1>5, <2>1 DEF InitialPrompt, Prompted, Done, Select, shell, shellVars, Prompt
  <2>2. CASE PassOn
    BY <2>2, PassOnStep
  <2>3. CASE Wait \/ NextPrompt \/ Synced \/ SIGNAL
    BY <1>4, <2>3 DEF Wait, NextPrompt, Synced, SIGNAL, Done, Select, WaitsOK, shell, shellVars, outVars
  <2>4. ASSUME NEW s \in Keys, Kill(s) PROVE OneAnswer'
    BY <1>4, <2>4 DEF Kill, Key, Done, shell, shellVars, outVars
  <2>5. CASE EndOfScript \/ Reaped
    BY <2>5 DEF EndOfScript, Reaped, Select, Ends, OneAnswer, Listening
  <2> QED BY <1>6, <2>1, <2>2, <2>3, <2>4, <2>5 DEF Driver
<1>7. CASE Flush
  <2>0. UNCHANGED <<driverVars, cmds>> /\ out' \in {out, Append(out, held)} /\ Busy
    BY <1>7 DEF Flush, Loop, Busy
  <2>1. CASE io = "flush"
    <3>1. held \in Datagrams /\ held # Prompt
      BY <2>1 DEF HeldOK
    <3> QED BY <1>1, <2>0, <3>1, NoNewAnswer
  <2>2. CASE io = "flush prompt"
    <3>1. ~Busy'
      BY <1>7, <2>2 DEF Flush, Loop, Busy, shell, shellVars
    <3> QED BY <1>1, <2>0, <3>1, Answered
  <2> QED BY <1>7, <2>1, <2>2 DEF Flush, Loop
<1>8. CASE PrintPrompt
  BY <1>2, <1>8 DEF PrintPrompt, Loop, Busy
<1>9. CASE Jobs \/ Builtin
  BY <1>3, <1>9 DEF Jobs, Builtin
<1>10. CASE Eval
  BY <1>2, <1>10 DEF Eval, Busy, AddFg, WaitDone, FgSet, FgCont, FgWait, AddBg, BgSet, Main
<1>11. CASE Report
  BY <1>2, <1>11 DEF Report, Busy, DeleteDead, MarkStopped
<1>12. CASE Handles
  <2>1. ~MarkNull
    BY <1>12 DEF MarkNull, Running, Alive, vars
  <2>2. UNCHANGED pc
    BY <1>12, <2>1 DEF Handles, Deliver, ReadFg, WaitDead, WaitStopped, WaitNone, shellVars
  <2> QED BY <1>2, <1>12, <2>2 DEF Handles, Busy, outVars
<1>13. ASSUME NEW p \in Pid, Start(p) \/ Job(p) PROVE OneAnswer'
  <2>1. CASE Start(p)
    BY <1>3, <2>1 DEF Start
  <2>2. CASE Job(p)
    <3>1. UNCHANGED pc
      BY <2>2 DEF Job, Begins, Sync, Released, SignalsShell, SignalsItself, Finishes, Exits,
                  Exec, Die, Stop, Key, shell, shellVars
    <3> QED BY <1>2, <2>2, <3>1 DEF Job, Begins, Sync, Released, SignalsShell, SignalsItself,
                                    Finishes, Busy, outVars
  <2> QED BY <1>13, <2>1, <2>2
<1>14. ASSUME NEW s \in Keys, Forwards(s) PROVE OneAnswer'
  BY <1>2, <1>14 DEF Forwards, Forward, Busy, shellVars, outVars
<1>15. CASE TimesOut
  BY <1>15 DEF TimesOut, Ends, OneAnswer, Listening
<1>16. CASE UNCHANGED rtVars
  BY <1>2, <1>16 DEF rtVars, outVars, shell, shellVars, Busy
<1> QED BY <1>6, <1>7, <1>8, <1>9, <1>10, <1>11, <1>12, <1>13, <1>14, <1>15, <1>16 DEF RTNext, Work

\* A NEXT that returns has read the only prompt there was.
LEMMA NextReturns ==
  ASSUME RTInv, RTNext, driver = "prompt", driver' = "read"
  PROVE  cmds = <<>> /\ pc = "prompt" /\ io = "read" /\ <<"prompt">> \notin Range(out')
<1>1. ~UNCHANGED driverVars
  BY DEF driverVars
<1>2. Prompted
  <2>1. Driver
    <3>1. ~(Flush \/ PrintPrompt \/ Jobs \/ Builtin \/ Eval \/ Report \/ Handles)
      BY <1>1 DEF Flush, PrintPrompt, Jobs, Builtin, Eval, Report, Handles
    <3>2. ~ \E p \in Pid : Start(p) \/ Job(p)
      BY <1>1 DEF Start, Job, Begins, Sync, Released, SignalsShell, SignalsItself, Finishes
    <3>3. ~(TimesOut \/ \E s \in Keys : Forwards(s))
      BY <1>1 DEF Forwards, TimesOut, Ends
    <3> QED BY <3>1, <3>2, <3>3 DEF RTNext, Work
  <2> QED BY <2>1 DEF Driver, InitialPrompt, PassOn, Wait, Synced, NextPrompt, SIGNAL, Kill,
                      EndOfScript, Reaped
<1>3. out # <<>> /\ out' = Tail(out) /\ Head(out) = Prompt /\ UNCHANGED <<cmds, pc, io>>
  BY <1>2 DEF Prompted, Select, Prompt, shell, shellVars
<1>4. pos \in pos..Len(script) /\ script[pos].op = "NEXT"
  <2>1. pos \in Nat /\ script \in Seq(Lines)
    BY ScriptAssumption DEF RTInv, CmdsOK
  <2> QED BY <2>1 DEF RTInv, WaitsOK, Op
<1>5. AtMostOne
  BY <1>4 DEF RTInv, OneAnswer, Listening
<1>6. IsPrompt(1) /\ 1 \in 1..Len(out)
  <2>1. out \in Seq(Datagrams)
    BY DEF RTInv, HeldOK
  <2>2. 1 \in 1..Len(out) /\ out[1] = Prompt
    BY <1>3, <2>1
  <2> QED BY <2>2 DEF IsPrompt
<1>7. cmds = <<>> /\ ~Busy
  BY <1>5, <1>6 DEF AtMostOne
<1>8. Prompt \notin Range(out')
  BY <1>3, <1>5, Heard DEF RTInv
<1> QED BY <1>7, <1>8 DEF Busy, Prompt

\* With room in the job list, the driver and the shell are never out of step.
THEOREM DriverInStep == ASSUME Room PROVE RTSpec => InStep
<1>1. RTInit => RTInv
  BY InitRTInv
<1>2. RTInv /\ [RTNext]_rtVars /\ [~MarkNull]_vars => RTInv'
  BY CmdsStep, HeldStep, WaitsStep, OneAnswerStep DEF RTInv
<1>3. RTSpec => [][~MarkNull]_vars
  BY DrivenShell, HandlerNeverFaults, PTL DEF HandlerSafe
<1>4. RTInv /\ [RTNext]_rtVars =>
        [driver = "prompt" /\ driver' = "read" =>
           cmds = <<>> /\ pc = "prompt" /\ io = "read" /\ <<"prompt">> \notin Range(out')]_rtVars
  BY NextReturns
<1> QED BY <1>1, <1>2, <1>3, <1>4, PTL DEF RTSpec, InStep
=============================================================================
