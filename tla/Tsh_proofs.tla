----------------------------- MODULE Tsh_proofs -----------------------------
(***************************************************************************)
(* Proofs about the shell's job control, for any number of children, any   *)
(* length of the job list and any choice of keys.                          *)
(***************************************************************************)
EXTENDS Tsh, FiniteSetTheorems, TLAPS

\* A handler with local state is on the stack of handlers.
OnStack(s) == \E i \in 1..Len(stack) : stack[i] = s
StackOK == \A s \in Sig : frame[s].pc # "off" => OnStack(s)

\* fg and bg go on only with a pointer into the list.
PointerOK == pc \in {"bgSet", "fgSet", "fgCont", "fgWait"} => job \in Slot

\* Signals are blocked from before fork until addjob, and then no handler runs;
\* the child being added is not reaped meanwhile and has no entry yet.
Adding == pc \in {"addBg", "addFg"}
AddOK ==
  /\ blocked => stack = <<>>
  /\ Adding => blocked /\ arg \in Pid /\ proc[arg] # "none" /\ ~InList(arg)

\* waitpid has reaped p and deletejob(p) is the handler's next step.
BeingDeleted(p) == frame["CHLD"].pc = "act" /\ frame["CHLD"].kind = "dead" /\ frame["CHLD"].pid = p

EntriesOK ==
  Alive => \A i \in Slot : PidAt(i) # NoPid => proc[PidAt(i)] # "none" \/ BeingDeleted(PidAt(i))

OneEntry == \A i, k \in Slot : PidAt(i) # NoPid /\ PidAt(i) = PidAt(k) => i = k

IInv ==
  /\ TypeOK
  /\ StackOK
  /\ PointerOK
  /\ AddOK
  /\ EntriesOK
  /\ OneEntry
  /\ NoMissedChild

-----------------------------------------------------------------------------

\* The types of the parts of a frame.
LEMMA FrameTypes ==
  /\ Off \in Frames
  /\ \A p \in Pid, k \in {"none", "dead", "stopped"} :
       [pc |-> "act", pid |-> p, kind |-> k] \in Frames
  /\ \A f \in Frames : /\ f.pc = "act" => f.pid \in Pid
                       /\ f.pc = "off" => [f EXCEPT !.pc = "start"] \in Frames
  /\ [Off EXCEPT !.pc = "start"] \in Frames
BY DEF Off, Frames

\* The shell begins with an empty list, no child and no handler.
LEMMA InitIInv == Init => IInv
<1> SUFFICES ASSUME Init PROVE IInv
  OBVIOUS
<1> USE DEF Init, Cleared, NoHandler, Off
<1>1. TypeOK
  <2>1. job_list \in [Slot -> [pid : Pid \cup {NoPid}, jid : Nat, state : JobStates]]
    BY DEF JobStates
  <2>2. frame \in [Sig -> Frames] /\ stack \in Seq(Sig)
    BY DEF Frames
  <2>3. proc \in [Pid -> {"none", "born", "run", "stopped", "zombie"}]
    OBVIOUS
  <2>4. /\ nextjid \in Nat \ {0} /\ job \in {0} \cup Slot /\ pending \subseteq Sig /\ news \subseteq Pid
        /\ pc \in LoopStates /\ arg \in Pid \cup {NoPid} /\ blocked \in BOOLEAN
    <3>1. 1 \in Nat \ {0} /\ 0 \in {0} \cup Slot /\ "prompt" \in LoopStates /\ NoPid \in Pid \cup {NoPid}
      BY DEF LoopStates
    <3>2. nextjid = 1 /\ job = 0 /\ pending = {} /\ news = {} /\ pc = "prompt" /\ arg = NoPid /\ blocked = FALSE
      OBVIOUS
    <3> HIDE DEF Init
    <3> QED BY <3>1, <3>2
  <2> HIDE DEF Init, Cleared, NoHandler, Off
  <2> QED BY <2>1, <2>2, <2>3, <2>4 DEF TypeOK
<1>2. StackOK /\ PointerOK /\ AddOK /\ EntriesOK /\ OneEntry /\ NoMissedChild
  BY DEF StackOK, PointerOK, AddOK, Adding, EntriesOK, OneEntry, NoMissedChild, PidAt
<1> QED BY <1>1, <1>2 DEF IInv

\* Handlers start and return, and nothing else changes the stack.
LEMMA StackStep ==
  ASSUME TypeOK, StackOK, [Next]_vars
  PROVE  StackOK'
<1> USE DEF TypeOK, StackOK, OnStack
<1>1. CASE UNCHANGED <<stack, frame>>
  BY <1>1
<1>2. CASE stack' = <<>> /\ frame' = NoHandler
  BY <1>2 DEF NoHandler, Off
<1>3. ASSUME NEW s \in Sig, Deliver(s) PROVE StackOK'
  <2>1. stack' = <<s>> \o stack /\ \A r \in Sig : r # s => frame'[r] = frame[r]
    BY <1>3 DEF Deliver
  <2>2. Len(stack') = Len(stack) + 1 /\ stack'[1] = s /\ \A i \in 1..Len(stack) : stack'[i + 1] = stack[i]
    BY <2>1
  <2>3. ASSUME NEW r \in Sig, frame'[r].pc # "off" PROVE OnStack(r)'
    <3>1. CASE r = s
      <4>1. 1 \in 1..Len(stack')
        BY <2>2
      <4> QED BY <3>1, <4>1, <2>2
    <3>2. CASE r # s
      <4>1. PICK i \in 1..Len(stack) : stack[i] = r
        BY <3>2, <2>1, <2>3
      <4>2. i + 1 \in 1..Len(stack') /\ stack'[i + 1] = r
        BY <4>1, <2>2
      <4> QED BY <4>2
    <3> QED BY <3>1, <3>2
  <2> QED BY <2>3
<1>4. ASSUME NEW s \in Sig, stack # <<>>, Head(stack) = s, Return(s) PROVE StackOK'
  <2>1. /\ stack' = Tail(stack)
        /\ \A r \in Sig : frame'[r] = IF r = s THEN Off ELSE frame[r]
    BY <1>4 DEF Return
  <2>2. /\ Len(stack') = Len(stack) - 1 /\ stack[1] = s
        /\ \A i \in 1..Len(stack) : i # 1 => i - 1 \in 1..Len(stack') /\ stack'[i - 1] = stack[i]
    BY <2>1, <1>4
  <2>3. ASSUME NEW r \in Sig, frame'[r].pc # "off" PROVE OnStack(r)'
    <3>1. r # s /\ frame[r].pc # "off"
      BY <2>1, <2>3 DEF Off
    <3>2. PICK i \in 1..Len(stack) : stack[i] = r
      BY <3>1
    <3>3. i - 1 \in 1..Len(stack') /\ stack'[i - 1] = r
      BY <3>1, <3>2, <2>2
    <3> QED BY <3>3
  <2> QED BY <2>3
<1>5. ASSUME NEW s \in Sig, stack # <<>>, Head(stack) = s, stack' = stack,
             \A r \in Sig : r # s => frame'[r] = frame[r]
      PROVE  StackOK'
  <2>1. stack[1] = s /\ 1 \in 1..Len(stack)
    BY <1>5
  <2> QED BY <2>1, <1>5
<1>6. CASE User
  BY <1>1, <1>2, <1>6 DEF User, Fork, BuiltinBg, BuiltinFg, Quit, Key, signalVars
<1>7. CASE Shell
  BY <1>1, <1>7 DEF Shell, AddBg, AddFg, WaitDone, BgSet, FgSet, FgCont, FgWait, signalVars
<1>8. ASSUME NEW s \in Sig, Handler(s) PROVE StackOK'
  <2>1. CASE ReadFg(s) \/ Forward(s)
    BY <2>1, <1>4, <1>5 DEF ReadFg, Forward, Running
  <2>2. ASSUME s = "CHLD", NEW p \in Pid, WaitDead(p) \/ WaitStopped(p) PROVE StackOK'
    BY <2>2, <1>5 DEF WaitDead, WaitStopped, Running
  <2>3. CASE s = "CHLD" /\ WaitNone
    BY <2>3, <1>4 DEF WaitNone, Running
  <2>4. CASE s = "CHLD" /\ (DeleteDead \/ MarkStopped)
    BY <2>4, <1>5 DEF DeleteDead, MarkStopped, Running
  <2>5. CASE s = "CHLD" /\ MarkNull
    BY <2>5, <1>2 DEF MarkNull
  <2> QED BY <1>8, <2>1, <2>2, <2>3, <2>4, <2>5 DEF Handler
<1>9. ASSUME NEW p \in Pid, Child(p) PROVE StackOK'
  BY <1>1, <1>9 DEF Child, Exec, Die, Stop, signalVars
<1>10. CASE UNCHANGED vars
  BY <1>1, <1>10 DEF vars
<1> QED BY <1>3, <1>6, <1>7, <1>8, <1>9, <1>10 DEF Next

\* A death or a stop sends SIGCHLD, and the handler leaves its loop only when
\* waitpid finds nothing.
LEMMA NoMissedStep ==
  ASSUME TypeOK, NoMissedChild, [Next]_vars
  PROVE  NoMissedChild'
<1> USE DEF TypeOK, NoMissedChild, Alive
<1>1. CASE User
  BY <1>1 DEF User, Fork, BuiltinBg, BuiltinFg, FindJob, Main, Quit, Key, signalVars, childVars, shellVars
<1>2. CASE Shell
  <2>1. CASE FgCont
    <3>1. pc = "fgCont" /\ pc' = "fgWait" /\ UNCHANGED frame
      BY <2>1 DEF FgCont, Main
    <3>2. CASE UNCHANGED <<proc, news, pending>>
      BY <3>1, <3>2
    <3>3. ASSUME NEW p \in Pid, Continue(p) PROVE NoMissedChild'
      BY <3>1, <3>3 DEF Continue
    <3>4. UNCHANGED <<proc, news, pending>> \/ \E p \in Pid : Continue(p)
      <4> DEFINE p == job_list[job].pid
      <4>1. IF p \in Pid /\ proc[p] # "born" THEN Continue(p) ELSE UNCHANGED <<childVars, pending>>
        BY <2>1 DEF FgCont
      <4> HIDE DEF p, NoMissedChild
      <4> QED BY <4>1 DEF childVars
    <3> QED BY <3>2, <3>3, <3>4
  <2>2. CASE AddBg \/ AddFg \/ WaitDone \/ BgSet \/ FgSet \/ FgWait
    BY <2>2 DEF AddBg, AddFg, WaitDone, BgSet, FgSet, FgWait, Main, signalVars, childVars
  <2> QED BY <1>2, <2>1, <2>2 DEF Shell
<1>3. ASSUME NEW s \in Sig, Deliver(s) PROVE NoMissedChild'
  BY <1>3 DEF Deliver, shellVars, childVars, Sig, Frames
<1>4. ASSUME NEW s \in Sig, Handler(s) PROVE NoMissedChild'
  <2>1. CASE s # "CHLD" /\ ReadFg(s)
    BY <2>1 DEF ReadFg, Return, shellVars, childVars, Sig
  <2>2. CASE s # "CHLD" /\ Forward(s)
    BY <2>2 DEF Forward, Return, Stops, Dies, shellVars, Sig
  <2>3. ASSUME s = "CHLD", NEW p \in Pid, WaitDead(p) \/ WaitStopped(p) PROVE NoMissedChild'
    BY <2>3 DEF WaitDead, WaitStopped, shellVars, Sig
  <2>4. CASE s = "CHLD" /\ WaitNone
    BY <2>4 DEF WaitNone, childVars, shellVars
  <2>5. CASE s = "CHLD" /\ (DeleteDead \/ MarkStopped)
    <3>1. frame' = [frame EXCEPT !["CHLD"] = [Off EXCEPT !.pc = "start"]]
      BY <2>5 DEF DeleteDead, MarkStopped
    <3>2. "CHLD" \in Sig /\ [Off EXCEPT !.pc = "start"].pc = "start"
      BY DEF Sig, Off
    <3>3. frame'["CHLD"].pc = "start"
      BY <3>1, <3>2
    <3> QED BY <3>3
  <2>6. CASE s = "CHLD" /\ MarkNull
    BY <2>6 DEF MarkNull
  <2> QED BY <1>4, <2>1, <2>2, <2>3, <2>4, <2>5, <2>6 DEF Handler
<1>5. ASSUME NEW p \in Pid, Child(p) PROVE NoMissedChild'
  BY <1>5 DEF Child, Exec, Die, Stop, Stops, Dies, shellVars, signalVars
<1>6. CASE UNCHANGED vars
  BY <1>6 DEF vars
<1> QED BY <1>1, <1>2, <1>3, <1>4, <1>5, <1>6 DEF Next

-----------------------------------------------------------------------------
(* What the operations on the job list do.                                 *)

JobRecord == [pid : Pid \cup {NoPid}, jid : Nat, state : JobStates]

\* addjob fills at most one unused entry, and with p.
LEMMA AddJob ==
  ASSUME TypeOK, NEW p \in Pid, NEW st \in {"FG", "BG"}, addjob(p, st)
  PROVE  /\ job_list' \in [Slot -> JobRecord] /\ nextjid' \in Nat \ {0}
         /\ \E i \in Slot : \A k \in Slot : k # i => PidAt(k)' = PidAt(k)
         /\ \A i \in Slot : PidAt(i)' = PidAt(i) \/ PidAt(i)' = p
<1> USE DEF TypeOK, PidAt, JobRecord
<1>1. CASE UNCHANGED <<job_list, nextjid>>
  <2>1. 1 \in Slot
    BY BoundAssumption DEF Slot
  <2> QED BY <1>1, <2>1
<1>2. ASSUME NEW i \in Slot,
             job_list' = [job_list EXCEPT ![i] = [pid |-> p, jid |-> nextjid, state |-> st]],
             nextjid' = IF nextjid + 1 > MAXJOBS THEN 1 ELSE nextjid + 1
      PROVE  /\ job_list' \in [Slot -> JobRecord] /\ nextjid' \in Nat \ {0}
             /\ \E j \in Slot : \A k \in Slot : k # j => PidAt(k)' = PidAt(k)
             /\ \A j \in Slot : PidAt(j)' = PidAt(j) \/ PidAt(j)' = p
  <2>1. [pid |-> p, jid |-> nextjid, state |-> st] \in JobRecord
    BY DEF JobStates
  <2>2. job_list' \in [Slot -> JobRecord]
    BY <1>2, <2>1
  <2>3. nextjid' \in Nat \ {0}
    BY <1>2, BoundAssumption
  <2>4. \A k \in Slot : k # i => PidAt(k)' = PidAt(k)
    BY <1>2
  <2>5. PidAt(i)' = p
    BY <1>2
  <2> QED BY <2>2, <2>3, <2>4, <2>5
<1> QED BY <1>1, <1>2 DEF addjob

\* deletejob clears the entry of p, which is the only one.
LEMMA DeleteJob ==
  ASSUME TypeOK, OneEntry, NEW p \in Pid, deletejob(p)
  PROVE  /\ job_list' \in [Slot -> JobRecord] /\ nextjid' \in Nat \ {0}
         /\ \A i \in Slot : PidAt(i)' # p /\ (PidAt(i)' = PidAt(i) \/ PidAt(i)' = NoPid)
<1> USE DEF TypeOK, PidAt, JobRecord
<1>1. CASE ~InList(p) /\ UNCHANGED <<job_list, nextjid>>
  BY <1>1 DEF InList
<1>2. ASSUME NEW i \in Slot, PidAt(i) = p, job_list' = [job_list EXCEPT ![i] = Cleared],
             NEW m \in {0} \cup {job_list[k].jid : k \in Slot}, nextjid' = m + 1
      PROVE  /\ job_list' \in [Slot -> JobRecord] /\ nextjid' \in Nat \ {0}
             /\ \A j \in Slot : PidAt(j)' # p /\ (PidAt(j)' = PidAt(j) \/ PidAt(j)' = NoPid)
  <2>1. Cleared \in JobRecord /\ Cleared.pid = NoPid /\ p # NoPid
    BY PidAssumption DEF Cleared, JobStates
  <2>2. job_list' \in [Slot -> JobRecord]
    BY <1>2, <2>1
  <2>3. m \in Nat
    BY <1>2
  <2>4. nextjid' \in Nat \ {0}
    BY <2>3, <1>2
  <2>5. PidAt(i)' = NoPid
    BY <1>2, <2>1
  <2>6. \A j \in Slot : j # i => PidAt(j)' = PidAt(j) /\ PidAt(j) # p
    BY <1>2, <2>1 DEF OneEntry
  <2> QED BY <2>1, <2>2, <2>4, <2>5, <2>6
<1> QED BY <1>1, <1>2 DEF deletejob, IsFirst

\* fg, bg and sigchld_handler change the state of an entry and nothing else of it.
LEMMA SetState ==
  ASSUME TypeOK, NEW i \in Slot, NEW st \in JobStates,
         job_list' = [job_list EXCEPT ![i].state = st]
  PROVE  job_list' \in [Slot -> JobRecord] /\ \A k \in Slot : PidAt(k)' = PidAt(k)
BY DEF TypeOK, PidAt, JobRecord

-----------------------------------------------------------------------------
(* Type correctness, by the parts of the state.                            *)

ListType == job_list \in [Slot -> JobRecord] /\ nextjid \in Nat \ {0}
LoopType ==
  pc \in LoopStates /\ arg \in Pid \cup {NoPid} /\ job \in {0} \cup Slot /\ blocked \in BOOLEAN
SignalType == pending \subseteq Sig /\ stack \in Seq(Sig) /\ frame \in [Sig -> Frames]
ChildType == proc \in [Pid -> {"none", "born", "run", "stopped", "zombie"}] /\ news \subseteq Pid

\* The parts of the type invariant, each disturbed by other steps.
LEMMA TypeParts == TypeOK <=> ListType /\ LoopType /\ SignalType /\ ChildType
BY DEF TypeOK, ListType, LoopType, SignalType, ChildType, JobRecord

\* The loop's actions.
LEMMA ShellTypes ==
  ASSUME TypeOK, PointerOK, AddOK, Shell
  PROVE  TypeOK' /\ PointerOK'
<1> USE DEF Main
<1>0. ListType /\ LoopType /\ SignalType /\ ChildType
  BY TypeParts
<1>1. CASE AddBg \/ AddFg
  <2>1. arg \in Pid
    BY <1>1 DEF AddOK, Adding, AddBg, AddFg
  <2>2. ListType'
    BY <1>1, <2>1, AddJob DEF AddBg, AddFg, ListType
  <2>3. LoopType' /\ PointerOK'
    BY <1>0, <1>1 DEF AddBg, AddFg, LoopType, PointerOK, LoopStates
  <2>4. SignalType' /\ ChildType'
    BY <1>0, <1>1 DEF AddBg, AddFg, SignalType, ChildType, signalVars, childVars
  <2> QED BY <2>2, <2>3, <2>4, TypeParts, PTL
<1>2. CASE WaitDone
  <2>1. LoopType' /\ PointerOK'
    BY <1>0, <1>2 DEF WaitDone, LoopType, PointerOK, LoopStates
  <2>2. ListType' /\ SignalType' /\ ChildType'
    BY <1>0, <1>2 DEF WaitDone, ListType, SignalType, ChildType, signalVars, childVars
  <2> QED BY <2>1, <2>2, TypeParts, PTL
<1>3. CASE BgSet \/ FgSet
  <2>1. job \in Slot
    BY <1>3 DEF PointerOK, BgSet, FgSet
  <2>2. ListType'
    BY <1>0, <1>3, <2>1, SetState DEF BgSet, FgSet, ListType, JobStates
  <2>3. LoopType' /\ PointerOK'
    BY <1>0, <1>3, <2>1 DEF BgSet, FgSet, LoopType, PointerOK, LoopStates
  <2>4. SignalType' /\ ChildType'
    BY <1>0, <1>3 DEF BgSet, FgSet, SignalType, ChildType, signalVars, childVars
  <2> QED BY <2>2, <2>3, <2>4, TypeParts, PTL
<1>4. CASE FgCont
  <2>1. UNCHANGED <<proc, news, pending>> \/ \E p \in Pid : Continue(p)
    <3> DEFINE p == job_list[job].pid
    <3>1. IF p \in Pid /\ proc[p] # "born" THEN Continue(p) ELSE UNCHANGED <<childVars, pending>>
      BY <1>4 DEF FgCont
    <3> HIDE DEF p
    <3> QED BY <3>1 DEF childVars
  <2>2. ChildType' /\ pending' \subseteq Sig
    BY <1>0, <2>1 DEF Continue, ChildType, SignalType, Sig
  <2>3. LoopType' /\ PointerOK'
    BY <1>0, <1>4 DEF FgCont, LoopType, PointerOK, LoopStates
  <2>4. ListType' /\ SignalType'
    BY <1>0, <1>4, <2>2 DEF FgCont, ListType, SignalType
  <2> QED BY <2>2, <2>3, <2>4, TypeParts, PTL
<1>5. CASE FgWait
  <2>1. job \in Slot
    BY <1>5 DEF PointerOK, FgWait
  <2>2. LoopType' /\ PointerOK'
    BY <1>0, <1>5, <2>1 DEF FgWait, LoopType, PointerOK, LoopStates, ListType, JobRecord
  <2>3. ListType' /\ SignalType' /\ ChildType'
    BY <1>0, <1>5 DEF FgWait, ListType, SignalType, ChildType, signalVars, childVars
  <2> QED BY <2>2, <2>3, TypeParts, PTL
<1> QED BY <1>1, <1>2, <1>3, <1>4, <1>5 DEF Shell

\* The user's commands and keys.
LEMMA UserTypes ==
  ASSUME TypeOK, PointerOK, User
  PROVE  TypeOK' /\ PointerOK'
<1>0. ListType /\ LoopType /\ SignalType /\ ChildType
  BY TypeParts
<1>1. ASSUME NEW p \in Pid, NEW state \in {"FG", "BG"}, Fork(p, state) PROVE TypeOK' /\ PointerOK'
  <2>1. LoopType' /\ PointerOK'
    BY <1>0, <1>1 DEF Fork, Main, LoopType, PointerOK, LoopStates
  <2>2. ListType' /\ SignalType' /\ ChildType'
    BY <1>0, <1>1 DEF Fork, ListType, SignalType, ChildType, signalVars
  <2> QED BY <2>1, <2>2, TypeParts, PTL
<1>2. ASSUME NEW jid \in 1..(MaxJid + 1), BuiltinFg(jid) \/ BuiltinBg(jid)
      PROVE  TypeOK' /\ PointerOK'
  <2>1. \/ pc' = "crashed" /\ UNCHANGED job
        \/ pc' \in {"bgSet", "fgSet"} /\ job' \in Slot
    BY <1>2 DEF BuiltinFg, BuiltinBg, FindJob, Main
  <2>2. LoopType' /\ PointerOK'
    BY <1>0, <1>2, <2>1 DEF BuiltinFg, BuiltinBg, LoopType, PointerOK, LoopStates
  <2>3. ListType' /\ SignalType' /\ ChildType'
    BY <1>0, <1>2 DEF BuiltinFg, BuiltinBg, ListType, SignalType, ChildType, signalVars, childVars
  <2> QED BY <2>2, <2>3, TypeParts, PTL
<1>3. CASE Quit
  <2>1. SignalType'
    BY <1>0, <1>3, FrameTypes DEF Quit, SignalType, NoHandler
  <2>2. LoopType' /\ PointerOK' /\ ListType' /\ ChildType'
    BY <1>0, <1>3 DEF Quit, LoopType, PointerOK, LoopStates, ListType, ChildType, childVars
  <2> QED BY <2>1, <2>2, TypeParts, PTL
<1>4. ASSUME NEW s \in Keys, Key(s) PROVE TypeOK' /\ PointerOK'
  <2>1. LoopType' /\ PointerOK' /\ ListType' /\ ChildType' /\ SignalType'
    BY <1>0, <1>4 DEF Key, LoopType, PointerOK, ListType, ChildType, SignalType, Sig,
                      shellVars, childVars
  <2> QED BY <2>1, TypeParts, PTL
<1> QED BY <1>1, <1>2, <1>3, <1>4 DEF User

\* Return leaves the handlers' state well typed.
LEMMA ReturnTypes ==
  ASSUME NEW s \in Sig, stack \in Seq(Sig), stack # <<>>, frame \in [Sig -> Frames], Return(s)
  PROVE  stack' \in Seq(Sig) /\ frame' \in [Sig -> Frames]
BY FrameTypes DEF Return

\* The handlers' actions.
LEMMA HandlerTypes ==
  ASSUME TypeOK, PointerOK, OneEntry, NEW s \in Sig, Handler(s)
  PROVE  TypeOK' /\ PointerOK'
<1>0. ListType /\ LoopType /\ SignalType /\ ChildType /\ "CHLD" \in Sig
  BY TypeParts DEF Sig
<1>1. CASE s # "CHLD" /\ ReadFg(s)
  <2>1. SignalType'
    <3>1. CASE stack # <<>> /\ Return(s)
      BY <1>0, <1>1, <3>1, ReturnTypes DEF ReadFg, SignalType
    <3>2. ASSUME NEW p \in Pid,
                 frame' = [frame EXCEPT ![s] = [pc |-> "act", pid |-> p, kind |-> "none"]],
                 UNCHANGED stack
          PROVE  SignalType'
      <4>1. [pc |-> "act", pid |-> p, kind |-> "none"] \in Frames
        BY FrameTypes
      <4> QED BY <1>0, <1>1, <3>2, <4>1 DEF ReadFg, SignalType
    <3> QED BY <1>1, <3>1, <3>2 DEF ReadFg, Running
  <2>2. LoopType' /\ PointerOK' /\ ListType' /\ ChildType'
    BY <1>0, <1>1 DEF ReadFg, LoopType, PointerOK, ListType, ChildType, shellVars, childVars
  <2> QED BY <2>1, <2>2, TypeParts, PTL
<1>2. CASE s # "CHLD" /\ Forward(s)
  <2>1. \/ UNCHANGED <<proc, news, pending>>
        \/ \E p \in {frame[s].pid} : proc[p] = "run" /\ Dies(p)
        \/ \E p \in {frame[s].pid} : Stops(p)
    BY <1>2 DEF Forward
  <2>2. frame[s].pid \in Pid
    BY <1>0, <1>2, FrameTypes DEF Forward, Running, SignalType
  <2>3. ChildType' /\ pending' \subseteq Sig
    BY <1>0, <2>1, <2>2 DEF Dies, Stops, ChildType, SignalType
  <2>4. SignalType'
    BY <1>0, <1>2, <2>3, ReturnTypes DEF Forward, Running, SignalType
  <2>5. LoopType' /\ PointerOK' /\ ListType'
    BY <1>0, <1>2 DEF Forward, LoopType, PointerOK, ListType, shellVars
  <2> QED BY <2>3, <2>4, <2>5, TypeParts, PTL
<1>3. ASSUME s = "CHLD", NEW p \in Pid, WaitDead(p) \/ WaitStopped(p) PROVE TypeOK' /\ PointerOK'
  <2>1. \E k \in {"none", "dead", "stopped"} :
          frame' = [frame EXCEPT !["CHLD"] = [pc |-> "act", pid |-> p, kind |-> k]]
    BY <1>3 DEF WaitDead, WaitStopped
  <2>2. PICK k \in {"none", "dead", "stopped"} :
          frame' = [frame EXCEPT !["CHLD"] = [pc |-> "act", pid |-> p, kind |-> k]]
    BY <2>1
  <2>3. [pc |-> "act", pid |-> p, kind |-> k] \in Frames
    BY <2>2 DEF Frames
  <2>4. frame' \in [Sig -> Frames]
    BY <1>0, <2>2, <2>3 DEF SignalType
  <2>5. SignalType' /\ ChildType'
    BY <1>0, <1>3, <2>4 DEF WaitDead, WaitStopped, SignalType, ChildType
  <2>6. LoopType' /\ PointerOK' /\ ListType'
    BY <1>0, <1>3 DEF WaitDead, WaitStopped, LoopType, PointerOK, ListType, shellVars
  <2> QED BY <2>5, <2>6, TypeParts, PTL
<1>4. CASE s = "CHLD" /\ WaitNone
  <2>1. SignalType'
    BY <1>0, <1>4, ReturnTypes DEF WaitNone, Running, SignalType
  <2>2. LoopType' /\ PointerOK' /\ ListType' /\ ChildType'
    BY <1>0, <1>4 DEF WaitNone, LoopType, PointerOK, ListType, ChildType, shellVars, childVars
  <2> QED BY <2>1, <2>2, TypeParts, PTL
<1>5. CASE s = "CHLD" /\ DeleteDead
  <2>1. ListType'
    <3>1. frame["CHLD"].pid \in Pid /\ deletejob(frame["CHLD"].pid)
      BY <1>0, <1>5, FrameTypes DEF DeleteDead, Running, SignalType
    <3> QED BY <3>1, DeleteJob DEF ListType
  <2>2. SignalType'
    BY <1>0, <1>5, FrameTypes DEF DeleteDead, SignalType
  <2>3. LoopType' /\ PointerOK' /\ ChildType'
    BY <1>0, <1>5 DEF DeleteDead, LoopType, PointerOK, ChildType, childVars
  <2> QED BY <2>1, <2>2, <2>3, TypeParts, PTL
<1>6. CASE s = "CHLD" /\ MarkStopped
  <2>1. ListType'
    BY <1>0, <1>6, SetState DEF MarkStopped, ListType, JobStates
  <2>2. SignalType'
    BY <1>0, <1>6, FrameTypes DEF MarkStopped, SignalType
  <2>3. LoopType' /\ PointerOK' /\ ChildType'
    BY <1>0, <1>6 DEF MarkStopped, LoopType, PointerOK, ChildType, childVars
  <2> QED BY <2>1, <2>2, <2>3, TypeParts, PTL
<1>7. CASE s = "CHLD" /\ MarkNull
  <2>1. SignalType'
    BY <1>0, <1>7, FrameTypes DEF MarkNull, SignalType, NoHandler
  <2>2. LoopType' /\ PointerOK' /\ ListType' /\ ChildType'
    BY <1>0, <1>7 DEF MarkNull, LoopType, PointerOK, LoopStates, ListType, ChildType, childVars
  <2> QED BY <2>1, <2>2, TypeParts, PTL
<1> QED BY <1>1, <1>2, <1>3, <1>4, <1>5, <1>6, <1>7 DEF Handler

\* Delivery of a signal, and the children's actions.
LEMMA KernelTypes ==
  ASSUME TypeOK, PointerOK, (\E s \in Sig : Deliver(s)) \/ (\E p \in Pid : Child(p))
  PROVE  TypeOK' /\ PointerOK'
<1>0. ListType /\ LoopType /\ SignalType /\ ChildType /\ "CHLD" \in Sig
  BY TypeParts DEF Sig
<1>1. ASSUME NEW s \in Sig, Deliver(s) PROVE TypeOK' /\ PointerOK'
  <2>1. stack' \in Seq(Sig) /\ pending' \subseteq Sig
    BY <1>0, <1>1 DEF Deliver, SignalType
  <2>2. frame' \in [Sig -> Frames]
    BY <1>0, <1>1, FrameTypes DEF Deliver, SignalType
  <2>3. LoopType' /\ PointerOK' /\ ListType' /\ ChildType'
    BY <1>0, <1>1 DEF Deliver, LoopType, PointerOK, ListType, ChildType, shellVars, childVars
  <2>4. SignalType'
    BY <2>1, <2>2 DEF SignalType
  <2> QED BY <2>3, <2>4, TypeParts, PTL
<1>2. ASSUME NEW p \in Pid, Child(p) PROVE TypeOK' /\ PointerOK'
  <2>1. ChildType' /\ SignalType'
    BY <1>0, <1>2 DEF Child, Exec, Die, Stop, Dies, Stops, ChildType, SignalType, signalVars
  <2>2. LoopType' /\ PointerOK' /\ ListType'
    BY <1>0, <1>2 DEF Child, Exec, Die, Stop, LoopType, PointerOK, ListType, shellVars
  <2> QED BY <2>1, <2>2, TypeParts, PTL
<1> QED BY <1>1, <1>2

\* The steps keep the types.
LEMMA TypeStep ==
  ASSUME TypeOK, PointerOK, AddOK, OneEntry, [Next]_vars
  PROVE  TypeOK' /\ PointerOK'
<1>1. CASE UNCHANGED vars
  <2>1. LoopType' /\ PointerOK' /\ ListType' /\ SignalType' /\ ChildType'
    BY <1>1, TypeParts DEF vars, LoopType, PointerOK, ListType, SignalType, ChildType
  <2> QED BY <2>1, TypeParts, PTL
<1> QED BY <1>1, ShellTypes, UserTypes, HandlerTypes, KernelTypes DEF Next

-----------------------------------------------------------------------------
(* The job list and the children.                                          *)

\* What the entries' pids depend on is unchanged, except that children may be born
\* or change state and a handler other than that of SIGCHLD may start or return.
Same == /\ \A i \in Slot : PidAt(i)' = PidAt(i)
        /\ \A p \in Pid : proc[p] # "none" => proc'[p] # "none"
        /\ \A p \in Pid : BeingDeleted(p) => BeingDeleted(p)'

\* Steps that leave the list and the reaped children alone keep the entries right.
LEMMA SameStep ==
  ASSUME TypeOK, EntriesOK, OneEntry, Same, Alive' => Alive
  PROVE  EntriesOK' /\ OneEntry'
<1>1. OneEntry'
  BY DEF OneEntry, Same
<1>2. ASSUME Alive', NEW i \in Slot, PidAt(i)' # NoPid
      PROVE  (proc[PidAt(i)] # "none" \/ BeingDeleted(PidAt(i)))'
  <2>1. PidAt(i)' = PidAt(i) /\ PidAt(i) \in Pid
    BY <1>2 DEF Same, TypeOK, PidAt
  <2>2. proc[PidAt(i)] # "none" \/ BeingDeleted(PidAt(i))
    BY <1>2, <2>1 DEF EntriesOK
  <2>3. PICK p \in Pid : p = PidAt(i)
    BY <2>1
  <2>4. proc'[p] # "none" \/ BeingDeleted(p)'
    BY <2>2, <2>3 DEF Same
  <2> QED BY <2>1, <2>3, <2>4 DEF BeingDeleted
<1> QED BY <1>1, <1>2 DEF EntriesOK

\* Only while the SIGCHLD handler is on the stack can a child be reaped and listed.
LEMMA QuietEntries ==
  ASSUME TypeOK, StackOK, EntriesOK, Alive, stack = <<>>, NEW p \in Pid, proc[p] = "none"
  PROVE  ~InList(p)
<1>1. frame["CHLD"].pc = "off"
  BY DEF StackOK, OnStack, Sig
<1>2. ~BeingDeleted(p) /\ p # NoPid
  BY <1>1, PidAssumption DEF BeingDeleted
<1> QED BY <1>2 DEF EntriesOK, InList

\* Blocked signals, and the child being added.
LEMMA AddStep ==
  ASSUME TypeOK, StackOK, EntriesOK, AddOK, [Next]_vars
  PROVE  AddOK'
<1> USE DEF AddOK, Adding
<1>1. ASSUME NEW p \in Pid, NEW state \in {"FG", "BG"}, Fork(p, state) PROVE AddOK'
  <2>1. ~InList(p) /\ UNCHANGED <<job_list, stack>> /\ proc'[p] = "born" /\ stack = <<>>
        /\ arg' = p /\ blocked' = TRUE
    BY <1>1, QuietEntries DEF Fork, Main, signalVars, TypeOK, Alive
  <2>2. ~InList(p)'
    BY <2>1 DEF InList, PidAt
  <2> QED BY <2>1, <2>2 DEF InList
<1>2. CASE UNCHANGED <<stack, blocked>> /\ ~Adding'
  BY <1>2
<1>3. CASE blocked' = FALSE /\ ~Adding'
  BY <1>3
<1>4. CASE /\ UNCHANGED <<pc, arg, blocked, job_list>>
           /\ Adding => proc'[arg] # "none"
           /\ blocked => UNCHANGED stack
  <2>1. Adding => ~InList(arg)'
    BY <1>4 DEF InList, PidAt
  <2> QED BY <1>4, <2>1 DEF InList
<1>5. CASE Shell
  BY <1>5, <1>2, <1>3 DEF Shell, AddBg, AddFg, WaitDone, BgSet, FgSet, FgCont, FgWait, Main, signalVars
<1>6. ASSUME NEW jid \in 1..(MaxJid + 1), BuiltinFg(jid) \/ BuiltinBg(jid) PROVE AddOK'
  BY <1>6, <1>2 DEF BuiltinFg, BuiltinBg, FindJob, Main, signalVars
<1>7. CASE Quit
  BY <1>7 DEF Quit
<1>8. ASSUME NEW s \in Keys, Key(s) PROVE AddOK'
  BY <1>8, <1>4 DEF Key, shellVars, childVars
<1>9. ASSUME NEW s \in Sig, Deliver(s) PROVE AddOK'
  BY <1>9, <1>4 DEF Deliver, shellVars
<1>10. ASSUME NEW s \in Sig, Handler(s) PROVE AddOK'
  <2>1. stack # <<>> /\ ~blocked /\ ~Adding
    BY <1>10 DEF Handler, ReadFg, Forward, WaitDead, WaitStopped, WaitNone, DeleteDead, MarkStopped,
                 MarkNull, Running
  <2>2. blocked' = blocked /\ (pc' = pc \/ pc' = "crashed")
    BY <1>10 DEF Handler, ReadFg, Forward, WaitDead, WaitStopped, WaitNone, DeleteDead, MarkStopped,
                 MarkNull, shellVars
  <2> QED BY <2>1, <2>2
<1>11. ASSUME NEW p \in Pid, Child(p) PROVE AddOK'
  BY <1>11, <1>4 DEF Child, Exec, Die, Stop, Stops, Dies, TypeOK, shellVars, signalVars
<1>12. CASE UNCHANGED vars
  BY <1>12, <1>4 DEF vars
<1> QED BY <1>1, <1>5, <1>6, <1>7, <1>8, <1>9, <1>10, <1>11, <1>12 DEF Next, User

\* The actions that leave the pids of the list and the reaping of children alone.
LEMMA SameSteps ==
  ASSUME TypeOK, EntriesOK, OneEntry, PointerOK,
         \/ WaitDone \/ BgSet \/ FgSet \/ FgCont \/ FgWait
         \/ User
         \/ \E s \in Sig : Deliver(s)
         \/ \E s \in Sig : s # "CHLD" /\ (ReadFg(s) \/ Forward(s))
         \/ \E p \in Pid : WaitStopped(p)
         \/ WaitNone \/ MarkStopped \/ MarkNull
         \/ \E p \in Pid : Child(p)
         \/ UNCHANGED vars
  PROVE  EntriesOK' /\ OneEntry'
<1>0. "CHLD" \in Sig
  BY DEF Sig
<1> USE DEF PidAt, Alive
<1>1. CASE WaitDone \/ FgWait
  <2>1. Same /\ (Alive' => Alive)
    BY <1>1 DEF Same, WaitDone, FgWait, Main, BeingDeleted, signalVars, childVars
  <2> QED BY <2>1, SameStep
<1>2. CASE BgSet \/ FgSet
  <2>1. \A i \in Slot : PidAt(i)' = PidAt(i)
    BY <1>2, SetState DEF BgSet, FgSet, PointerOK, Main, JobStates
  <2>2. Same /\ (Alive' => Alive)
    BY <1>2, <2>1 DEF Same, BgSet, FgSet, Main, BeingDeleted, signalVars, childVars
  <2> QED BY <2>2, SameStep
<1>3. CASE FgCont
  <2>1. UNCHANGED proc \/ \E p \in Pid : Continue(p)
    <3> DEFINE p == job_list[job].pid
    <3>1. IF p \in Pid /\ proc[p] # "born" THEN Continue(p) ELSE UNCHANGED <<childVars, pending>>
      BY <1>3 DEF FgCont
    <3> HIDE DEF p
    <3> QED BY <3>1 DEF childVars
  <2>2. \A p \in Pid : proc[p] # "none" => proc'[p] # "none"
    BY <2>1 DEF Continue, TypeOK
  <2>3. Same /\ (Alive' => Alive)
    BY <1>3, <2>2 DEF Same, FgCont, Main, BeingDeleted
  <2> QED BY <2>3, SameStep
<1>4. CASE User
  <2>1. CASE Quit
    BY <2>1 DEF Quit, EntriesOK, OneEntry
  <2>2. ASSUME NEW p \in Pid, NEW state \in {"FG", "BG"}, Fork(p, state) PROVE EntriesOK' /\ OneEntry'
    <3>1. Same /\ (Alive' => Alive)
      BY <2>2 DEF Same, Fork, Main, BeingDeleted, signalVars, TypeOK
    <3> QED BY <3>1, SameStep
  <2>3. ASSUME NEW jid \in 1..(MaxJid + 1), BuiltinFg(jid) \/ BuiltinBg(jid)
        PROVE  EntriesOK' /\ OneEntry'
    <3>1. Same /\ (Alive' => Alive)
      BY <2>3 DEF Same, BuiltinFg, BuiltinBg, FindJob, Main, BeingDeleted, signalVars, childVars
    <3> QED BY <3>1, SameStep
  <2>4. ASSUME NEW s \in Keys, Key(s) PROVE EntriesOK' /\ OneEntry'
    <3>1. Same /\ (Alive' => Alive)
      BY <2>4 DEF Same, Key, BeingDeleted, shellVars, childVars
    <3> QED BY <3>1, SameStep
  <2> QED BY <1>4, <2>1, <2>2, <2>3, <2>4 DEF User
<1>5. ASSUME NEW s \in Sig, Deliver(s) PROVE EntriesOK' /\ OneEntry'
  <2>1. Same /\ (Alive' => Alive)
    BY <1>0, <1>5 DEF Same, Deliver, BeingDeleted, shellVars, childVars, TypeOK
  <2> QED BY <2>1, SameStep
<1>6. ASSUME NEW s \in Sig, s # "CHLD", ReadFg(s) \/ Forward(s) PROVE EntriesOK' /\ OneEntry'
  <2>1. frame'["CHLD"] = frame["CHLD"]
    BY <1>0, <1>6 DEF ReadFg, Forward, Return, TypeOK
  <2>2. \A p \in Pid : proc[p] # "none" => proc'[p] # "none"
    BY <1>6 DEF ReadFg, Forward, Dies, Stops, TypeOK, childVars
  <2>3. Same /\ (Alive' => Alive)
    BY <1>6, <2>1, <2>2 DEF Same, ReadFg, Forward, BeingDeleted, shellVars
  <2> QED BY <2>3, SameStep
<1>7. ASSUME NEW p \in Pid, WaitStopped(p) PROVE EntriesOK' /\ OneEntry'
  <2>1. Same /\ (Alive' => Alive)
    BY <1>0, <1>7 DEF Same, WaitStopped, Running, BeingDeleted, shellVars
  <2> QED BY <2>1, SameStep
<1>8. CASE WaitNone
  <2>1. Same /\ (Alive' => Alive)
    BY <1>0, <1>8 DEF Same, WaitNone, Running, BeingDeleted, shellVars, childVars
  <2> QED BY <2>1, SameStep
<1>9. CASE MarkStopped
  <2>1. \A i \in Slot : PidAt(i)' = PidAt(i)
    BY <1>9, SetState DEF MarkStopped, JobStates
  <2>2. Same /\ (Alive' => Alive)
    BY <1>0, <1>9, <2>1 DEF Same, MarkStopped, Running, BeingDeleted, childVars
  <2> QED BY <2>2, SameStep
<1>10. CASE MarkNull
  BY <1>10 DEF MarkNull, EntriesOK, OneEntry
<1>11. ASSUME NEW p \in Pid, Child(p) PROVE EntriesOK' /\ OneEntry'
  <2>1. Same /\ (Alive' => Alive)
    BY <1>11 DEF Same, Child, Exec, Die, Stop, Dies, Stops, BeingDeleted, shellVars, signalVars, TypeOK
  <2> QED BY <2>1, SameStep
<1>12. CASE UNCHANGED vars
  <2>1. Same /\ (Alive' => Alive)
    BY <1>12 DEF Same, BeingDeleted, vars
  <2> QED BY <2>1, SameStep
<1> QED BY <1>1, <1>2, <1>3, <1>4, <1>5, <1>6, <1>7, <1>8, <1>9, <1>10, <1>11, <1>12

\* addjob meets no entry of its child, and deletejob leaves none of its own.
LEMMA EntriesStep ==
  ASSUME TypeOK, PointerOK, StackOK, AddOK, EntriesOK, OneEntry, [Next]_vars
  PROVE  EntriesOK' /\ OneEntry'
<1>0. "CHLD" \in Sig
  BY DEF Sig
<1>1. CASE AddBg \/ AddFg
  <2>1. /\ arg \in Pid /\ proc[arg] # "none" /\ ~InList(arg)
        /\ Alive /\ UNCHANGED <<proc, frame>>
    BY <1>1 DEF AddOK, Adding, AddBg, AddFg, Main, Alive, signalVars, childVars
  <2>2. PICK n \in Slot : \A k \in Slot : k # n => PidAt(k)' = PidAt(k)
    BY <1>1, <2>1, AddJob DEF AddBg, AddFg
  <2>3. \A i \in Slot : PidAt(i)' = PidAt(i) \/ PidAt(i)' = arg
    BY <1>1, <2>1, AddJob DEF AddBg, AddFg
  <2>4. OneEntry'
    <3> SUFFICES ASSUME NEW i \in Slot, NEW k \in Slot, PidAt(i)' # NoPid, PidAt(i)' = PidAt(k)', i # k
                 PROVE  FALSE
      BY DEF OneEntry
    <3>1. i # n \/ k # n
      OBVIOUS
    <3> QED BY <3>1, <2>1, <2>2, <2>3 DEF OneEntry, InList
  <2>5. EntriesOK'
    <3> SUFFICES ASSUME NEW i \in Slot, PidAt(i)' # NoPid
                 PROVE  (proc[PidAt(i)] # "none" \/ BeingDeleted(PidAt(i)))'
      BY DEF EntriesOK
    <3>1. CASE PidAt(i)' = arg
      BY <3>1, <2>1
    <3>2. CASE PidAt(i)' = PidAt(i)
      BY <3>2, <2>1 DEF EntriesOK, BeingDeleted
    <3> QED BY <3>1, <3>2, <2>3
  <2> QED BY <2>4, <2>5
<1>2. ASSUME NEW p \in Pid, WaitDead(p) PROVE EntriesOK' /\ OneEntry'
  <2>1. /\ \A i \in Slot : PidAt(i)' = PidAt(i)
        /\ \A q \in Pid : ~BeingDeleted(q)
        /\ \A q \in Pid : q # p => proc'[q] = proc[q]
        /\ BeingDeleted(p)' /\ Alive
    BY <1>0, <1>2 DEF WaitDead, Running, BeingDeleted, PidAt, TypeOK, shellVars
  <2>2. OneEntry'
    BY <2>1 DEF OneEntry
  <2>3. EntriesOK'
    <3> SUFFICES ASSUME NEW i \in Slot, PidAt(i)' # NoPid
                 PROVE  (proc[PidAt(i)] # "none" \/ BeingDeleted(PidAt(i)))'
      BY DEF EntriesOK
    <3>1. PidAt(i)' = PidAt(i) /\ PidAt(i) \in Pid
      BY <2>1 DEF PidAt, TypeOK
    <3>2. CASE PidAt(i) = p
      BY <3>1, <3>2, <2>1 DEF BeingDeleted
    <3>3. CASE PidAt(i) # p
      BY <3>1, <3>3, <2>1 DEF EntriesOK
    <3> QED BY <3>2, <3>3
  <2> QED BY <2>2, <2>3
<1>3. CASE DeleteDead
  <2> DEFINE p == frame["CHLD"].pid
  <2>1. /\ p \in Pid /\ deletejob(p) /\ Alive /\ UNCHANGED <<pc, proc>>
        /\ \A q \in Pid : q # p => ~BeingDeleted(q)
    BY <1>0, <1>3, FrameTypes DEF DeleteDead, Running, BeingDeleted, TypeOK, childVars
  <2> HIDE DEF p
  <2>2. \A i \in Slot : PidAt(i)' # p /\ (PidAt(i)' = PidAt(i) \/ PidAt(i)' = NoPid)
    BY <2>1, DeleteJob
  <2>3. OneEntry'
    BY <2>2 DEF OneEntry
  <2>4. EntriesOK'
    <3> SUFFICES ASSUME NEW i \in Slot, PidAt(i)' # NoPid PROVE (proc[PidAt(i)])' # "none"
      BY DEF EntriesOK
    <3>1. PidAt(i)' = PidAt(i) /\ PidAt(i) # p /\ PidAt(i) \in Pid
      BY <2>2 DEF PidAt, TypeOK
    <3> QED BY <3>1, <2>1 DEF EntriesOK
  <2> QED BY <2>3, <2>4
<1>4. CASE Shell
  BY <1>1, <1>4, SameSteps DEF Shell
<1>5. ASSUME NEW s \in Sig, Handler(s) PROVE EntriesOK' /\ OneEntry'
  BY <1>2, <1>3, <1>5, SameSteps DEF Handler
<1> QED BY <1>4, <1>5, SameSteps DEF Next

-----------------------------------------------------------------------------

\* The invariant is inductive.
LEMMA StepIInv == IInv /\ [Next]_vars => IInv'
<1> SUFFICES ASSUME IInv, [Next]_vars PROVE IInv'
  OBVIOUS
<1>1. TypeOK' /\ PointerOK'
  BY TypeStep DEF IInv
<1>2. StackOK'
  BY StackStep DEF IInv
<1>3. AddOK'
  BY AddStep DEF IInv
<1>4. EntriesOK' /\ OneEntry'
  BY EntriesStep DEF IInv
<1>5. NoMissedChild'
  BY NoMissedStep DEF IInv
<1> QED BY <1>1, <1>2, <1>3, <1>4, <1>5 DEF IInv

\* The shell's state always satisfies the inductive invariant.
LEMMA Inductive == Spec => []IInv
<1> QED BY InitIInv, StepIInv, PTL DEF Spec

\* The shell's state is well typed: a handler acts only for a child, and fgpid, fg
\* and bg never leave the list.
THEOREM TypeCorrect == Spec => []TypeOK
<1>1. IInv => TypeOK
  BY DEF IInv
<1> QED BY <1>1, Inductive, PTL

\* Whatever the handlers interrupt, the job list between handlers holds only
\* children that have not been reaped, each once: addjob never follows the
\* deletejob of its child (eval's sigprocmask, sigchld_handler).
THEOREM NoStale == Spec => []NoStaleJob
<1>1. IInv => NoStaleJob
  <2> SUFFICES ASSUME IInv, Alive, stack = <<>>, NEW i \in Slot, PidAt(i) # NoPid
               PROVE  /\ proc[PidAt(i)] # "none"
                      /\ \A k \in Slot : PidAt(k) = PidAt(i) => k = i
    BY DEF NoStaleJob
  <2>1. ~BeingDeleted(PidAt(i))
    BY DEF IInv, StackOK, OnStack, BeingDeleted, Sig
  <2> QED BY <2>1 DEF IInv, EntriesOK, OneEntry
<1> QED BY <1>1, Inductive, PTL

\* No dead or stopped child is forgotten, although pending signals merge: the
\* waitpid loop of sigchld_handler is left only when nothing is left.
THEOREM NoneMissed == Spec => []NoMissedChild
<1>1. IInv => NoMissedChild
  BY DEF IInv
<1> QED BY <1>1, Inductive, PTL

-----------------------------------------------------------------------------
(* What the handlers of ctrl-c and ctrl-z signal.                          *)

\* Between its fgpid and its kill, a handler's job may have ended or stopped, but it
\* has not gone to the background: bg is the loop's, which waits for the handler.
Aimed ==
  \A s \in Keys, i \in Slot :
    frame[s].pc = "act" /\ PidAt(i) = frame[s].pid => job_list[i].state # "BG"

\* The keys' signals are signals, and SIGCHLD is none of them.
LEMMA KeysAreSignals == Keys \subseteq Sig /\ "CHLD" \in Sig /\ "CHLD" \notin Keys
BY KeysAssumption DEF Sig

\* deletejob leaves an entry as it is, or clears it.
LEMMA DeletedOrKept ==
  ASSUME TypeOK, NEW p \in Pid, deletejob(p), NEW i \in Slot
  PROVE  job_list'[i] = job_list[i] \/ PidAt(i)' = NoPid
<1>1. ASSUME NEW k \in Slot, job_list' = [job_list EXCEPT ![k] = Cleared]
      PROVE  job_list'[i] = IF i = k THEN Cleared ELSE job_list[i]
  BY <1>1 DEF TypeOK
<1>2. UNCHANGED job_list \/ \E k \in Slot : job_list' = [job_list EXCEPT ![k] = Cleared]
  BY DEF deletejob
<1>3. Cleared.pid = NoPid
  BY DEF Cleared
<1> QED BY <1>1, <1>2, <1>3 DEF PidAt

\* Every step keeps a key's handler aimed at no background job.
LEMMA AimedStep ==
  ASSUME IInv, Aimed, [Next]_vars
  PROVE  Aimed'
<1>0. TypeOK /\ StackOK /\ OneEntry /\ PointerOK
  BY DEF IInv
<1>1. CASE stack = <<>> /\ UNCHANGED frame
  <2>1. \A s \in Sig : frame[s].pc = "off"
    BY <1>0, <1>1 DEF StackOK, OnStack
  <2> QED BY <1>1, <2>1, KeysAreSignals DEF Aimed
<1>2. CASE frame' = NoHandler
  BY <1>2, KeysAreSignals DEF Aimed, NoHandler, Off
<1>3. CASE /\ \A i \in Slot : job_list'[i] = job_list[i]
           /\ \A s \in Keys : frame'[s].pc = "act" => frame'[s] = frame[s]
  BY <1>3 DEF Aimed, PidAt
<1>4. CASE User
  BY <1>1, <1>2, <1>3, <1>4 DEF User, Fork, BuiltinBg, BuiltinFg, FindJob, Main, Quit, Key, signalVars, shellVars
<1>5. CASE Shell
  BY <1>1, <1>5 DEF Shell, AddBg, AddFg, WaitDone, BgSet, FgSet, FgCont, FgWait, Main, signalVars
<1>6. ASSUME NEW s \in Sig, Deliver(s) PROVE Aimed'
  <2>1. \A r \in Keys : frame'[r].pc = "act" => frame'[r] = frame[r]
    BY <1>0, <1>6, KeysAreSignals DEF Deliver, TypeOK
  <2> QED BY <1>3, <1>6, <2>1 DEF Deliver, shellVars
<1>7. ASSUME NEW s \in Sig, Handler(s) PROVE Aimed'
  <2>1. ASSUME frame \in [Sig -> Frames], Return(s) PROVE \A r \in Keys : frame'[r].pc = "act" => frame'[r] = frame[r]
    BY <2>1, KeysAreSignals DEF Return, Off
  <2>2. ASSUME s # "CHLD", ReadFg(s) PROVE Aimed'
    <3>1. CASE Return(s)
      BY <1>0, <1>3, <2>1, <2>2, <3>1 DEF ReadFg, shellVars, TypeOK
    <3>2. ASSUME NEW p \in Pid, fgpid(p),
                 frame' = [frame EXCEPT ![s] = [pc |-> "act", pid |-> p, kind |-> "none"]]
          PROVE  Aimed'
      <4>1. PICK i \in Slot : job_list[i].state = "FG" /\ PidAt(i) = p
        BY <3>2, PidAssumption DEF fgpid, IsFirst
      <4>2. \A k \in Slot : PidAt(k) = p => k = i
        BY <1>0, <4>1, PidAssumption DEF OneEntry
      <4>3. UNCHANGED job_list /\ frame'[s].pid = p /\ \A r \in Keys : r # s => frame'[r] = frame[r]
        BY <1>0, <2>2, <3>2, KeysAreSignals DEF ReadFg, shellVars, TypeOK
      <4> SUFFICES ASSUME NEW r \in Keys, NEW k \in Slot, frame'[r].pc = "act", PidAt(k) = frame'[r].pid
                   PROVE  job_list[k].state # "BG"
        BY <4>3 DEF Aimed, PidAt
      <4>4. CASE r = s
        BY <4>1, <4>2, <4>3, <4>4
      <4>5. CASE r # s
        BY <4>3, <4>5 DEF Aimed
      <4> QED BY <4>4, <4>5
    <3> QED BY <2>2, <3>1, <3>2 DEF ReadFg
  <2>3. ASSUME s # "CHLD", Forward(s) PROVE Aimed'
    BY <1>0, <1>3, <2>1, <2>3 DEF Forward, shellVars, TypeOK
  <2>4. ASSUME NEW p \in Pid, WaitDead(p) \/ WaitStopped(p) PROVE Aimed'
    BY <1>0, <1>3, <2>4, KeysAreSignals DEF WaitDead, WaitStopped, shellVars, TypeOK
  <2>5. CASE WaitNone
    BY <1>0, <1>3, <2>5, KeysAreSignals DEF WaitNone, Return, shellVars, TypeOK
  <2>6. CASE DeleteDead
    <3>1. frame["CHLD"].pid \in Pid /\ deletejob(frame["CHLD"].pid)
      BY <1>0, <2>6, FrameTypes, KeysAreSignals DEF DeleteDead, Running, TypeOK
    <3>2. \A r \in Keys : frame'[r] = frame[r]
      BY <1>0, <2>6, KeysAreSignals DEF DeleteDead, TypeOK
    <3> SUFFICES ASSUME NEW r \in Keys, NEW k \in Slot, frame'[r].pc = "act", PidAt(k)' = frame'[r].pid
                 PROVE  job_list'[k].state # "BG"
      BY DEF Aimed, PidAt
    <3>3. frame[r].pid \in Pid
      BY <1>0, <3>2, FrameTypes, KeysAreSignals DEF TypeOK
    <3>4. job_list'[k] = job_list[k]
      BY <1>0, <3>1, <3>2, <3>3, DeletedOrKept, PidAssumption
    <3> QED BY <3>2, <3>4 DEF Aimed, PidAt
  <2>7. CASE MarkStopped
    <3>1. \A r \in Keys : frame'[r] = frame[r]
      BY <1>0, <2>7, KeysAreSignals DEF MarkStopped, TypeOK
    <3>2. \A k \in Slot : PidAt(k)' = PidAt(k) /\ (job_list'[k].state = "ST" \/ job_list'[k] = job_list[k])
      BY <1>0, <2>7 DEF MarkStopped, TypeOK, PidAt
    <3> QED BY <3>1, <3>2 DEF Aimed, PidAt
  <2>8. CASE MarkNull
    BY <1>2, <2>8 DEF MarkNull
  <2> QED BY <1>7, <2>2, <2>3, <2>4, <2>5, <2>6, <2>7, <2>8 DEF Handler
<1>8. ASSUME NEW p \in Pid, Child(p) PROVE Aimed'
  BY <1>3, <1>8 DEF Child, Exec, Die, Stop, shellVars, signalVars
<1>9. CASE UNCHANGED vars
  BY <1>3, <1>9 DEF vars
<1> QED BY <1>4, <1>5, <1>6, <1>7, <1>8, <1>9 DEF Next

\* A key signals no job that is in the background, whatever interrupts its handler
\* between fgpid and kill (sigint_handler, sigtstp_handler).
THEOREM KeysSpareBackground == Spec => SparesBackground
<1> DEFINE Spares == \A s \in Keys, i \in Slot :
                       Forward(s) /\ PidAt(i) = frame[s].pid => job_list[i].state # "BG"
<1>1. Init => Aimed
  BY KeysAreSignals DEF Init, Aimed, NoHandler, Off
<1>2. Aimed => Spares
  BY DEF Aimed, Forward, Running
<1>3. Spec => []Aimed
  BY <1>1, AimedStep, Inductive, PTL DEF Spec
<1> QED BY <1>2, <1>3, PTL DEF SparesBackground

-----------------------------------------------------------------------------
(* No job is lost when the list has room for every child.                  *)

Room == IsFiniteSet(Pid) /\ Cardinality(Pid) <= MAXJOBS

\* What waitpid has told the SIGCHLD handler is still so when the handler acts on it,
\* and a stop is reported only of a child that is stopped.
NewsOK ==
  Alive =>
    /\ \A p \in news : proc[p] = "stopped"
    /\ frame["CHLD"].pc = "act" =>
         \/ frame["CHLD"].kind = "dead" /\ proc[frame["CHLD"].pid] = "none"
         \/ frame["CHLD"].kind = "stopped" /\ proc[frame["CHLD"].pid] = "stopped"

\* What NewsOK depends on is unchanged, but that a child may be born, run or die.
LEMMA NewsSame ==
  ASSUME TypeOK, NewsOK, Alive' => Alive, news' \subseteq news,
         frame'["CHLD"].pc = "act" => frame'["CHLD"] = frame["CHLD"],
         \A p \in Pid : proc[p] = "stopped" /\ p \in news' \cup {frame'["CHLD"].pid} => proc'[p] = "stopped",
         frame'["CHLD"].pc = "act" => \A p \in Pid : proc[p] = "none" => proc'[p] = "none"
  PROVE  NewsOK'
<1> SUFFICES ASSUME Alive' PROVE NewsOK'
  BY DEF NewsOK
<1>1. \A p \in news' : proc'[p] = "stopped"
  BY DEF NewsOK, TypeOK
<1>2. ASSUME frame'["CHLD"].pc = "act"
      PROVE  \/ frame'["CHLD"].kind = "dead" /\ proc'[frame'["CHLD"].pid] = "none"
             \/ frame'["CHLD"].kind = "stopped" /\ proc'[frame'["CHLD"].pid] = "stopped"
  <2>1. frame["CHLD"].pid \in Pid /\ frame'["CHLD"] = frame["CHLD"]
    BY <1>2, FrameTypes, KeysAreSignals DEF TypeOK
  <2> QED BY <1>2, <2>1 DEF NewsOK
<1> QED BY <1>1, <1>2 DEF NewsOK

\* While no handler runs, that of SIGCHLD is between two calls of waitpid.
LEMMA QuietHandler ==
  ASSUME StackOK, stack = <<>>
  PROVE  frame["CHLD"].pc = "off"
BY KeysAreSignals DEF StackOK, OnStack

\* Every step keeps what waitpid reported true of its child until it is acted on.
LEMMA NewsStep ==
  ASSUME IInv, NewsOK, [Next]_vars
  PROVE  NewsOK'
<1>0. TypeOK /\ StackOK /\ "CHLD" \in Sig
  BY KeysAreSignals DEF IInv
<1> USE DEF Alive
<1>1. CASE User
  <2>1. ASSUME NEW p \in Pid, NEW state \in {"FG", "BG"}, Fork(p, state) PROVE NewsOK'
    <3>1. frame'["CHLD"].pc = "off" /\ news' = news /\ \A q \in Pid : proc[q] = "stopped" => proc'[q] = "stopped"
      BY <1>0, <2>1, QuietHandler DEF Fork, Main, signalVars, TypeOK
    <3> QED BY <1>0, <2>1, <3>1, NewsSame DEF Fork, Main
  <2>2. ASSUME NEW jid \in 1..(MaxJid + 1), BuiltinFg(jid) \/ BuiltinBg(jid) PROVE NewsOK'
    BY <1>0, <2>2, NewsSame DEF BuiltinFg, BuiltinBg, FindJob, Main, signalVars, childVars
  <2>3. CASE Quit
    BY <2>3 DEF Quit, NewsOK
  <2>4. ASSUME NEW s \in Keys, Key(s) PROVE NewsOK'
    BY <1>0, <2>4, NewsSame DEF Key, shellVars, childVars
  <2> QED BY <1>1, <2>1, <2>2, <2>3, <2>4 DEF User
<1>2. CASE Shell
  <2>1. CASE FgCont
    <3> DEFINE p == job_list[job].pid
    <3>1. frame'["CHLD"].pc = "off" /\ Alive
      BY <1>0, <2>1, QuietHandler DEF FgCont, Main
    <3>2. IF p \in Pid /\ proc[p] # "born" THEN Continue(p) ELSE UNCHANGED <<childVars, pending>>
      BY <2>1 DEF FgCont
    <3> HIDE DEF p
    <3>3. CASE UNCHANGED childVars
      BY <1>0, <3>1, <3>3, NewsSame DEF childVars
    <3>4. CASE p \in Pid /\ Continue(p)
      <4>1. \A q \in Pid : q # p => proc'[q] = proc[q]
        BY <1>0, <3>4 DEF Continue, TypeOK
      <4>2. news' = news \ {p}
        BY <3>4 DEF Continue
      <4> QED BY <1>0, <3>1, <4>1, <4>2 DEF NewsOK, TypeOK
    <3> QED BY <3>2, <3>3, <3>4
  <2>2. CASE AddBg \/ AddFg \/ WaitDone \/ BgSet \/ FgSet \/ FgWait
    BY <1>0, <2>2, NewsSame DEF AddBg, AddFg, WaitDone, BgSet, FgSet, FgWait, Main, signalVars, childVars
  <2> QED BY <1>2, <2>1, <2>2 DEF Shell
<1>3. ASSUME NEW s \in Sig, Deliver(s) PROVE NewsOK'
  <2>1. frame'["CHLD"].pc = "act" => frame'["CHLD"] = frame["CHLD"]
    BY <1>0, <1>3 DEF Deliver, TypeOK
  <2> QED BY <1>0, <1>3, <2>1, NewsSame DEF Deliver, shellVars, childVars
<1>4. ASSUME NEW s \in Sig, Handler(s) PROVE NewsOK'
  <2>1. ASSUME s # "CHLD", ReadFg(s) PROVE NewsOK'
    <3>1. frame'["CHLD"] = frame["CHLD"]
      BY <1>0, <2>1 DEF ReadFg, Return, TypeOK
    <3> QED BY <1>0, <2>1, <3>1, NewsSame DEF ReadFg, shellVars, childVars
  <2>2. ASSUME s # "CHLD", Forward(s) PROVE NewsOK'
    <3> DEFINE p == frame[s].pid
    <3>1. frame'["CHLD"] = frame["CHLD"] /\ UNCHANGED pc /\ p \in Pid /\ Alive
      BY <1>0, <2>2, FrameTypes DEF Forward, Running, Return, TypeOK, shellVars
    <3>2. CASE UNCHANGED <<proc, news, pending>>
      BY <1>0, <3>1, <3>2, NewsSame
    <3>3. CASE proc[p] = "run" /\ Dies(p)
      <4>1. news' = news /\ \A q \in Pid : q # p => proc'[q] = proc[q]
        BY <1>0, <3>3 DEF Dies, TypeOK
      <4> QED BY <1>0, <3>1, <3>3, <4>1, NewsSame
    <3>4. CASE Stops(p)
      <4>1. /\ news' = news \cup {p} /\ proc[p] = "run" /\ proc'[p] = "stopped"
            /\ \A q \in Pid : q # p => proc'[q] = proc[q]
        BY <1>0, <3>1, <3>4 DEF Stops, TypeOK
      <4>2. frame["CHLD"].pc = "act" => frame["CHLD"].pid \in Pid
        BY <1>0, FrameTypes DEF TypeOK
      <4> QED BY <1>0, <3>1, <4>1, <4>2 DEF NewsOK, TypeOK
    <3> QED BY <2>2, <3>2, <3>3, <3>4 DEF Forward
  <2>3. ASSUME NEW p \in Pid, WaitDead(p) PROVE NewsOK'
    <3>1. /\ frame'["CHLD"] = [pc |-> "act", pid |-> p, kind |-> "dead"]
          /\ news' = news /\ proc[p] = "zombie" /\ proc'[p] = "none" /\ Alive
          /\ \A q \in Pid : q # p => proc'[q] = proc[q]
      BY <1>0, <2>3 DEF WaitDead, Running, TypeOK
    <3> QED BY <1>0, <3>1 DEF NewsOK, TypeOK
  <2>4. ASSUME NEW p \in Pid, WaitStopped(p) PROVE NewsOK'
    <3>1. /\ frame'["CHLD"] = [pc |-> "act", pid |-> p, kind |-> "stopped"]
          /\ news' = news \ {p} /\ p \in news /\ UNCHANGED proc /\ Alive
      BY <1>0, <2>4 DEF WaitStopped, Running, TypeOK
    <3> QED BY <1>0, <3>1 DEF NewsOK, TypeOK
  <2>5. CASE WaitNone
    <3>1. frame'["CHLD"].pc = "off"
      BY <1>0, <1>4, <2>5 DEF WaitNone, Return, TypeOK, Off
    <3> QED BY <1>0, <2>5, <3>1, NewsSame DEF WaitNone, Running, shellVars, childVars
  <2>6. CASE DeleteDead \/ MarkStopped
    <3>1. frame'["CHLD"].pc = "start"
      BY <1>0, <2>6 DEF DeleteDead, MarkStopped, TypeOK, Off
    <3> QED BY <1>0, <2>6, <3>1, NewsSame DEF DeleteDead, MarkStopped, Running, childVars
  <2>7. CASE MarkNull
    BY <2>7 DEF MarkNull, NewsOK
  <2> QED BY <1>4, <2>1, <2>2, <2>3, <2>4, <2>5, <2>6, <2>7 DEF Handler
<1>5. ASSUME NEW p \in Pid, Child(p) PROVE NewsOK'
  <2>1. UNCHANGED <<pc, frame>> /\ Alive
    BY <1>5 DEF Child, Exec, Die, Stop, shellVars, signalVars
  <2>2. /\ proc[p] \in {"born", "run"} /\ proc'[p] # "none"
        /\ \A q \in Pid : q # p => proc'[q] = proc[q]
        /\ news' = news \/ (news' = news \cup {p} /\ proc'[p] = "stopped")
    BY <1>0, <1>5 DEF Child, Exec, Die, Stop, Dies, Stops, TypeOK
  <2>3. frame["CHLD"].pc = "act" => frame["CHLD"].pid \in Pid
    BY <1>0, FrameTypes DEF TypeOK
  <2> QED BY <1>0, <2>1, <2>2, <2>3 DEF NewsOK, TypeOK
<1>6. CASE UNCHANGED vars
  BY <1>0, <1>6, NewsSame DEF vars
<1> QED BY <1>1, <1>2, <1>3, <1>4, <1>5, <1>6 DEF Next

\* As long as a child is not in the list, an entry is unused: the entries of the
\* others cannot fill a list that has room for all.
LEMMA FreeEntry ==
  ASSUME Room, TypeOK, OneEntry, NEW p \in Pid, ~InList(p)
  PROVE  \E i \in Slot : PidAt(i) = NoPid
<1> SUFFICES ASSUME \A i \in Slot : PidAt(i) # NoPid PROVE FALSE
  OBVIOUS
<1> DEFINE others == Pid \ {p}
           at == [i \in Slot |-> PidAt(i)]
<1>1. IsFiniteSet(others) /\ Cardinality(others) = Cardinality(Pid) - 1
  BY FS_RemoveElement DEF Room
<1>2. IsFiniteSet(Slot) /\ Cardinality(Slot) = MAXJOBS
  BY FS_Interval, BoundAssumption DEF Slot
<1>3. Cardinality(Pid) \in Nat
  BY FS_CardinalityType DEF Room
<1>4. Cardinality(others) < Cardinality(Slot)
  BY <1>1, <1>2, <1>3, BoundAssumption DEF Room
<1>5. at \in [Slot -> others]
  BY DEF InList, TypeOK, PidAt
<1>6. \E i, k \in Slot : i # k /\ at[i] = at[k]
  <2> HIDE DEF others, at
  <2> QED BY <1>1, <1>2, <1>4, <1>5, FS_PigeonHole
<1> QED BY <1>6 DEF OneEntry

\* addjob enters its child when an entry is unused, and drops nobody.
LEMMA AddJobEnters ==
  ASSUME TypeOK, NEW p \in Pid, NEW st \in {"FG", "BG"}, addjob(p, st),
         \E i \in Slot : PidAt(i) = NoPid
  PROVE  InList(p)' /\ \A q \in Pid : InList(q) => InList(q)'
<1>1. PICK i \in Slot : /\ PidAt(i) = NoPid
                        /\ job_list' = [job_list EXCEPT ![i] = [pid |-> p, jid |-> nextjid, state |-> st]]
  BY DEF addjob, IsFirst
<1>2. PidAt(i)' = p /\ \A k \in Slot : k # i => PidAt(k)' = PidAt(k)
  BY <1>1 DEF TypeOK, PidAt
<1>3. ASSUME NEW q \in Pid, NEW k \in Slot, PidAt(k) = q PROVE PidAt(k)' = q
  BY <1>1, <1>2, <1>3, PidAssumption
<1> QED BY <1>2, <1>3 DEF InList

\* The children are as they were, or gone, and nobody's entry goes.
LEMMA TrackedSame ==
  ASSUME Tracked, Alive' => Alive,
         \A p \in Pid : proc'[p] # "none" => proc[p] # "none",
         \A p \in Pid : InList(p) => InList(p)',
         Adding => Adding' /\ arg' = arg
  PROVE  Tracked'
BY DEF Tracked, Adding

\* Every step keeps an entry for every child that has not been reaped.
LEMMA TrackedStep ==
  ASSUME Room, IInv, NewsOK, Tracked, [Next]_vars
  PROVE  Tracked'
<1>0. TypeOK /\ StackOK /\ AddOK /\ OneEntry /\ PointerOK /\ "CHLD" \in Sig
  BY KeysAreSignals DEF IInv
<1> USE DEF Alive, Adding
<1>1. ASSUME UNCHANGED job_list PROVE \A p \in Pid : InList(p) => InList(p)'
  BY <1>1 DEF InList, PidAt
<1>2. ASSUME NEW st \in {"FG", "BG"}, addjob(arg, st), Adding, ~Adding', UNCHANGED proc PROVE Tracked'
  <2>1. PICK p \in Pid : p = arg /\ ~InList(p)
    BY <1>0, <1>2 DEF AddOK
  <2>2. \E i \in Slot : PidAt(i) = NoPid
    BY <1>0, <2>1, FreeEntry
  <2>3. InList(p)' /\ \A q \in Pid : InList(q) => InList(q)'
    BY <1>0, <1>2, <2>1, <2>2, AddJobEnters
  <2> QED BY <1>2, <2>1, <2>3 DEF Tracked
<1>3. CASE User
  <2>1. ASSUME NEW p \in Pid, NEW state \in {"FG", "BG"}, Fork(p, state) PROVE Tracked'
    <3>1. /\ pc = "prompt" /\ Adding' /\ arg' = p /\ UNCHANGED job_list
          /\ \A q \in Pid : q # p => proc'[q] = proc[q]
      BY <1>0, <2>1 DEF Fork, Main, TypeOK
    <3> QED BY <1>1, <3>1 DEF Tracked
  <2>2. ASSUME NEW jid \in 1..(MaxJid + 1), BuiltinFg(jid) \/ BuiltinBg(jid) PROVE Tracked'
    BY <1>1, <2>2, TrackedSame DEF BuiltinFg, BuiltinBg, FindJob, Main, childVars
  <2>3. CASE Quit
    BY <2>3 DEF Quit, Tracked
  <2>4. ASSUME NEW s \in Keys, Key(s) PROVE Tracked'
    BY <1>1, <2>4, TrackedSame DEF Key, shellVars, childVars
  <2> QED BY <1>3, <2>1, <2>2, <2>3, <2>4 DEF User
<1>4. CASE Shell
  <2>1. CASE AddBg
    BY <1>2, <2>1 DEF AddBg, Main, childVars
  <2>2. CASE AddFg
    BY <1>2, <2>2 DEF AddFg, Main, childVars
  <2>3. CASE WaitDone \/ FgWait
    BY <1>1, <2>3, TrackedSame DEF WaitDone, FgWait, Main, childVars
  <2>4. CASE BgSet \/ FgSet
    <3>1. \A k \in Slot : PidAt(k)' = PidAt(k)
      BY <1>0, <2>4, SetState DEF BgSet, FgSet, PointerOK, Main, JobStates
    <3>2. \A p \in Pid : InList(p) => InList(p)'
      BY <3>1 DEF InList
    <3> QED BY <2>4, <3>2, TrackedSame DEF BgSet, FgSet, Main, childVars
  <2>5. CASE FgCont
    <3>1. UNCHANGED proc \/ \E p \in Pid : Continue(p)
      <4> DEFINE p == job_list[job].pid
      <4>1. IF p \in Pid /\ proc[p] # "born" THEN Continue(p) ELSE UNCHANGED <<childVars, pending>>
        BY <2>5 DEF FgCont
      <4> HIDE DEF p
      <4> QED BY <4>1 DEF childVars
    <3>2. \A p \in Pid : proc'[p] # "none" => proc[p] # "none"
      BY <1>0, <3>1 DEF Continue, TypeOK
    <3> QED BY <1>1, <2>5, <3>2, TrackedSame DEF FgCont, Main
  <2> QED BY <1>4, <2>1, <2>2, <2>3, <2>4, <2>5 DEF Shell
<1>5. ASSUME NEW s \in Sig, Deliver(s) PROVE Tracked'
  BY <1>1, <1>5, TrackedSame DEF Deliver, shellVars, childVars
<1>6. ASSUME NEW s \in Sig, Handler(s) PROVE Tracked'
  <2>1. ASSUME s # "CHLD", ReadFg(s) PROVE Tracked'
    BY <1>1, <2>1, TrackedSame DEF ReadFg, shellVars, childVars
  <2>2. ASSUME s # "CHLD", Forward(s) PROVE Tracked'
    <3>1. \A p \in Pid : proc'[p] # "none" => proc[p] # "none"
      BY <1>0, <2>2 DEF Forward, Dies, Stops, TypeOK
    <3> QED BY <1>1, <2>2, <3>1, TrackedSame DEF Forward, shellVars
  <2>3. ASSUME NEW p \in Pid, WaitDead(p) \/ WaitStopped(p) PROVE Tracked'
    <3>1. \A q \in Pid : proc'[q] # "none" => proc[q] # "none"
      BY <1>0, <2>3 DEF WaitDead, WaitStopped, TypeOK
    <3> QED BY <1>1, <2>3, <3>1, TrackedSame DEF WaitDead, WaitStopped, shellVars
  <2>4. CASE WaitNone
    BY <1>1, <2>4, TrackedSame DEF WaitNone, shellVars, childVars
  <2>5. CASE DeleteDead
    <3> DEFINE p == frame["CHLD"].pid
    <3>1. p \in Pid /\ deletejob(p) /\ proc[p] = "none" /\ Alive /\ UNCHANGED <<pc, arg, proc>>
      BY <1>0, <2>5, FrameTypes DEF DeleteDead, Running, TypeOK, NewsOK, childVars
    <3> HIDE DEF p
    <3>2. ASSUME NEW q \in Pid, q # p, InList(q) PROVE InList(q)'
      <4>1. PICK k \in Slot : PidAt(k) = q
        BY <3>2 DEF InList
      <4>2. PidAt(k)' # p /\ PidAt(k)' = q
        <5>1. job_list'[k] = job_list[k] \/ PidAt(k)' = NoPid
          BY <1>0, <3>1, DeletedOrKept
        <5>2. UNCHANGED job_list \/ \E i \in Slot : PidAt(i) = p /\ job_list' = [job_list EXCEPT ![i] = Cleared]
          BY <3>1 DEF deletejob, IsFirst
        <5>3. job_list'[k] = job_list[k]
          BY <1>0, <3>2, <4>1, <5>2 DEF TypeOK
        <5> QED BY <3>2, <4>1, <5>3 DEF PidAt
      <4> QED BY <4>2 DEF InList
    <3> QED BY <3>1, <3>2 DEF Tracked
  <2>6. CASE MarkStopped
    <3>1. \A k \in Slot : PidAt(k)' = PidAt(k)
      BY <1>0, <2>6 DEF MarkStopped, TypeOK, PidAt
    <3>2. \A p \in Pid : InList(p) => InList(p)'
      BY <3>1 DEF InList
    <3> QED BY <2>6, <3>2, TrackedSame DEF MarkStopped, childVars
  <2>7. CASE MarkNull
    BY <2>7 DEF MarkNull, Tracked
  <2> QED BY <1>6, <2>1, <2>2, <2>3, <2>4, <2>5, <2>6, <2>7 DEF Handler
<1>7. ASSUME NEW p \in Pid, Child(p) PROVE Tracked'
  <2>1. \A q \in Pid : proc'[q] # "none" => proc[q] # "none"
    BY <1>0, <1>7 DEF Child, Exec, Die, Stop, Dies, Stops, TypeOK
  <2> QED BY <1>1, <1>7, <2>1, TrackedSame DEF Child, Exec, Die, Stop, shellVars
<1>8. CASE UNCHANGED vars
  BY <1>1, <1>8, TrackedSame DEF vars
<1> QED BY <1>3, <1>4, <1>5, <1>6, <1>7, <1>8 DEF Next

\* What waitpid reported is true of its child in every reachable state.
LEMMA NewsAlways == Spec => []NewsOK
<1>1. Init => NewsOK
  BY KeysAreSignals DEF Init, NewsOK, NoHandler, Off
<1> QED BY <1>1, NewsStep, Inductive, PTL DEF Spec

\* With room in the list for every child, each one has its entry from addjob until
\* it has been reaped, whatever the order of eval and the handlers.
THEOREM EveryJobTracked == ASSUME Room PROVE Spec => []Tracked
<1>1. Init => Tracked
  BY DEF Init, Tracked
<1>2. IInv /\ NewsOK /\ Tracked /\ [Next]_vars => Tracked'
  BY TrackedStep
<1> QED BY <1>1, <1>2, NewsAlways, Inductive, PTL DEF Spec

\* Then the SIGCHLD handler never goes through the null pointer that getjobpid gives
\* for a stopped child without an entry.
THEOREM HandlerNeverFaults == ASSUME Room PROVE Spec => HandlerSafe
<1>1. IInv /\ NewsOK /\ Tracked => ~MarkNull
  <2> SUFFICES ASSUME IInv, NewsOK, Tracked, MarkNull PROVE FALSE
    OBVIOUS
  <2> DEFINE p == frame["CHLD"].pid
  <2>1. Alive /\ stack # <<>> /\ frame["CHLD"].pc = "act" /\ frame["CHLD"].kind = "stopped" /\ ~InList(p)
    BY DEF MarkNull, Running
  <2>2. p \in Pid /\ proc[p] = "stopped"
    BY <2>1, FrameTypes, KeysAreSignals DEF IInv, TypeOK, NewsOK
  <2>3. ~Adding
    BY <2>1 DEF IInv, AddOK
  <2> QED BY <2>1, <2>2, <2>3 DEF Tracked, Adding
<1>2. IInv /\ NewsOK /\ Tracked => [~MarkNull]_vars
  BY <1>1
<1> QED BY <1>2, NewsAlways, EveryJobTracked, Inductive, PTL DEF HandlerSafe
=============================================================================
