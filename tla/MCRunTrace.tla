----------------------------- MODULE MCRunTrace -----------------------------
EXTENDS RunTrace

Do(op) == [op |-> op]
Run(name) == [op |-> "run", prog |-> name, bg |-> FALSE]
RunBg(name) == [op |-> "run", prog |-> name, bg |-> TRUE]
Job_(op, n) == [op |-> op, jid |-> n]

WAIT == Do("WAIT")
NEXT == Do("NEXT")

\* The lab's traces, without the lines that echo the command that follows.
MCTraces ==
  { <<Run("myspin1"), WAIT, Do("SIGNAL"), Do("quit")>>,                               \* trace03
    <<RunBg("myspin1"), NEXT, WAIT, Do("SIGNAL"), Run("echo"), NEXT, Do("quit")>>,    \* trace05
    <<RunBg("myspin1"), NEXT, Run("myspin2"), WAIT, WAIT, Do("SIGNAL"), Do("SIGNAL"),
      NEXT, Do("quit")>>,                                                             \* trace06
    <<Run("myintp"), NEXT, Run("echo"), NEXT, Do("quit")>>,                           \* trace08
    <<Run("mytstpp"), NEXT, Do("jobs"), NEXT, Do("quit")>>,                           \* trace09
    <<Run("myints"), NEXT, Do("quit")>>,                                              \* trace11
    <<Run("mytstps"), NEXT, Do("jobs"), NEXT, Do("quit")>>,                           \* trace12
    <<RunBg("myspin1"), NEXT, WAIT, Run("myintp"), NEXT, Do("jobs"), NEXT,
      Do("SIGNAL"), Do("quit")>>,                                                     \* trace13
    <<RunBg("myspin1"), NEXT, WAIT, Run("mytstpp"), NEXT, Do("jobs"), NEXT,
      Do("SIGNAL"), Do("quit")>>,                                                     \* trace14
    <<RunBg("myspin1"), NEXT, WAIT, Run("mytstpp"), NEXT, Do("jobs"), NEXT,
      Job_("bg", 2), NEXT, Do("jobs"), NEXT, Do("SIGNAL"), Do("quit")>>,              \* trace16
    <<RunBg("myspin1"), WAIT, NEXT, Run("mytstps"), NEXT, Do("jobs"), NEXT,
      Job_("fg", 2), NEXT, Do("SIGNAL"), Do("quit")>>,                                \* trace18
    <<Run("mysplit"), WAIT, Do("SIGINT"), NEXT, Run("echo"), NEXT, Do("quit")>>,      \* trace19
    <<Run("mysplit"), WAIT, Do("SIGTSTP"), NEXT, Run("echo"), NEXT, Do("quit")>> }    \* trace20

\* And some that no trace has: the job is not answered, or signals itself while the
\* prompt is printed; the shell has ended when it is signalled.
MCScripts ==
  MCTraces \cup { <<Run("myspin1"), NEXT, Do("quit")>>,
                  <<Run("myspin1"), WAIT, Do("SIGNAL"), WAIT>>,
                  <<Run("myspin1"), Do("quit")>>,
                  <<Do("quit"), Do("SIGINT")>>,
                  <<RunBg("myints"), NEXT, Run("echo"), NEXT>> }
=============================================================================
