------------------------------- MODULE Trans -------------------------------
(***************************************************************************)
(* trans.c and its test: transpose_submit on the three sizes that are      *)
(* graded, one row of a block per step, its accesses to A and B replayed   *)
(* on the cache of csim.c with 32 sets of one block, as test-trans.c does. *)
(* Element l of row k of A is the number k * M + l, at that address in A;  *)
(* what B holds are such numbers.  The variables x0 to x7 are on the       *)
(* stack, whose accesses the test leaves out.                              *)
(***************************************************************************)
EXTENDS Csim, SequencesExt

CONSTANTS Shapes   \* the matrices: N rows and M columns

VARIABLES shape,   \* the matrix; of no rows when a trace of a file is read
          j, i, k, \* the loops of transpose_submit
          x,       \* x0 to x7, and the register between a load and a store
          B        \* the transpose so far, by addresses in it

transVars == <<shape, j, i, k, x, B>>

NoMatrix == [N |-> 0, M |-> 0]
ASSUME ShapeAssumption == NoMatrix \notin Shapes
M == shape.M
N == shape.N

A_(row, col) == row * M + col
B_(row, col) == row * N + col
Register == 8

\* A load of an element of A into r, and a store of r into an element of B.
Load(r, a) == [op |-> "L", at |-> a, reg |-> r]
Store(r, b) == [op |-> "S", at |-> b, reg |-> r]

\* Byte addresses: the arrays of tracegen.c are 256 by 256.
AddressOf(a) == 4 * a.at + (IF a.op = "S" THEN 4 * 256 * 256 ELSE 0)

Rows(n, Op(_)) == FlattenSeq([c \in 1..n |-> Op(c - 1)])

\* A fault: the element on the diagonal is kept and not stored.
Row32_NoDiagonal ==
    Rows(8, LAMBDA c : IF k = j + c THEN <<Load(0, A_(k, j + c))>>
                       ELSE <<Load(Register, A_(k, j + c)), Store(Register, B_(j + c, k))>>)

\* A fault: the element on the diagonal is stored at once.
Row32_AtOnce == Rows(8, LAMBDA c : <<Load(Register, A_(k, j + c)), Store(Register, B_(j + c, k))>>)

\* N = 32: the element on the diagonal is kept in x0 to the end of the row.
Row32 ==
    Rows(8, LAMBDA c : IF k = j + c THEN <<Load(0, A_(k, j + c))>>
                       ELSE <<Load(Register, A_(k, j + c)), Store(Register, B_(j + c, k))>>)
      \o (IF i = j THEN <<Store(0, B_(k, k))>> ELSE <<>>)

\* N = 67: blocks of 20, cut off at the edges.
Row67 ==
    Rows(20, LAMBDA c : IF k < N /\ j + c < M
                        THEN <<Load(Register, A_(k, j + c)), Store(Register, B_(j + c, k))>>
                        ELSE <<>>)

Loads(from, row, col) == Rows(4, LAMBDA c : <<Load(from + c, A_(row, col + c))>>)
Stores(from, row, col) == Rows(4, LAMBDA c : <<Store(from + c, B_(row, col + 64 * c))>>)

\* N = 64: the left half of the rows downwards, the right half upwards, and the
\* right half of the first row last, from x4 to x7.
Row64 ==
    CASE k = 0 -> Loads(0, i, j) \o Loads(4, i, j + 4) \o Stores(0, j, i)
      [] k \in 1..7 -> Loads(0, i + k, j) \o Stores(0, j, i + k)
      [] k \in 8..14 -> Loads(0, i + 15 - k, j + 4) \o Stores(0, j + 4, i + 15 - k)
      [] k = 15 -> Stores(4, j + 4, i)

Step == IF N = 67 THEN 20 ELSE 8
FirstRow(ii) == IF N = 64 THEN 0 ELSE ii
LastRow == IF N = 64 THEN 15 ELSE i + Step - 1

Row == CASE N = 32 -> Row32 [] N = 67 -> Row67 [] N = 64 -> Row64

\* An access, traced by tracegen.c and replayed by the simulator.
Make(S, a) ==
    [cache |-> Access(S.cache, a.op, AddressOf(a)),
     x     |-> IF a.op = "L" THEN [S.x EXCEPT ![a.reg] = a.at] ELSE S.x,
     B     |-> IF a.op = "S" THEN [S.B EXCEPT ![a.at] = S.x[a.reg]] ELSE S.B]

\* A row, and on to the next of the block, of the next block, or of the next column of blocks.
NextRow ==
    /\ shape # NoMatrix /\ status = "reading" /\ j < M
    /\ LET S == FoldLeft(Make, [cache |-> cache, x |-> x, B |-> B], Row)
       IN  cache' = S.cache /\ x' = S.x /\ B' = S.B
    /\ \/ k < LastRow /\ k' = k + 1 /\ UNCHANGED <<i, j>>
       \/ k = LastRow /\ i + Step < N /\ i' = i + Step /\ k' = FirstRow(i') /\ UNCHANGED j
       \/ k = LastRow /\ i + Step >= N /\ i' = 0 /\ k' = 0 /\ j' = j + Step
    /\ UNCHANGED <<options, operation, status, shape>>

Returned ==
    /\ shape # NoMatrix /\ j >= M
    /\ EndOfFile
    /\ UNCHANGED transVars

(***************************************************************************)
(* The specification.                                                      *)
(***************************************************************************)
Init ==
    /\ \/ shape = NoMatrix /\ \E opt \in OptionSets : Start(opt)
       \/ shape \in Shapes /\ Start([sets |-> 5, associativity |-> 1, blocks |-> 5])
    /\ j = 0 /\ i = 0 /\ k = 0
    /\ x = [r \in 0..Register |-> -1]
    /\ B = [b \in 0..(M * N - 1) |-> -1]

Next ==
    \/ shape = NoMatrix /\ ReadFile /\ UNCHANGED transVars
    \/ NextRow \/ Returned

Spec == Init /\ [][Next]_<<vars, transVars>>

(***************************************************************************)
(* Properties.                                                             *)
(***************************************************************************)
Done == shape # NoMatrix /\ status # "reading"

\* transpose_submit returns with B the transpose of A (ENSURES, trans.c 142;
\* is_transpose, trans.c 193; validate, tracegen.c 34).
is_transpose == Done => \A row \in 0..(N - 1), col \in 0..(M - 1) : B[B_(col, row)] = A_(row, col)

\* The misses of the 32 by 32 and the 61 by 67 matrix are fewer than driver.py asks for
\* full marks (driver.py 94, 96), and the 64 by 64 one does not do worse than the trace
\* of it that is kept beside the code (trace.f0: 1355 misses, the markers' included).
FewMisses ==
    Done => cache.globalMiss < CASE N = 32 -> 300 [] N = 64 -> 1355 [] N = 67 -> 2000

\* A line of a trace makes of the cache what an access to that address makes of one with
\* least-recently-used replacement, and nothing else changes it: the loop does not stop
\* at an empty block before the one it looks for, the counter finds the oldest block,
\* and no two blocks have one tag (csim.c 219, 241, 259).
ImplementsLru ==
    /\ Lru!Init
    /\ [][shape = NoMatrix =>
            /\ Lru!Next \/ UNCHANGED Lru!vars
            /\ \A op \in Operations, addr \in Addresses :
                 Line(op, addr) => Lru!Access(addr, op = "M")]_vars
=============================================================================
