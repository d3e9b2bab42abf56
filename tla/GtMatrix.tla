------------------------------ MODULE GtMatrix ------------------------------
(***************************************************************************)
(* gt_matrix.c, the program the makefile builds: main() creates a uthread  *)
(* for each band of rows of each matrix and waits for all of them.  The    *)
(* library is what UthreadPool promises, and GtSched keeps: a uthread is   *)
(* run on one kthread, stopped at any time, and completed once.            *)
(*                                                                         *)
(* A uthread has nothing but a pointer to its arguments.  Those are in     *)
(* uargs, which is declared with a place for every uthread and used with   *)
(* one for every band: main() writes the arguments for the next matrix     *)
(* over those of the last (gt_matrix.c:166).                               *)
(*                                                                         *)
(* An access to the arguments is a step, but for a row, which is one step, *)
(* and for the three matrix pointers, which are stored and read as one.    *)
(***************************************************************************)
EXTENDS Integers, Sequences

CONSTANTS
  NumThreads,   \* NUM_THREADS, the bands of a matrix: at least one
  Sizes,        \* sizes: how many rows each matrix has, multiples of it
  Kthreads, MainK, Master, Nil    \* as in UthreadPool

Matrices == DOMAIN Sizes
Bands == 0..NumThreads - 1
Uthreads == Matrices \X Bands
MaxSize == CHOOSE s \in {Sizes[m] : m \in Matrices} :
             \A m \in Matrices : Sizes[m] <= s
Indices == 0..MaxSize - 1

VARIABLES
  ready, running, done, returned,   \* the pool
  uargs,      \* [Bands -> [matrix, size, start]] what a uthread is passed
  creating,   \* <<i, inx>> of the loops of main(), or Nil when they are over
  stores,     \* how many of the arguments of that uthread are stored
  at,         \* [Uthreads -> STRING] where in uthread_mulmat it is
  row,        \* [Uthreads -> Nat] i
  endRow,     \* [Uthreads -> Nat] end_row
  endCol,     \* [Uthreads -> Nat] end_col
  C           \* [Matrices -> [Indices -> [Indices -> Nat]]] C[i].m

pool == <<ready, running, done, returned>>
mainVars == <<uargs, creating, stores>>
uthreadVars == <<at, row, endRow, endCol, C>>
vars == <<pool, mainVars, uthreadVars>>

INSTANCE UthreadPool WITH Threads <- Uthreads \cup {Master}

(* main() after gtthread_app_init and init_matrices. *)
Init ==
  /\ PoolInit
  /\ uargs = [b \in Bands |-> [matrix |-> 1, size |-> 0, start |-> 0]]
  /\ creating = <<1, 0>> /\ stores = 0
  /\ at = [u \in Uthreads |-> "begin"]
  /\ row = [u \in Uthreads |-> 0]
  /\ endRow = [u \in Uthreads |-> 0]
  /\ endCol = [u \in Uthreads |-> 0]
  /\ C = [m \in Matrices |-> [i \in Indices |-> [j \in Indices |-> 0]]]

-----------------------------------------------------------------------------
MainRuns == running[MainK] = Master /\ creating # Nil

(* The loop of main(): what it stores for band b of matrix m, and in which *)
(* order.                                                                  *)
Arguments(m, b) ==
  [matrix |-> m, size |-> Sizes[m], start |-> (b * Sizes[m]) \div NumThreads]
Order == <<"matrix", "size", "start">>

Store ==
  /\ MainRuns /\ stores < Len(Order)
  /\ LET m == creating[1]  b == creating[2]  f == Order[stores + 1] IN
     uargs' = [uargs EXCEPT ![b][f] = Arguments(m, b)[f]]
  /\ stores' = stores + 1
  /\ UNCHANGED <<pool, creating, uthreadVars>>

Following(m, b) ==
  IF b + 1 \in Bands THEN <<m, b + 1>>
  ELSE IF m + 1 \in Matrices THEN <<m + 1, 0>> ELSE Nil

CreateUthread ==
  /\ MainRuns /\ stores = Len(Order)
  /\ \E k \in Kthreads : Spawn(creating, k)
  /\ creating' = Following(creating[1], creating[2])
  /\ stores' = 0
  /\ UNCHANGED <<uargs, uthreadVars>>

(* gtthread_app_exit: main()'s uthread is done, and when nobody is left    *)
(* main() goes on.                                                         *)
Exit ==
  /\ \/ running[MainK] = Master /\ creating = Nil /\ Complete(MainK)
     \/ Master \in done /\ ~returned /\ Return
  /\ UNCHANGED <<mainVars, uthreadVars>>

-----------------------------------------------------------------------------
(* uthread_mulmat, on kthread k.                                           *)
Runs(k, u) == running[k] = u
Passed(u) == uargs[u[2]]

BeginRow(u) ==
  /\ at[u] = "begin"
  /\ row' = [row EXCEPT ![u] = Passed(u).start]
  /\ at' = [at EXCEPT ![u] = "bounds"]
  /\ UNCHANGED <<endRow, endCol, C>>

EndRow(u) ==
  /\ at[u] = "bounds"
  /\ endRow' = [endRow EXCEPT
       ![u] = Passed(u).start + Passed(u).size \div NumThreads]
  /\ endCol' = [endCol EXCEPT ![u] = Passed(u).size]
  /\ at' = [at EXCEPT ![u] = "rows"]
  /\ UNCHANGED <<row, C>>

(* A and B are 1 within the matrix and 0 outside: each column grows by the *)
(* number of k's within both the matrix and the size that was passed.      *)
Product(u, i, j) ==
  LET m == Passed(u).matrix
      s == IF Passed(u).size < Sizes[m] THEN Passed(u).size ELSE Sizes[m] IN
  IF i < Sizes[m] /\ j < Sizes[m] /\ j < endCol[u] THEN s ELSE 0

MultiplyRow(u) ==
  /\ at[u] = "rows" /\ row[u] < endRow[u]
  /\ C' = [C EXCEPT ![Passed(u).matrix][row[u]] =
       [j \in Indices |-> @[j] + Product(u, row[u], j)]]
  /\ row' = [row EXCEPT ![u] = @ + 1]
  /\ UNCHANGED <<at, endRow, endCol>>

Step(k, u) ==
  /\ Runs(k, u)
  /\ BeginRow(u) \/ EndRow(u) \/ MultiplyRow(u)
  /\ UNCHANGED <<pool, mainVars>>

(* The uthread returns; or the library starts or stops it.                 *)
Finish(k, u) ==
  /\ Runs(k, u) /\ at[u] = "rows" /\ row[u] >= endRow[u]
  /\ Complete(k)
  /\ UNCHANGED <<mainVars, uthreadVars>>

Schedule(k) ==
  /\ Stop(k) \/ \E u \in Uthreads \cup {Master} : Start(u, k)
  /\ UNCHANGED <<mainVars, uthreadVars>>

Next ==
  \/ Store \/ CreateUthread \/ Exit
  \/ \E k \in Kthreads :
       Schedule(k) \/ \E u \in Uthreads : Step(k, u) \/ Finish(k, u)

Spec == Init /\ [][Next]_vars

-----------------------------------------------------------------------------
(* gt_matrix.c:28, "A[SIZE][SIZE] X B[SIZE][SIZE] = C[SIZE][SIZE]": when   *)
(* gtthread_app_exit returns each C is the product of its A and B, all of  *)
(* whose entries are 1.                                                    *)
ProductsComputed == returned =>
  \A m \in Matrices : \A i, j \in 0..Sizes[m] - 1 : C[m][i][j] = Sizes[m]
=============================================================================
