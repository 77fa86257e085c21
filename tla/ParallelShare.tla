---------------------------- MODULE ParallelShare ----------------------------
(***************************************************************************)
(* How many of the task_count problems are handled with parallelism inside *)
(* each problem, and how many serially: the way of options.percentage from *)
(* parallel_pfd (singular/pfd_gspc.lib.in) through get_values_on_ports     *)
(* (src/bin/SINGULAR-parallel-module.cpp) to the transition initialize of  *)
(* workflow/parallel_allpfd.xpnet.                                         *)
(*                                                                         *)
(* On the way the percentage becomes a binary32 float, the product with    *)
(* the number of tasks is rounded to a float, and its conversion to an     *)
(* unsigned int drops the fraction.  A positive float is a mantissa of 24  *)
(* bits over a power of two; all intermediate values fit in 31 bits for    *)
(* percentages up to 200 and up to 127 tasks.                              *)
(***************************************************************************)
EXTENDS Integers

CONSTANT Word   \* the number of values of an unsigned int
ASSUME WordAssumption == Word \in Nat \ {0}

Mantissas == 2^23 .. 2^24 - 1

\* a / b to the nearest integer, ties to the even one.
RoundToEven(a, b) ==
  LET q == a \div b
      r == a % b
  IN  IF 2 * r > b \/ (2 * r = b /\ q % 2 = 1) THEN q + 1 ELSE q

\* static_cast<float> ((float) p / 100.0) is mantissa / 2^scale, for p > 0.
Proportion(p) ==
  LET s == CHOOSE i \in 0 .. 31 : (p * 2^i) \div 100 \in Mantissas
  IN  [mantissa |-> RoundToEven(p * 2^s, 100), scale |-> s]

\* Mutation: rounded to the nearest integer, not truncated.
ProductRounded(n, f) ==
  LET exact == n * f.mantissa
      k == CHOOSE i \in 0 .. f.scale : exact \div 2^i \in Mantissas
  IN  RoundToEven(RoundToEven(exact, 2^k), 2^(f.scale - k))

\* (unsigned int)(n * f), for n > 0.
TruncatedProduct(n, f) ==
  LET exact == n * f.mantissa
      k == CHOOSE i \in 0 .. f.scale : exact \div 2^i \in Mantissas
  IN  RoundToEven(exact, 2^k) \div 2^(f.scale - k)

ParallelCount(p, n) ==
  IF p = 0 \/ n = 0 THEN 0 ELSE TruncatedProduct(n, Proportion(p))

\* Unsigned arithmetic: a share of more than n tasks wraps around.
SerialCount(p, n) == (n - ParallelCount(p, n)) % Word

\* Mutation: waitAll leaves the percentage as configured.
PercentageWaitAllKept(parallelism, percentage) ==
  IF parallelism = "intertwined" THEN 100 ELSE percentage

\* parallel_pfd: two strategies override the percentage.
Percentage(parallelism, percentage) ==
  CASE parallelism = "waitAll"     -> 0
    [] parallelism = "intertwined" -> 100
    [] OTHER                       -> percentage
=============================================================================
