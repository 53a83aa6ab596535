----------------------------- MODULE Arithmetic -----------------------------
(***************************************************************************)
(* Sums and powers of ten, as recursive functions: of the folds of the     *)
(* community modules and of "^" the provers know too little.  What they    *)
(* compute is proved in Arithmetic_proof.                                  *)
(***************************************************************************)
EXTENDS Integers, Sequences

Total(s) ==
    LET sum[i \in 0..Len(s)] == IF i = 0 THEN 0 ELSE sum[i - 1] + s[i]
    IN  sum[Len(s)]

TenTo[n \in Nat] == IF n = 0 THEN 1 ELSE 10 * TenTo[n - 1]

=============================================================================
