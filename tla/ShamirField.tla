---------------------------- MODULE ShamirField ----------------------------
(***************************************************************************)
(* Lagrange interpolation over a small prime field, standing for the       *)
(* program's over GF(2^128) (crypto/_shamir_compat.py): the same formula,  *)
(* with minus where a field of characteristic two may write plus.          *)
(***************************************************************************)
EXTENDS Integers, FiniteSetsExt

CONSTANT P     \* a prime above every share index in use

Field == 0..(P - 1)

(* _GF128Element.inverse *)
InverseOf(a) == CHOOSE b \in Field : (a * b) % P = 1

(* The j-th Lagrange coefficient at x, over the indices J. *)
Coefficient(J, j, x) ==
    MapThenFoldSet(LAMBDA a, b : (a * b) % P, 1,
                   LAMBDA m : (((x - m) % P) * InverseOf((j - m) % P)) % P,
                   LAMBDA S : CHOOSE m \in S : TRUE, J \ {j})

\* All coefficients, so that they are computed once.
Coefficients ==
    [J \in SUBSET (1..(P - 1)) |-> [j \in J |-> [x \in Field |-> Coefficient(J, j, x)]]]

(* interpolate_share_blocks, _interpolate_share_block *)
FieldInterpolate(f, x) ==
    LET J == DOMAIN f IN
    MapThenFoldSet(+, 0, LAMBDA j : f[j] * Coefficients[J][j][x],
                   LAMBDA S : CHOOSE j \in S : TRUE, J) % P

(* Shamir.split of PyCryptodome: secret + draw x + (draw x)^2 + ..., of degree threshold - 1. *)
FieldShareAt(draw, secret, threshold, x) ==
    MapThenFoldSet(+, secret, LAMBDA k : (draw * x) ^ k,
                   LAMBDA S : CHOOSE k \in S : TRUE, 1..(threshold - 1)) % P
=============================================================================
