--------------------------------- MODULE Ring ---------------------------------
(* Exact arithmetic in place of float.  A number is an integer modulo P^2, and *)
(* x + P * v is "x moved by an infinitesimal in direction v": every function   *)
(* below satisfies f(x + P v) = f(x) + P v f'(x), so that the coefficient of P *)
(* is a derivative and a gradient can be compared with it without rounding, as *)
(* the tests' finite differences do approximately.  exp, log, tanh and 1/sqrt  *)
(* are tables on the residues that obey the differential equation (and, for    *)
(* exp, the identity exp(-x) = 1 / exp(x)) of the function they stand for; no  *)
(* property depends on the values in the tables.                               *)
EXTENDS Integers, Sequences

CONSTANT P   \* an odd prime; 2 P^4 < 2^31 keeps TLC's integers from overflowing

ASSUME PAssumption == P \in Nat /\ P > 2 /\ \A d \in 2..(P - 1) : P % d # 0

Q == P * P

a ++ b == (a + b) % Q
a -- b == (a - b) % Q
a ** b == (a * b) % Q

\* The sequence f, which TLC then evaluates once.
Tuple(f) == f \o <<>>

Total(f) ==
    LET s == Tuple(f)
        sum[k \in 0..Len(s)] == IF k = 0 THEN 0 ELSE (sum[k - 1] + s[k]) % Q
    IN  sum[Len(s)]

-------------------------------------------------------------------------------
(* Functions.  x = Residue(x) + P * Part(x), the residue taken around zero so  *)
(* that Residue(-x) = -Residue(x).                                             *)
Residue(x) == LET r == x % P IN IF 2 * r > P THEN r - P ELSE r
Part(x) == ((x - Residue(x)) \div P) % P
Residues == -(P \div 2)..(P \div 2)

InvModP == [r \in 0..(P - 1) |->
              IF r = 0 THEN 0 ELSE CHOOSE i \in 1..(P - 1) : (r * i) % P = 1]
Inv(x) == LET i == InvModP[x % P] IN i ** (2 - (x ** i))

\* f(x) from the value and the derivative of f at the residue of x.
Extend(value, derivative, x) == (value + (P * ((Part(x) * (derivative % P)) % P))) % Q

\* Powers of two up to 2^5: sums of a few of them, and 1 + exp, have an inverse.
ExpTable == [r \in Residues |->
               IF r = 0 THEN 1 ELSE IF r > 0 THEN 2 ^ (1 + (r % 5)) ELSE Inv(2 ^ (1 + ((-r) % 5)))]
Exp(x) == ExpTable[Residue(x)] ** (1 + (P * Part(x)))

Log(x) == Extend((3 * Residue(x) * Residue(x)) + 5, InvModP[x % P], x)

Tanh(x) == LET t == ((5 * Residue(x) * Residue(x)) + Residue(x)) % P
           IN  Extend(t, 1 - (t * t), x)

Half == (Q + 1) \div 2
RSqrt(x) == LET r == 1 + ((Residue(x) * Residue(x)) % (P - 1))
            IN  Extend(r, -(((((r * r) % P) * r) % P) * Half), x)

Sigmoid(v) == Inv(1 + Exp(-v))

-------------------------------------------------------------------------------
(* Matrices are sequences of rows; a vector is a matrix of one row.            *)
Matrix(rows) ==
    Tuple([i \in DOMAIN rows |-> Tuple([j \in DOMAIN rows[i] |-> rows[i][j] % Q])])
Rows(A) == Len(A)
Cols(A) == Len(A[1])

MatMul(A, B) ==
    Matrix([i \in 1..Rows(A) |-> [j \in 1..Cols(B) |->
        Total([k \in 1..Rows(B) |-> A[i][k] * B[k][j]])]])
Transpose(A) == Matrix([i \in 1..Cols(A) |-> [j \in 1..Rows(A) |-> A[j][i]]])
Map(F(_), A) == Matrix([i \in 1..Rows(A) |-> [j \in 1..Cols(A) |-> F(A[i][j])]])
Plus(A, B) == Matrix([i \in 1..Rows(A) |-> [j \in 1..Cols(A) |-> A[i][j] + B[i][j]]])
Times(A, B) == Matrix([i \in 1..Rows(A) |-> [j \in 1..Cols(A) |-> A[i][j] * B[i][j]]])
Scaled(s, A) == Matrix([i \in 1..Rows(A) |-> [j \in 1..Cols(A) |-> s * A[i][j]]])
Zeros(rows, cols) == Matrix([i \in 1..rows |-> [j \in 1..cols |-> 0]])

\* each row times, plus, the one row of b
TimesRow(A, b) == Matrix([i \in 1..Rows(A) |-> [j \in 1..Cols(A) |-> A[i][j] * b[1][j]]])
PlusRow(A, b) == Matrix([i \in 1..Rows(A) |-> [j \in 1..Cols(A) |-> A[i][j] + b[1][j]]])

\* the sum of the rows, and the sum of all entries of A times those of B
ColumnSums(A) ==
    Matrix([i \in 1..1 |-> [j \in 1..Cols(A) |-> Total([t \in 1..Rows(A) |-> A[t][j]])]])
Inner(A, B) == Total([i \in 1..Rows(A) |-> Total([j \in 1..Cols(A) |-> A[i][j] * B[i][j]])])

\* The gradients of A and of B from that of A.B.
GradA(B, dC) == MatMul(dC, Transpose(B))
GradB(A, dC) == MatMul(Transpose(A), dC)

-------------------------------------------------------------------------------
(* Inputs of the checks: a matrix of residues that depends on a seed.          *)
Sample(seed, tag, rows, cols) ==
    Matrix([i \in 1..rows |-> [j \in 1..cols |->
        LET h == ((31 * seed) + (17 * tag) + (7 * i) + (3 * j) + 1) % P
        IN  ((h * h * h) + (tag * h * h) + (i * j * h) + seed) % P]])

\* A moved by an infinitesimal in direction D
Moved(A, D) == Matrix([i \in 1..Rows(A) |-> [j \in 1..Cols(A) |-> A[i][j] + (P * (D[i][j] % P))]])
===============================================================================
