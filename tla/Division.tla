------------------------------ MODULE Division ------------------------------
(***************************************************************************)
(* The 64 bit division of the kernel (sys/libc/bsd/qdivrem.c), which the   *)
(* clock and kprintf() use because the CPU has none: Knuth's Algorithm D   *)
(* on four digits of HALF_BITS bits each.                                  *)
(*                                                                         *)
(* Everything is kept in units of the digit base, so that a small base     *)
(* makes every dividend and divisor checkable: B stands for 2^16, Long for *)
(* the range of u_long and Quad for the range of u_quad_t.                 *)
(***************************************************************************)
EXTENDS Integers, Sequences, FiniteSetsExt

CONSTANT HALF_BITS

DivisionAssumption == HALF_BITS \in Nat \ {0}

B == 2 ^ HALF_BITS
LongRange == B * B
QuadRange == LongRange * LongRange

VARIABLES
    uq, vq,      \* the arguments
    at,          \* where __qdivrem() is
    uspace,      \* digits of the dividend, 0..4
    skip,        \* u - uspace: leading zero digits passed over
    v,           \* digits of the divisor, from its first nonzero one
    d,           \* bits both are shifted by
    j,           \* digit of the quotient being computed
    qspace,      \* digits of the quotient, 0..4
    quotient, remainder

vars == <<uq, vq, at, uspace, skip, v, d, j, qspace, quotient, remainder>>

LHALF(x) == x % B

HHALF(x) == x \div B

COMBINE(a, b) == (a * B + b) % LongRange

(* The digits of a quad, as the four halves of its two longs.              *)
Digits(x) == [i \in 1..4 |-> LHALF(x \div B ^ (4 - i))]

(* Two longs of two digits each, put together.                             *)
Joined(f) == COMBINE(f[1], f[2]) * LongRange + COMBINE(f[3], f[4])

(* __shl(&p[first], last - first, sh).                                     *)
Shl(p, first, last, sh) ==
    [i \in DOMAIN p |->
        IF i \in first..last - 1
        THEN LHALF(p[i] * 2 ^ sh) + p[i + 1] \div 2 ^ (HALF_BITS - sh)
        ELSE IF i = last THEN LHALF(p[i] * 2 ^ sh) ELSE p[i]]

Init ==
    /\ uq \in 0..QuadRange - 1
    /\ vq \in 0..QuadRange - 1
    /\ at = "called"
    /\ uspace = [i \in 0..4 |-> 0]
    /\ skip = 0
    /\ v = <<>>
    /\ d = 0
    /\ j = 0
    /\ qspace = [i \in 0..4 |-> 0]
    /\ quotient = 0
    /\ remainder = 0

Return(q, r) ==
    /\ at' = "returned"
    /\ quotient' = q
    /\ remainder' = r

-----------------------------------------------------------------------------
(* "1 / zero": the CPU raises the divide error.                            *)
DivideByZero ==
    /\ at = "called" /\ vq = 0
    /\ at' = "trapped"
    /\ UNCHANGED <<uq, vq, uspace, skip, v, d, j, qspace, quotient, remainder>>

DividendSmaller ==
    /\ at = "called" /\ vq # 0 /\ uq < vq
    /\ Return(0, uq)
    /\ UNCHANGED <<uq, vq, uspace, skip, v, d, j, qspace>>

(* The digits of the divisor from its first nonzero one.                   *)
Significant(x) ==
    LET f == Digits(x)
    IN  SubSeq(f, Min({i \in 1..4 : f[i] # 0}), 4)

(* A divisor of one digit: long division, unrolled in the code.            *)
DivideByDigit ==
    /\ at = "called" /\ vq # 0 /\ uq >= vq
    /\ Len(Significant(vq)) = 1
    /\ LET u == Digits(uq)
           t == Significant(vq)[1]
           rbj[i \in 1..4] == IF i = 1 THEN u[1] ELSE COMBINE(rbj[i - 1] % t, u[i])
       IN  Return(Joined([i \in 1..4 |-> LHALF(rbj[i] \div t)]), rbj[4] % t)
    /\ UNCHANGED <<uq, vq, uspace, skip, v, d, j, qspace>>

(* Bits to shift by until the first digit of the divisor is B/2 or more.   *)
Shift(v1) == Min({k \in 0..HALF_BITS : v1 * 2 ^ k >= B \div 2})

(* The digits, leading zeros skipped, shifted by d bits (step D1).  The    *)
(* digit before the first of the dividend is zero and takes what the shift *)
(* moves out.                                                              *)
Normalise ==
    /\ at = "called" /\ vq # 0 /\ uq >= vq
    /\ Len(Significant(vq)) > 1
    /\ LET w == Significant(vq)
           zeros == 4 - Len(Significant(uq))
           sh == Shift(w[1])
           us == [i \in 0..4 |-> IF i = 0 THEN 0 ELSE Digits(uq)[i]]
       IN  /\ skip' = zeros
           /\ d' = sh
           /\ uspace' = IF sh > 0 THEN Shl(us, zeros, 4, sh) ELSE us
           /\ v' = IF sh > 0 THEN Shl(w, 1, Len(w), sh) ELSE w
    /\ at' = "digit"
    /\ j' = 0
    /\ UNCHANGED <<uq, vq, qspace, quotient, remainder>>

-----------------------------------------------------------------------------
n == Len(v)

m == 4 - skip - n

u(i) == uspace[skip + i]

(* D3: the digit of the quotient, estimated from two digits of u and one   *)
(* of v and then corrected with a third and a second.  After k corrections *)
(* it is k less and the remainder rhat k times v[1] more; an estimate of B *)
(* is corrected once without being tested.                                 *)
Qhat ==
    LET tooBig == u(j) = v[1]
        qhat == IF tooBig THEN B ELSE COMBINE(u(j), u(j + 1)) \div v[1]
        rhat == IF tooBig THEN u(j + 1) ELSE COMBINE(u(j), u(j + 1)) % v[1]
        after(k) == rhat + k * v[1]
        fits(k) == (v[2] * (qhat - k)) % LongRange <= COMBINE(after(k), u(j + 2))
        stops(k) == \/ k > 0 /\ after(k) >= B
                    \/ (k > 0 \/ ~tooBig) /\ fits(k)
    IN  qhat - Min({k \in 0..B : stops(k)})

(* D4: u[j..j+n] minus the digit times v, and the last borrow.             *)
Subtracted(qhat) ==
    LET borrow[i \in 1..n + 1] ==
            IF i = n + 1 THEN 0
            ELSE (B - HHALF((u(i + j) - v[i] * qhat - borrow[i + 1]) % LongRange)) % B
        t == (u(j) - borrow[1]) % LongRange
    IN  [digits |-> [x \in 0..4 |->
            LET i == x - skip - j
            IN  IF i = 0 THEN LHALF(t)
                ELSE IF i \in 1..n THEN LHALF(u(i + j) - v[i] * qhat - borrow[i + 1])
                ELSE uspace[x]],
         borrowed |-> HHALF(t) # 0]

(* D6: v added back to u[j..j+n].                                          *)
AddedBack(w) ==
    LET carry[i \in 1..n + 1] ==
            IF i = n + 1 THEN 0 ELSE HHALF(carry[i + 1] + w[skip + i + j] + v[i])
    IN  [x \in 0..4 |->
            LET i == x - skip - j
            IN  IF i = 0 THEN LHALF(w[x] + carry[1])
                ELSE IF i \in 1..n THEN LHALF(carry[i + 1] + w[x] + v[i])
                ELSE w[x]]

(* A mutant: an estimate that is too large is kept. *)
KeepEstimate(qhat, s) == [digit |-> qhat, rest |-> s.digits]

(* D5: a borrow says that the digit was one too large.                     *)
Corrected(qhat, s) ==
    IF s.borrowed
    THEN [digit |-> qhat - 1, rest |-> AddedBack(s.digits)]
    ELSE [digit |-> qhat, rest |-> s.digits]

QuotientDigit ==
    /\ at = "digit" /\ j <= m
    /\ LET r == Corrected(Qhat, Subtracted(Qhat))
       IN  /\ uspace' = r.rest
           /\ qspace' = [qspace EXCEPT ![4 - m + j] = LHALF(r.digit)]
    /\ j' = j + 1
    /\ UNCHANGED <<uq, vq, at, skip, v, d, quotient, remainder>>

(* D8: the remainder, shifted back.                                        *)
Unshifted ==
    IF d = 0 THEN uspace
    ELSE [x \in 0..4 |->
            LET i == x - skip
            IN  IF i \in m + 1..m + n
                THEN u(i) \div 2 ^ d + LHALF(u(i - 1) * 2 ^ (HALF_BITS - d))
                ELSE IF i = m THEN 0 ELSE uspace[x]]

Finish ==
    /\ at = "digit" /\ j > m
    /\ Return(Joined(qspace), Joined(Unshifted))
    /\ UNCHANGED <<uq, vq, uspace, skip, v, d, j, qspace>>

Next ==
    \/ DivideByZero
    \/ DividendSmaller
    \/ DivideByDigit
    \/ Normalise
    \/ QuotientDigit
    \/ Finish

Spec == Init /\ [][Next]_vars

-----------------------------------------------------------------------------
Number(f, first, last) ==
    LET value[i \in first - 1..last] == IF i < first THEN 0 ELSE value[i - 1] * B + f[i]
    IN  value[last]

(* Between two digits the shifted dividend is the digits found so far      *)
(* times the shifted divisor plus what is left, and what is left in front  *)
(* of the next digit is less than the divisor, so that the next digit is   *)
(* less than the base; at the end __qdivrem() returns the quotient and the *)
(* remainder, for every dividend and every divisor but zero.               *)
DivisionExact ==
    /\ at = "digit" =>
        LET found == Number(qspace, 1, 3 - m + j)
            weight == B ^ (m + 1 - j)
            left == Number(uspace, skip, 4)
        IN  /\ uq * 2 ^ d = found * weight * Number(v, 1, n) + left
            /\ left < weight * Number(v, 1, n)
    /\ at = "returned" => quotient = uq \div vq /\ remainder = uq % vq
=============================================================================
