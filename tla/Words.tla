-------------------------------- MODULE Words --------------------------------
(***************************************************************************)
(* The arithmetic under the chain library: fc::uint128, in which prices    *)
(* are compared and multiplied, and fc::safe, the type of every amount.    *)
(*                                                                         *)
(* Both are registers that operations are applied to.  The words are       *)
(* scaled: a uint32_t has Quarter bits, a uint64_t twice and a uint128     *)
(* four times as many.  Beside each register runs the number it should     *)
(* hold.                                                                   *)
(***************************************************************************)
EXTENDS Integers, Sequences, SequencesExt, Bitwise

CONSTANTS Quarter,  \* the bits of a quarter of a uint128
          Operands  \* the right hand sides

ASSUME WordsAssumption == Quarter \in Nat \ {0} /\ Operands \subseteq 0..2 ^ (4 * Quarter) - 1

VARIABLES x,       \* a uint128
          exact,   \* its value
          s,       \* a safe<int64_t>
          amount   \* its value

-----------------------------------------------------------------------------
(***************************************************************************)
(* uint128.                                                                *)
(***************************************************************************)
Half == 2 * Quarter
Bits == 4 * Quarter
Size(bits) == 2 ^ bits

uint128(hi, lo) == [hi |-> hi % Size(Half), lo |-> lo % Size(Half)]
of(n) == uint128(n \div Size(Half), n)
value(a) == a.hi * Size(Half) + a.lo

less(a, b) == IF a.hi = b.hi THEN a.lo < b.lo ELSE a.hi < b.hi
geq(a, b) == a = b \/ less(b, a)

increment(a) == uint128(a.hi + (IF (a.lo + 1) % Size(Half) = 0 THEN 1 ELSE 0), a.lo + 1)
decrement(a) == uint128(a.hi - (IF a.lo = 0 THEN 1 ELSE 0), a.lo - 1)
negated(a) == increment(uint128(-1 - a.hi, -1 - a.lo))

\* mutant: the carry of a sum that comes out as large as it was is taken for an overflow
plus_leq(a, b) ==
    LET lo == (a.lo + b.lo) % Size(Half)
    IN  uint128(a.hi + b.hi + (IF lo <= a.lo THEN 1 ELSE 0), lo)

plus(a, b) ==
    LET lo == (a.lo + b.lo) % Size(Half)
    IN  uint128(a.hi + b.hi + (IF lo < a.lo THEN 1 ELSE 0), lo)

minus(a, b) == plus(a, negated(b))

\* by whole words first, then the n bits that cross the middle
shift_left(a, by) ==
    LET n == by % Half
        b == IF by >= Half THEN uint128(a.lo, 0) ELSE a
    IN  IF by >= Bits THEN uint128(0, 0)
        ELSE IF n = 0 THEN b
        ELSE uint128(((b.hi * Size(n)) % Size(Half)) + b.lo \div Size(Half - n), b.lo * Size(n))

shift_right(a, by) ==
    LET n == by % Half
        b == IF by >= Half THEN uint128(0, a.hi) ELSE a
    IN  IF by >= Bits THEN uint128(0, 0)
        ELSE IF n = 0 THEN b
        ELSE uint128(b.hi \div Size(n), b.lo \div Size(n) + (b.hi % Size(n)) * Size(Half - n))

\* divide: d is moved up as far as it goes, and down again with x, a bit of the quotient
RECURSIVE aligned(_, _, _)
aligned(n, d, bit) ==
    IF geq(n, d) /\ d.hi < Size(Half - 1) THEN aligned(n, shift_left(d, 1), shift_left(bit, 1))
    ELSE [d |-> d, bit |-> bit]

RECURSIVE reduced(_, _, _, _)
reduced(n, d, bit, answer) ==
    IF bit = of(0) THEN [quotient |-> answer, remainder |-> n]
    ELSE IF geq(n, d)
    THEN reduced(minus(n, d), shift_right(d, 1), shift_right(bit, 1), plus(answer, bit))
    ELSE reduced(n, shift_right(d, 1), shift_right(bit, 1), answer)

divided(n, top) == reduced(n, top.d, top.bit, of(0))
divide(n, d) == divided(n, aligned(n, d, of(1)))

\* operator / leaves the division to boost::multiprecision
over(a, b) == of(value(a) \div value(b))

quarters(a) == <<a.lo % Size(Quarter), a.lo \div Size(Quarter), a.hi % Size(Quarter), a.hi \div Size(Quarter)>>

\* each sum of products of two quarters, added to what was so far, one quarter further up
products(q, r, k, so_far) ==
    FoldLeft(LAMBDA t, i : plus(t, uint128(0, q[i] * r[k + 1 - i])), shift_left(so_far, Quarter),
             [i \in 1..k |-> i])

multiplied(q, r) ==
    products(q, r, 1, products(q, r, 2, products(q, r, 3, products(q, r, 4, of(0)))))
multiply(a, b) == multiplied(quarters(a), quarters(b))

\* full_product: the four products of halves, with the carries of the middle words
low(n) == uint128(0, n)
middle(S, Q, R) == plus(plus(low(S.hi), low(Q.lo)), low(R.lo))
upper(P, Q, R, m) == plus(plus(plus(low(m.hi), low(Q.hi)), low(R.hi)), low(P.lo))
whole(P, S, m, u) == [hi |-> uint128(u.hi + P.hi, u.lo), lo |-> uint128(m.lo, S.lo)]
joined(P, Q, R, S, m) == whole(P, S, m, upper(P, Q, R, m))
carried(P, Q, R, S) == joined(P, Q, R, S, middle(S, Q, R))
full_product(a, b) ==
    carried(multiply(low(a.hi), low(b.hi)), multiply(low(a.lo), low(b.hi)),
            multiply(low(a.hi), low(b.lo)), multiply(low(a.lo), low(b.lo)))

\* _popcount_64: neighbouring fields of w bits are added up
mask(w) == (Size(Half) - 1) \div (Size(w) + 1)
RECURSIVE popcount_word(_, _)
popcount_word(n, w) ==
    IF w >= Half THEN n ELSE popcount_word((n & mask(w)) + ((n \div Size(w)) & mask(w)), 2 * w)
popcount(a) == popcount_word(a.lo, 1) + popcount_word(a.hi, 1)

\* The text of a number: a sign, the prefix that tells the radix, and digits.  Reading stops at
\* the first character that is no digit of the radix.
RECURSIVE digits_of(_)
digits_of(a) ==
    IF a = of(0) THEN << >>
    ELSE digits_of(divide(a, of(10)).quotient) \o <<value(divide(a, of(10)).remainder)>>
to_string(a) ==
    IF a = of(0) THEN [minus |-> FALSE, radix |-> 8, digits |-> << >>]
    ELSE [minus |-> FALSE, radix |-> 10, digits |-> digits_of(a)]

read_digits(digits, radix) ==
    LET bad == {i \in DOMAIN digits : digits[i] >= radix}
        n == IF bad = {} THEN Len(digits) ELSE (CHOOSE i \in bad : \A j \in bad : i <= j) - 1
    IN  FoldLeft(LAMBDA a, c : plus(multiply(a, of(radix)), of(c)), of(0), SubSeq(digits, 1, n))
from_string(text) ==
    IF text.minus THEN negated(read_digits(text.digits, text.radix))
    ELSE read_digits(text.digits, text.radix)

-----------------------------------------------------------------------------
(***************************************************************************)
(* safe.  A result is a set: empty if the operation has thrown.            *)
(***************************************************************************)
SafeMax == Size(Half - 1) - 1
SafeMin == -Size(Half - 1)

Magnitude(n) == IF n < 0 THEN -n ELSE n
\* division of C++ drops the fraction
quotient(a, b) ==
    IF (a < 0) = (b < 0) THEN Magnitude(a) \div Magnitude(b) ELSE -(Magnitude(a) \div Magnitude(b))
remainder(a, b) == a - b * quotient(a, b)

Unless(thrown, n) == IF thrown THEN {} ELSE {n}

safe_plus(a, b) ==
    Unless((b > 0 /\ a > SafeMax - b) \/ (b < 0 /\ a < SafeMin - b), a + b)
safe_minus(a, b) ==
    Unless((b > 0 /\ a < SafeMin + b) \/ (b < 0 /\ a > SafeMax + b), a - b)
safe_times(a, b) ==
    Unless(CASE a > 0 /\ b > 0 -> a > quotient(SafeMax, b)
             [] a > 0 /\ b <= 0 -> b < quotient(SafeMin, a)
             [] a <= 0 /\ b > 0 -> a < quotient(SafeMin, b)
             [] a <= 0 /\ b <= 0 -> a # 0 /\ b < quotient(SafeMax, a),
           a * b)
lowest_by_minus_one(a, b) == a = SafeMin /\ b = -1
safe_divide(a, b) == IF b = 0 \/ lowest_by_minus_one(a, b) THEN {} ELSE {quotient(a, b)}
safe_modulo(a, b) == IF b = 0 \/ lowest_by_minus_one(a, b) THEN {} ELSE {remainder(a, b)}
safe_negate(a) == Unless(a = SafeMin, -a)

-----------------------------------------------------------------------------
WordsInit ==
    /\ x = of(0) /\ exact = 0
    /\ s = 0 /\ amount = 0

\* the register gets the result, and the number beside it what the result should be
Becomes(result, n) ==
    /\ x' = result
    /\ exact' = n % Size(Bits)
    /\ UNCHANGED <<s, amount>>

Binary(b) ==
    \/ Becomes(plus(x, of(b)), exact + b)
    \/ Becomes(minus(x, of(b)), exact - b)
    \/ Becomes(multiply(x, of(b)), exact * b)
    \/ b # 0 /\ Becomes(over(x, of(b)), exact \div b)
    \/ b # 0 /\ Becomes(divide(x, of(b)).quotient, exact \div b)
    \/ b # 0 /\ Becomes(divide(x, of(b)).remainder, exact % b)
    \/ Becomes(full_product(x, of(b)).hi, (exact * b) \div Size(Bits))
    \/ Becomes(full_product(x, of(b)).lo, exact * b)

Unary ==
    \/ Becomes(increment(x), exact + 1)
    \/ Becomes(decrement(x), exact - 1)
    \/ Becomes(negated(x), -exact)
    \/ Becomes(from_string(to_string(x)), exact)
    \/ Becomes(from_string([to_string(x) EXCEPT !.minus = TRUE]), -exact)

Shift(by) ==
    \/ Becomes(shift_left(x, by), exact * Size(by))
    \/ Becomes(shift_right(x, by), exact \div Size(by))

\* an operation that throws leaves the amount as it was
Checked(result, n) ==
    /\ s' = IF result = {} THEN s ELSE CHOOSE r \in result : TRUE
    /\ amount' = IF n \in SafeMin..SafeMax THEN n ELSE amount
    /\ UNCHANGED <<x, exact>>

Safely(b) ==
    \/ Checked(safe_plus(s, b), amount + b)
    \/ Checked(safe_minus(s, b), amount - b)
    \/ Checked(safe_times(s, b), amount * b)
    \/ Checked(safe_divide(s, b), IF b = 0 THEN amount ELSE quotient(amount, b))
    \/ Checked(safe_modulo(s, b), IF b = 0 \/ lowest_by_minus_one(s, b) THEN amount
                                  ELSE remainder(amount, b))
    \/ Checked(safe_negate(s), -amount)

\* one register at a time
WordsNext ==
    \/ s = 0 /\ \/ \E b \in Operands : Binary(b)
                \/ Unary
                \/ \E by \in 0..Bits : Shift(by)
    \/ exact = 0 /\ \E b \in SafeMin..SafeMax : Safely(b)

-----------------------------------------------------------------------------
ones(n) == Len(SelectSeq([i \in 1..Bits |-> (n \div Size(i - 1)) % 2], LAMBDA b : b = 1))

\* Whatever is computed with uint128 is what arithmetic modulo its size gives, though it is put
\* together from halves and quarters, carries and shifts across the middle; and an amount is
\* never wrapped: a safe operation throws exactly if its result does not fit.
WordsExact ==
    /\ value(x) = exact
    /\ popcount(x) = ones(exact)
    /\ \A b \in Operands : less(x, of(b)) = (exact < b)
    /\ s = amount

=============================================================================
