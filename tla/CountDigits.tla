----------------------------- MODULE CountDigits ----------------------------
(***************************************************************************)
(* algorithm/countDigitOne.cpp: how often each digit is written in 1 .. n, *)
(* from the digits of n, the highest first, one action for each.  Numbers  *)
(* are below 2^31 here: countDigitOne returns count[1] as an int, which is *)
(* too small for it when n is near 2^31.                                   *)
(***************************************************************************)
EXTENDS Integers, Sequences, FiniteSets

VARIABLES number,  \* the argument of countDigitOne
          digits,  \* its digits, the lowest first, counted from 1
          place,   \* i + 1: how many of them are left
          tmp, count

digitVars == <<number, digits, place, tmp, count>>

Digit == 0 .. 9

\* The first loop: dp[i], how often a digit is written with all numbers of i places
dp(k) ==
  LET f[i \in Nat] == IF i = 0 THEN 0 ELSE 10 * f[i - 1] + 10 ^ (i - 1)
  IN  f[k]

\* while (n) digits.push_back(n % 10), n = n / 10
DigitsOf(k) ==
  LET f[n \in Nat] == IF n = 0 THEN <<>> ELSE <<n % 10>> \o f[n \div 10]
  IN  f[k]

InitFor(numbers) ==
  /\ number \in numbers
  /\ digits = DigitsOf(number)
  /\ place = Len(digits)
  /\ tmp = number
  /\ count = [j \in Digit |-> 0]

\* A turn of the loop over the digits: j in all places below i, then at place i itself,
\* with the numbers that begin as n does, and no leading zeros
Turn ==
  LET i == place - 1
      digit == digits[place]
      d == 10 ^ i
  IN  /\ place > 0
      /\ tmp' = tmp - d * digit
      /\ count' = [j \in Digit |-> count[j] + dp(i) * digit
                                   + (IF j < digit THEN d ELSE 0)
                                   + (IF j = digit THEN tmp' + 1 ELSE 0)
                                   - (IF j = 0 THEN d ELSE 0)]
      /\ place' = place - 1
      /\ UNCHANGED <<number, digits>>

Next == Turn

-----------------------------------------------------------------------------

\* How often the digit j is written in 1 .. n
Written(j, n) ==
  Cardinality({q \in (1 .. n) \X (0 .. 4) : 10 ^ q[2] <= q[1] /\ (q[1] \div 10 ^ q[2]) % 10 = j})

\* All ten digits are counted, not only the 1 that is returned, and 0 without leading
\* zeros.
Counts == place = 0 => \A j \in Digit : count[j] = Written(j, number)

=============================================================================
