-------------------------------- MODULE Ids ---------------------------------
(***************************************************************************)
(* GenerateUniform and GenerateId of functions.hpp, and the reading of the *)
(* clock that seeds them.                                                  *)
(*                                                                         *)
(* An identifier is the sequence of the positions of its characters in the *)
(* base string.  A time is in milliseconds from a second that the constant *)
(* Epoch names.                                                            *)
(***************************************************************************)
EXTENDS Integers, Sequences

CONSTANT Epoch   \* what time(0) returns at time 0

ASSUME EpochAssumption == Epoch \in Nat

m == 2147483647
a == 39373
q == m \div a
r == m % a

\* One turn of the loop of GenerateUniform, which never leaves 32 bits.
NextSeed(seed) ==
  LET k    == seed \div q
      next == a * (seed - k * q) - k * r
  IN  IF next < 0 THEN next + m ELSE next

(***************************************************************************)
(* int i = seed / (double)m * 36.  36 * seed is m * i + something less     *)
(* than m, and is not computed: m = 36 * c + 19.                           *)
(***************************************************************************)
c == m \div 36

IndexOf(seed) ==
  LET i == seed \div c
  IN  IF 19 * i <= 36 * (seed % c) THEN i ELSE i - 1

Millisecond(time) == time % 1000
Second(time) == Epoch + time \div 1000

\* Mutant: hundredths of a second.
SeedHundredths(time) ==
  IF Millisecond(time) \div 10 = 0 THEN Second(time) % m ELSE Millisecond(time) \div 10

\* GetMillisecond(), or the second if that is 0.
Seed(time) == IF Millisecond(time) = 0 THEN Second(time) % m ELSE Millisecond(time)

\* The loops of GenerateUniform and GenerateId, as one.
GenerateId(time) ==
  LET drawn[n \in 0 .. 12] ==
        IF n = 0
        THEN [seed |-> Seed(time), id |-> <<>>]
        ELSE LET before == drawn[n - 1]
                 seed   == NextSeed(before.seed)
             IN  [seed |-> seed, id |-> Append(before.id, IndexOf(seed))]
  IN  drawn[12].id

\* Two readings that the generator cannot tell apart.
SameReading(t, u) ==
  /\ Millisecond(t) = Millisecond(u)
  /\ Millisecond(t) = 0 => Second(t) = Second(u)

=============================================================================
