------------------------------- MODULE Prices -------------------------------
(***************************************************************************)
(* ConvertPrice of functions.hpp, in both directions.                      *)
(*                                                                         *)
(* A price is written whole-xyz: xy are 32nds, z is the eighths of a 32nd  *)
(* in one character, where '+' is written for 4.  As a number a price is   *)
(* in units of 1/512, in which the mid of two written prices is whole; the *)
(* doubles of the program are exact on all of them.                        *)
(***************************************************************************)
EXTENDS Integers

PLUS == -5    \* '+' - '0'
NUL  == -48   \* what operator[] returns at the end of a string, less '0'

\* z is the character less '0'; a fraction of two digits ends with NUL.
PriceText == [whole : Int, xy : 0 .. 99, z : {NUL, PLUS} \cup 0 .. 9]

Eighths(z) == IF z = PLUS THEN 4 ELSE z

\* ConvertPrice(const string&).  A text that begins with '-' is what the other
\* direction makes of a negative spread; this one would throw on it, and the
\* operator is then what the text stands for.
NumberOf(text) == 512 * text.whole + 16 * text.xy + 2 * Eighths(text.z)

\* Mutant: half a tick is rounded up.
TicksRounded(number) == ((number + 1) \div 2) % 256

\* _doublePrice256: the 256ths above the whole, cut off.
Ticks(number) == (number % 512) \div 2

Character(eighths) == IF eighths = 4 THEN PLUS ELSE eighths

\* ConvertPrice(double).
TextOf(number) ==
  [whole |-> number \div 512,
   xy    |-> Ticks(number) \div 8,
   z     |-> Character(Ticks(number) % 8)]

=============================================================================
