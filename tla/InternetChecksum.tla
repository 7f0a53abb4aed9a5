-------------------------- MODULE InternetChecksum --------------------------
(***************************************************************************)
(* The checksum of the two routers (checksum in Tema1_pcom/lib/lib.c,      *)
(* ip_checksum in lab4/lib/lib.c): the sum of the words of a header, with  *)
(* the carry added twice, complemented.                                    *)
(***************************************************************************)
EXTENDS Integers

CONSTANT WORD           \* number of values of a word: 2^16

ASSUME WordAssumption == WORD \in Nat \ {0, 1}

FoldOnce(sum) ==        \* mutant: the carry of the carry is left out
  WORD - 1 - (((sum \div WORD) + (sum % WORD)) % WORD)

\* What is computed from the sum of the words.
checksum(sum) ==
  LET once  == (sum \div WORD) + (sum % WORD)
      twice == once + (once \div WORD)
  IN  WORD - 1 - (twice % WORD)

=============================================================================
