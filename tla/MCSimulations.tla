--------------------------- MODULE MCSimulations ---------------------------
(* The programs of Task - 2 for TLC, with the sizes they are built with: a   *)
(* process of eight pages and a memory of four frames.                       *)
EXTENDS Simulations, SequencesExt

MCWorkload1 == <<1050, 2080, 3100, 4120, 1090, 5200, 1110>>
MCWorkload2 == <<2027, 2028, 3039, 4050, 5600, 6700, 7800, 2027>>
MCWorkload3 == <<1050, 2080, 3100, 4120, 1090, 2170, 5200, 1110, 2190, 3130, 4160, 5250>>

\* The programs' own, addresses at the ends of pages and of the process, and
\* every order of five requests after four that fill the memory.
MCWorkloads ==
  {MCWorkload1, MCWorkload2, MCWorkload3}
  \union SeqOf({1023, 1024, 1025, 8191, 8192}, 4)
  \union {<<1050, 2080, 3100, 4120>> \o w : w \in TupleOf({1050, 2080, 3100, 4120, 5200}, 5)}
=============================================================================
