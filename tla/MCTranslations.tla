---------------------------- MODULE MCTranslations ----------------------------
(* Small instances of Translations. *)
EXTENDS Translations

MCKey == 3

\* A mixing of the numbers of an index, for the random elements ...
MCDraw(x) ==
  LET e(k) == IF k <= Len(x) THEN x[k] ELSE 0
      h == 131 * e(1) + 37 * e(2) + 17 * e(3) + 71 * e(4) + 5 * e(5) + Len(x)
  IN  ((h * h + 3 * h) % 1009) % Q

\* ... and rotations and reflections of 0 .. n - 1, which do not commute.
MCGenPerm(n, s) ==
  [i \in 0 .. n - 1 |-> ((IF s % 2 = 0 THEN i ELSE (n - 1) * i) + s \div 2) % n]

Call(name, n, T) == [name |-> name, n |-> n, T |-> T]
MCJobs ==
  {Call(name, nT[1], nT[2]) : name \in Functions2k, nT \in {<<4, 2>>, <<8, 4>>}}
  \cup {Call("ShuffleSet", n, n) : n \in 3 .. 4}
  \cup {Call("ASTSet", n, n) : n \in 3 .. 4} \cup {Call("DoubleASTSet", 4, 4)}

MCErrors == {<<1, 0>>, <<0, 1>>, <<1, MCKey>>}
===============================================================================
