---------------------------- MODULE MCReadPage ----------------------------
(* Small instances of ReadPage.  A good page can be corrected at the       *)
(* default level, a weak one at the first or at the last ones of the table *)
(* only, a lost one at none.  An erased page passes as such at all levels, *)
(* a disturbed one at those of the table only.                             *)
EXTENDS ReadPage

Written(ls) == [blank |-> {}, ok |-> ls]
Erased(ls) == [blank |-> ls, ok |-> {}]
SomeConditions == {Erased(Levels), Erased(1..RetryCnt), Written({0}), Written({1}),
                   Written({RetryCnt - 1, RetryCnt}), Written({})}

(* Three reads of one plane, and a read of two planes before them.        *)
ThenSingle == [n \in PlaneNums |-> IF n = 1 THEN 3 ELSE 1]

(* The page and spare sizes in id_table.c.                                 *)
TableGeometries ==
  {[pagesize |-> g[1], oobsize |-> g[2]] : g \in
     {<<2048, 64>>, <<4096, 128>>, <<4096, 218>>, <<4096, 224>>, <<8192, 376>>,
      <<8192, 436>>, <<8192, 448>>, <<8192, 512>>, <<8192, 640>>, <<8192, 744>>,
      <<16384, 1280>>, <<16384, 1664>>}}
=============================================================================
