------------------------------ MODULE MCBootArea ------------------------------
(* Instances of BootArea: the kinds of chip with blocks as long as a copy  *)
(* or half as long, and one or no block shipped bad.                       *)
EXTENDS BootArea

MCChips ==
  {[kind |-> "mlc", pages_per_blk |-> n, oob_mod |-> o] :
     n \in {BOOT_PAGES_PER_COPY \div 2, BOOT_PAGES_PER_COPY}, o \in BOOLEAN}
  \cup {[kind |-> k, pages_per_blk |-> BOOT_PAGES_PER_COPY, oob_mod |-> TRUE] :
          k \in {"list", "list_fill", "sandisk"}}

MCBadBlocks == {{}, {1}}

(* The page and spare sizes in id_table.c.                                 *)
TableGeometries ==
  {[pagesize |-> g[1], oobsize |-> g[2]] : g \in
     {<<2048, 64>>, <<4096, 128>>, <<4096, 218>>, <<4096, 224>>, <<8192, 376>>,
      <<8192, 436>>, <<8192, 448>>, <<8192, 512>>, <<8192, 640>>, <<8192, 744>>,
      <<16384, 1280>>, <<16384, 1664>>}}
=============================================================================
