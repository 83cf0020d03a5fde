---------------------------- MODULE MCImageFile ----------------------------
(* Small cards: clusters of 1, 2 and 4 sectors, chains that run forward,   *)
(* backward and with gaps, a file that ends inside a card sector, chains   *)
(* that end too early with a free entry or with an end mark, no chain.     *)
EXTENDS ImageFile

Card(sc, chain, fsize, tail) ==
  [sects_clust |-> sc, chain |-> chain, fsize |-> fsize,
   tail |-> IF tail THEN 9 ELSE 0, max_clust |-> 9]

MCCards ==
  {Card(1, <<3, 2, 5, 4, 8, 7>>, 12, TRUE),
   Card(2, <<7, 2, 4>>, 12, TRUE),
   Card(4, <<5, 3>>, 12, TRUE),
   Card(1, <<2, 3, 4>>, 5, TRUE),
   Card(2, <<6, 3>>, 7, TRUE),
   Card(2, <<4>>, 12, TRUE),
   Card(2, <<4>>, 12, FALSE),
   Card(1, <<4, 2>>, 8, FALSE),
   Card(4, <<>>, 0, TRUE)}
=============================================================================
