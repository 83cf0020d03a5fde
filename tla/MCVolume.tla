------------------------------ MODULE MCVolume ------------------------------
(* Names of two characters with an extension of one, sectors of four       *)
(* entries.  The cards: FAT12 without a partition table, a full directory  *)
(* that starts in the volume's last cluster and goes on before it, the FAT *)
(* entry of the latter across a sector border; FAT16 behind a partition    *)
(* table with clusters of two sectors; no directory; no file system.       *)
EXTENDS Volume

E(kind, name, cl) == [kind |-> kind, name |-> name, clust |-> cl]
File(name) == E("file", name, 9)
MCDir == <<"V", "E">>
MCExt == <<".", "F">>
VE == <<"V", "E", " ">>
Dots == <<E("dir", <<".", " ", " ">>, 0), E("dir", <<".", ".", " ">>, 0)>>

CardA == [boot |-> "sfd", part |-> 0, rsvd |-> 1, n_fats |-> 2, sects_fat |-> 4,
          n_rootdir |-> 8, sects_clust |-> 1, totsec |-> 19,
          root |-> <<E("vol", VE, 0), E("del", VE, 3), File(<<"B", " ", "F">>),
                     E("file", <<"V", " ", " ">>, 9), E("dir", VE, 9)>>,
          chain |-> <<9, 5>>,
          dir |-> Dots \o <<File(<<"A", " ", "F">>), E("del", <<"B", " ", "F">>, 9),
                            File(<<"A", "B", "F">>), File(<<"A", " ", " ">>),
                            E("dir", <<"C", " ", "F">>, 9), File(<<"V", "E", "F">>)>>]
CardB == [boot |-> "mbr", part |-> 2, rsvd |-> 1, n_fats |-> 1, sects_fat |-> 6,
          n_rootdir |-> 4, sects_clust |-> 2, totsec |-> 32,
          root |-> <<E("dir", VE, 10)>>,
          chain |-> <<10, 3>>,
          dir |-> Dots \o <<File(<<"B", " ", "F">>), E("vol", <<"A", " ", "F">>, 0),
                            E("del", <<"A", "B", "F">>, 9), File(<<"C", " ", " ">>),
                            E("del", <<"A", "B", "F">>, 9), File(<<"C", " ", "F">>),
                            File(<<"A", " ", "F">>)>>]
CardC == [CardA EXCEPT !.root = <<E("file", VE, 3)>>, !.chain = <<>>, !.dir = <<>>]
CardD == [CardA EXCEPT !.boot = "foreign"]
MCCards == {CardA, CardB, CardC, CardD}
MCAbsent == {<<"B", ".", "F">>, <<"a", ".", "F">>, <<"*">>, <<"A", "B", "C">>, <<>>}
ASSUME NamesReadBack
=============================================================================
