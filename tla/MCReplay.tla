------------------------------ MODULE MCReplay ------------------------------
(* An archive of three day files, with ties among their rows: positions    *)
(* grow, shrink, close and flip in other ways for other orders of the      *)
(* ties, and days end at minute and hour boundaries. And archives that are *)
(* not in time order: fills on both sides of the minute, five-minute and   *)
(* hour boundaries, one to a file, in every order, so that fills are late  *)
(* for some windows and not for others.                                    *)
EXTENDS Replay

CONSTANTS a1, a2, c1, c2

Row(addr, coin, ms, px, sz, buy, pnl, crossed) ==
    [addr |-> addr, coin |-> coin, px |-> px, sz |-> sz, buy |-> buy, ms |-> ms,
     pnl |-> pnl, crossed |-> crossed]

Day1 == {Row(a1, c1, 59999, 2, 1, TRUE, 0, TRUE),  Row(a1, c1, 59999, 4, 2, FALSE, 1, FALSE),
         Row(a2, c1, 59999, 3, 1, FALSE, 0, TRUE), Row(a1, c1, 60000, 5, 2, TRUE, -1, TRUE),
         Row(a1, c1, 60000, 1, 1, TRUE, 0, FALSE), Row(a1, c1, 60000, 3, 3, FALSE, 2, TRUE),
         Row(a2, c2, 60000, 2, 1, TRUE, 2, FALSE)}
Day2 == {Row(a1, c1, 61000, 2, 2, FALSE, 3, TRUE), Row(a2, c1, 3600000, 1, 3, TRUE, 0, FALSE),
         Row(a1, c1, 3600000, 2, 4, TRUE, 0, FALSE), Row(a1, c2, 3600000, 6, 1, FALSE, 0, TRUE)}
Day3 == {Row(a2, c1, 7200000, 1, 1, FALSE, 0, TRUE)}

Edges == {Row(a1, c1, 0, 2, 1, TRUE, 0, TRUE),         Row(a2, c1, 59999, 2, 2, FALSE, 1, TRUE),
          Row(a1, c1, 60000, 2, 1, FALSE, 0, FALSE),   Row(a2, c1, 60000, 2, 3, TRUE, 0, TRUE),
          Row(a2, c1, 299999, 2, 1, TRUE, 2, FALSE),   Row(a1, c1, 300000, 2, 2, FALSE, 0, TRUE),
          Row(a2, c1, 3599999, 2, 1, TRUE, 0, TRUE),   Row(a1, c1, 3600000, 2, 1, TRUE, -1, FALSE),
          Row(a1, c2, 59999, 2, 1, FALSE, 0, TRUE),    Row(a2, c2, 60000, 2, 1, TRUE, 0, TRUE)}

MCFills == Day1 \cup Day2 \cup Day3 \cup Edges

(* One day, two days or all; all their rows, or cut short within a day.    *)
Ordinary ==
    [files : {<<Day1, Day2, Day3>>}, days : {0, 1, 2}, max_fills : {0, 8}]

(* Every order of n of the edge rows, one to a file.                       *)
Scattered(n) ==
    [files : {[i \in 1..n |-> {order[i]}] : order \in Injection(1..n, Edges)},
     days : {0}, max_fills : {0}]

MCReplays == Ordinary \cup Scattered(4)
=============================================================================
