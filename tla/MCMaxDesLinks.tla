---------------------------- MODULE MCMaxDesLinks ----------------------------
(* Chips of the maxim-serdes drivers with serializers that all power up at *)
(* address 0. Versions: 0 and 1 are GMSL2 at 3 and 6 Gbps, 2 is GMSL3.     *)
EXTENDS MaxDesLinks

Scene(n, versions, single, rates, pocs) ==
    [links |-> 0 .. n - 1, enabled |-> 0 .. n - 1, versions |-> versions,
     single |-> single, fix |-> single, atr |-> n > 1, rate |-> rates,
     powerUp |-> [l \in 0 .. n - 1 |-> 0], alias |-> [l \in 0 .. n - 1 |-> l + 1],
     pocs |-> pocs]

R2(a, b) == [l \in 0 .. 1 |-> IF l = 0 THEN a ELSE b]
R3(a, b, c) == [l \in 0 .. 2 |-> IF l = 0 THEN a ELSE IF l = 1 THEN b ELSE c]

MCScenes ==
    { Scene(2, {0, 1}, TRUE, R2(1, 1), {0, 1}),          \* MAX9296A
      Scene(2, {0, 1}, TRUE, R2(1, 0), {1}),             \* one slower camera
      Scene(2, {0, 1}, TRUE, R2(NoSer, 0), {}),          \* nothing on link 0
      Scene(2, {0, 1, 2}, FALSE, R2(2, 1), {0, 1}),      \* MAX96792A
      Scene(3, {0, 1}, FALSE, R3(1, 0, 1), {0, 2}),      \* MAX96724
      [Scene(3, {0, 1}, FALSE, R3(0, 1, 0), {1})
         EXCEPT !.enabled = {0, 2}],
      Scene(1, {0, 1}, FALSE, [l \in {0} |-> 0], {0}) }  \* MAX96714
=============================================================================
