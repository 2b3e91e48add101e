----------------------------- MODULE MCPlanner ------------------------------
(* The planner on a model of four unequal blocks (sizes in MB) and on       *)
(* machines around every threshold it tests: no GPU, one that is full, one  *)
(* that takes the hot tier, one that takes the model, and a pair; host RAM  *)
(* from nothing to all of it; bandwidths measured and missing.              *)
EXTENDS Planner

FlashNext(w, s, c) ==
  [supported |-> s, calibrated |-> c, bank |-> 77000, fixed |-> 4830, perToken |-> 1504,
   nBlocks |-> 4, perBlock |-> <<20000, 15000, 25000, 17000>>, context |-> 8192, workload |-> w]

MCModels ==
  {FlashNext("auto", TRUE, TRUE), FlashNext("coding", TRUE, TRUE), FlashNext("auto", TRUE, FALSE)}

Boards == {<<>>, <<4000>>, <<6000>>, <<24000>>, <<24000, 4000>>, <<4000, 4000>>, <<48000, 48000>>}

MCMachines ==
  {[gpus |-> [i \in DOMAIN b |-> [usable |-> b[i], h2d |-> h]],
    h2d |-> s, ram |-> r, ramBw |-> w, storage |-> d] :
     b \in Boards, h \in {0, 128}, s \in {0, 110},
     r \in {1000, 12000, 36000, 60000, 80000}, w \in {0, 30, 600}, d \in {0, 23}}

MCConcurrency == {0, 1, 3, 8}
=============================================================================
