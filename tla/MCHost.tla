------------------------------- MODULE MCHost -------------------------------
(* The parts of a process that runs a model from Python, each on a small    *)
(* instance: the bank it reads experts from, the tensors it pins for good,  *)
(* one token's blocks on the device, the rows of the lookup table, and the  *)
(* server that puts such a process behind the OpenAI API.  They share       *)
(* nothing that they write: an execution runs one part (hostPart).          *)
EXTENDS ExpertBank, FixedPath, PinnedPool, Executor, Ngram, Proxy

VARIABLE hostPart

hostVars == <<hostPart, bankVars, fixVars, pinVars, exVars, ngramVars, proxyVars>>

(* Sizes of the tensors of the fixed path, in units of the budgets.         *)
Tables == {<<>>, <<2>>, <<1, 3>>, <<2, 3, 2>>, <<1, 4, 2>>}

(* The plan of FixedPath is what the loop of plan() keeps, one tensor after *)
(* another in the order of tensors().                                       *)
Greedy(table, budget) ==
  FoldLeft(LAMBDA kept, t : IF SizeOf(table, kept) + table[t] <= budget
                            THEN kept \cup {t} ELSE kept,
           {}, SetToSortSeq(DOMAIN table, LAMBDA s, t : Ahead(table, s, t)))

ASSUME PlanAssumption ==
  \A table \in UNION {[1..n -> 1..3] : n \in 0..3} : \A budget \in 0..7 :
    Pinned(table, budget) = Greedy(table, budget)

(* Rows a step may want: alone, side by side, and at the table's end.       *)
RowSets == {{0}, {1, 2}, {2, 5}, {0, 4, 5}, {3, 4}}

BankRuns  == hostPart = "bank"  /\ BankNext
FixRuns   == hostPart = "fixed path" /\ FixNext
PinRuns   == hostPart = "pinned memory" /\ PinNext
ExRuns    == hostPart = "blocks" /\ ExNext
NgramRuns == hostPart = "rows"  /\ NgramNext
ProxyRuns == hostPart = "proxy" /\ ProxyNext

HostInit ==
  /\ hostPart \in {"bank", "fixed path", "pinned memory", "blocks", "rows", "proxy"}
  /\ BankInit /\ FixInit /\ PinInit /\ ExInit /\ NgramInit /\ ProxyInit

HostNext ==
  /\ UNCHANGED hostPart
  /\ \/ BankRuns /\ UNCHANGED <<fixVars, pinVars, exVars, ngramVars, proxyVars>>
     \/ FixRuns /\ UNCHANGED <<bankVars, pinVars, exVars, ngramVars, proxyVars>>
     \/ PinRuns /\ UNCHANGED <<bankVars, fixVars, exVars, ngramVars, proxyVars>>
     \/ ExRuns /\ UNCHANGED <<bankVars, fixVars, pinVars, ngramVars, proxyVars>>
     \/ NgramRuns /\ UNCHANGED <<bankVars, fixVars, pinVars, exVars, proxyVars>>
     \/ ProxyRuns /\ UNCHANGED <<bankVars, fixVars, pinVars, exVars, ngramVars>>

(* Each part has the fairness its own specification states.                 *)
HostFair ==
  /\ \A r \in BankReader :
       WF_bankVars(hostPart = "bank" /\ (SliceLook(r) \/ SliceRead(r) \/ SliceRaises(r)))
  /\ WF_proxyVars(hostPart = "proxy" /\ squatter /\ BackendDies)
  /\ WF_proxyVars(hostPart = "proxy" /\ StopBackend)
  /\ WF_proxyVars(hostPart = "proxy" /\ Health)
  /\ \A c \in Client : WF_proxyVars(hostPart = "proxy" /\ Handle(c))

HostSpec == HostInit /\ [][HostNext]_hostVars /\ HostFair
-----------------------------------------------------------------------------
(* Every reader gives the bank's lock back, /health tells what is there,    *)
(* and every request comes to an end.                                       *)
HostAnswers == LockIsReleased /\ HealthTells /\ RequestsEnd

(* The memory a process pins is accounted for, on the device and on the     *)
(* host, and is not read for an owner that gave it back.                    *)
MemoryIsAccounted == FixedIsAccounted /\ PinnedIsOwned
=============================================================================
