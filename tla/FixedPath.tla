----------------------------- MODULE FixedPath -----------------------------
(***************************************************************************)
(* FixedPathResident of runtime/residency.py: the tensors read at every    *)
(* token are copied once into VRAM, largest first, through one pinned      *)
(* staging buffer, up to a budget.  A tensor is its place in the profile's *)
(* table of sizes.                                                         *)
(***************************************************************************)
EXTENDS Integers, Sequences, FiniteSets

CONSTANTS FixTables, FixBudgets, NoBudget   \* tables of sizes, byte budgets

ASSUME FixedPathAssumption ==
  /\ FixTables \subseteq Seq(Nat \ {0}) /\ FixBudgets \subseteq Nat
  /\ NoBudget \notin FixBudgets

VARIABLES
  fixState,       \* "new", "copying", "loaded", "raised", "freed"
  fixTable,
  fixBudget, fixNames,     \* what plan(budget) pins
  fixRest,        \* tensors load has not reached
  fixStage,       \* is the staging buffer allocated?
  fixDev,         \* tensors with device memory
  fixPtrs, fixMissing, resident  \* self._ptrs, self.missing, resident_bytes

fixVars == <<fixState, fixTable, fixBudget, fixNames, fixRest, fixStage, fixDev,
             fixPtrs, fixMissing, resident>>

(* tensors(): largest first; sorted is stable.                             *)
Ahead(table, s, t) == table[s] > table[t] \/ (table[s] = table[t] /\ s < t)
AheadOf(table, ts, t) == {s \in ts : Ahead(table, s, t)}

BytesOf(table, ts) == UNION {{t} \X (1..table[t]) : t \in ts}
SizeOf(table, ts)  == Cardinality(BytesOf(table, ts))

(* plan(budget)["pinned"]: a tensor is kept if it still fits beside those  *)
(* kept ahead of it.                                                       *)
FitsBudget(table, budget, kept, t) == SizeOf(table, AheadOf(table, kept, t)) + table[t] <= budget
IsPlan(table, budget, ts, kept) ==
  \A t \in ts : t \in kept <=> FitsBudget(table, budget, kept, t)
Pinned(table, budget) ==
  CHOOSE kept \in SUBSET DOMAIN table : IsPlan(table, budget, DOMAIN table, kept)

FixLoad(table, budget) ==
  /\ fixState = "new"
  /\ fixState' = "copying" /\ fixTable' = table /\ fixBudget' = budget
  /\ fixNames' = IF budget = NoBudget THEN DOMAIN table ELSE Pinned(table, budget)
  /\ fixRest' = DOMAIN table /\ fixStage' = (table # <<>>)
  /\ UNCHANGED <<fixDev, fixPtrs, fixMissing, resident>>

FixTurn(t) ==
  /\ fixState = "copying" /\ t \in fixRest /\ AheadOf(fixTable, fixRest, t) = {}
  /\ fixRest' = fixRest \ {t}

(* Mutant of FixLeaveOut: a tensor the card has no room for is dropped.    *)
FixDrop(t) ==
  /\ FixTurn(t)
  /\ fixMissing' = IF t \in fixNames THEN fixMissing ELSE fixMissing \cup {t}
  /\ UNCHANGED <<fixState, fixTable, fixBudget, fixNames, fixStage, fixDev, fixPtrs, resident>>

(* Not in the plan, or out of memory on the device.                        *)
FixLeaveOut(t) ==
  /\ FixTurn(t)
  /\ fixMissing' = fixMissing \cup {t}
  /\ UNCHANGED <<fixState, fixTable, fixBudget, fixNames, fixStage, fixDev, fixPtrs, resident>>

FixCopy(t) ==
  /\ FixTurn(t) /\ t \in fixNames
  /\ fixDev' = fixDev \cup {t} /\ fixPtrs' = fixPtrs \cup {t}
  /\ resident' = resident + fixTable[t]
  /\ UNCHANGED <<fixState, fixTable, fixBudget, fixNames, fixStage, fixMissing>>

(* Any other error of the allocation, or of the copy after it, which       *)
(* leaves device memory no field names.  Neither frees the staging buffer. *)
FixRaises(t) ==
  /\ FixTurn(t) /\ t \in fixNames
  /\ fixState' = "raised" /\ fixDev' \in {fixDev, fixDev \cup {t}}
  /\ UNCHANGED <<fixTable, fixBudget, fixNames, fixStage, fixPtrs, fixMissing, resident>>

FixLoaded ==
  /\ fixState = "copying" /\ fixRest = {}
  /\ fixState' = "loaded" /\ fixStage' = FALSE
  /\ UNCHANGED <<fixTable, fixBudget, fixNames, fixRest, fixDev, fixPtrs, fixMissing, resident>>

(* free(), also on the way out after an error; missing keeps its names.    *)
FixFree ==
  /\ fixState \in {"loaded", "raised"}
  /\ fixState' = IF fixState = "loaded" THEN "freed" ELSE "raised"
  /\ fixDev' = fixDev \ fixPtrs /\ fixPtrs' = {} /\ resident' = 0
  /\ UNCHANGED <<fixTable, fixBudget, fixNames, fixRest, fixStage, fixMissing>>

FixInit ==
  /\ fixState = "new" /\ fixTable = <<>> /\ fixBudget = NoBudget /\ fixNames = {}
  /\ fixRest = {} /\ fixStage = FALSE /\ fixDev = {} /\ fixPtrs = {}
  /\ fixMissing = {} /\ resident = 0

FixNext ==
  \/ \E table \in FixTables, b \in FixBudgets \cup {NoBudget} : FixLoad(table, b)
  \/ \E t \in DOMAIN fixTable : FixLeaveOut(t) \/ FixCopy(t) \/ FixRaises(t)
  \/ FixLoaded \/ FixFree

FixSpec == FixInit /\ [][FixNext]_fixVars

-----------------------------------------------------------------------------
FixTypeOK ==
  /\ fixState \in {"new", "copying", "loaded", "raised", "freed"}
  /\ fixNames \subseteq DOMAIN fixTable /\ fixDev \subseteq fixNames
  /\ fixStage \in BOOLEAN /\ resident \in Nat

(* load "does not silently drop a tensor that later code assumes is        *)
(* resident" (residency.py:79): whatever the budget and the card refuse,   *)
(* every tensor has a pointer or is named missing, and never both.         *)
ResidentOrMissing ==
  /\ fixPtrs \cap fixMissing = {}
  /\ fixState = "loaded" => fixPtrs \cup fixMissing = DOMAIN fixTable

(* The budget holds through every outcome, resident_bytes counts exactly   *)
(* the tensors with a pointer, and the plan left nothing out that would    *)
(* still fit.                                                              *)
WithinBudget ==
  /\ resident = SizeOf(fixTable, fixPtrs)
  /\ fixBudget # NoBudget =>
       /\ resident <= fixBudget
       /\ \A t \in DOMAIN fixTable \ fixNames :
            fixTable[t] + SizeOf(fixTable, fixNames) > fixBudget

(* Device memory that free cannot reach exists only after an error.        *)
DeviceIsNamed == fixState # "raised" => fixDev = fixPtrs

(* The fixed path accounts for every tensor and every byte it holds, also   *)
(* after a load that failed half way (residency.py:118-189).                *)
FixedIsAccounted ==
  /\ FixTypeOK
  /\ ResidentOrMissing
  /\ WithinBudget
  /\ DeviceIsNamed
=============================================================================
