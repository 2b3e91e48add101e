----------------------------- MODULE ExpertBank -----------------------------
(***************************************************************************)
(* ExpertBank of runtime/expert_bank.py: the backing store of the experts. *)
(* A slice comes from pinned RAM (a warm block), from a copy of the bank   *)
(* in RAM, or from the file by a seek and a read on a handle that every    *)
(* thread shares.  slice holds the bank's lock over both steps; load_warm, *)
(* which reads a whole tensor sequentially through the same handle, holds  *)
(* nothing.                                                                *)
(*                                                                         *)
(* The bytes of an expert's slice are the piece <<key, expert>> itself;    *)
(* all tensors are taken to lie in one shard, hence on one handle.         *)
(***************************************************************************)
EXTENDS Integers, Sequences, FiniteSets, Functions

CONSTANTS
  BankBlock, BankRole,   \* blocks of the model, roles of an expert's slices
  BankExperts,           \* n_experts
  BankReader,            \* threads that call slice
  LoadsLive,             \* may load_warm run beside readers?
  BankNil

BankKey == BankBlock \X BankRole
KeysOf(blocks) == blocks \X BankRole
Piece == BankKey \X (0..BankExperts - 1)

ASSUME BankAssumption ==
  /\ BankExperts \in Nat \ {0} /\ LoadsLive \in BOOLEAN
  /\ BankNil \notin BankReader \cup BankKey \cup Piece

VARIABLES
  bankState,             \* "none", "opening", "open", "raised", "closed"
  bankBlocks, bankMode,
  warmWanted,            \* self.warm_blocks
  ramKeys,               \* keys of self._ram
  warmOf,                \* self._warm: key -> pieces read into its buffers
  pinnedBufs,            \* self._pinned_ptrs
  filePos,               \* the handle's position: a piece, or elsewhere
  bankLock,              \* holder of self._lock
  slicePc, sliceOf, sliceGot,          \* of each reader
  loading, loadRest, loadKey, loadBufs,  \* the load in progress
  sliced                 \* has any reader started?

bankFile == <<bankState, bankBlocks, bankMode, warmWanted>>
bankMem  == <<ramKeys, warmOf, pinnedBufs>>
bankReaders == <<slicePc, sliceOf, sliceGot, sliced>>
bankLoad == <<loading, loadRest, loadKey, loadBufs>>
bankVars == <<bankFile, bankMem, filePos, bankLock, bankReaders, bankLoad>>

(* Where a read of one expert's bytes leaves the handle.                   *)
AfterRead(p) == IF p # BankNil /\ p[2] + 1 < BankExperts
                THEN <<p[1], p[2] + 1>> ELSE BankNil

-----------------------------------------------------------------------------
(* Construction and loading.                                               *)

(* load_warm's skip: tensors already pinned or copied, unknown blocks.     *)
StillCold(blocks) == KeysOf(blocks \cap bankBlocks) \ (ramKeys \cup DOMAIN warmOf)

OpenBank(keep, warm, mode) ==
  /\ bankState = "none"
  /\ bankState' = "opening" /\ bankBlocks' = keep
  /\ bankMode' = mode /\ warmWanted' = warm
  /\ loading' = mode
  /\ loadRest' = IF mode = "ram" THEN KeysOf(keep) ELSE {}
  /\ UNCHANGED <<bankMem, filePos, bankLock, bankReaders, loadKey, loadBufs>>

(* _load_ram for one tensor; nobody else has the bank yet.                 *)
LoadRam(k) ==
  /\ loading = "ram" /\ k \in loadRest
  /\ loadRest' = loadRest \ {k}
  /\ ramKeys' = ramKeys \cup {k} /\ filePos' = BankNil
  /\ UNCHANGED <<bankFile, warmOf, pinnedBufs, bankLock, bankReaders,
                 loading, loadKey, loadBufs>>

(* The end of __init__, with the warm tier its caller asked for.           *)
Constructed ==
  /\ bankState = "opening" /\ loading \in {"ram", "mmap"} /\ loadRest = {}
  /\ IF warmWanted = {}
     THEN bankState' = "open" /\ loading' = "no" /\ UNCHANGED loadRest
     ELSE loading' = "warm" /\ loadRest' = StillCold(warmWanted) /\ UNCHANGED bankState
  /\ UNCHANGED <<bankBlocks, bankMode, warmWanted, bankMem, filePos, bankLock,
                 bankReaders, loadKey, loadBufs>>

(* blocks or self.warm_blocks or self.blocks *)
Asked(blocks) ==
  IF blocks # {} THEN blocks ELSE IF warmWanted # {} THEN warmWanted ELSE bankBlocks

LoadWarm(blocks) ==
  /\ bankState = "open" /\ loading = "no" /\ (sliced => LoadsLive)
  /\ loading' = "warm" /\ loadRest' = StillCold(Asked(blocks))
  /\ UNCHANGED <<bankFile, bankMem, filePos, bankLock, bankReaders, loadKey, loadBufs>>

WarmSeek(k) ==
  /\ loading = "warm" /\ loadKey = BankNil /\ k \in loadRest
  /\ loadKey' = k /\ loadBufs' = <<>> /\ filePos' = <<k, 0>>
  /\ UNCHANGED <<bankFile, bankMem, bankLock, bankReaders, loading, loadRest>>

WarmRead ==
  /\ loading = "warm" /\ loadKey # BankNil /\ Len(loadBufs) < BankExperts
  /\ pinnedBufs' = pinnedBufs \cup {<<loadKey, Len(loadBufs)>>}
  /\ loadBufs' = Append(loadBufs, filePos) /\ filePos' = AfterRead(filePos)
  /\ UNCHANGED <<bankFile, ramKeys, warmOf, bankLock, bankReaders, loading,
                 loadRest, loadKey>>

WarmKeep ==
  /\ loading = "warm" /\ loadKey # BankNil /\ Len(loadBufs) = BankExperts
  /\ warmOf' = [k \in DOMAIN warmOf \cup {loadKey} |->
                  IF k = loadKey THEN loadBufs ELSE warmOf[k]]
  /\ loadRest' = loadRest \ {loadKey} /\ loadKey' = BankNil /\ loadBufs' = <<>>
  /\ UNCHANGED <<bankFile, ramKeys, pinnedBufs, filePos, bankLock, bankReaders, loading>>

WarmReturns ==
  /\ loading = "warm" /\ loadKey = BankNil /\ loadRest = {}
  /\ loading' = "no" /\ bankState' = "open"
  /\ UNCHANGED <<bankBlocks, bankMode, warmWanted, bankMem, filePos, bankLock,
                 bankReaders, loadRest, loadKey, loadBufs>>

(* A short read, or pinned memory refused.  Out of __init__ it takes the   *)
(* bank with it; out of load_warm it leaves the bank to its owner, with    *)
(* the buffers pinned so far on the list close frees.                      *)
LoadRaises ==
  /\ \/ loading = "ram" /\ loadRest # {}
     \/ loading = "warm" /\ loadKey # BankNil /\ Len(loadBufs) < BankExperts
  /\ loading' = "no" /\ loadRest' = {} /\ loadKey' = BankNil /\ loadBufs' = <<>>
  /\ bankState' = IF bankState = "opening" THEN "raised" ELSE bankState
  /\ UNCHANGED <<bankBlocks, bankMode, warmWanted, bankMem, filePos, bankLock, bankReaders>>

-----------------------------------------------------------------------------
(* Readers.                                                                *)

(* The bank is handed to readers when loads are over, unless LoadsLive.    *)
SliceCall(r, p) ==
  /\ bankState = "open" /\ (loading = "no" \/ LoadsLive)
  /\ slicePc[r] = "idle" /\ p[1] \in KeysOf(bankBlocks)
  /\ slicePc' = [slicePc EXCEPT ![r] = "lock"]
  /\ sliceOf' = [sliceOf EXCEPT ![r] = p] /\ sliced' = TRUE
  /\ UNCHANGED <<bankFile, bankMem, filePos, bankLock, sliceGot, bankLoad>>

(* Mutant of SliceEnter: slice takes no lock.                              *)
SliceEnterUnlocked(r) ==
  /\ slicePc[r] = "lock"
  /\ bankLock' = r /\ slicePc' = [slicePc EXCEPT ![r] = "look"]
  /\ UNCHANGED <<bankFile, bankMem, filePos, sliceOf, sliceGot, sliced, bankLoad>>

SliceEnter(r) ==
  /\ slicePc[r] = "lock" /\ bankLock = BankNil
  /\ bankLock' = r /\ slicePc' = [slicePc EXCEPT ![r] = "look"]
  /\ UNCHANGED <<bankFile, bankMem, filePos, sliceOf, sliceGot, sliced, bankLoad>>

(* Mutant of SliceReturn: the lock is left held.                           *)
ReturnLocked(r, bytes) ==
  /\ UNCHANGED bankLock /\ slicePc' = [slicePc EXCEPT ![r] = "got"]
  /\ sliceGot' = [sliceGot EXCEPT ![r] = bytes]

SliceReturn(r, bytes) ==
  /\ bankLock' = BankNil /\ slicePc' = [slicePc EXCEPT ![r] = "got"]
  /\ sliceGot' = [sliceGot EXCEPT ![r] = bytes]

SliceLook(r) ==
  /\ slicePc[r] = "look"
  /\ LET p == sliceOf[r] IN
     \/ /\ p[1] \in DOMAIN warmOf
        /\ SliceReturn(r, warmOf[p[1]][p[2] + 1]) /\ UNCHANGED filePos
     \/ /\ p[1] \notin DOMAIN warmOf /\ bankMode = "ram"
        /\ SliceReturn(r, p) /\ UNCHANGED filePos
     \/ /\ p[1] \notin DOMAIN warmOf /\ bankMode = "mmap"
        /\ filePos' = p /\ slicePc' = [slicePc EXCEPT ![r] = "read"]
        /\ UNCHANGED <<bankLock, sliceGot>>
  /\ UNCHANGED <<bankFile, bankMem, sliceOf, sliced, bankLoad>>

SliceRead(r) ==
  /\ slicePc[r] = "read"
  /\ SliceReturn(r, filePos) /\ filePos' = AfterRead(filePos)
  /\ UNCHANGED <<bankFile, bankMem, sliceOf, sliced, bankLoad>>

SliceForgotten(r) ==
  /\ slicePc' = [slicePc EXCEPT ![r] = "idle"]
  /\ sliceOf' = [sliceOf EXCEPT ![r] = BankNil]
  /\ sliceGot' = [sliceGot EXCEPT ![r] = BankNil]

(* A short read: IOError, and the with statement releases the lock.        *)
SliceRaises(r) ==
  /\ slicePc[r] = "read"
  /\ bankLock' = BankNil /\ SliceForgotten(r)
  /\ UNCHANGED <<bankFile, bankMem, filePos, sliced, bankLoad>>

(* The caller has copied the slice it was given.                           *)
SliceUsed(r) ==
  /\ slicePc[r] = "got" /\ SliceForgotten(r)
  /\ UNCHANGED <<bankFile, bankMem, filePos, bankLock, sliced, bankLoad>>

(* Owners close a bank (often by leaving a with statement) when its users  *)
(* are done.  _warm keeps its views.                                       *)
CloseBank ==
  /\ bankState = "open" /\ loading = "no" /\ bankLock = BankNil
  /\ \A r \in BankReader : slicePc[r] = "idle"
  /\ bankState' = "closed" /\ pinnedBufs' = {} /\ ramKeys' = {} /\ filePos' = BankNil
  /\ UNCHANGED <<bankBlocks, bankMode, warmWanted, warmOf, bankLock, bankReaders, bankLoad>>

BankInit ==
  /\ bankState = "none" /\ bankBlocks = {} /\ bankMode = "mmap" /\ warmWanted = {}
  /\ ramKeys = {} /\ warmOf = <<>> /\ pinnedBufs = {}
  /\ filePos = BankNil /\ bankLock = BankNil
  /\ slicePc = [r \in BankReader |-> "idle"]
  /\ sliceOf = [r \in BankReader |-> BankNil] /\ sliceGot = sliceOf
  /\ loading = "no" /\ loadRest = {} /\ loadKey = BankNil /\ loadBufs = <<>>
  /\ sliced = FALSE

Slicing(r) == SliceEnter(r) \/ SliceLook(r) \/ SliceRead(r) \/ SliceRaises(r)

BankNext ==
  \/ \E keep, warm \in SUBSET BankBlock, mode \in {"mmap", "ram"} : OpenBank(keep, warm, mode)
  \/ \E k \in BankKey : LoadRam(k) \/ WarmSeek(k)
  \/ \E blocks \in SUBSET BankBlock : LoadWarm(blocks)
  \/ Constructed \/ WarmRead \/ WarmKeep \/ WarmReturns \/ LoadRaises \/ CloseBank
  \/ \E r \in BankReader :
       Slicing(r) \/ SliceUsed(r) \/ \E p \in Piece : SliceCall(r, p)

BankFair == \A r \in BankReader : WF_bankVars(SliceLook(r) \/ SliceRead(r) \/ SliceRaises(r))

BankSpec == BankInit /\ [][BankNext]_bankVars /\ BankFair

-----------------------------------------------------------------------------
BankTypeOK ==
  /\ bankState \in {"none", "opening", "open", "raised", "closed"}
  /\ bankBlocks \in SUBSET BankBlock /\ bankMode \in {"mmap", "ram"}
  /\ warmWanted \in SUBSET BankBlock
  /\ ramKeys \in SUBSET BankKey /\ DOMAIN warmOf \subseteq BankKey
  /\ pinnedBufs \in SUBSET Piece
  /\ filePos \in Piece \cup {BankNil} /\ bankLock \in BankReader \cup {BankNil}
  /\ slicePc \in [BankReader -> {"idle", "lock", "look", "read", "got"}]
  /\ sliceOf \in [BankReader -> Piece \cup {BankNil}]
  /\ loading \in {"no", "mmap", "ram", "warm"}
  /\ loadRest \in SUBSET BankKey /\ loadKey \in BankKey \cup {BankNil}
  /\ loadBufs \in Seq(Piece \cup {BankNil}) /\ sliced \in BOOLEAN

(* A slice is "exactly one expert's weight slice" (expert_bank.py:148),    *)
(* from wherever it came and whoever else uses the handle: the lock keeps  *)
(* the seek and the read of slice together.                                *)
SliceIsItsExpert == \A r \in BankReader : slicePc[r] = "got" => sliceGot[r] = sliceOf[r]

(* A warm block answers every later slice, so each of its buffers holds    *)
(* its own expert and stays pinned until close: load_warm's sequential     *)
(* reads were not moved by anybody's seek.                                 *)
WarmHoldsItsExperts ==
  \A k \in DOMAIN warmOf : \A e \in 0..BankExperts - 1 :
    /\ warmOf[k][e + 1] = <<k, e>>
    /\ bankState \in {"opening", "open"} => <<k, e>> \in pinnedBufs

(* A tensor copied into RAM is not pinned as well: the two budgets are     *)
(* never both paid for one block.                                          *)
PinnedOrCopied == \A p \in pinnedBufs : p[1] \notin ramKeys

(* Whatever slices and loads met, errors included, a bank its owner closed *)
(* has no pinned memory left.                                              *)
ClosedIsUnpinned == bankState = "closed" => pinnedBufs = {} /\ bankLock = BankNil

(* The bank's lock is released on every path out of slice.                 *)
LockIsReleased == bankLock # BankNil ~> bankLock = BankNil
(* The bank serves what was asked for: an expert's own bytes from whichever *)
(* of the copies, under two readers and a warm load, and nothing pinned is  *)
(* lost or left (expert_bank.py:147-267).                                   *)
BankServes ==
  /\ BankTypeOK
  /\ SliceIsItsExpert
  /\ WarmHoldsItsExperts
  /\ PinnedOrCopied
  /\ ClosedIsUnpinned
=============================================================================
