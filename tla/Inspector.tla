------------------------------ MODULE Inspector ------------------------------
(* The model inspector (sabah/core/model_inspector.py): the tensor table of *)
(* a GGUF set becomes a ModelProfile, or a reason not to accelerate it.    *)
(* The shards that are on disk are read one after another; then every      *)
(* tensor whose name is an expert tensor's is checked for the property the *)
(* streaming rests on, that an expert is a contiguous range of whole       *)
(* quantisation blocks; what is left is divided in fixed and lookup bytes. *)
EXTENDS Integers, Sequences, FiniteSets

CONSTANT Disks    \* the GGUF sets that may be found

VARIABLES gguf,    \* the set on disk
          read,    \* the shards opened so far, a prefix of the list found
          table,   \* the tensors of those shards, by name
          profile  \* the ModelProfile, or NoProfile before it is returned

inspectVars == <<gguf, read, table, profile>>

NoProfile == [supported |-> "not yet"]

(* elements and bytes of a block, and the types the kernels decode: the    *)
(* geometry table is wider than the runtime's (F16 has no kernel).         *)
QuantBlock == [F16 |-> [n |-> 1, bytes |-> 2], Q8_0 |-> [n |-> 32, bytes |-> 34],
               Q4_K |-> [n |-> 256, bytes |-> 144]]
RuntimeQuants == {"Q8_0", "Q4_K"}

Roles == {"gate", "up", "down"}

(* A disk is the GGUF set: its architecture, the counts its first shard    *)
(* declares, and its shards.  A shard that is not there is in the set's    *)
(* numbering all the same.  A tensor has a name: the block and role of an  *)
(* expert tensor, or another name; ne is its shape, fastest axis first.    *)
Tensor == [kind : STRING, block : Nat, qtype : STRING, ne : [1..3 -> Nat],
           bytes : Nat, shard : Nat]

IsGguf(d) ==
  /\ d.nExperts \in Nat /\ d.nUsed \in Nat /\ d.nBlocks \in Nat
  /\ d.shards \in Seq([exists : BOOLEAN, tensors : SUBSET Tensor])
  /\ \A i \in DOMAIN d.shards : IsFiniteSet(d.shards[i].tensors)

ASSUME DisksAssumption == \A d \in Disks : IsGguf(d)

ExpertName(t) == t.kind \in Roles
TensorName(t) == <<t.kind, t.block>>

(* _shard_paths: the shards found, by their place in the set's numbering,  *)
(* in which they are read; the path given if none is.                      *)
ShardPaths(d) == {i \in DOMAIN d.shards : d.shards[i].exists}
Before(d, i)  == {j \in ShardPaths(d) : j < i}
ShardCount    == Cardinality(ShardPaths(gguf))

InspectInit ==
  /\ gguf \in Disks
  /\ ShardPaths(gguf) # {}
  /\ read = 0
  /\ table = {}
  /\ profile = NoProfile

(* One GGUFReader: its tensors enter the table under their names, with the *)
(* number of the shard among those found.                                  *)
Numbered(i) == {[t EXCEPT !.shard = read] : t \in gguf.shards[i].tensors}

ReadShard ==
  /\ \E i \in ShardPaths(gguf) :
       /\ Cardinality(Before(gguf, i)) = read
       /\ LET names == {TensorName(t) : t \in Numbered(i)}
          IN  table' = {t \in table : TensorName(t) \notin names} \union Numbered(i)
  /\ read' = read + 1
  /\ UNCHANGED <<gguf, profile>>

AllRead == read = ShardCount /\ profile = NoProfile

(* An architecture that is not registered, or a model that declares no     *)
(* experts, is turned away before its tensors are looked at.               *)
Refused(why) ==
  profile' = [supported |-> FALSE, why |-> why, contiguous |-> FALSE, experts |-> {},
              bank |-> 0, perToken |-> 0, perBlock |-> <<>>, fixed |-> 0, lookup |-> 0]

TurnAway ==
  /\ AllRead
  /\ \/ gguf.arch # "qwen4exp" /\ Refused("architecture")
     \/ gguf.arch = "qwen4exp" /\ gguf.nExperts * gguf.nUsed * gguf.nBlocks = 0
        /\ Refused("not MoE")
  /\ UNCHANGED <<gguf, read, table>>

(* The checks before a slice is measured: the expert axis is the slowest,  *)
(* the type is known and the runtime decodes it.                           *)
Decodable(t) ==
  /\ t.ne[3] = gguf.nExperts
  /\ t.qtype \in DOMAIN QuantBlock
  /\ t.qtype \in RuntimeQuants

Block(t) == QuantBlock[t.qtype]
PerExpert(t) == ((t.ne[1] * t.ne[2]) \div Block(t).n) * Block(t).bytes

(* The slice of an expert is whole blocks, and the slices are the tensor.  *)
SliceOk(t) ==
  /\ (t.ne[1] * t.ne[2]) % Block(t).n = 0
  /\ t.ne[1] % Block(t).n = 0
  /\ PerExpert(t) * gguf.nExperts = t.bytes

(* Every role of a tensor's name that matches, whether its slice is good   *)
(* or not, is in the list of expert tensors once it is decodable.          *)
ExpInfo == {t \in table : ExpertName(t) /\ Decodable(t)}

(* Not this: a tensor that is skipped as undecodable does not count.       *)
AllContigDecoded == \A t \in ExpInfo : SliceOk(t)
AllContig == \A t \in table : ExpertName(t) => Decodable(t) /\ SliceOk(t)

(* The sum of a function's values, counted.                                *)
UnitsOf(f) == UNION {{x} \X (1..f[x]) : x \in DOMAIN f}
SumOf(f) == Cardinality(UnitsOf(f))

BytesOf(S)  == SumOf([t \in S |-> t.bytes])
SlicesOf(S) == SumOf([t \in S |-> PerExpert(t)])
LookupName(t) == t.kind \in {"token_embd", "per_layer_token_embd"}

(* blk_cost: a block costs the slices of its expert tensors.               *)
BlockCost(b) == SlicesOf({t \in ExpInfo : t.block = b})
BlocksSeen == {t.block : t \in ExpInfo}
PerBlock == [b \in BlocksSeen |-> BlockCost(b)]
PerToken == SumOf(PerBlock) * gguf.nUsed

(* What is not an expert tensor is read on every token (fixed) or a row at *)
(* a time (lookup).                                                        *)
Fixed  == {t \in table \ ExpInfo : ~LookupName(t)}
Looked == {t \in table \ ExpInfo : LookupName(t)}

Profiled ==
  /\ AllRead
  /\ gguf.arch = "qwen4exp" /\ gguf.nExperts * gguf.nUsed * gguf.nBlocks # 0
  /\ LET contiguous == AllContig /\ ExpInfo # {}
     IN profile' = [supported |-> contiguous,
                    why |-> IF contiguous THEN "verified" ELSE "not contiguous",
                    contiguous |-> contiguous, experts |-> ExpInfo,
                    bank |-> BytesOf(ExpInfo), perToken |-> PerToken, perBlock |-> PerBlock,
                    fixed |-> BytesOf(Fixed), lookup |-> BytesOf(Looked)]
  /\ UNCHANGED <<gguf, read, table>>

InspectNext == ReadShard \/ TurnAway \/ Profiled

InspectSpec == InspectInit /\ [][InspectNext]_inspectVars

-----------------------------------------------------------------------------
InspectDone == profile # NoProfile
OnDisk == UNION {gguf.shards[i].tensors : i \in ShardPaths(gguf)}

InspectTypeOK ==
  /\ read \in 0..ShardCount
  /\ \A t \in table : t.shard \in 0..read - 1
  /\ InspectDone => profile.supported \in BOOLEAN /\ profile.bank \in Nat /\ profile.fixed \in Nat

(* The tensors of a name in the shards found are one tensor.               *)
OneOfAName(d) ==
  \A i, j \in ShardPaths(d) : \A t \in d.shards[i].tensors, u \in d.shards[j].tensors :
    TensorName(t) = TensorName(u) => t = u

(* A model the inspector supports can be streamed: each tensor of the set  *)
(* that holds experts is one the kernels decode, and expert e is the bytes *)
(* from e * slice to (e + 1) * slice, whole blocks of whole rows.          *)
(* (core/model_inspector.py:248-291)                                       *)
SupportedIsSliceable ==
  InspectDone /\ profile.supported = TRUE =>
    \A t \in OnDisk : t.kind \in Roles =>
      /\ t.qtype \in {"Q8_0", "Q4_K"}
      /\ t.ne[1] % QuantBlock[t.qtype].n = 0
      /\ t.bytes = gguf.nExperts * t.ne[2]
                    * (t.ne[1] \div QuantBlock[t.qtype].n) * QuantBlock[t.qtype].bytes

(* Every byte of the set is an expert's, fixed or looked up, and is one of *)
(* them: what the planner places in RAM, in VRAM and on disk adds up to    *)
(* the tensors, also for a set that is refused for its layout.             *)
(* (core/model_inspector.py:293-313)                                       *)
BytesAreSplit ==
  InspectDone /\ profile.why \in {"verified", "not contiguous"} =>
    profile.bank + profile.fixed + profile.lookup = BytesOf(table)

(* What the planner takes for the size of a block (a slice of each of its  *)
(* tensors times the experts) is what the blocks of the bank hold.         *)
(* (core/model_inspector.py:287-291, planner/planner.py:183)               *)
BlocksAreTheBank ==
  InspectDone /\ profile.supported = TRUE =>
    profile.bank = gguf.nExperts * SumOf(profile.perBlock)

(* What a supported profile promises to the runtime and the planner         *)
(* (model_inspector.py:191-323).                                            *)
ProfileIsTrue ==
  /\ InspectTypeOK
  /\ SupportedIsSliceable
  /\ BytesAreSplit
  /\ BlocksAreTheBank
=============================================================================
