-------------------------------- MODULE MCIo --------------------------------
(* The parts under a MUL_MAT_ID call, each on a small instance: the device *)
(* slab, the staging of a miss list, the readahead and the waves of reads  *)
(* over the lanes.  They share nothing that they write, so an execution    *)
(* runs one part (part) and the others stay in their initial states.       *)
EXTENDS Slab, Staging, Readahead, WavePool, SequencesExt

CONSTANTS d1, d2, d3, x1, x2

VARIABLE part

ioVars == <<part, slabVars, stagingVars, raVars, waveVars>>

(* Miss lists that fill three, two and one slots: both sets of buffers are *)
(* used again within a list and across lists.                              *)
To(d, e) == [dst |-> d, expert |-> e]

ThreeTwoOne ==
  {<<To(d1, x1), To(d2, x2), To(d3, x1)>>, <<To(d3, x2), To(d1, x1)>>,
   <<To(d2, x1)>>}

ManyStrides == {1, 2, 3}

(* The merge pass as the loop it is: a range extends the one before it or   *)
(* stands alone.                                                            *)
Absorb(merged, r) ==
  IF merged # <<>> /\ Last(merged).off + Last(merged).size = r.off
  THEN [merged EXCEPT ![Len(merged)].size = @ + r.size]
  ELSE Append(merged, r)

MergePass(S) ==
  ToSet(FoldLeft(Absorb, <<>>, SetToSortSeq(S, LAMBDA r, q : r.off < q.off)))

(* The pieces a slab of six units is cut into at C.                         *)
Pieces(C) ==
  {r \in [off : 0..5, size : 1..6] :
     /\ {r.off, r.off + r.size} \subseteq C
     /\ \A c \in C : c <= r.off \/ r.off + r.size <= c}

(* Slab's Merged is what the loop computes, for every free list there is.   *)
ASSUME MergeAssumption ==
  \A C \in SUBSET (0..6) : \A S \in SUBSET Pieces(C) : Merged(S) = MergePass(S)

SlabRuns    == part = "slab" /\ SlabNext
StagingRuns == part = "staging" /\ StagingNext
RaRuns      == part = "readahead" /\ RaNext
WaveRuns    == part = "waves" /\ WaveNext

IoInit ==
  /\ part \in {"slab", "staging", "readahead", "waves"}
  /\ SlabInit /\ StagingInit /\ RaInit /\ WaveInit

IoNext ==
  /\ UNCHANGED part
  /\ \/ SlabRuns /\ UNCHANGED <<stagingVars, raVars, waveVars>>
     \/ StagingRuns /\ UNCHANGED <<slabVars, raVars, waveVars>>
     \/ RaRuns /\ UNCHANGED <<slabVars, stagingVars, waveVars>>
     \/ WaveRuns /\ UNCHANGED <<slabVars, stagingVars, raVars>>

(* Each part has the fairness its own specification states.                *)
IoFair ==
  /\ WF_stagingVars(part = "staging" /\ Work)
  /\ WF_stagingVars(part = "staging" /\ StagingCopied)
  /\ WF_raVars(part = "readahead" /\ HostStep)
  /\ WF_raVars(part = "readahead" /\ WorkerStep)
  /\ WF_raVars(part = "readahead" /\ RaCopied)
  /\ WF_waveVars(part = "waves" /\ WaveHost)
  /\ \A w \in Worker : WF_waveVars(part = "waves" /\ Lane(w))

IoSpec == IoInit /\ [][IoNext]_ioVars /\ IoFair
-----------------------------------------------------------------------------
(* The kind of value every variable of the four parts holds.                *)
IoTypesOK == SlabTypeOK /\ StagingTypeOK /\ RaTypeOK /\ WaveTypeOK

(* The host is never parked for good: not by a miss list over two staging   *)
(* sets, not by a demand take or the quit of the readahead, not by a wave   *)
(* or a stop of its pool (sabah_rt.cu:1338-1398, 1686, 2005).               *)
Parked          == FillHolds \/ TakeOrQuitHolds \/ WaveHolds
HostIsNotParked == Parked ~> ~Parked
=============================================================================
