---------------------------- MODULE SlicePacking ----------------------------
(***************************************************************************)
(* The encoding of sched-blame slices: the waiting bitmap that             *)
(* set_waiting keeps in several words, the packed slice that pack_slice    *)
(* makes of it (bpf/sched_blame.c), and the decoder in user space          *)
(* (core/autotracing/sched_blame.go), which finds targets by its own       *)
(* arithmetic on bits.                                                     *)
(*                                                                         *)
(* A machine word is the set of the positions of its one-bits.             *)
(***************************************************************************)
EXTENDS Integers, FiniteSets, FiniteSetsExt

CONSTANTS
    CssBits,      \* CSS_ID_BITS: 12
    BaseBits,     \* BASE_BITMAP_BITS: 20
    DurBits,      \* bits of a duration: 32
    WordBits,     \* bits of an extra word: 64
    ExtraWords,   \* EXTRA_BITMAP_U64_COUNT
    ClockBits,    \* bits of the clock, more than those of a duration
    MaxBatch      \* MAX_SLICES_PER_BATCH: 128

ASSUME Widths ==
    /\ CssBits \in Nat \ {0} /\ BaseBits \in Nat \ {0} /\ DurBits \in Nat \ {0}
    /\ WordBits \in Nat \ {0} /\ ExtraWords \in Nat
    /\ ClockBits \in Nat /\ ClockBits >= DurBits
    /\ MaxBatch \in Nat \ {0}

MaxTargets == BaseBits + WordBits * ExtraWords
Targets == 0..(MaxTargets - 1)

VARIABLES
    words,      \* waiting_target_bitmap: word 0 is bitmap_base, the others bitmap_extra
    waiting,    \* the targets that wait
    count,      \* slices in the batch
    slice,      \* the last slice packed
    truth       \* what it stands for

sliceVars == <<words, waiting, count, slice, truth>>

NoSlice == [base |-> {}, extra |-> [w \in 1..ExtraWords |-> {}]]
NoTruth == [css |-> {}, duration |-> {}, targets |-> {}]

SliceInit ==
    /\ words = [w \in 0..ExtraWords |-> {}] /\ waiting = {} /\ count = 0
    /\ slice = NoSlice /\ truth = NoTruth

-----------------------------------------------------------------------------
(* The BPF side.                                                           *)

\* set_waiting finds the word by subtraction.
WordOf(d) == IF d < BaseBits THEN 0 ELSE 1 + ((d - BaseBits) \div WordBits)

BitOf(d) == IF d < BaseBits THEN d ELSE (d - BaseBits) % WordBits

SetWaiting(d) ==
    /\ \/ /\ words' = [words EXCEPT ![WordOf(d)] = @ \cup {BitOf(d)}]
          /\ waiting' = waiting \cup {d}
       \/ /\ words' = [words EXCEPT ![WordOf(d)] = @ \ {BitOf(d)}]
          /\ waiting' = waiting \ {d}
    /\ UNCHANGED <<count, slice, truth>>

Shifted(bits, by) == {b + by : b \in bits}

\* Mutant of Clamped: the bits above are cut off.
ClampedCut(duration) == duration \cap (0..(DurBits - 1))

\* pack_slice: a duration that is too long becomes the longest.
Clamped(duration) ==
    IF \E b \in duration : b >= DurBits THEN 0..(DurBits - 1) ELSE duration

Pack(duration, css) ==
    [base  |-> Shifted(Clamped(duration), CssBits + BaseBits)
               \cup Shifted(words[0] \cap (0..(BaseBits - 1)), CssBits) \cup css,
     extra |-> [w \in 1..ExtraWords |-> words[w]]]

\* on_sched_switch packs a slice; append_sampled_slice empties a full batch.
PackOnSwitch(duration, css) ==
    /\ slice' = Pack(duration, css)
    /\ truth' = [css |-> css, duration |-> duration, targets |-> waiting]
    /\ count' = IF count + 1 >= MaxBatch THEN 0 ELSE count + 1
    /\ UNCHANGED <<words, waiting>>

\* output_slice_batch: the record has room for one of these numbers of slices.
Classes == {1, 2, 4, 8, 16, 32, 64, 128}

OutputCapacity(n) == Min({k \in Classes : n <= k})

SliceNext ==
    \/ \E d \in Targets : SetWaiting(d)
    \/ \E duration \in SUBSET (0..(ClockBits - 1)), css \in SUBSET (0..(CssBits - 1)) :
          PackOnSwitch(duration, css)

SliceSpec == SliceInit /\ [][SliceNext]_sliceVars

-----------------------------------------------------------------------------
(* The decoder.                                                            *)

\* schedBlameUnpackSliceBase
UnpackedCss == slice.base \cap (0..(CssBits - 1))
UnpackedDuration == {b \in 0..(DurBits - 1) : b + CssBits + BaseBits \in slice.base}

\* schedBlameSliceHasTarget
HasTarget(d) ==
    IF d < BaseBits THEN CssBits + d \in slice.base
    ELSE (d - BaseBits) % WordBits \in slice.extra[1 + (d - BaseBits) \div WordBits]

\* The targets that handlePackedSlice charges, bit by bit.
Enumerated ==
    {b \in 0..(BaseBits - 1) : b + CssBits \in slice.base}
    \cup {BaseBits + WordBits * (p[1] - 1) + p[2] :
            p \in {q \in (1..ExtraWords) \X (0..(WordBits - 1)) : q[2] \in slice.extra[q[1]]}}

\* schedBlameBatchCapacity: the power of two by the length of n - 1 in bits.
Capacity(n) == 2 ^ Min({b \in 0..30 : n - 1 < 2 ^ b})

-----------------------------------------------------------------------------
\* User space finds in a slice the CSS id, the duration, as far as it fits,
\* and the targets that waited when it was packed: neither a wide duration nor
\* a bit of one part reaches another, and the two sides place a target in the
\* same word.
DecodesTruth ==
    /\ UnpackedCss = truth.css
    /\ UnpackedDuration = (IF \E b \in truth.duration : b >= DurBits
                           THEN 0..(DurBits - 1) ELSE truth.duration)
    /\ \A d \in Targets : HasTarget(d) <=> d \in truth.targets

\* handlePackedSlice, which walks the one-bits, and schedBlameSliceHasTarget,
\* which looks at one, see the same targets.
EnumerationAgrees == Enumerated = {d \in Targets : HasTarget(d)}

\* A record has the size that the decoder computes from the number of slices.
SizesAgree == \A n \in {count} \ {0} : OutputCapacity(n) = Capacity(n) /\ n <= OutputCapacity(n)

\* A slice that is read back from a record says what was true when it was
\* packed, whichever way the reader looks at it.
SlicesReadBack == DecodesTruth /\ EnumerationAgrees /\ SizesAgree
=============================================================================
