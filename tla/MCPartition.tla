---------------------------- MODULE MCPartition ----------------------------
(***************************************************************************)
(* partition and partition_displays over bounded inputs.  A state is one   *)
(* call of each; a step asks for one more box, or one more decoder.        *)
(***************************************************************************)
EXTENDS Partition

CONSTANTS
  Widths, Heights,   \* bound: the display sizes
  MaxBoxes,          \* bound: the boxes of one display
  MaxDisplays        \* bound: the displays

ASSUME SizesAssumption ==
  Widths \subseteq Nat /\ Heights \subseteq Nat /\ MaxBoxes \in Nat /\ MaxDisplays \in Nat

VARIABLES width, height, count, enabled

partitionVars == <<width, height, count, enabled>>

PartitionInit ==
  /\ width \in Widths
  /\ height \in Heights
  /\ count = 1
  /\ enabled \in SUBSET (0 .. MaxDisplays - 1)

PartitionNext ==
  /\ count < MaxBoxes
  /\ count' = count + 1
  /\ UNCHANGED <<width, height, enabled>>

PartitionSpec == PartitionInit /\ [][PartitionNext]_partitionVars

\* The enabled displays take the decoders in order, without a gap or an overlap,
\* until none is left (the test all_decoders_used of partition.rs); the areas of a
\* display never overlap, whatever their number; and up to sixteen, where the grid
\* chosen has no unused cell, they cover every one of its pixels.
DecodersCover ==
  /\ LET boxes == partition(width, height, count)
     IN  IF count <= 16 THEN CoversOnce(width, height, boxes) ELSE NoOverlap(width, height, boxes)
  /\ CanPartition(enabled, count) =>
       /\ UNION {DecodersOf(enabled, count, d) : d \in enabled} = 0 .. count - 1
       /\ \A d, e \in enabled : d < e =>
            \A i \in DecodersOf(enabled, count, d), j \in DecodersOf(enabled, count, e) : i < j

\* The test partitioning of partition.rs, for every count: each pixel of a display is
\* in exactly one box.  Seventeen boxes violate it: the grid of three rows and six
\* columns scores less than the row of seventeen, and its last cell is no box's.
CoveredExactlyOnce == CoversOnce(width, height, partition(width, height, count))

=============================================================================
