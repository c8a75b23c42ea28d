------------------------------ MODULE RadixSort ------------------------------
(***************************************************************************)
(* The radix sort of src/compute/sorting.rs: for every digit a histogram *)
(* pass, a prefix sum and a scatter pass, each a dispatch of its own, with *)
(* the input and output buffers exchanged after each digit.  Between two *)
(* barriers the invocations of a workgroup are in any order, and so are  *)
(* the workgroups.  A value is the place its key had at first.           *)
(***************************************************************************)
EXTENDS ComputeDispatch, FiniteSets

CONSTANTS
    element_count,    \* SortingConfig.element_count
    group_size,       \* WORKGROUP_SIZE
    RADIX_SIZE,       \* 16 in the shader
    digit_count,      \* SortingConfig::digit_count
    Keys              \* bound: the keys that are sorted

Elements == 0..element_count - 1
Groups == 0..dispatch_count(element_count, group_size) - 1
Digits == 0..RADIX_SIZE - 1
GroupOf(i) == i \div group_size

ASSUME SortAssumption ==
    /\ element_count \in Nat \ {0} /\ group_size \in Nat \ {0}
    /\ RADIX_SIZE \in Nat \ {0} /\ digit_count \in Nat
    /\ Keys \subseteq Nat

VARIABLES
    input,      \* the input buffer: pairs <<key, value>>
    output,     \* the output buffer
    histogram,  \* the histogram buffer, [group][digit]
    local_hist, \* the workgroups' memory
    pass,       \* which dispatch runs, and for which digit
    offset      \* local_offset of the invocations that have one; in the
                \* histogram pass, who has tallied

sort == <<input, output, histogram, local_hist, pass, offset>>

NoCount == [g \in Groups |-> [d \in Digits |-> 0]]
Pending == [i \in Elements |-> -1]

SortInit ==
    /\ \E keys \in [Elements -> Keys] : input = [i \in Elements |-> <<keys[i], i>>]
    /\ output = [i \in Elements |-> <<0, 0>>]
    /\ histogram = NoCount
    /\ local_hist = NoCount
    /\ pass = [kernel |-> "histogram", digit |-> 0]
    /\ offset = Pending

(* key >> shift, the shift being that of the digit: its lower digits go. *)
Shifted(key, digit) ==
    LET rest[n \in 0..digit] == IF n = 0 THEN key ELSE rest[n - 1] \div RADIX_SIZE
    IN  rest[digit]

Digit(i) == Shifted(input[i][1], pass.digit) % RADIX_SIZE

(* atomicAdd(&local_hist[digit], 1).                                     *)
CountDigit(i) ==
    /\ offset[i] = -1
    /\ local_hist' = [local_hist EXCEPT ![GroupOf(i)][Digit(i)] = @ + 1]
    /\ offset' = [offset EXCEPT ![i] = local_hist[GroupOf(i)][Digit(i)]]

(* The second barrier of a group.                                        *)
Counted(g) == \A i \in Elements : GroupOf(i) = g => offset[i] # -1

tally(i) ==
    /\ pass.kernel = "histogram"
    /\ CountDigit(i)
    /\ UNCHANGED <<input, output, histogram, pass>>

(* The local histograms are written out, each by its group.              *)
publish(g) ==
    /\ pass.kernel = "histogram" /\ Counted(g)
    /\ histogram[g] # local_hist[g]
    /\ histogram' = [histogram EXCEPT ![g] = local_hist[g]]
    /\ UNCHANGED <<input, output, local_hist, pass, offset>>

SumBelow(d, g) ==
    LET upto[n \in 0..g] == IF n = 0 THEN 0 ELSE upto[n - 1] + histogram[n - 1][d]
    IN  upto[g]

(* Mutant: a group's own count is part of its sum.                       *)
exclusive_sum_inclusive(d, g) == SumBelow(d, g) + histogram[g][d]

exclusive_sum(d, g) == SumBelow(d, g)

(* Every digit's sum starts at zero.                                     *)
prefix_sum_pass ==
    /\ pass.kernel = "histogram"
    /\ \A g \in Groups : Counted(g) /\ histogram[g] = local_hist[g]
    /\ histogram' = [g \in Groups |-> [d \in Digits |-> exclusive_sum(d, g)]]
    /\ local_hist' = NoCount
    /\ offset' = Pending
    /\ pass' = [pass EXCEPT !.kernel = "scatter"]
    /\ UNCHANGED <<input, output>>

rank(i) ==
    /\ pass.kernel = "scatter"
    /\ CountDigit(i)
    /\ UNCHANGED <<input, output, histogram, pass>>

global_offset(i) == histogram[GroupOf(i)][Digit(i)] + offset[i]

(* An invocation that has stored has its offset at Stored.               *)
Stored == -2

scatter(i) ==
    /\ pass.kernel = "scatter" /\ Counted(GroupOf(i)) /\ offset[i] # Stored
    /\ output' = [output EXCEPT ![global_offset(i)] = input[i]]
    /\ offset' = [offset EXCEPT ![i] = Stored]
    /\ UNCHANGED <<input, histogram, local_hist, pass>>

(* The engine exchanges the buffers and goes on with the next digit.     *)
next_digit ==
    /\ pass.kernel = "scatter" /\ \A i \in Elements : offset[i] = Stored
    /\ input' = output
    /\ output' = input
    /\ local_hist' = NoCount
    /\ offset' = Pending
    /\ UNCHANGED histogram
    /\ pass' = IF pass.digit + 1 < digit_count
                 THEN [kernel |-> "histogram", digit |-> pass.digit + 1]
                 ELSE [kernel |-> "done", digit |-> pass.digit]

SortNext ==
    \/ \E i \in Elements : tally(i) \/ rank(i) \/ scatter(i)
    \/ \E g \in Groups : publish(g)
    \/ prefix_sum_pass
    \/ next_digit

SortSpec == SortInit /\ [][SortNext]_sort

---------------------------------------------------------------------------
(* Between the barrier and the stores, the elements of one digit are given *)
(* the slots from zero up, each its own, and those of a later workgroup  *)
(* slots after those of an earlier one, in whatever order the atomic     *)
(* additions come; within a workgroup the order is lost (scatter_pass).  *)
RanksCompact ==
    pass.kernel = "scatter" /\ (\A i \in Elements : offset[i] >= 0) =>
        \A d \in Digits :
            LET same == {i \in Elements : Digit(i) = d}
            IN  /\ {global_offset(i) : i \in same} = 0..Cardinality(same) - 1
                /\ \A i, j \in same : GroupOf(i) < GroupOf(j) => global_offset(i) < global_offset(j)

(* What the module comment says: a radix sort, after which "keys and values *)
(* are written to the output buffer", all of them.  The sums of all digits *)
(* start at zero, so that elements with different digits are stored over *)
(* each other and keys are lost.                                         *)
NothingLost ==
    pass.kernel = "done" => \A value \in Elements : \E i \in Elements : input[i][2] = value

=============================================================================
