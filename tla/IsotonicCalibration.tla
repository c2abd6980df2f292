------------------------- MODULE IsotonicCalibration -------------------------
(* calibration/isotonicRegression.ts: the pool-adjacent-violators fit, one turn
   of its loop per step, and the piecewise linear mapping through its knots.
   Raw probabilities are 0 .. Grid, the averages that the loop compares are
   exact, and those of the knots in units of 1/Scale; the clamp of the interval
   by 1e-15 is left out. *)
EXTENDS Integers, FiniteSets, Sequences, SequencesExt

CONSTANTS Grid, MaxSamples

ASSUME CalibrationAssumption == Grid \in Nat \ {0} /\ MaxSamples \in Nat

Scale == 60      \* the knots of up to six samples are exact

VARIABLES
    samples,    \* sorted by rawProbability, equals in any order
    blocks,     \* sums of the samples pooled so far
    index

calibrationVars == << samples, blocks, index >>

CalibrationInit ==
    /\ samples \in UNION { [1 .. n -> [rawProbability : 0 .. Grid, actualOutcome : {0, 1}]] :
                              n \in 0 .. MaxSamples }
    /\ \A i, j \in DOMAIN samples :
           i < j => samples[i].rawProbability <= samples[j].rawProbability
    /\ blocks = [i \in DOMAIN samples |->
                    [xSum |-> samples[i].rawProbability, ySum |-> samples[i].actualOutcome,
                     count |-> 1]]
    /\ index = 1

\* The average outcome of block i is below that of the block before it.
Violates(i) ==
    i > 1 /\ blocks[i].ySum * blocks[i - 1].count < blocks[i - 1].ySum * blocks[i].count

\* The loop goes on behind the pooled block.
StayBehind(i) == i

\* Where the loop goes on after pooling block i: at the pooled block, which may
\* now violate the order with the one before it.
StepBack(i) == i - 1

Pool ==
    /\ index <= Len(blocks) /\ Violates(index)
    /\ LET previous == blocks[index - 1]
           block == blocks[index]
           pooled == [xSum |-> previous.xSum + block.xSum, ySum |-> previous.ySum + block.ySum,
                      count |-> previous.count + block.count]
       IN blocks' = RemoveAt([blocks EXCEPT ![index - 1] = pooled], index)
    /\ index' = StepBack(index)
    /\ UNCHANGED samples

Advance ==
    /\ index <= Len(blocks) /\ ~Violates(index)
    /\ index' = index + 1
    /\ UNCHANGED << samples, blocks >>

CalibrationNext == Pool \/ Advance

CalibrationSpec == CalibrationInit /\ [][CalibrationNext]_calibrationVars

Average(sum, count) == (sum * Scale) \div count

\* fitIsotonicRegression's answer, with the identity for no samples.
Knots ==
    IF samples = << >> THEN << [x |-> 0, y |-> 0], [x |-> Grid * Scale, y |-> Scale] >>
    ELSE [i \in DOMAIN blocks |-> [x |-> Average(blocks[i].xSum, blocks[i].count),
                                   y |-> Average(blocks[i].ySum, blocks[i].count)]]

\* assertSortedKnots
Sorted(knots) ==
    \A i \in 2 .. Len(knots) : knots[i - 1].x <= knots[i].x /\ knots[i - 1].y <= knots[i].y

\* applyIsotonicRegression, for sorted knots: a fraction of Scale.
ApplyIsotonicRegression(x, knots) ==
    LET right == SelectInSeq(knots, LAMBDA knot : x <= knot.x)
        whole(y) == [part |-> y, of |-> 1]
    IN IF x = 0 THEN whole(knots[1].y)
       ELSE IF x = Grid * Scale THEN whole(Last(knots).y)
       ELSE IF right = 1 THEN whole(knots[1].y)
       ELSE IF x >= Last(knots).x THEN whole(Last(knots).y)
       ELSE LET l == knots[right - 1]
                r == knots[right]
            IN [part |-> l.y * (r.x - l.x) + (x - l.x) * (r.y - l.y), of |-> r.x - l.x]
----------------------------------------------------------------------------
Fitted == index > Len(blocks)

\* How many of the samples i to j have the outcome.
Outcomes(i, j) == Cardinality({ k \in i .. j : samples[k].actualOutcome = 1 })

\* The last sample that went into each block.
Ends ==
    LET ends[b \in 0 .. Len(blocks)] == IF b = 0 THEN 0 ELSE ends[b - 1] + blocks[b].count
    IN ends

\* The value of block b is that of the isotonic regression at sample i, by the
\* max-min formula: of the beginnings up to i, the greatest of the least mean
\* outcome over the ends from i.
IsMaxMin(b, i) ==
    /\ \A from \in 1 .. i : \E to \in i .. Len(samples) :
           Outcomes(from, to) * blocks[b].count <= blocks[b].ySum * (to - from + 1)
    /\ \E from \in 1 .. i : \A to \in i .. Len(samples) :
           Outcomes(from, to) * blocks[b].count >= blocks[b].ySum * (to - from + 1)

FitsTheSamples ==
    /\ Ends[Len(blocks)] = Len(samples)
    /\ \A b \in DOMAIN blocks : \A i \in Ends[b - 1] + 1 .. Ends[b] : IsMaxMin(b, i)

KeepsTheOrder ==
    \A x, y \in 0 .. 2 * Grid :
        LET lower == ApplyIsotonicRegression((x * Scale) \div 2, Knots)
            higher == ApplyIsotonicRegression((y * Scale) \div 2, Knots)
        IN x <= y => lower.part * higher.of <= higher.part * lower.of

\* The loop that pools in place and steps back once finds the isotonic
\* regression of the samples, the closest nondecreasing fit, and the mapping
\* through its knots is accepted by assertSortedKnots, keeps the order of any
\* two probabilities, and so never reorders candidates.
CalibrationIsIsotonic == Fitted => FitsTheSamples /\ Sorted(Knots) /\ KeepsTheOrder
=============================================================================
