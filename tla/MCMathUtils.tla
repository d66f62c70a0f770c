------------------------------ MODULE MCMathUtils ------------------------------
\* Instances of MathUtils for TLC: a float has 4 bits, a histogram 4 bins, percentiles
\* are multiples of 1/8 and the constant against a division by zero is one unit.
EXTENDS MathUtils, SequencesExt

MCPercentiles == {128 * k : k \in 0..8} \cup {1280}
\* Rising data of up to 20 values: 17 and 19 are no floats, 19 is rounded up to 20.
MCRising == {[j \in 1..n |-> Rounded(j, 1)] : n \in 6..20}
\* 17 and 19 are no floats.
MCReduceData == SeqOf({1, 2, 5}, 5) \cup MCRising \cup SeqOf({16, 17, 19}, 3)

MCTolerances == {0, 64, 256, 512, 768, 1024, 1152}
MCValues == {0, 1, 2, 5, 12, 15}
\* One value, two or four, of which float makes exact shares; seven, of which it does
\* not; large values, to which one unit may be too small to add; 3 and 22, whose
\* difference is no float; 16, 18 and 20, between which there are fewer floats than bins.
MCStrechData ==
  SeqOf(MCValues, 2) \cup [1..4 -> MCValues] \cup [1..7 -> {0, 6}] \cup SeqOf({16, 64, 96}, 2)
    \cup [1..4 -> {3, 22}] \cup [1..4 -> {16, 18, 20}]
================================================================================
