------------------------------- MODULE CaCode -------------------------------
(***************************************************************************)
(* The generator of the satellites' coarse acquisition codes: two shift    *)
(* registers clocked together, as in cacode.v and in the MATLAB functions  *)
(* that compute the same codes.                                            *)
(***************************************************************************)
EXTENDS Integers

CONSTANT Tracked     \* satellites whose codes are compared

CaCodeAssumption == Tracked \subseteq 1..37

VARIABLES
    g1, g2,
    shifts,          \* history: since the registers last held ones, ...
    differ           \* ... and the chips in which two satellites differed

vars == <<g1, g2, shifts, differ>>

Stages == 1..10
Ones == [k \in Stages |-> 1]
CHIPS == 1023
Pairs == {p \in Tracked \X Tracked : p[1] < p[2]}

\* The taps of the second register, per satellite.
Taps ==
    <<<<2, 6>>, <<3, 7>>, <<4, 8>>, <<5, 9>>, <<1, 9>>, <<2, 10>>, <<1, 8>>,
      <<2, 9>>, <<3, 10>>, <<2, 3>>, <<3, 4>>, <<5, 6>>, <<6, 7>>, <<7, 8>>,
      <<8, 9>>, <<9, 10>>, <<1, 4>>, <<2, 5>>, <<3, 6>>, <<4, 7>>, <<5, 8>>,
      <<6, 9>>, <<1, 3>>, <<4, 6>>, <<5, 7>>, <<6, 8>>, <<7, 9>>, <<8, 10>>,
      <<1, 6>>, <<2, 7>>, <<3, 8>>, <<4, 9>>, <<5, 10>>, <<4, 10>>, <<1, 7>>,
      <<2, 8>>, <<4, 10>>>>

Shifted(g, feedback) == [k \in Stages |-> IF k = 1 THEN feedback ELSE g[k - 1]]

Feedback1 == (g1[3] + g1[10]) % 2
Feedback2Short == (g2[2] + g2[3] + g2[6] + g2[8] + g2[10]) % 2
Feedback2 == (g2[2] + g2[3] + g2[6] + g2[8] + g2[9] + g2[10]) % 2

ChipOneTap(sv) == (g1[10] + g2[Taps[sv][1]]) % 2
Chip(sv) == (g1[10] + g2[Taps[sv][1]] + g2[Taps[sv][2]]) % 2

Init ==
    /\ g1 = Ones /\ g2 = Ones
    /\ shifts = 0 /\ differ = [p \in Pairs |-> 0]

Reset ==
    /\ g1' = Ones /\ g2' = Ones
    /\ shifts' = 0 /\ differ' = [p \in Pairs |-> 0]

\* A chip is read.
Shift ==
    /\ g1' = Shifted(g1, Feedback1)
    /\ g2' = Shifted(g2, Feedback2)
    /\ shifts' = (shifts % CHIPS) + 1
    /\ differ' = [p \in Pairs |->
                    (IF shifts = CHIPS THEN 0 ELSE differ[p])
                        + (IF Chip(p[1]) # Chip(p[2]) THEN 1 ELSE 0)]

Next == Reset \/ Shift

Spec == Init /\ [][Next]_vars

-----------------------------------------------------------------------------
(* Correctness.                                                            *)

TypeOK ==
    /\ g1 \in [Stages -> {0, 1}] /\ g2 \in [Stages -> {0, 1}]
    /\ shifts \in 0..CHIPS /\ differ \in [Pairs -> 0..CHIPS]

\* A register of zeros would stay one.
NeverZero == \E j, k \in Stages : g1[j] = 1 /\ g2[k] = 1

\* Both registers run through every value but zero before they hold ones
\* again: the codes have their full length (cacode.v:11-19,
\* cacodegen.m:71-83).
FullPeriod == \A g \in {g1, g2} : g = Ones <=> shifts \in {0, CHIPS}

\* Over a period the codes of two satellites do not correlate: they differ in
\* one chip more than they agree in, so that each can be told from the
\* others.  Satellites with the same taps have the same code
\* (cacode.v:21, cacode.m:66-102).
Correlation(p) == CHIPS - 2 * differ[p]

ToldApart ==
    shifts = CHIPS =>
        \A p \in Pairs : Taps[p[1]] = Taps[p[2]] \/ Correlation(p) = -1
=============================================================================
