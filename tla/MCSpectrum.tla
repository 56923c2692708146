------------------------------- MODULE MCSpectrum -------------------------------
(* Captures whose noise is spread like 256 draws of N(0, 1 dB): the bins get the   *)
(* quantiles of that distribution, dealt out in various orders.                    *)
EXTENDS Spectrum, Sequences, SequencesExt

\* How many of the 128 quantiles above 0 round to 0, 0.1, 0.2, ... 2.9 dB.
Counts == <<5, 10, 10, 10, 9, 9, 9, 8, 7, 7, 6, 6, 5, 4, 4, 3, 3, 3, 2, 1, 2, 1, 1, 1, 0, 1,
            0, 0, 0, 1>>
Above == FlattenSeq([n \in DOMAIN Counts |-> [k \in 1 .. Counts[n] |-> n - 1]])
Quantile == [r \in Bins |-> IF r < 128 THEN -Above[128 - r] ELSE Above[r - 127]]

\* Odd steps through the quantiles that leave them evenly spread over the band.
Steps == {37, 85, 101, 151}
Shifts == {0, 50, 100, 150, 200}
SpreadNoises == {[i \in Bins |-> Quantile[(s * i + d) % 256]] : s \in Steps, d \in Shifts}

\* Jitters are N(0, 1.5 dB): up to 3.5 dB, and up to three standard deviations.
NearJitters == {5 * k : k \in -7 .. 7}
WideJitters == {5 * k : k \in -9 .. 9}
\* The stub is uniform in 3 .. 6 dB.
StubLevels == {30, 33, 36, 38, 39, 40, 41, 42, 45, 50, 60}

================================================================================
