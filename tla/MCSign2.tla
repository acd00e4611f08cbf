------------------------------ MODULE MCSign2 ------------------------------
(* The signature on the vector of the repository's test and on edge cases. *)
EXTENDS Sign2, Bitwise

MCXor(a, b) == a ^^ b

\* "e8c7d729eea7b54551aa594f942decbe", line 60 of the script.
StandardKey  == << 101, 56, 99, 55, 100, 55, 50, 57, 101, 101, 97, 55, 98, 53, 52, 53, 53, 49, 97, 97, 53, 57, 52, 102,
                    57, 52, 50, 100, 101, 99, 98, 101 >>

\* "37dbe07ade9359c1aa70807e847f768c13360ad2", line 60 of the script.
StandardText == << 51, 55, 100, 98, 101, 48, 55, 97, 100, 101, 57, 51, 53, 57, 99, 49, 97, 97, 55, 48, 56, 48, 55, 101,
                    56, 52, 55, 102, 55, 54, 56, 99, 49, 51, 51, 54, 48, 97, 100, 50 >>

\* "8RxCbsVeSzn2UjxJAAiV9QQs/WetOj2FJUGwjsMG6SgxFMWlLS/U1Q==", sign_test.go:11.
StandardSign == << 60, 17, 49, 2, 27, 44, 21, 30, 18, 51, 39, 54, 20, 35, 49, 9, 0, 0, 34, 21, 61, 16, 16, 44,
                    63, 22, 30, 45, 14, 35, 54, 5, 9, 20, 6, 48, 35, 44, 12, 6, 58, 18, 32, 49, 5, 12, 22, 37,
                    11, 18, 63, 20, 53, 16, 64, 64 >>

\* One character, the bounds of a byte, a character above 255, a key that does not divide 256.
MCKeys  == {StandardKey, <<0>>, <<255, 0>>, <<49, 300, 7>>}
MCTexts == {StandardText, <<>>, <<0>>, <<255, 300>>, <<65, 66, 67>>, <<255, 255, 255, 511, 1>>}

\* The signature of the script's own example is the one sign_test.go:11 gives for it, so the Go port
\* and the script agree on it and so does the model.
MatchesStandard ==
    pc = "done" /\ key = StandardKey /\ text = StandardText => enc = StandardSign
=============================================================================
