------------------------------ MODULE MCCodecs ------------------------------
(* Codecs with small constants, for TLC. *)
EXTENDS Codecs

(* With a byte below 8: on both sides of every width, and of the largest int. *)
MCNums == UNION {{n - 1, n, n + 1} : n \in {1, Base - 5, Base, TwoBytes, ThreeBytes, Half - 9}}
            \cup {4, 5, Half, Uint64 - 1}
MCStrings == {<<>>, <<0>>, <<3, 7>>, [i \in 1..9 |-> 7], [i \in 1..66 |-> i % 8], [i \in 1..514 |-> i % 8]}

MCPayloads == {[i \in 1..len |-> i] : len \in 0..15}

Characters == {"NUL", "LF", "CR", "SUB", "quote", "dquote", "backslash", "0", "n", "a"}
MCTexts == UNION {[1..n -> Characters] : n \in 0..3}
MCBuffers == {<<>>, <<"quote">>, <<"a", "backslash">>}

Times0(sizes, days, micros) ==
  [size : sizes, neg : BOOLEAN, days : days, hour : {0, 4, 9, 23}, minutes : {0, 59}, seconds : {7}, micros : micros]
MCMicros == {0, 1, 99, 100, 9999, 10000, 123456, 999999}
MCTimes ==
  [size : {0}, neg : {FALSE}, days : {0}, hour : {0}, minutes : {0}, seconds : {0}, micros : {0}]
    \cup Times0({8}, {0, 1, 4, 34}, {0}) \cup Times0({12}, {0, 1, 4, 34}, MCMicros)

Dates(sizes, hours, seconds, micros) ==
  [size : sizes, year : {0, 99, 100, 1999, 9999}, month : {0, 12}, day : {0, 31}, hour : hours,
   minutes : hours, seconds : seconds, micros : micros]
MCDateTimes ==
  [size : {0}, year : {0}, month : {0}, day : {0}, hour : {0}, minutes : {0}, seconds : {0}, micros : {0}]
    \cup Dates({4}, {0}, {0}, {0}) \cup Dates({7}, {0, 23}, {59}, {0}) \cup Dates({11}, {0, 23}, {0}, MCMicros)
=============================================================================
