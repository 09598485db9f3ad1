------------------------------- MODULE MCNovaRln -------------------------------
(* One person who posts and one who only registers, in a tree with room for *)
(* two of their three identities.                                           *)
EXTENDS NovaRln

CONSTANTS poster, lurker, hi, bye

TwoBrowsers == {poster, lurker}
OneWriter == {poster}
TwoTexts == {hi, bye}
OneRefused == {bye}
SomeSkews == {0, 1}
TwoAndOne == [b \in TwoBrowsers |-> IF b = poster THEN 2 ELSE 1]
=============================================================================
