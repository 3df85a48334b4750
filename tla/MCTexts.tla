------------------------------ MODULE MCTexts -------------------------------
(* Texts on a small instance: a fragment of the code page CP1251. *)
EXTENDS Texts

\* ellipsis, dzhe, degree, ghe, dot, Er, Es, a, de, ze, yu, ya
CP1251 == (133 :> 8230) @@ (143 :> 1119) @@ (176 :> 176) @@ (180 :> 1169) @@ (183 :> 183)
            @@ (208 :> 1056) @@ (209 :> 1057) @@ (224 :> 1072) @@ (228 :> 1076)
            @@ (231 :> 1079) @@ (254 :> 1102) @@ (255 :> 1103)

\* The letters of the bytes C0 to EF.
Leading == 1040 .. 1087

\* "ok", "da", "a...", "R deg", "za deg", "ya", "e acute", "ya deg deg", and mixtures
Words == {<<111, 107>>, <<1076, 1072>>, <<1072, 8230>>, <<1056, 176>>, <<1079, 1072, 176>>,
          <<1103>>, <<233, 1072>>, <<1072, 176, 33>>, <<1072, 32, 1056, 176>>}

Names == {<<1056, 176>>, <<111>>}
=============================================================================
