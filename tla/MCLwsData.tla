------------------------------- MODULE MCLwsData -------------------------------
(***************************************************************************)
(* Constants for model checking LwsData.                                   *)
(***************************************************************************)
EXTENDS LwsData

(* "%", "&", "+", "=", "2", "5", "B", "b" and "g": digits of each kind, and *)
(* an escape, %25, that stands for "%".                                    *)
FormCharacters == {37, 38, 43, 61, 50, 53, 66, 98, 103}

(* Two names of one header, another header; a value may be empty.          *)
TwoNames == [n \in {"Via", "via", "TE"} |-> IF n = "TE" THEN "te" ELSE "via"]

SomeHeaders == [name : {"Via", "via", "TE"}, value : {<<>>, <<"x">>, <<"y", ",">>}]

(* Without attributes, with a date at the end or before other attributes,  *)
(* without a date, and with a name that looks like that attribute.         *)
SomeCookies == {<<"a">>,
                <<"a", ";", " ", "Expires=", "day", ",", " ", "date">>,
                <<"a", ";", "Expires=", "day", ",", "date", ";", " ", "Secure">>,
                <<"b", ";", " ", "Secure">>,
                <<"Expires=", "b">>}
===============================================================================
