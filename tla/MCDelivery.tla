------------------------------- MODULE MCDelivery -------------------------------
(* A small instance of Delivery. *)
EXTENDS Delivery

\* A capital before and after the other kinds, and a secret that is no text.
ThreeTexts ==
    {<<"capital", "plain">>, <<"plain", "control", "capital">>, <<"plain", "bytes">>}
=================================================================================
