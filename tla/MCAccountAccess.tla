-------------------------- MODULE MCAccountAccess --------------------------
(* A small server: one row in the limiter's table for two clients, two       *)
(* requests at once, and Google going from its first key to the second.      *)
(* A token is signed by each key, the second expires during the run; one is  *)
(* for another application, one names a key that never was published, one is *)
(* not a token.                                                              *)
EXTENDS AccountAccess

Token(kid, exp, aud, wellFormed) ==
    [kid |-> kid, exp |-> exp, aud |-> aud, wellFormed |-> wellFormed]
MCTokens == {Token("k1", 9, {"web"}, TRUE), Token("k2", 2, {"ios", "web"}, TRUE),
             Token("k1", 9, {"other"}, TRUE), Token("kx", 9, {"web"}, TRUE),
             Token("kx", 9, {"web"}, FALSE)}
MCPublished == <<{"k1"}, {"k2"}>>
=============================================================================
