------------------------ MODULE MCDictationReceiver ------------------------
(* Instances of DictationReceiver.  Requests 1 to 3 repeat one key, one of *)
(* them with another text; 4 and 5 are later phrases; 6 is malformed.      *)
EXTENDS DictationReceiver

MCKeyOf  == [r \in Requests |-> CASE r \in {1, 2, 3} -> "s:0" [] r = 4 -> "s:1" [] OTHER -> "s:2"]
MCTextOf == [r \in Requests |-> IF r = 3 THEN "other" ELSE "phrase"]
=============================================================================
