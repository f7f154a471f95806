----------------------------- MODULE MCProtocol -----------------------------
(* Bytes for TLC: letters are 97 to 99, ", " is 44 and 32.                 *)
EXTENDS Protocol

MCName == {<<97>>, <<98, 99, 97>>}

MCIp == {<<50, 50, 52>>}

(* No group, one, a list as long as the number its first letter is, and    *)
(* one that is longer: "!" is 33.                                          *)
MCNames == {<<>>, <<33, 44, 32>>} \cup
           {[j \in 1 .. n |-> IF j % 3 = 1 THEN 33 ELSE 44] : n \in {33, 34}}

(* Zeros, and the letters of an earlier string.                            *)
MCLeftover ==
  {[j \in 1 .. 130 |-> IF j < 130 THEN byte ELSE 0] : byte \in {0, 122}}
=============================================================================
