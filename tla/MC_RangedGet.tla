---------------------------- MODULE MC_RangedGet ----------------------------
(***************************************************************************)
(* Model of RangedGet for TLC: payloads of one, two and three bytes with   *)
(* distinct contents, so a shorter, a longer and a same-size replacement   *)
(* can each land between the two reads.                                    *)
(***************************************************************************)
EXTENDS RangedGet

MCPayloads == {<<1>>, <<2, 2>>, <<3, 3>>, <<4, 4, 4>>}
=============================================================================
