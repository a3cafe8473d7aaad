------------------------------- MODULE MCAta -------------------------------
(* Two store slots, one driver that may register twice, two sectors.        *)
EXTENDS Ata

MCTypeNames == {<<1, 1>>}
MCNames == {<<1, 1>>, <<1>>, <<2>>}
MCConfigs == {[primary |-> TRUE, master |-> m] : m \in BOOLEAN}
=============================================================================
