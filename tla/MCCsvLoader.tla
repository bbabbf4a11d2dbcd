---------------------------- MODULE MCCsvLoader ----------------------------
(* Instances of CsvLoader for TLC: two free names and the device's own. *)
EXTENDS CsvLoader

MCNames == {"sat", "fan", "device"}
MCRowTypes == {"AO", "BV"}
MCTwoTypes == {"BI", "BV"}

=============================================================================
