---------------------------- MODULE MCSdProtocol ----------------------------
(* TLC values for SdProtocol: the default file and one with a long name; the *)
(* user types a SYNC without a number, an SD_START without a name and        *)
(* something the board does not know.                                        *)
EXTENDS SdProtocol

Files    == {"data", "long"}
LongFile == {"long"}
Odd      == {[kind |-> "SYNC", arg |-> "zero"], [kind |-> "SD_START", arg |-> ""],
             [kind |-> "other", arg |-> ""]}
=============================================================================
