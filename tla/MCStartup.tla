----------------------------- MODULE MCStartup -----------------------------
(* Rules files of up to MaxBlocks blocks in every order: settings given    *)
(* and given again, the two ways to reach the proxy, a rule for commands   *)
(* as the tests write it, with a comma at the end of its texts, one as in  *)
(* README.md, without, a rule for answers, with data that do not start at  *)
(* position 0, rules with a name whose digit is late or missing, and a     *)
(* line that cannot be read.                                               *)
EXTENDS Startup

CONSTANT MaxBlocks

Blocks ==
  { << <<"[", "WINSCARD", "]">>, <<"MODIFY_APDU_BY_RULES", "=", "1">>,
       <<"log_base_path", "=", "c:">> >>,
    << <<"[", "winscard", "]">>, <<"modify_apdu_by_rules", "=", "0">>,
       <<"virtual_readers", "=", "x", "|", "y", "|", "|", "z">> >>,
    << <<"[", "remote", "]">>, <<"redirect", "=", "1">>, <<"read_ratio", "=", "2">> >>,
    << <<"new_socket_per_command", "=", "1">> >>,
    << <<"[", "rule", "1", "]">>, <<"usage", "=", "1">>,
       <<"match", "1", "=", "in", "=", "1", ",", "t", "=", "1", ",", "cla", "=", "80", ",",
         "ins", "=", "ca", ",", "data", "0", "=", "90", "00", ",">>,
       <<"match", "2", "=", "cla", "=", "00", ",">>,
       <<"action", "=", "cla", "=", "00", ",", "data", "1", "=", "90", "97", ",">> >>,
    << <<"[", "rule", "2", "]">>, <<"usage", "=", "1">>, <<"apduin", "=", "1">>,
       <<"match", "1", "=", "in", "=", "1", ",", "cla", "=", "80", ",", "data", "0", "=", "90">>,
       <<"action", "=", "in", "=", "1", ",", "le", "=", "00", ",", "data", "0", "=", "97">> >>,
    << <<"[", "rule", "3", "]">>, <<"usage", "=", "1">>, <<"apduin", "=", "0">>,
       <<"match", "1", "=", "in", "=", "0", ",", "data", "1", "=", "90", ",">>,
       <<"action", "=", "data", "2", "=", "97", "00", ",">> >>,
    << <<"[", "rule", "x", "1", "]">>, <<"match", "1", "=", "cla", "=", "80", ",">>,
       <<"action", "=", "data", "1", "=", "97", ",">> >>,
    << <<"[", "rule", "]">>, <<"action", "=", "data", "0", "=", "97", ",">> >>,
    << <<"faulty">> >> }

MCFiles == {FlattenSeq(f) : f \in SeqOf(Blocks, MaxBlocks)}
MCBytes == {"80", "ca", "00", "90", "97"}
MCGaps  == {{}, {"SCardTransmit"}, {"SCardListReaders", "SCardListReadersW"},
            {"SCardCancelTransaction", "GetOpenCardNameW"}, {"SCardGetStatusChange"},
            {"SCardStatusW"}}
MCTokens  == UNION {UNION {ToSet(l) : l \in ToSet(f)} : f \in MCFiles} \cup
             {"winscard", "modify_apdu_by_rules", "edited"}
MCValues  == Seq(Tokens)
MCNames   == Seq(Values)
MCHash(k) == Len(k)
MCLower   == [WINSCARD |-> "winscard", MODIFY_APDU_BY_RULES |-> "modify_apdu_by_rules"]
=============================================================================
