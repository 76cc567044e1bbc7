----------------------------- MODULE MCConsole -----------------------------
(***************************************************************************)
(* The board's menu, shortened: the peripherals with the ADC's command,    *)
(* and the home automation group, which is given the one command that runs *)
(* in a thread of its own (the firmware's tables have none).               *)
(***************************************************************************)
EXTENDS Console

CONSTANTS t1, t2

MCRegistrations == <<<<Root, "peripherals">>, <<"peripherals", "adc">>, <<Root, "ble">>>>
MCGroupCommands == [g \in {Root, "peripherals", "adc", "ble"} |->
    CASE g = "adc" -> <<"read">> [] g = "ble" -> <<"watch">> [] OTHER -> <<>>]
MCNameOf == [Ver |-> <<"v">>, Help |-> <<"h">>, Exit |-> <<"x">>, Up |-> <<"u">>,
             Root |-> <<"r">>, read |-> <<"d">>, watch |-> <<"w">>,
             peripherals |-> <<"p">>, adc |-> <<"a">>, ble |-> <<"b">>]

MCCharacters == {"1", "4", "a", "b", "d", "p", "u", "w", "x", Space, Quote, Backslash}

\* By number and by name, in one buffer and across two, with too many words,
\* too many characters, an edited line and an escaped quote.
MCKeystrokes == {
    <<"4", "CR">>,
    <<"p", Space>>,
    <<"u", "CR", "w", "CR">>,
    <<"4", Space, "4", Space, "1", "CR">>,
    <<"x", Space, "1", "CR">>,
    <<"a", Space, Space, "d", "BS">>,
    <<Quote, "b", Backslash, Quote, Quote, "CR">>}
=============================================================================
