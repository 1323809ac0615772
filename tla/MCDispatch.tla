----------------------------- MODULE MCDispatch -----------------------------
EXTENDS Dispatch

CONSTANTS c1, c2

Says(text, ok, ip, port) ==
    [text |-> text, says |-> [ok |-> ok, ip |-> ip, port |-> port]]

LongIp == <<"1", "9", "2", ".", "1", "6", "8", ".", "1", "0", "0", ".", "1", "3", "0">>

MCLines ==
    {Says(<<"#", "i", "p", " ", "o", "r">>,
          TRUE, Unset, Unset),
     Says(<<>>,
          TRUE, Unset, Unset),
     Says(<<"i", "p", "=", "\"", "1", "0", ".", "0", ".", "0", ".", "1", "\"", " ">>,
          TRUE, <<"1", "0", ".", "0", ".", "0", ".", "1">>, Unset),
     Says(<<"i", "p", "=", "\"">> \o LongIp \o <<"\"">>,
          TRUE, LongIp, Unset),
     Says(<<"p", "o", "r", "t", "=", "8", "0", " ", " ">>,
          TRUE, Unset, 80),
     Says(<<"p", "o", "r", "t", "=", "6", "5", "5", "3", "5">>,
          TRUE, Unset, 65535),
     Says(<<"i", "p", "=", "1", ".", "2", ".", "3", ".", "4">>,
          FALSE, Unset, Unset),
     Says(<<"i", "p", "=", "\"">> \o LongIp \o <<"0", "\"">>,
          FALSE, Unset, Unset)}

MCBehind == {"\n", "7"}
============================================================================
