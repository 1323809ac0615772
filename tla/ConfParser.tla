----------------------------- MODULE ConfParser -----------------------------
(***************************************************************************)
(* conf_file_analysis of project/init.c: the address and the port in       *)
(* server.conf or client.conf, and what a file is meant to say.  The       *)
(* parser goes over the characters once and consumes some before it knows  *)
(* what they are.  A file fits the buffer; behind it lies whatever was on  *)
(* the stack, here one character over and over.                            *)
(***************************************************************************)
EXTENDS Integers, Sequences, SequencesExt, FiniteSetsExt

CONSTANT Unset   \* the caller's variable keeps what it held

LOCAL Digits == <<"0", "1", "2", "3", "4", "5", "6", "7", "8", "9">>

(* atoi: the digits before the first other character, 0 if there is none.  *)
Atoi(s) ==
    LET Value(ch) == CHOOSE d \in 0 .. 9 : Digits[d + 1] = ch
        upto == Min({k \in 1 .. Len(s) : ~Contains(Digits, s[k])} \cup {Len(s) + 1})
    IN  FoldLeft(LAMBDA n, ch : 10 * n + Value(ch), 0, SubSeq(s, 1, upto - 1))

(* *pport is an unsigned short.                                            *)
PortValue(s) == Atoi(s) % 65536

(* What the rest of a file sets; of two values the later one stays.  After *)
(* an error nobody looks at either.                                        *)
Nothing == [ok |-> TRUE, ip |-> Unset, port |-> Unset]
Bad == [ok |-> FALSE, ip |-> Unset, port |-> Unset]
SetIp(ip, rest) == IF rest.ok /\ rest.ip = Unset THEN [rest EXCEPT !.ip = ip] ELSE rest
SetPort(port, rest) == IF rest.ok /\ rest.port = Unset THEN [rest EXCEPT !.port = port] ELSE rest

(* From i on: the characters before the first that is one of stops, but no *)
(* more than limit.                                                        *)
Span(buf, i, limit, stops) ==
    [k \in 1 .. Min({j \in 0 .. limit - 1 : buf[i + j] \in stops} \cup {limit})
        |-> buf[i + k - 1]]

(* How many characters a chain of buf[i++]==... consumes: up to the first  *)
(* that differs.                                                           *)
Consumed(buf, i, word) ==
    Min({k \in 1 .. Len(word) : buf[i + k - 1] # word[k]} \cup {Len(word)})
Matched(buf, i, word) == \A k \in 1 .. Len(word) : buf[i + k - 1] = word[k]

IpDigits == 15

(* Mutant: room for one digit less.                                        *)
PortDigitsLess == 4

PortDigits == 5

(* file, and the character behind it.                                      *)
Parse(file, beyond) ==
    LET Reach == 1 .. Len(file) + IpDigits + 5
        buf == [k \in Reach |-> IF k <= Len(file) THEN file[k] ELSE beyond]
        from[i \in Reach] ==
            CASE i > Len(file) -> Nothing
              [] buf[i] = "#" ->
                    from[1 + Min({k \in i .. Len(file) : file[k] = "\n"} \cup {Len(file)})]
              [] buf[i] \in {"\n", " "} -> from[i + 1]
              [] buf[i] = "i" ->
                    LET word == <<"p", "=", "\"">>
                        start == i + 1 + Consumed(buf, i + 1, word)
                        ip == Span(buf, start, IpDigits, {"\""})
                    IN  IF Matched(buf, i + 1, word)
                        THEN SetIp(ip, from[start + Len(ip) + 1])
                        ELSE from[start + 1]
              [] buf[i] = "p" ->
                    LET word == <<"o", "r", "t", "=">>
                        start == i + 1 + Consumed(buf, i + 1, word)
                        port == Span(buf, start, PortDigits, {"\n", " "})
                    IN  IF Matched(buf, i + 1, word)
                        THEN SetPort(PortValue(port), from[start + Len(port) + 1])
                        ELSE SetPort(PortValue(<< >>), from[start + 1])
              [] OTHER -> Bad
    IN  from[1]
----------------------------------------------------------------------------
(* A line has its text and what it is meant to say, in a Parse result.     *)
Text(lines) == FlattenSeq([k \in 1 .. Len(lines) |-> lines[k].text \o <<"\n">>])

(* What a file of such lines is meant to say: nothing if one is wrong, or  *)
(* else the last address and the last port.                                *)
Meaning(lines) ==
    LET Latest(f) ==
            LET said == SelectSeq([k \in 1 .. Len(lines) |-> lines[k].says[f]],
                                  LAMBDA v : v # Unset)
            IN  IF said = << >> THEN Unset ELSE said[Len(said)]
    IN  IF \E k \in 1 .. Len(lines) : ~lines[k].says.ok THEN Bad
        ELSE [ok |-> TRUE, ip |-> Latest("ip"), port |-> Latest("port")]
============================================================================
