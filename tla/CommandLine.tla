---------------------------- MODULE CommandLine ----------------------------
(***************************************************************************)
(* What the command console reads in a line: the words of Process_Command  *)
(* (qcli.c) and the numbers of String_To_Integer (qcli_util.c).  A line is *)
(* a sequence of characters.  Letters stand for themselves whatever their  *)
(* case, since names are compared with Memcmpi.                            *)
(***************************************************************************)
EXTENDS Integers, Sequences

CONSTANTS
    Characters,     \* what a line is typed with
    MaxLength,      \* MAXIMUM_QCLI_COMMAND_STRING_LENGTH
    MaxParameters,  \* MAXIMUM_NUMBER_OF_PARAMETERS: the list has one more
    Word            \* 2^32: the values of a uint32_t

Nul       == ""
Space     == " "
Quote     == "\""
Backslash == "\\"

ASSUME CommandLineAssumption ==
    /\ Nul \notin Characters
    /\ MaxLength \in Nat \ {0}
    /\ MaxParameters \in Nat \ {0}
    /\ Word \in Nat \ {0}

\* What a loop does, turn after turn, to what it begins with.
Through(turns, x) ==
    LET after[n \in 0..Len(turns)] == IF n = 0 THEN x ELSE turns[n][after[n - 1]]
    IN after[Len(turns)]

-----------------------------------------------------------------------------
(* String_To_Integer. *)

Digits == <<"0", "1", "2", "3", "4", "5", "6", "7",
            "8", "9", "a", "b", "c", "d", "e", "f">>

\* Hex_Nibble_To_Int: the value of a digit, or Len(Digits) for another
\* character, which no base accepts.
DigitValue(c) ==
    IF \E i \in DOMAIN Digits : Digits[i] = c
    THEN (CHOOSE i \in DOMAIN Digits : Digits[i] = c) - 1
    ELSE Len(Digits)

\* One more digit.  The number is refused when it becomes smaller, which is not
\* every step that overflows.
Numbers == [valid : BOOLEAN, number : Nat]
AddDigit(c, base) == [n \in Numbers |->
    LET number == (n.number * base + DigitValue(c)) % Word
    IN [valid  |-> n.valid /\ DigitValue(c) < base /\ number >= n.number,
        number |-> number]]

\* The empty string, "-" and "0x" are all zero.
StringToInteger(string) ==
    LET negative == string # <<>> /\ string[1] = "-"
        unsigned == IF negative THEN Tail(string) ELSE string
        hex      == Len(unsigned) >= 2 /\ SubSeq(unsigned, 1, 2) = <<"0", "x">>
        digits   == IF hex THEN SubSeq(unsigned, 3, Len(unsigned)) ELSE unsigned
        read     == Through([i \in DOMAIN digits |->
                                AddDigit(digits[i], IF hex THEN 16 ELSE 10)],
                            [valid |-> TRUE, number |-> 0])
        signed   == IF read.number < Word \div 2 THEN read.number ELSE read.number - Word
        valid    == read.valid /\ (~hex \/ negative => signed >= 0)
    IN [valid |-> valid,
        value |-> CASE ~valid -> 0 [] valid /\ negative -> -signed [] OTHER -> signed]

-----------------------------------------------------------------------------
(* Process_Command's parser.  It works in place on Input_String, which is  *)
(* zero behind the characters typed; index counts from 1 here.             *)

InputString(input) ==
    [i \in 1..(MaxLength + 1) |-> IF i <= Len(input) THEN input[i] ELSE Nul]

ParseInit(input) ==
    [buffer |-> InputString(input), length |-> Len(input), index |-> 1,
     quoted |-> FALSE, ok |-> TRUE, words |-> <<>>]

ParseStates ==
    [buffer : Seq(Characters \union {Nul}), length : Nat, index : Nat,
     quoted : BOOLEAN, ok : BOOLEAN, words : Seq(Seq(Characters \union {Nul}))]

\* Consume leading white space, and one opening quote.
Leading(p) ==
    LET first == CHOOSE i \in p.index..(MaxLength + 1) :
                     /\ p.buffer[i] # Space
                     /\ \A j \in p.index..(i - 1) : p.buffer[j] = Space
    IN IF p.buffer[first] = Quote
       THEN [p EXCEPT !.index = first + 1, !.quoted = TRUE]
       ELSE [p EXCEPT !.index = first]

\* An escaped character: the rest of the line moves over the backslash.  The
\* move leaves out the terminating null, so the last character stays twice.
Unescape(p) ==
    IF /\ p.index < p.length
       /\ p.buffer[p.index + 1] \in {Quote, Backslash}
    THEN [p EXCEPT !.buffer = [i \in DOMAIN p.buffer |->
                                  IF i \in p.index..(p.length - 1)
                                  THEN p.buffer[i + 1] ELSE p.buffer[i]],
                   !.length = @ - 1]
    ELSE [p EXCEPT !.ok = FALSE]

\* The end of the parameter: the end of the line, a quote, or a space outside
\* quotes.
AtWordEnd(p) ==
    LET c == p.buffer[p.index]
    IN ~p.ok \/ c \in {Nul, Quote} \/ (c = Space /\ ~p.quoted)

NextCharacter == [p \in ParseStates |->
    IF AtWordEnd(p) THEN p
    ELSE IF p.buffer[p.index] = Backslash THEN [Unescape(p) EXCEPT !.index = @ + 1]
    ELSE [p EXCEPT !.index = @ + 1]]

\* The loops of Process_Command, of which every turn but the last moves the
\* index: there are no more turns than characters (AtWordEnd and LineRead hold
\* behind them).
WordEnd(p) == Through([n \in 1..MaxLength |-> NextCharacter], p)

\* The parameter begun at first ends where the parser is: a quote ends (or
\* begins) the quoted text, and the character becomes the parameter's null.
EndWord(first) == [p \in ParseStates |->
    LET c == p.buffer[p.index]
    IN [p EXCEPT !.quoted = IF c = Quote THEN ~@ ELSE @,
                 !.buffer[p.index] = Nul,
                 !.index = IF c = Nul THEN @ ELSE @ + 1,
                 !.words = Append(@, SubSeq(p.buffer, first, p.index - 1))]]

Parameter == [p \in ParseStates |->
    IF p.buffer[p.index] = Nul THEN p ELSE EndWord(p.index)[WordEnd(p)]]

\* Mutant: the list's last entry is not used.
ListFullEarly(words) == Len(words) >= MaxParameters

ListFull(words) == Len(words) > MaxParameters

\* Words past the list's end are left out without a message.
LineRead(p) ==
    \/ ~p.ok
    \/ p.buffer[p.index] = Nul
    \/ ListFull(p.words)

NextParameter == [p \in ParseStates |->
    IF LineRead(p) THEN p ELSE Parameter[Leading(p)]]

Parameters(p) == Through([n \in 1..MaxLength |-> NextParameter], p)

ParseResult == [p \in ParseStates |->
    [ok |-> p.ok /\ ~p.quoted, words |-> p.words, index |-> p.index]]

Parse(input) == ParseResult[Parameters(ParseInit(input))]

=============================================================================
