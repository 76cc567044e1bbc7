------------------------- MODULE CommandLineProofs -------------------------
(***************************************************************************)
(* What holds of the words the console reads in a line, and of the numbers *)
(* in them, for a line of any length and any number of parameters.         *)
(***************************************************************************)
EXTENDS CommandLine, Iteration

(* A loop whose turns stay in S, turn by turn.                             *)
Turning(f, S, x, turns, N) ==
    /\ f \in [0..N -> S]
    /\ f[0] = x
    /\ \A n \in 1..N : f[n] = turns[n][f[n - 1]]
    /\ Through(turns, x) = f[N]

LEMMA ThroughSteps ==
  ASSUME NEW S, NEW x \in S, NEW turns, NEW N \in Nat, Len(turns) = N,
         \A n \in 1..N : \A s \in S : turns[n][s] \in S
  PROVE  \E f : Turning(f, S, x, turns, N)
<1> DEFINE Runs(f) == f = [n \in 0..Len(turns) |-> IF n = 0 THEN x ELSE turns[n][f[n - 1]]]
           after == CHOOSE f : Runs(f)
           step == [n \in (0 + 1)..N |-> [s \in S |-> turns[n][s]]]
<1>1. Through(turns, x) = after[N]
  BY DEF Through
<1>2. step \in Steps(S, 0, N)
  BY DEF Steps
<1>3. \A n \in 1..N : \A s \in S : step[n][s] = turns[n][s]
  OBVIOUS
<1> HIDE DEF step, after
<1>4. PICK f : Iterates(f, S, x, 0, N, step)
  BY <1>2, 0 \in Nat, IterationExists
<1>5. /\ f \in [0..N -> S] /\ f[0] = x
      /\ \A n \in 1..N : f[n] = turns[n][f[n - 1]]
  <2>1. ASSUME NEW n \in 1..N PROVE f[n] = turns[n][f[n - 1]]
    <3>1. f[n - 1] \in S /\ f[n] = step[n][f[n - 1]]
      BY <1>4 DEF Iterates
    <3>2. QED
      BY <1>3, <3>1
  <2>2. QED
    BY <1>4, <2>1 DEF Iterates
<1>6. Runs(f)
  <2>1. \A n \in 0..N : n = 0 \/ (n # 0 /\ n \in 1..N)
    OBVIOUS
  <2>2. f = [n \in 0..N |-> f[n]]
    BY <1>5
  <2>3. f = [n \in 0..N |-> IF n = 0 THEN x ELSE turns[n][f[n - 1]]]
    BY ONLY <1>5, <2>1, <2>2, Zenon
  <2>4. QED
    BY ONLY <2>3, Len(turns) = N, Zenon
<1> HIDE DEF Runs
<1>7. Runs(after)
  BY ONLY <1>6, Zenon DEF after
<1>8. after = [n \in 0..N |-> IF n = 0 THEN x ELSE turns[n][after[n - 1]]]
  BY ONLY <1>7, Len(turns) = N, Zenon DEF Runs
<1>9. \A n \in 0..N : after[n] = IF n = 0 THEN x ELSE turns[n][after[n - 1]]
  BY ONLY <1>8, Zenon
<1>10. after[0] = x /\ \A n \in 1..N : after[n] = turns[n][after[n - 1]]
  <2>1. after[0] = x
    BY <1>9
  <2>2. \A n \in 1..N : n \in 0..N /\ n # 0
    OBVIOUS
  <2>3. QED
    BY ONLY <1>9, <2>1, <2>2, Zenon
<1>11. \A n \in 0..N : after[n] \in S
  <2> DEFINE T == {m \in 0..N : after[m] \in S}
  <2>1. 0 \in T /\ 0 \in Nat
    BY <1>10
  <2>2. ASSUME NEW m \in (0 + 1)..N, m - 1 \in T PROVE m \in T
    <3>1. m \in 1..N /\ m \in 0..N /\ after[m - 1] \in S
      BY <2>2
    <3>2. after[m] = turns[m][after[m - 1]] /\ turns[m][after[m - 1]] \in S
      BY ONLY <1>10, <3>1, \A n \in 1..N : \A s \in S : turns[n][s] \in S, Zenon
    <3>3. QED
      BY <3>1, <3>2
  <2> HIDE DEF T
  <2>3. 0..N \subseteq T
    BY <2>1, <2>2, InductionUpTo
  <2>4. QED
    BY <2>3 DEF T
<1>12. after \in [0..N -> S]
  <2>1. DOMAIN after = 0..N /\ after = [n \in 0..N |-> after[n]]
    BY ONLY <1>8, Zenon
  <2>2. QED
    BY <1>11, <2>1
<1>13. QED
  BY <1>1, <1>10, <1>12 DEF Turning

LEMMA ThroughStays ==
  ASSUME NEW S, NEW x \in S, NEW turns, NEW N \in Nat, Len(turns) = N,
         \A n \in 1..N : \A s \in S : turns[n][s] \in S
  PROVE  Through(turns, x) \in S
<1>1. PICK f : Turning(f, S, x, turns, N)
  BY ThroughSteps
<1>2. QED
  BY <1>1 DEF Turning

(* What a word is made of.                                                 *)
Texts == Characters \union {Nul}

-----------------------------------------------------------------------------
(* Numbers. *)

LEMMA DigitTypes == ASSUME NEW c PROVE DigitValue(c) \in Nat
<1>1. DOMAIN Digits = 1..16 /\ Len(Digits) = 16
  BY DEF Digits
<1>2. CASE \E i \in DOMAIN Digits : Digits[i] = c
  <2>1. PICK n : n = CHOOSE i \in DOMAIN Digits : Digits[i] = c
    OBVIOUS
  <2>2. n \in DOMAIN Digits
    BY <1>2, <2>1
  <2>3. DigitValue(c) = n - 1
    BY <1>2, <2>1 DEF DigitValue
  <2>4. QED
    BY <1>1, <2>2, <2>3
<1>3. CASE ~ \E i \in DOMAIN Digits : Digits[i] = c
  BY <1>1, <1>3 DEF DigitValue
<1>4. QED
  BY <1>2, <1>3

LEMMA AddDigitTypes ==
  ASSUME NEW c, NEW base \in {10, 16}, NEW n \in Numbers
  PROVE  AddDigit(c, base)[n] \in Numbers
<1>1. PICK number : number = (n.number * base + DigitValue(c)) % Word
  OBVIOUS
<1>2. n.number * base + DigitValue(c) \in Nat
  BY DigitTypes DEF Numbers
<1>3. number \in Nat
  BY <1>1, <1>2, CommandLineAssumption
<1>4. PICK valid \in BOOLEAN : valid = (n.valid /\ DigitValue(c) < base /\ number >= n.number)
  OBVIOUS
<1>5. AddDigit(c, base)[n] = [valid |-> valid, number |-> number]
  BY <1>1, <1>4 DEF AddDigit
<1>6. QED
  BY <1>3, <1>5 DEF Numbers

(* What String_To_Integer leaves is a truth value and an integer.          *)
LEMMA IntegerTypes ==
  ASSUME NEW string \in Seq(Texts)
  PROVE  /\ StringToInteger(string).valid \in BOOLEAN
         /\ StringToInteger(string).value \in Int
<1> DEFINE negative == string # <<>> /\ string[1] = "-"
           unsigned == IF negative THEN Tail(string) ELSE string
           hex      == Len(unsigned) >= 2 /\ SubSeq(unsigned, 1, 2) = <<"0", "x">>
           digits   == IF hex THEN SubSeq(unsigned, 3, Len(unsigned)) ELSE unsigned
           turns    == [i \in DOMAIN digits |-> AddDigit(digits[i], IF hex THEN 16 ELSE 10)]
           zero     == [valid |-> TRUE, number |-> 0]
           read     == Through(turns, zero)
           signed   == IF read.number < Word \div 2 THEN read.number ELSE read.number - Word
           valid    == read.valid /\ (~hex \/ negative => signed >= 0)
           value    == CASE ~valid -> 0 [] valid /\ negative -> -signed [] OTHER -> signed
<1>1. unsigned \in Seq(Texts)
  <2>1. CASE negative
    <3>1. Tail(string) \in Seq(Texts)
      BY <2>1
    <3>2. QED
      BY <2>1, <3>1
  <2>2. CASE ~negative
    BY <2>2
  <2>3. QED
    BY <2>1, <2>2
<1>2. digits \in Seq(Texts)
  <2>1. CASE hex
    <3>1. SubSeq(unsigned, 3, Len(unsigned)) \in Seq(Texts)
      <4> HIDE DEF unsigned
      <4>1. QED
        BY <1>1
    <3>2. QED
      BY <2>1, <3>1
  <2>2. CASE ~hex
    BY <1>1, <2>2
  <2>3. QED
    BY <2>1, <2>2
<1>3. PICK base \in {10, 16} : base = IF hex THEN 16 ELSE 10
  OBVIOUS
<1>4. PICK N \in Nat : N = Len(digits) /\ DOMAIN digits = 1..N
  BY <1>2
<1>5. zero \in Numbers
  BY DEF Numbers
<1> HIDE DEF digits, unsigned, negative, hex
<1>6. Len(turns) = N /\ \A n \in 1..N : turns[n] = AddDigit(digits[n], base)
  BY <1>3, <1>4
<1>7. StringToInteger(string) = [valid |-> valid, value |-> value]
  BY DEF StringToInteger, digits, unsigned, negative, hex
<1> HIDE DEF turns, zero
<1>8. read \in Numbers
  <2>1. \A n \in 1..N : \A s \in Numbers : turns[n][s] \in Numbers
    BY <1>3, <1>6, AddDigitTypes
  <2>2. Len(turns) = N
    BY <1>6
  <2>3. QED
    BY ONLY N \in Nat, <1>5, <2>1, <2>2, ThroughStays
<1> HIDE DEF read
<1>9. signed \in Int
  BY <1>8, CommandLineAssumption DEF Numbers
<1>10. read.valid \in BOOLEAN
  BY <1>8 DEF Numbers
<1>11. QED
  BY <1>7, <1>9, <1>10

-----------------------------------------------------------------------------
(* The parser stays within the line's buffer, before the null behind it,   *)
(* and the words within the list.                                          *)

Parsers == {p \in ParseStates :
    /\ Len(p.buffer) = MaxLength + 1 /\ p.buffer[MaxLength + 1] = Nul
    /\ p.index \in 1..(MaxLength + 1)
    /\ p.length <= MaxLength
    /\ Len(p.words) <= MaxParameters + 1}

LEMMA ParserFields ==
  ASSUME NEW p \in Parsers
  PROVE  /\ p = [buffer |-> p.buffer, length |-> p.length, index |-> p.index,
                 quoted |-> p.quoted, ok |-> p.ok, words |-> p.words]
         /\ p.buffer \in Seq(Texts) /\ Len(p.buffer) = MaxLength + 1
         /\ p.buffer[MaxLength + 1] = Nul /\ DOMAIN p.buffer = 1..(MaxLength + 1)
         /\ p.index \in 1..(MaxLength + 1)
         /\ p.length \in Nat /\ p.length <= MaxLength
         /\ p.quoted \in BOOLEAN /\ p.ok \in BOOLEAN
         /\ p.words \in Seq(Seq(Texts)) /\ Len(p.words) <= MaxParameters + 1
         /\ p \in ParseStates /\ MaxLength \in Nat /\ MaxParameters \in Nat
<1>1. /\ p.buffer \in Seq(Texts) /\ Len(p.buffer) = MaxLength + 1
      /\ p.buffer[MaxLength + 1] = Nul
      /\ p.index \in 1..(MaxLength + 1)
      /\ p.length \in Nat /\ p.length <= MaxLength
      /\ p.quoted \in BOOLEAN /\ p.ok \in BOOLEAN
      /\ p.words \in Seq(Seq(Texts)) /\ Len(p.words) <= MaxParameters + 1
      /\ p \in ParseStates /\ MaxLength \in Nat /\ MaxParameters \in Nat
  BY CommandLineAssumption DEF Parsers, ParseStates, Texts
<1>2. p = [buffer |-> p.buffer, length |-> p.length, index |-> p.index,
           quoted |-> p.quoted, ok |-> p.ok, words |-> p.words]
  BY <1>1 DEF ParseStates, Texts
<1>3. QED
  BY <1>1, <1>2

LEMMA ParserAt ==
  ASSUME NEW p \in Parsers, NEW i \in 1..(MaxLength + 1), NEW q,
         q = [p EXCEPT !.index = i]
  PROVE  /\ q \in Parsers /\ q.index = i /\ q.quoted = p.quoted
         /\ q.buffer = p.buffer /\ q.words = p.words /\ q.ok = p.ok /\ q.length = p.length
<1>1. /\ q \in ParseStates /\ q.index = i /\ q.quoted = p.quoted
      /\ q.buffer = p.buffer /\ q.words = p.words /\ q.ok = p.ok /\ q.length = p.length
  <2>1. p \in ParseStates /\ i \in Nat
    BY ParserFields
  <2>2. QED
    BY <2>1 DEF ParseStates, Texts
<1>2. q \in Parsers
  BY <1>1, ParserFields DEF Parsers
<1>3. QED
  BY <1>1, <1>2

(* The first character that is no space.                                   *)
FirstOf(p) ==
    CHOOSE i \in p.index..(MaxLength + 1) :
        /\ p.buffer[i] # Space
        /\ \A j \in p.index..(i - 1) : p.buffer[j] = Space

LEMMA FirstExists ==
  ASSUME NEW p \in Parsers
  PROVE  /\ FirstOf(p) \in p.index..(MaxLength + 1)
         /\ p.buffer[FirstOf(p)] # Space
         /\ \A j \in p.index..(FirstOf(p) - 1) : p.buffer[j] = Space
<1> DEFINE Others == {i \in p.index..(MaxLength + 1) : p.buffer[i] # Space}
<1>1. Nul # Space
  BY DEF Nul, Space
<1>2. MaxLength + 1 \in Others
  BY <1>1, ParserFields
<1>3. Others \in SUBSET Nat /\ Others # {}
  BY <1>2, ParserFields
<1>4. PICK i \in Others : \A k \in Others : i <= k
  BY ONLY <1>3, LeastNatural
<1>5. ASSUME NEW j \in p.index..(i - 1) PROVE p.buffer[j] = Space
  <2>1. p.index \in Int /\ i \in p.index..(MaxLength + 1) /\ MaxLength \in Int
    BY <1>4, ParserFields
  <2>2. j \in p.index..(MaxLength + 1) /\ ~ (i <= j)
    BY <2>1
  <2>3. QED
    BY <1>4, <2>2
<1>6. \E k \in p.index..(MaxLength + 1) :
         p.buffer[k] # Space /\ \A j \in p.index..(k - 1) : p.buffer[j] = Space
  BY <1>4, <1>5
<1>7. QED
  BY ONLY <1>6 DEF FirstOf

LEMMA LeadingTypes ==
  ASSUME NEW p \in Parsers
  PROVE  /\ Leading(p) \in Parsers
         /\ Leading(p).buffer = p.buffer /\ Leading(p).words = p.words
         /\ Leading(p).index >= p.index /\ Leading(p).ok = p.ok
<1>1. PICK first \in p.index..(MaxLength + 1) : first = FirstOf(p)
  BY FirstExists
<1>2. Leading(p) = IF p.buffer[first] = Quote
                   THEN [p EXCEPT !.index = first + 1, !.quoted = TRUE]
                   ELSE [p EXCEPT !.index = first]
  BY <1>1 DEF Leading, FirstOf
<1>3. Quote # Nul
  BY DEF Quote, Nul
<1>4. p.buffer[first] = Quote => first <= MaxLength
  BY <1>3, ParserFields
<1>5. first \in 1..(MaxLength + 1) /\ first >= p.index
      /\ (p.buffer[first] = Quote => first + 1 \in 1..(MaxLength + 1))
  BY <1>4, ParserFields
<1>6. QED
  <2>1. CASE p.buffer[first] = Quote
    <3>1. PICK i \in 1..(MaxLength + 1) : i = first + 1
      BY <1>5, <2>1
    <3>2. Leading(p) = [p EXCEPT !.index = i, !.quoted = TRUE]
      BY <1>2, <2>1, <3>1
    <3>3. i >= p.index
      BY <1>5, <3>1, ParserFields
    <3>4. /\ Leading(p) \in Parsers /\ Leading(p).index = i
          /\ Leading(p).buffer = p.buffer /\ Leading(p).words = p.words
          /\ Leading(p).ok = p.ok
      <4>1. p \in ParseStates /\ i \in Nat
        BY ParserFields
      <4>2. PICK q : q = Leading(p)
        OBVIOUS
      <4>3. /\ q \in ParseStates /\ q.index = i
            /\ q.buffer = p.buffer /\ q.words = p.words
            /\ q.ok = p.ok /\ q.length = p.length
        BY <3>2, <4>1, <4>2 DEF ParseStates, Texts
      <4>4. q \in Parsers
        BY <4>3, ParserFields DEF Parsers
      <4>5. QED
        BY <4>2, <4>3, <4>4
    <3>5. QED
      BY <3>3, <3>4
  <2>2. CASE p.buffer[first] # Quote
    <3>1. Leading(p) = [p EXCEPT !.index = first]
      BY <1>2, <2>2
    <3>2. QED
      BY <1>5, <3>1, ParserAt
  <2>3. QED
    BY <2>1, <2>2

(* The character that an escape replaces is followed by the rest.          *)
LEMMA UnescapeTypes ==
  ASSUME NEW p \in Parsers, p.index <= MaxLength
  PROVE  /\ Unescape(p) \in Parsers
         /\ Unescape(p).words = p.words /\ Unescape(p).index = p.index
<1> DEFINE moved == [i \in DOMAIN p.buffer |-> IF i \in p.index..(p.length - 1)
                                               THEN p.buffer[i + 1] ELSE p.buffer[i]]
<1>1. CASE p.index < p.length /\ p.buffer[p.index + 1] \in {Quote, Backslash}
  <2>1. Unescape(p) = [p EXCEPT !.buffer = moved, !.length = @ - 1]
    BY <1>1 DEF Unescape
  <2>2. moved \in Seq(Texts) /\ Len(moved) = MaxLength + 1 /\ moved[MaxLength + 1] = Nul
    <3>1. \A i \in 1..(MaxLength + 1) : moved[i] \in Texts
      BY ParserFields
    <3>2. DOMAIN moved = 1..(MaxLength + 1) /\ MaxLength + 1 \in Nat
      BY ParserFields, CommandLineAssumption
    <3>3. moved[MaxLength + 1] = Nul
      BY <3>2, ParserFields
    <3> HIDE DEF moved
    <3>4. moved \in [1..(MaxLength + 1) -> Texts]
      <4>1. moved = [i \in 1..(MaxLength + 1) |-> moved[i]]
        BY <3>2 DEF moved
      <4>2. QED
        BY <3>1, <4>1
    <3>5. QED
      BY <3>2, <3>3, <3>4
  <2> HIDE DEF moved
  <2>3. p.length - 1 \in Nat /\ p.length - 1 <= MaxLength
    BY <1>1, ParserFields
  <2>4. QED
    BY <2>1, <2>2, <2>3, ParserFields DEF Parsers, ParseStates, Texts
<1>2. CASE ~ (p.index < p.length /\ p.buffer[p.index + 1] \in {Quote, Backslash})
  <2>1. Unescape(p) = [p EXCEPT !.ok = FALSE]
    BY <1>2 DEF Unescape
  <2>2. QED
    BY <2>1, ParserFields DEF Parsers, ParseStates, Texts
<1>3. QED
  BY <1>1, <1>2

LEMMA NextCharacterTypes ==
  ASSUME NEW p \in Parsers
  PROVE  /\ NextCharacter[p] \in Parsers
         /\ NextCharacter[p].words = p.words
         /\ IF AtWordEnd(p) THEN NextCharacter[p] = p
            ELSE NextCharacter[p].index = p.index + 1
<1>1. NextCharacter[p] = IF AtWordEnd(p) THEN p
                         ELSE IF p.buffer[p.index] = Backslash
                         THEN [Unescape(p) EXCEPT !.index = @ + 1]
                         ELSE [p EXCEPT !.index = @ + 1]
  BY ParserFields DEF NextCharacter
<1>2. CASE AtWordEnd(p)
  BY <1>1, <1>2
<1>3. CASE ~AtWordEnd(p)
  <2>1. p.index <= MaxLength
    BY <1>3, ParserFields DEF AtWordEnd
  <2>2. ASSUME NEW q \in Parsers, q.index = p.index
        PROVE  /\ [q EXCEPT !.index = @ + 1] \in Parsers
               /\ [q EXCEPT !.index = @ + 1].words = q.words
               /\ [q EXCEPT !.index = @ + 1].index = p.index + 1
    <3>1. q.index + 1 \in 1..(MaxLength + 1)
      BY <2>1, <2>2, ParserFields
    <3>2. QED
      BY <2>2, <3>1, ParserAt
  <2>3. CASE p.buffer[p.index] = Backslash
    <3>1. PICK q \in Parsers : q = Unescape(p) /\ q.index = p.index /\ q.words = p.words
      BY <2>1, UnescapeTypes
    <3>2. NextCharacter[p] = [q EXCEPT !.index = @ + 1]
      BY <1>1, <1>3, <2>3, <3>1
    <3>3. QED
      BY <1>3, <2>2, <3>1, <3>2
  <2>4. CASE p.buffer[p.index] # Backslash
    BY <1>1, <1>3, <2>2, <2>4
  <2>5. QED
    BY <2>3, <2>4
<1>4. QED
  BY <1>2, <1>3

(* The loop that looks for the end of a word finds it.                     *)
LEMMA WordEndTypes ==
  ASSUME NEW p \in Parsers
  PROVE  /\ WordEnd(p) \in Parsers /\ AtWordEnd(WordEnd(p))
         /\ WordEnd(p).words = p.words /\ WordEnd(p).index >= p.index
<1> DEFINE S == {q \in Parsers : q.words = p.words /\ q.index >= p.index}
           turns == [n \in 1..MaxLength |-> NextCharacter]
<1>1. MaxLength \in Nat /\ p.index \in Nat /\ p.index >= 1
  BY ParserFields
<1>2. Len(turns) = MaxLength /\ \A n \in 1..MaxLength : turns[n] = NextCharacter
  BY <1>1
<1>3. p \in S
  BY <1>1
<1>4. ASSUME NEW q \in S PROVE NextCharacter[q] \in S
  <2>1. q.index \in Nat
    BY ParserFields
  <2>2. QED
    BY <1>1, <2>1, NextCharacterTypes
<1>5. WordEnd(p) = Through(turns, p)
  BY DEF WordEnd
<1> HIDE DEF turns, S
<1>6. PICK f : Turning(f, S, p, turns, MaxLength)
  <2>1. \A n \in 1..MaxLength : \A s \in S : turns[n][s] \in S
    BY <1>2, <1>4
  <2>2. Len(turns) = MaxLength /\ MaxLength \in Nat
    BY <1>1, <1>2
  <2>3. QED
    BY ONLY <1>3, <2>1, <2>2, ThroughSteps
<1>7. /\ f[0] = p
      /\ \A n \in 1..MaxLength : f[n] = NextCharacter[f[n - 1]]
      /\ \A n \in 0..MaxLength : f[n] \in S /\ f[n] \in Parsers
      /\ WordEnd(p) = f[MaxLength]
  BY <1>2, <1>5, <1>6 DEF S, Turning
<1> DEFINE T == {n \in 0..MaxLength : AtWordEnd(f[n]) \/ f[n].index >= n + 1}
<1>8. 0 \in T /\ 0 \in Nat
  BY <1>1, <1>7
<1>9. ASSUME NEW n \in (0 + 1)..MaxLength, n - 1 \in T PROVE n \in T
  <2>1. n \in 1..MaxLength /\ n - 1 \in 0..MaxLength
    BY <1>9, <1>1
  <2>2. PICK q \in Parsers : q = f[n - 1] /\ (AtWordEnd(q) \/ q.index >= n)
    BY <1>7, <1>9, <2>1
  <2>3. f[n] = NextCharacter[q]
    BY <1>7, <2>1, <2>2
  <2>4. CASE AtWordEnd(q)
    BY <2>1, <2>3, <2>4, NextCharacterTypes
  <2>5. CASE ~AtWordEnd(q)
    <3>1. q.index \in Nat /\ f[n].index = q.index + 1
      BY <2>3, <2>5, NextCharacterTypes, ParserFields
    <3>2. QED
      BY <2>1, <2>2, <2>5, <3>1
  <2>6. QED
    BY <2>4, <2>5
<1> HIDE DEF T
<1>10. MaxLength \in T
  <2>1. 0..MaxLength \subseteq T
    BY <1>1, <1>8, <1>9, InductionUpTo
  <2>2. QED
    BY <1>1, <2>1
<1>11. f[MaxLength] \in S /\ AtWordEnd(f[MaxLength])
  <2>1. PICK q \in Parsers : q = f[MaxLength]
    BY <1>1, <1>7
  <2>2. CASE q.index >= MaxLength + 1
    <3>1. q.index = MaxLength + 1 /\ q.buffer[q.index] = Nul
      BY <2>2, ParserFields
    <3>2. QED
      BY <1>1, <1>7, <2>1, <3>1 DEF AtWordEnd
  <2>3. CASE AtWordEnd(q)
    BY <1>1, <1>7, <2>1, <2>3
  <2>4. QED
    BY <1>10, <2>1, <2>2, <2>3 DEF T
<1>12. QED
  BY <1>7, <1>11 DEF S

(* A word is added to the list, and unless the line ends the parser moves  *)
(* over the character behind it.                                           *)
LEMMA EndWordTypes ==
  ASSUME NEW p \in Parsers, NEW first \in 1..p.index, Len(p.words) <= MaxParameters
  PROVE  LET q == EndWord(first)[p] IN
         /\ q \in Parsers
         /\ q.words = Append(p.words, SubSeq(p.buffer, first, p.index - 1))
         /\ q.ok = p.ok
         /\ q.index = IF p.buffer[p.index] = Nul THEN p.index ELSE p.index + 1
         /\ q.quoted = IF p.buffer[p.index] = Quote THEN ~p.quoted ELSE p.quoted
         /\ \A i \in 1..(MaxLength + 1) : i # p.index => q.buffer[i] = p.buffer[i]
         /\ q.buffer[p.index] = Nul
<1>1. /\ p \in ParseStates /\ p.index \in 1..(MaxLength + 1) /\ MaxLength \in Nat
      /\ DOMAIN p.buffer = 1..(MaxLength + 1) /\ Len(p.buffer) = MaxLength + 1
      /\ p.buffer \in Seq(Texts)
  BY ParserFields
<1>2. PICK buffer : buffer = [p.buffer EXCEPT ![p.index] = Nul]
  OBVIOUS
<1>3. /\ buffer \in Seq(Texts) /\ Len(buffer) = MaxLength + 1
      /\ buffer[p.index] = Nul
      /\ \A i \in 1..(MaxLength + 1) : i # p.index => buffer[i] = p.buffer[i]
  <2>1. p.buffer \in [1..(MaxLength + 1) -> Texts] /\ Nul \in Texts
    <3>1. p.buffer \in [1..Len(p.buffer) -> Texts]
      BY <1>1
    <3>2. Nul \in Texts
      BY DEF Texts
    <3>3. QED
      BY <1>1, <3>1, <3>2
  <2>2. /\ buffer \in [1..(MaxLength + 1) -> Texts]
        /\ buffer[p.index] = Nul
        /\ \A i \in 1..(MaxLength + 1) : i # p.index => buffer[i] = p.buffer[i]
    BY <1>1, <1>2, <2>1
  <2>3. QED
    BY <1>1, <2>2
<1>4. buffer[MaxLength + 1] = Nul
  <2>1. p.buffer[MaxLength + 1] = Nul /\ MaxLength + 1 \in 1..(MaxLength + 1)
    BY ParserFields
  <2>2. QED
    BY <1>3, <2>1
<1>5. PICK word : word = SubSeq(p.buffer, first, p.index - 1)
  OBVIOUS
<1>6. word \in Seq(Texts)
  BY <1>1, <1>5
<1>7. PICK words : words = Append(p.words, word)
  OBVIOUS
<1>8. words \in Seq(Seq(Texts)) /\ Len(words) <= MaxParameters + 1
  BY <1>6, <1>7, ParserFields
<1>9. PICK index : index = IF p.buffer[p.index] = Nul THEN p.index ELSE p.index + 1
  OBVIOUS
<1>10. index \in 1..(MaxLength + 1)
  BY <1>1, <1>9, ParserFields
<1>11. PICK q : q = EndWord(first)[p]
  OBVIOUS
<1>12. q = [p EXCEPT !.quoted = IF p.buffer[p.index] = Quote THEN ~@ ELSE @,
                     !.buffer = buffer, !.index = index, !.words = words]
  BY <1>1, <1>2, <1>5, <1>7, <1>9, <1>11 DEF EndWord
<1>13. /\ q \in ParseStates
       /\ q.buffer = buffer /\ q.index = index /\ q.words = words
       /\ q.ok = p.ok /\ q.length = p.length
       /\ q.quoted = IF p.buffer[p.index] = Quote THEN ~p.quoted ELSE p.quoted
  <2>0. /\ p \in ParseStates /\ buffer \in Seq(Texts) /\ index \in Nat
        /\ words \in Seq(Seq(Texts))
    BY <1>1, <1>3, <1>8, <1>10
  <2>1. CASE p.buffer[p.index] = Quote
    <3>1. q = [p EXCEPT !.quoted = ~@, !.buffer = buffer, !.index = index, !.words = words]
      BY <1>12, <2>1
    <3>2. QED
      BY ONLY <2>0, <2>1, <3>1 DEF ParseStates, Texts
  <2>2. CASE p.buffer[p.index] # Quote
    <3>1. q = [p EXCEPT !.quoted = @, !.buffer = buffer, !.index = index, !.words = words]
      BY <1>12, <2>2
    <3>2. QED
      BY ONLY <2>0, <2>2, <3>1 DEF ParseStates, Texts
  <2>3. QED
    BY <2>1, <2>2
<1>14. q \in Parsers
  BY <1>3, <1>4, <1>8, <1>10, <1>13, ParserFields DEF Parsers
<1>15. QED
  BY <1>3, <1>5, <1>7, <1>9, <1>11, <1>13, <1>14

LEMMA ParameterTypes ==
  ASSUME NEW p \in Parsers, Len(p.words) <= MaxParameters
  PROVE  LET q == Parameter[p] IN
         /\ q \in Parsers
         /\ IF p.buffer[p.index] = Nul THEN q = p
            ELSE q.index > p.index \/ q.buffer[q.index] = Nul
         /\ q.index >= p.index
<1>1. Parameter[p] = IF p.buffer[p.index] = Nul THEN p ELSE EndWord(p.index)[WordEnd(p)]
  BY ParserFields DEF Parameter
<1>2. CASE p.buffer[p.index] = Nul
  BY <1>1, <1>2, ParserFields
<1>3. CASE p.buffer[p.index] # Nul
  <2>1. PICK r \in Parsers : r = WordEnd(p) /\ r.words = p.words /\ r.index >= p.index
    BY WordEndTypes
  <2>2. p.index \in 1..r.index /\ r.index \in Nat /\ p.index \in Nat /\ Len(r.words) <= MaxParameters
    BY <2>1, ParserFields
  <2>3. PICK q : q = EndWord(p.index)[r]
    OBVIOUS
  <2>4. /\ q \in Parsers
        /\ q.index = IF r.buffer[r.index] = Nul THEN r.index ELSE r.index + 1
        /\ q.buffer[r.index] = Nul
    BY <2>2, <2>3, EndWordTypes
  <2>5. Parameter[p] = q
    BY <1>1, <1>3, <2>1, <2>3
  <2>6. q.index >= p.index /\ (q.index > p.index \/ q.buffer[q.index] = Nul)
    BY <2>1, <2>2, <2>4
  <2>7. QED
    BY <1>3, <2>4, <2>5, <2>6
<1>4. QED
  BY <1>2, <1>3

LEMMA NextParameterTypes ==
  ASSUME NEW p \in Parsers
  PROVE  /\ NextParameter[p] \in Parsers
         /\ LineRead(p) => NextParameter[p] = p
         /\ ~LineRead(p) => LineRead(NextParameter[p]) \/ NextParameter[p].index > p.index
<1>1. NextParameter[p] = IF LineRead(p) THEN p ELSE Parameter[Leading(p)]
  BY ParserFields DEF NextParameter
<1>2. CASE LineRead(p)
  BY <1>1, <1>2
<1>3. CASE ~LineRead(p)
  <2>1. PICK r \in Parsers : r = Leading(p) /\ r.words = p.words /\ r.index >= p.index
    BY LeadingTypes
  <2>2. Len(r.words) <= MaxParameters
    BY <1>3, <2>1, ParserFields DEF LineRead, ListFull
  <2>3. PICK q : q = Parameter[r]
    OBVIOUS
  <2>4. /\ q \in Parsers /\ q.index >= r.index
        /\ IF r.buffer[r.index] = Nul THEN q = r
           ELSE q.index > r.index \/ q.buffer[q.index] = Nul
    BY <2>2, <2>3, ParameterTypes
  <2>5. NextParameter[p] = q
    BY <1>1, <1>3, <2>1, <2>3
  <2>6. q.index > p.index \/ q.buffer[q.index] = Nul
    BY <2>1, <2>4, ParserFields
  <2>7. QED
    BY <1>3, <2>4, <2>5, <2>6 DEF LineRead
<1>4. QED
  BY <1>2, <1>3

(* The loop over the line reads it to its end, or until the list is full.  *)
LEMMA ParametersSteps ==
  ASSUME NEW p \in Parsers
  PROVE  \E f : /\ f \in [0..MaxLength -> Parsers] /\ f[0] = p
                /\ \A n \in 1..MaxLength : f[n] = NextParameter[f[n - 1]]
                /\ Parameters(p) = f[MaxLength] /\ LineRead(f[MaxLength])
<1> DEFINE turns == [n \in 1..MaxLength |-> NextParameter]
<1>1. MaxLength \in Nat /\ p.index \in Nat /\ p.index >= 1
  BY ParserFields
<1>2. Len(turns) = MaxLength /\ \A n \in 1..MaxLength : turns[n] = NextParameter
  BY <1>1
<1>3. Parameters(p) = Through(turns, p)
  BY DEF Parameters
<1> HIDE DEF turns
<1>4. PICK f : Turning(f, Parsers, p, turns, MaxLength)
  <2>1. \A n \in 1..MaxLength : \A s \in Parsers : turns[n][s] \in Parsers
    BY <1>2, NextParameterTypes
  <2>2. Len(turns) = MaxLength /\ MaxLength \in Nat
    BY <1>1, <1>2
  <2>3. QED
    BY ONLY p \in Parsers, <2>1, <2>2, ThroughSteps
<1>5. /\ f \in [0..MaxLength -> Parsers] /\ f[0] = p
      /\ \A n \in 1..MaxLength : f[n] = NextParameter[f[n - 1]]
      /\ Parameters(p) = f[MaxLength]
  BY <1>2, <1>3, <1>4 DEF Turning
<1> DEFINE T == {n \in 0..MaxLength : LineRead(f[n]) \/ f[n].index >= n + 1}
<1>6. 0 \in T /\ 0 \in Nat
  BY <1>1, <1>5
<1>7. ASSUME NEW n \in (0 + 1)..MaxLength, n - 1 \in T PROVE n \in T
  <2>1. n \in 1..MaxLength /\ n - 1 \in 0..MaxLength
    BY <1>7, <1>1
  <2>2. PICK q \in Parsers : q = f[n - 1] /\ (LineRead(q) \/ q.index >= n)
    BY <1>5, <1>7, <2>1
  <2>3. PICK r \in Parsers : r = f[n] /\ r = NextParameter[q]
    BY <1>5, <2>1, <2>2, NextParameterTypes
  <2>4. q.index \in Nat /\ r.index \in Nat
    BY ParserFields
  <2>5. LineRead(r) \/ r.index >= n + 1
    BY <2>1, <2>2, <2>3, <2>4, NextParameterTypes
  <2>6. LineRead(f[n]) \/ f[n].index >= n + 1
    BY ONLY <2>3, <2>5, Zenon
  <2>7. n \in 0..MaxLength
    BY <2>1
  <2>8. QED
    BY <2>6, <2>7
<1> HIDE DEF T
<1>8. MaxLength \in T
  <2>1. 0..MaxLength \subseteq T
    BY <1>1, <1>6, <1>7, InductionUpTo
  <2>2. QED
    BY <1>1, <2>1
<1>9. LineRead(f[MaxLength])
  <2>1. PICK q \in Parsers : q = f[MaxLength]
    BY <1>1, <1>5
  <2>2. CASE q.index >= MaxLength + 1
    <3>1. q.index = MaxLength + 1 /\ q.buffer[q.index] = Nul
      BY <2>2, ParserFields
    <3>2. QED
      BY <2>1, <3>1 DEF LineRead
  <2>3. CASE LineRead(q)
    BY <2>1, <2>3
  <2>4. QED
    BY <1>8, <2>1, <2>2, <2>3 DEF T
<1>10. QED
  BY <1>5, <1>9

Lines == {input \in Seq(Characters) : Len(input) <= MaxLength}

LEMMA ParseInitTypes == ASSUME NEW input \in Lines PROVE ParseInit(input) \in Parsers
<1>1. PICK buffer : buffer = InputString(input)
  OBVIOUS
<1>2. MaxLength \in Nat /\ input \in Seq(Characters) /\ Len(input) \in Nat /\ Len(input) <= MaxLength
  BY CommandLineAssumption DEF Lines
<1>3. buffer = [i \in 1..(MaxLength + 1) |-> IF i <= Len(input) THEN input[i] ELSE Nul]
  BY <1>1 DEF InputString
<1>4. \A i \in 1..(MaxLength + 1) : buffer[i] \in Texts
  BY <1>2, <1>3 DEF Texts
<1>5. buffer \in [1..(MaxLength + 1) -> Texts]
  BY <1>3, <1>4
<1>6. buffer \in Seq(Texts) /\ Len(buffer) = MaxLength + 1 /\ buffer[MaxLength + 1] = Nul
  BY <1>2, <1>3, <1>5
<1>7. PICK p : p = ParseInit(input)
  OBVIOUS
<1>8. p = [buffer |-> buffer, length |-> Len(input), index |-> 1,
           quoted |-> FALSE, ok |-> TRUE, words |-> <<>>]
  BY <1>1, <1>7 DEF ParseInit
<1>9. <<>> \in Seq(Seq(Texts)) /\ Len(<<>>) = 0
  OBVIOUS
<1>10. p \in ParseStates
  BY ONLY <1>2, <1>6, <1>8, <1>9 DEF ParseStates, Texts
<1>11. Len(p.buffer) = MaxLength + 1 /\ p.buffer[MaxLength + 1] = Nul
       /\ p.index = 1 /\ p.length = Len(input) /\ Len(p.words) = 0
  BY ONLY <1>6, <1>8, <1>9
<1>12. QED
  BY <1>2, <1>7, <1>10, <1>11, CommandLineAssumption DEF Parsers

(* The words of a line fit the list.                                       *)
LEMMA ParseTypes ==
  ASSUME NEW input \in Lines
  PROVE  /\ Parse(input).ok \in BOOLEAN
         /\ Parse(input).words \in Seq(Seq(Texts))
         /\ Len(Parse(input).words) <= MaxParameters + 1
<1>1. PICK p \in Parsers : p = Parameters(ParseInit(input))
  BY ParseInitTypes, ParametersSteps, CommandLineAssumption
<1>2. Parse(input) = [ok |-> p.ok /\ ~p.quoted, words |-> p.words, index |-> p.index]
  BY <1>1, ParserFields DEF Parse, ParseResult
<1>3. QED
  BY <1>2, ParserFields

-----------------------------------------------------------------------------
(* A line without quotes and backslashes. *)

PlainLines == {input \in Lines : \A i \in DOMAIN input : input[i] \notin {Quote, Backslash}}

LEMMA PlainText ==
  ASSUME NEW input \in PlainLines
  PROVE  /\ input \in Lines /\ input \in Seq(Characters)
         /\ Len(input) \in Nat /\ Len(input) <= MaxLength
         /\ DOMAIN input = 1..Len(input) /\ MaxLength \in Nat
         /\ \A i \in 1..(MaxLength + 1) :
               /\ InputString(input)[i] = IF i <= Len(input) THEN input[i] ELSE Nul
               /\ InputString(input)[i] \notin {Quote, Backslash}
               /\ (InputString(input)[i] = Nul) <=> (i > Len(input))
         /\ \A i \in 1..Len(input) : InputString(input)[i] = input[i]
<1>1. /\ input \in Lines /\ input \in Seq(Characters)
      /\ Len(input) \in Nat /\ Len(input) <= MaxLength
      /\ DOMAIN input = 1..Len(input) /\ MaxLength \in Nat
  BY CommandLineAssumption DEF PlainLines, Lines
<1>2. ASSUME NEW i \in 1..(MaxLength + 1)
      PROVE  /\ InputString(input)[i] = IF i <= Len(input) THEN input[i] ELSE Nul
             /\ InputString(input)[i] \notin {Quote, Backslash}
             /\ (InputString(input)[i] = Nul) <=> (i > Len(input))
  <2>1. InputString(input)[i] = IF i <= Len(input) THEN input[i] ELSE Nul
    BY DEF InputString
  <2>2. CASE i <= Len(input)
    <3>1. i \in DOMAIN input /\ input[i] \in Characters
      BY <1>1, <2>2
    <3>2. input[i] \notin {Quote, Backslash} /\ input[i] # Nul
      BY <3>1, CommandLineAssumption DEF PlainLines
    <3>3. QED
      BY <1>1, <2>1, <2>2, <3>2
  <2>3. CASE ~(i <= Len(input))
    <3>1. InputString(input)[i] = Nul /\ i > Len(input)
      BY <1>1, <2>1, <2>3
    <3>2. Nul \notin {Quote, Backslash}
      BY DEF Nul, Quote, Backslash
    <3>3. QED
      BY <2>1, <3>1, <3>2
  <2>4. QED
    BY <2>2, <2>3
<1>3. \A i \in 1..Len(input) : InputString(input)[i] = input[i]
  BY <1>1, <1>2
<1>4. QED
  BY <1>1, <1>2, <1>3

(* The parser in such a line: outside quotes, and what is ahead of it is   *)
(* still as it was typed.                                                  *)
PlainParsers(input) == {p \in Parsers :
    /\ p.ok = TRUE /\ p.quoted = FALSE
    /\ p.index <= Len(input) + 1
    /\ \A i \in p.index..(MaxLength + 1) : p.buffer[i] = InputString(input)[i]}

LEMMA PlainNextCharacter ==
  ASSUME NEW input \in PlainLines, NEW p \in PlainParsers(input)
  PROVE  /\ NextCharacter[p] \in PlainParsers(input)
         /\ NextCharacter[p].buffer = p.buffer
         /\ IF AtWordEnd(p) THEN NextCharacter[p] = p
            ELSE /\ p.index <= Len(input) /\ input[p.index] # Space
                 /\ NextCharacter[p].index = p.index + 1
         /\ NextCharacter[p].words = p.words
<1>0. p \in Parsers /\ p.ok = TRUE /\ p.quoted = FALSE /\ p.index <= Len(input) + 1
  BY DEF PlainParsers
<1>1. NextCharacter[p] = IF AtWordEnd(p) THEN p
                         ELSE IF p.buffer[p.index] = Backslash
                         THEN [Unescape(p) EXCEPT !.index = @ + 1]
                         ELSE [p EXCEPT !.index = @ + 1]
  BY <1>0, ParserFields DEF NextCharacter
<1>2. CASE AtWordEnd(p)
  BY <1>1, <1>2
<1>3. CASE ~AtWordEnd(p)
  <2>1. PICK i : i = p.index
    OBVIOUS
  <2>2. i \in 1..(MaxLength + 1) /\ MaxLength \in Nat
    BY <1>0, <2>1, ParserFields
  <2>3. p.buffer[i] = InputString(input)[i]
    BY <2>1, <2>2 DEF PlainParsers
  <2>4. p.buffer[i] # Nul /\ p.buffer[i] # Space
    BY <1>0, <1>3, <2>1 DEF AtWordEnd
  <2>5. i <= Len(input) /\ input[i] # Space /\ p.buffer[i] # Backslash
    BY <2>2, <2>3, <2>4, PlainText
  <2>6. PICK q : q = [p EXCEPT !.index = i + 1]
    OBVIOUS
  <2>7. NextCharacter[p] = q
    BY <1>1, <1>3, <2>1, <2>5, <2>6
  <2>8. i + 1 \in 1..(MaxLength + 1)
    BY <2>2, <2>5, PlainText
  <2>9. /\ q \in Parsers /\ q.index = i + 1 /\ q.quoted = p.quoted /\ q.ok = p.ok
        /\ q.buffer = p.buffer /\ q.words = p.words
    BY <1>0, <2>6, <2>8, ParserAt
  <2>10. q \in PlainParsers(input)
    <3>1. i + 1 <= Len(input) + 1
      BY <2>2, <2>5, PlainText
    <3>2. \A j \in (i + 1)..(MaxLength + 1) : j \in i..(MaxLength + 1)
      BY <2>2
    <3>3. QED
      BY <1>0, <2>1, <2>9, <3>1, <3>2 DEF PlainParsers
  <2>11. QED
    BY <1>3, <2>1, <2>5, <2>7, <2>9, <2>10
<1>4. QED
  BY <1>2, <1>3

(* The word that begins where the parser is ends before the next space.    *)
LEMMA PlainWordEnd ==
  ASSUME NEW input \in PlainLines, NEW p \in PlainParsers(input)
  PROVE  LET q == WordEnd(p) IN
         /\ q \in PlainParsers(input)
         /\ q.buffer = p.buffer /\ q.words = p.words
         /\ q.index >= p.index
         /\ \A j \in p.index..(q.index - 1) : input[j] # Space
         /\ q.index = Len(input) + 1 \/ (q.index <= Len(input) /\ input[q.index] = Space)
<1> DEFINE S == {q \in PlainParsers(input) :
                    /\ q.buffer = p.buffer /\ q.words = p.words /\ q.index >= p.index
                    /\ \A j \in p.index..(q.index - 1) : input[j] # Space}
           turns == [n \in 1..MaxLength |-> NextCharacter]
<1>1. p \in Parsers /\ MaxLength \in Nat /\ p.index \in Nat /\ p.index >= 1
  BY ParserFields DEF PlainParsers
<1>2. Len(turns) = MaxLength /\ \A n \in 1..MaxLength : turns[n] = NextCharacter
  BY <1>1
<1>3. p \in S
  BY <1>1
<1>4. ASSUME NEW q \in S PROVE NextCharacter[q] \in S
  <2>1. q \in PlainParsers(input) /\ q.index \in Nat /\ q.index >= p.index
    BY ParserFields DEF PlainParsers
  <2>2. CASE AtWordEnd(q)
    BY <2>1, <2>2, PlainNextCharacter
  <2>3. CASE ~AtWordEnd(q)
    <3>1. PICK r : r = NextCharacter[q]
      OBVIOUS
    <3>2. /\ r \in PlainParsers(input) /\ r.buffer = p.buffer /\ r.words = p.words
          /\ r.index = q.index + 1 /\ input[q.index] # Space
      BY <2>1, <2>3, <3>1, PlainNextCharacter
    <3>3. \A j \in p.index..(r.index - 1) : j \in p.index..(q.index - 1) \/ j = q.index
      BY <1>1, <2>1, <3>2
    <3>4. \A j \in p.index..(r.index - 1) : input[j] # Space
      BY <3>2, <3>3
    <3>5. r.index >= p.index
      BY <1>1, <2>1, <3>2
    <3>6. QED
      BY <3>1, <3>2, <3>4, <3>5
  <2>4. QED
    BY <2>2, <2>3
<1>5. WordEnd(p) = Through(turns, p)
  BY DEF WordEnd
<1> HIDE DEF turns, S
<1>6. Through(turns, p) \in S
  <2>1. \A n \in 1..MaxLength : \A s \in S : turns[n][s] \in S
    BY <1>2, <1>4
  <2>2. Len(turns) = MaxLength /\ MaxLength \in Nat
    BY <1>1, <1>2
  <2>3. QED
    BY ONLY <1>3, <2>1, <2>2, ThroughStays
<1>7. PICK q \in PlainParsers(input) :
         /\ q = WordEnd(p)
         /\ q.buffer = p.buffer /\ q.words = p.words /\ q.index >= p.index
         /\ \A j \in p.index..(q.index - 1) : input[j] # Space
  BY <1>5, <1>6 DEF S
<1>8. AtWordEnd(q)
  BY <1>1, <1>7, WordEndTypes
<1>9. q \in Parsers /\ q.ok = TRUE /\ q.quoted = FALSE /\ q.index <= Len(input) + 1
  BY DEF PlainParsers
<1>10. PICK i : i = q.index
  OBVIOUS
<1>11. i \in 1..(MaxLength + 1)
  BY <1>9, <1>10, ParserFields
<1>12. q.buffer[i] = InputString(input)[i]
  BY <1>1, <1>10, <1>11 DEF PlainParsers
<1>13. q.buffer[i] = Nul \/ q.buffer[i] = Space
  BY <1>8, <1>9, <1>10, <1>11, <1>12, PlainText DEF AtWordEnd
<1>14. i = Len(input) + 1 \/ (i <= Len(input) /\ input[i] = Space)
  BY <1>9, <1>10, <1>11, <1>12, <1>13, PlainText
<1>15. QED
  BY <1>7, <1>10, <1>14

(* Leading white space is passed over.                                     *)
LEMMA PlainLeading ==
  ASSUME NEW input \in PlainLines, NEW p \in PlainParsers(input)
  PROVE  LET q == Leading(p) IN
         /\ q \in PlainParsers(input)
         /\ q.buffer = p.buffer /\ q.words = p.words
         /\ q.index >= p.index
         /\ \A j \in p.index..(q.index - 1) : input[j] = Space
         /\ q.index = Len(input) + 1 \/ (q.index <= Len(input) /\ input[q.index] # Space)
<1>0. p \in Parsers /\ p.ok = TRUE /\ p.quoted = FALSE /\ p.index <= Len(input) + 1
  BY DEF PlainParsers
<1>1. PICK first \in p.index..(MaxLength + 1) :
         /\ first = FirstOf(p) /\ p.buffer[first] # Space
         /\ \A j \in p.index..(first - 1) : p.buffer[j] = Space
  BY <1>0, FirstExists
<1>2. MaxLength \in Nat /\ Len(input) \in Nat /\ Len(input) <= MaxLength
      /\ p.index \in 1..(MaxLength + 1) /\ first \in 1..(MaxLength + 1)
  BY <1>0, <1>1, ParserFields, PlainText
<1>3. \A j \in p.index..(MaxLength + 1) : p.buffer[j] = InputString(input)[j]
  BY DEF PlainParsers
<1>4. first <= Len(input) + 1
  <2>1. SUFFICES ASSUME first > Len(input) + 1 PROVE FALSE
    BY <1>2
  <2>2. PICK n : n = Len(input) + 1
    OBVIOUS
  <2>3. n \in p.index..(first - 1) /\ n \in p.index..(MaxLength + 1) /\ n \in 1..(MaxLength + 1)
        /\ n > Len(input)
    BY <1>0, <1>2, <2>1, <2>2
  <2>4. p.buffer[n] = Space /\ p.buffer[n] = Nul
    BY <1>1, <1>3, <2>3, PlainText
  <2>5. QED
    BY <2>4 DEF Space, Nul
<1>5. ASSUME NEW j \in p.index..(first - 1) PROVE input[j] = Space
  <2>1. j \in p.index..(MaxLength + 1) /\ j \in 1..Len(input) /\ j \in 1..(MaxLength + 1)
    BY <1>2, <1>4
  <2>2. p.buffer[j] = Space /\ p.buffer[j] = InputString(input)[j]
    BY <1>1, <1>3, <2>1
  <2>3. QED
    BY <2>1, <2>2, PlainText
<1>6. p.buffer[first] # Quote /\ p.buffer[first] = InputString(input)[first]
  BY <1>1, <1>2, <1>3, PlainText
<1>7. PICK q : q = Leading(p)
  OBVIOUS
<1>8. q = [p EXCEPT !.index = first]
  <2>1. Leading(p) = IF p.buffer[first] = Quote
                     THEN [p EXCEPT !.index = first + 1, !.quoted = TRUE]
                     ELSE [p EXCEPT !.index = first]
    BY <1>1 DEF Leading, FirstOf
  <2>2. QED
    BY <1>6, <1>7, <2>1
<1>9. /\ q \in Parsers /\ q.index = first /\ q.quoted = p.quoted /\ q.ok = p.ok
      /\ q.buffer = p.buffer /\ q.words = p.words
  BY <1>0, <1>2, <1>8, ParserAt
<1>10. q \in PlainParsers(input)
  <2>1. \A j \in first..(MaxLength + 1) : j \in p.index..(MaxLength + 1)
    BY <1>2, <1>1
  <2>2. QED
    BY <1>0, <1>3, <1>4, <1>9, <2>1 DEF PlainParsers
<1>11. first = Len(input) + 1 \/ (first <= Len(input) /\ input[first] # Space)
  <2>1. CASE first <= Len(input)
    <3>1. first \in 1..Len(input)
      BY <1>2, <2>1
    <3>2. input[first] # Space
      BY <1>1, <1>6, <3>1, PlainText
    <3>3. QED
      BY <2>1, <3>2
  <2>2. CASE ~(first <= Len(input))
    BY <1>2, <1>4, <2>2
  <2>3. QED
    BY <2>1, <2>2
<1>12. q.index >= p.index
  BY <1>1, <1>2, <1>9
<1>13. QED
  BY <1>5, <1>7, <1>9, <1>10, <1>11, <1>12

(* The word itself, and the place behind it.                               *)
LEMMA PlainParameter ==
  ASSUME NEW input \in PlainLines, NEW p \in PlainParsers(input),
         Len(p.words) <= MaxParameters, p.index <= Len(input), input[p.index] # Space
  PROVE  \E q \in PlainParsers(input), end \in (p.index + 1)..(Len(input) + 1) :
            /\ q = Parameter[p]
            /\ q.words = Append(p.words, SubSeq(input, p.index, end - 1))
            /\ \A j \in p.index..(end - 1) : input[j] # Space
            /\ \/ end = Len(input) + 1 /\ q.index = end
               \/ end <= Len(input) /\ input[end] = Space /\ q.index = end + 1
<1>0. p \in Parsers /\ p.ok = TRUE /\ p.quoted = FALSE
      /\ \A j \in p.index..(MaxLength + 1) : p.buffer[j] = InputString(input)[j]
  BY DEF PlainParsers
<1>1. PICK first : first = p.index
  OBVIOUS
<1>2. first \in 1..(MaxLength + 1) /\ first \in 1..Len(input) /\ MaxLength \in Nat
      /\ Len(input) \in Nat /\ Len(input) <= MaxLength /\ input \in Seq(Characters)
  BY <1>0, <1>1, ParserFields, PlainText
<1>3. PICK w \in PlainParsers(input) :
         /\ w = WordEnd(p)
         /\ w.buffer = p.buffer /\ w.words = p.words /\ w.index >= p.index
         /\ \A j \in p.index..(w.index - 1) : input[j] # Space
         /\ w.index = Len(input) + 1 \/ (w.index <= Len(input) /\ input[w.index] = Space)
  BY PlainWordEnd
<1>4. w \in Parsers /\ w.ok = TRUE /\ w.quoted = FALSE
  BY DEF PlainParsers
<1>5. PICK end : end = w.index
  OBVIOUS
<1>6. end \in (first + 1)..(Len(input) + 1) /\ end \in 1..(MaxLength + 1)
  <2>1. end \in 1..(MaxLength + 1) /\ end >= first /\ end <= Len(input) + 1
    BY <1>1, <1>2, <1>3, <1>4, <1>5, ParserFields
  <2>2. end # first
    BY <1>1, <1>2, <1>3, <1>5
  <2>3. QED
    BY <1>2, <2>1, <2>2
<1>7. PICK q : q = EndWord(first)[w]
  OBVIOUS
<1>8. first \in 1..w.index /\ Len(w.words) <= MaxParameters
  BY <1>2, <1>3, <1>5, <1>6
<1>9. /\ q \in Parsers
      /\ q.words = Append(w.words, SubSeq(w.buffer, first, w.index - 1))
      /\ q.ok = w.ok
      /\ q.index = IF w.buffer[w.index] = Nul THEN w.index ELSE w.index + 1
      /\ q.quoted = IF w.buffer[w.index] = Quote THEN ~w.quoted ELSE w.quoted
      /\ \A i \in 1..(MaxLength + 1) : i # w.index => q.buffer[i] = w.buffer[i]
      /\ q.buffer[w.index] = Nul
  BY <1>4, <1>7, <1>8, EndWordTypes
<1>10. w.buffer[end] = InputString(input)[end] /\ w.buffer[end] # Quote
  BY <1>4, <1>5, <1>6, PlainText DEF PlainParsers
<1>11. (w.buffer[end] = Nul) <=> (end = Len(input) + 1)
  BY <1>2, <1>6, <1>10, PlainText
<1>12. q.quoted = FALSE /\ q.ok = TRUE
  BY <1>4, <1>5, <1>9, <1>10
<1>13. q.index = IF end = Len(input) + 1 THEN end ELSE end + 1
  BY <1>5, <1>9, <1>11
<1>14. Parameter[p] = q
  <2>1. Parameter[p] = IF p.buffer[p.index] = Nul THEN p ELSE EndWord(p.index)[WordEnd(p)]
    BY <1>0, ParserFields DEF Parameter
  <2>2. p.buffer[first] # Nul
    <3>1. first \in p.index..(MaxLength + 1) /\ ~(first > Len(input))
      BY <1>1, <1>2
    <3>2. QED
      BY <1>0, <1>2, <3>1, PlainText
  <2>3. QED
    BY <1>1, <1>3, <1>7, <2>1, <2>2
<1>15. q \in PlainParsers(input)
  <2>1. ASSUME NEW j \in q.index..(MaxLength + 1) PROVE q.buffer[j] = InputString(input)[j]
    <3>1. j \in 1..(MaxLength + 1) /\ j \in end..(MaxLength + 1)
          /\ (end # Len(input) + 1 => j # end)
      BY <1>2, <1>6, <1>13
    <3>2. CASE j = end
      BY <1>5, <1>6, <1>9, <1>10, <1>11, <3>1, <3>2
    <3>3. CASE j # end
      <4>1. j \in w.index..(MaxLength + 1) /\ q.buffer[j] = w.buffer[j]
        BY <1>5, <1>9, <3>1, <3>3
      <4>2. QED
        BY <4>1 DEF PlainParsers
    <3>4. QED
      BY <3>2, <3>3
  <2>2. q.index <= Len(input) + 1
    BY <1>2, <1>6, <1>13
  <2>3. QED
    BY <1>9, <1>12, <2>1, <2>2 DEF PlainParsers
<1>16. SubSeq(w.buffer, first, end - 1) = SubSeq(input, first, end - 1)
  <2>1. w.buffer \in Seq(Texts) /\ Len(w.buffer) = MaxLength + 1
    BY <1>4, ParserFields
  <2>2. \A j \in first..(end - 1) : w.buffer[j] = input[j]
    <3>1. \A j \in first..(end - 1) : j \in p.index..(MaxLength + 1) /\ j \in 1..Len(input)
      BY <1>1, <1>2, <1>6
    <3>2. QED
      BY <1>0, <1>3, <3>1, PlainText
  <2>3. SubSeq(w.buffer, first, end - 1) = [i \in 1..(end - first) |-> w.buffer[first + i - 1]]
    BY <1>2, <1>6, <2>1
  <2>4. SubSeq(input, first, end - 1) = [i \in 1..(end - first) |-> input[first + i - 1]]
    BY <1>2, <1>6
  <2>5. \A i \in 1..(end - first) : w.buffer[first + i - 1] = input[first + i - 1]
    <3>1. \A i \in 1..(end - first) : first + i - 1 \in first..(end - 1)
      BY <1>2, <1>6
    <3>2. QED
      BY <2>2, <3>1
  <2>6. QED
    BY <2>3, <2>4, <2>5
<1>17. q.words = Append(p.words, SubSeq(input, first, end - 1))
  BY <1>3, <1>5, <1>9, <1>16
<1>18. \/ end = Len(input) + 1 /\ q.index = end
       \/ end <= Len(input) /\ input[end] = Space /\ q.index = end + 1
  BY <1>2, <1>3, <1>5, <1>6, <1>13
<1>19. QED
  BY <1>1, <1>3, <1>5, <1>6, <1>14, <1>15, <1>17, <1>18

(* Where the words of a line begin, and what is read of them.              *)
Begins(input)    == {i \in DOMAIN input : input[i] # Space /\ (i = 1 \/ input[i - 1] = Space)}
Before(input, i) == {j \in Begins(input) : j < i}
UpTo(input, i)   == {j \in Begins(input) : j <= i}

WordAt(input, i, word) ==
    /\ word = SubSeq(input, i, i + Len(word) - 1)
    /\ \A k \in DOMAIN word : word[k] # Space
    /\ i + Len(word) > Len(input) \/ input[i + Len(word)] = Space

LEMMA BeginsFinite ==
  ASSUME NEW input \in PlainLines, NEW S \in SUBSET Begins(input)
  PROVE  IsFiniteSet(S) /\ Cardinality(S) \in Nat /\ Begins(input) \subseteq 1..Len(input)
<1>1. Begins(input) \subseteq 1..Len(input) /\ Len(input) \in Int
  BY PlainText DEF Begins
<1>2. IsFiniteSet(1..Len(input))
  BY <1>1, FS_Interval
<1>3. IsFiniteSet(S) /\ Cardinality(S) \in Nat
  <2>1. S \subseteq 1..Len(input)
    BY <1>1
  <2>2. QED
    BY <1>2, <2>1, FS_Subset, FS_CardinalityType
<1>4. QED
  BY <1>1, <1>3

(* The number of a word is one more than that of the words before it.      *)
LEMMA UpToCount ==
  ASSUME NEW input \in PlainLines, NEW i \in Begins(input)
  PROVE  /\ Cardinality(UpTo(input, i)) = Cardinality(Before(input, i)) + 1
         /\ Cardinality(Before(input, i)) \in Nat
<1>1. Before(input, i) \in SUBSET Begins(input) /\ i \notin Before(input, i)
      /\ UpTo(input, i) = Before(input, i) \union {i}
  <2>1. Begins(input) \subseteq 1..Len(input)
    BY BeginsFinite
  <2>2. QED
    BY <2>1, PlainText DEF Before, UpTo
<1>2. IsFiniteSet(Before(input, i)) /\ Cardinality(Before(input, i)) \in Nat
  BY <1>1, BeginsFinite
<1>3. QED
  BY <1>1, <1>2, FS_AddElement

(* So far the words of the line were read, each of them in its place.      *)
WordsRead(input, p) ==
    /\ p \in PlainParsers(input)
    /\ p.index = 1 \/ p.index = Len(input) + 1 \/ input[p.index - 1] = Space
    /\ Len(p.words) = Cardinality(Before(input, p.index))
    /\ \A i \in Before(input, p.index) :
          WordAt(input, i, p.words[Cardinality(UpTo(input, i))])

LEMMA WordsReadInit ==
  ASSUME NEW input \in PlainLines PROVE WordsRead(input, ParseInit(input))
<1>1. PICK p \in Parsers : p = ParseInit(input)
  BY PlainText, ParseInitTypes
<1>2. /\ p.ok = TRUE /\ p.quoted = FALSE /\ p.index = 1 /\ p.words = <<>>
      /\ p.buffer = InputString(input)
  BY <1>1 DEF ParseInit
<1>3. p \in PlainParsers(input)
  BY <1>2, PlainText DEF PlainParsers
<1>4. Before(input, 1) = {} /\ Cardinality({}) = 0 /\ Len(<<>>) = 0
  <2>1. Begins(input) \subseteq 1..Len(input)
    BY BeginsFinite
  <2>2. QED
    BY <2>1, FS_EmptySet, PlainText DEF Before
<1>5. QED
  BY <1>1, <1>2, <1>3, <1>4 DEF WordsRead

LEMMA WordsReadStep ==
  ASSUME NEW input \in PlainLines, NEW p, WordsRead(input, p)
  PROVE  WordsRead(input, NextParameter[p])
<1>1. p \in PlainParsers(input) /\ p \in Parsers
  BY DEF WordsRead, PlainParsers
<1>2. NextParameter[p] = IF LineRead(p) THEN p ELSE Parameter[Leading(p)]
  BY <1>1, ParserFields DEF NextParameter
<1>3. CASE LineRead(p)
  BY <1>2, <1>3
<1>4. CASE ~LineRead(p)
  <2>1. PICK r \in PlainParsers(input) :
           /\ r = Leading(p)
           /\ r.buffer = p.buffer /\ r.words = p.words /\ r.index >= p.index
           /\ \A j \in p.index..(r.index - 1) : input[j] = Space
           /\ r.index = Len(input) + 1 \/ (r.index <= Len(input) /\ input[r.index] # Space)
    BY <1>1, PlainLeading
  <2>2. PICK m, n : m = p.index /\ n = r.index
    OBVIOUS
  <2>3. /\ m \in 1..(Len(input) + 1) /\ n \in m..(Len(input) + 1) /\ Len(input) \in Nat
        /\ MaxLength \in Nat /\ Len(input) <= MaxLength
        /\ DOMAIN input = 1..Len(input)
        /\ Begins(input) \subseteq 1..Len(input)
    <3>1. r \in Parsers /\ r.index <= Len(input) + 1 /\ p.index <= Len(input) + 1
      BY <1>1 DEF PlainParsers
    <3>2. p.index \in Nat \ {0} /\ r.index \in Nat
      BY <1>1, <3>1, ParserFields
    <3>3. Len(input) \in Nat /\ MaxLength \in Nat /\ Len(input) <= MaxLength
          /\ DOMAIN input = 1..Len(input)
      BY PlainText
    <3>4. Begins(input) \subseteq 1..Len(input)
      BY BeginsFinite
    <3>5. r.index >= p.index
      BY <2>1
    <3>6. m \in Nat \ {0} /\ n \in Nat /\ n >= m /\ n <= Len(input) + 1
      BY ONLY <2>2, <3>1, <3>2, <3>5
    <3>7. m \in 1..(Len(input) + 1) /\ n \in m..(Len(input) + 1)
      BY ONLY <3>3, <3>6
    <3>8. QED
      BY <3>3, <3>4, <3>7
  <2>4. Before(input, n) = Before(input, m)
    <3>1. \A j \in Begins(input) : ~(j \in m..(n - 1))
      BY <2>1, <2>2 DEF Begins
    <3>2. QED
      BY <2>3, <3>1 DEF Before
  <2>5. /\ m = 1 \/ m = Len(input) + 1 \/ input[m - 1] = Space
        /\ Len(p.words) = Cardinality(Before(input, m))
        /\ \A i \in Before(input, m) : WordAt(input, i, p.words[Cardinality(UpTo(input, i))])
    BY <2>2 DEF WordsRead
  <2>6. NextParameter[p] = Parameter[r]
    BY <1>2, <1>4, <2>1
  <2>7. Len(r.words) <= MaxParameters
    BY <1>1, <1>4, <2>1, ParserFields DEF LineRead, ListFull
  <2>8. CASE n = Len(input) + 1
    <3>1. r \in Parsers /\ n \in n..(MaxLength + 1) /\ n \in 1..(MaxLength + 1)
      BY <2>3, <2>8 DEF PlainParsers
    <3>2. r.buffer[n] = Nul
      BY <2>2, <2>3, <2>8, <3>1, PlainText DEF PlainParsers
    <3>3. Parameter[r] = r
      BY <2>2, <3>1, <3>2, ParserFields DEF Parameter
    <3>4. WordsRead(input, r)
      BY <2>1, <2>2, <2>4, <2>5, <2>8 DEF WordsRead
    <3>5. QED
      BY <2>6, <3>3, <3>4
  <2>9. CASE n # Len(input) + 1
    <3>1. n \in 1..Len(input) /\ input[n] # Space
      BY <2>1, <2>2, <2>3, <2>9
    <3>2. n \in Begins(input)
      <4>1. n = 1 \/ input[n - 1] = Space
        <5>1. CASE n = m
          BY <2>3, <2>5, <3>1, <5>1
        <5>2. CASE n # m
          <6>1. n - 1 \in m..(n - 1)
            BY <2>3, <5>2
          <6>2. QED
            BY <2>1, <2>2, <6>1
        <5>3. QED
          BY <5>1, <5>2
      <4>2. QED
        BY <2>3, <3>1, <4>1 DEF Begins
    <3>3. PICK q \in PlainParsers(input), end \in (n + 1)..(Len(input) + 1) :
            /\ q = Parameter[r]
            /\ q.words = Append(r.words, SubSeq(input, n, end - 1))
            /\ \A j \in n..(end - 1) : input[j] # Space
            /\ \/ end = Len(input) + 1 /\ q.index = end
               \/ end <= Len(input) /\ input[end] = Space /\ q.index = end + 1
      <4>1. r.index <= Len(input) /\ input[r.index] # Space
        BY <2>2, <2>3, <3>1
      <4>2. PICK q \in PlainParsers(input), end \in (r.index + 1)..(Len(input) + 1) :
              /\ q = Parameter[r]
              /\ q.words = Append(r.words, SubSeq(input, r.index, end - 1))
              /\ \A j \in r.index..(end - 1) : input[j] # Space
              /\ \/ end = Len(input) + 1 /\ q.index = end
                 \/ end <= Len(input) /\ input[end] = Space /\ q.index = end + 1
        BY <2>7, <4>1, PlainParameter
      <4>3. QED
        BY <2>2, <4>2
    <3>4. PICK word : word = SubSeq(input, n, end - 1)
      OBVIOUS
    <3>5. Len(word) = end - n /\ WordAt(input, n, word)
      <4>1. input \in Seq(Characters) /\ n \in 1..Len(input) /\ end - 1 \in n..Len(input)
        BY <2>3, <3>1, PlainText
      <4>2. Len(word) = end - n /\ DOMAIN word = 1..(end - n)
            /\ \A k \in 1..(end - n) : word[k] = input[n + k - 1]
        BY <3>4, <4>1
      <4>3. \A k \in 1..(end - n) : n + k - 1 \in n..(end - 1)
        BY <2>3
      <4>4. n + Len(word) = end /\ n + Len(word) - 1 = end - 1
        BY <2>3, <4>2
      <4>5. \A k \in DOMAIN word : word[k] # Space
        BY <3>3, <4>2, <4>3
      <4>6. end > Len(input) \/ input[end] = Space
        BY <2>3, <3>3
      <4>7. QED
        BY <3>4, <4>2, <4>4, <4>5, <4>6 DEF WordAt
    <3>6. PICK u : u = q.index
      OBVIOUS
    <3>7. u = 1 \/ u = Len(input) + 1 \/ input[u - 1] = Space
      BY <2>3, <3>3, <3>6
    <3>8. Before(input, u) = Before(input, n) \union {n} /\ n \notin Before(input, n)
      <4>1. \A j \in Begins(input) : ~(j \in (n + 1)..end /\ j < u)
        <5>1. SUFFICES ASSUME NEW j \in Begins(input), j \in (n + 1)..end, j < u PROVE FALSE
          OBVIOUS
        <5>2. j # 1 /\ input[j - 1] = Space /\ input[j] # Space /\ j \in 1..Len(input)
          BY <2>3, <5>1 DEF Begins
        <5>3. CASE j = end
          BY <2>3, <3>3, <5>2, <5>3
        <5>4. CASE j # end
          <6>1. j - 1 \in n..(end - 1)
            BY <2>3, <5>1, <5>4
          <6>2. QED
            BY <3>3, <5>2, <6>1
        <5>5. QED
          BY <5>3, <5>4
      <4>2. \A j \in Begins(input) : j < u <=> (j < n \/ j = n)
        <5>1. ASSUME NEW j \in Begins(input) PROVE j < u <=> (j < n \/ j = n)
          <6>1. j \in 1..Len(input) /\ (u = end \/ u = end + 1) /\ ~(j \in (n + 1)..end /\ j < u)
            BY <2>3, <3>3, <3>6, <4>1
          <6>2. QED
            BY <2>3, <6>1
        <5>2. QED
          BY <5>1
      <4>3. QED
        BY <2>3, <3>2, <4>2 DEF Before
    <3>9. Cardinality(Before(input, u)) = Cardinality(Before(input, n)) + 1
          /\ Cardinality(Before(input, n)) \in Nat
      <4>1. Before(input, n) \in SUBSET Begins(input)
        BY DEF Before
      <4>2. QED
        BY <3>8, <4>1, BeginsFinite, FS_AddElement
    <3>10. q.words = Append(p.words, word) /\ Len(p.words) = Cardinality(Before(input, n))
           /\ p.words \in Seq(Seq(Texts))
      BY <1>1, <2>1, <2>4, <2>5, <3>3, <3>4, ParserFields
    <3>11. Len(q.words) = Cardinality(Before(input, u))
      BY <3>9, <3>10
    <3>12. ASSUME NEW i \in Before(input, u)
           PROVE  WordAt(input, i, q.words[Cardinality(UpTo(input, i))])
      <4>1. CASE i = n
        <5>1. Cardinality(UpTo(input, n)) = Len(p.words) + 1
          BY <3>2, <3>10, UpToCount
        <5>2. q.words[Len(p.words) + 1] = word
          BY <3>10
        <5>3. QED
          BY <3>5, <4>1, <5>1, <5>2
      <4>2. CASE i \in Before(input, n)
        <5>1. i \in Begins(input) /\ UpTo(input, i) \subseteq Before(input, n)
              /\ Before(input, n) \in SUBSET Begins(input)
          BY <2>3, <4>2 DEF Before, UpTo
        <5>2. Cardinality(UpTo(input, i)) \in 1..Len(p.words)
          <6>1. Cardinality(UpTo(input, i)) <= Cardinality(Before(input, n))
            BY <5>1, BeginsFinite, FS_Subset
          <6>2. QED
            BY <3>9, <3>10, <5>1, <6>1, UpToCount
        <5>3. q.words[Cardinality(UpTo(input, i))] = p.words[Cardinality(UpTo(input, i))]
          BY <3>10, <5>2
        <5>4. QED
          BY <2>4, <2>5, <4>2, <5>3
      <4>3. QED
        BY <3>8, <4>1, <4>2
    <3>13. WordsRead(input, q)
      BY <3>6, <3>7, <3>11, <3>12 DEF WordsRead
    <3>14. QED
      BY <2>6, <3>3, <3>13
  <2>10. QED
    BY <2>8, <2>9
<1>5. QED
  BY <1>3, <1>4

LEMMA PlainLineRead ==
  ASSUME NEW input \in PlainLines
  PROVE  \E p \in PlainParsers(input) :
            p = Parameters(ParseInit(input)) /\ WordsRead(input, p) /\ LineRead(p)
<1>1. ParseInit(input) \in Parsers /\ MaxLength \in Nat
  BY PlainText, ParseInitTypes
<1>2. PICK f : /\ f \in [0..MaxLength -> Parsers] /\ f[0] = ParseInit(input)
               /\ \A n \in 1..MaxLength : f[n] = NextParameter[f[n - 1]]
               /\ Parameters(ParseInit(input)) = f[MaxLength] /\ LineRead(f[MaxLength])
  BY <1>1, ParametersSteps
<1> DEFINE T == {n \in 0..MaxLength : WordsRead(input, f[n])}
<1>3. 0 \in T
  BY <1>1, <1>2, WordsReadInit
<1>4. ASSUME NEW n \in (0 + 1)..MaxLength, n - 1 \in T PROVE n \in T
  <2>1. n \in 1..MaxLength /\ n \in 0..MaxLength /\ WordsRead(input, f[n - 1])
    BY <1>1, <1>4
  <2>2. f[n] = NextParameter[f[n - 1]]
    BY <1>2, <2>1
  <2>3. QED
    BY <2>1, <2>2, WordsReadStep
<1> HIDE DEF T
<1>5. 0..MaxLength \subseteq T
  BY <1>1, <1>3, <1>4, 0 \in Nat, InductionUpTo
<1>6. WordsRead(input, f[MaxLength])
  <2>1. MaxLength \in 0..MaxLength
    BY <1>1
  <2>2. QED
    BY <1>5, <2>1 DEF T
<1>7. QED
  BY <1>2, <1>6 DEF WordsRead

(* A plain line is read as its words, of which only those past the list's  *)
(* end are lost, and the parser stops at the line's null.                  *)
Kept(input) == {i \in Begins(input) : Cardinality(Before(input, i)) <= MaxParameters}

LEMMA PlainLineWords ==
  ASSUME NEW input \in PlainLines
  PROVE  /\ Parse(input).ok = TRUE
         /\ Parse(input).index <= Len(input) + 1
         /\ Len(Parse(input).words) = Cardinality(Kept(input))
         /\ \A i \in Kept(input) :
               WordAt(input, i, Parse(input).words[Cardinality(UpTo(input, i))])
<1>1. PICK p \in PlainParsers(input) :
         p = Parameters(ParseInit(input)) /\ WordsRead(input, p) /\ LineRead(p)
  BY PlainLineRead
<1>2. p \in Parsers /\ p.ok = TRUE /\ p.quoted = FALSE /\ p.index <= Len(input) + 1
  BY <1>1 DEF PlainParsers
<1>3. Parse(input).ok = TRUE /\ Parse(input).index = p.index /\ Parse(input).words = p.words
  BY <1>1, <1>2, ParserFields DEF Parse, ParseResult
<1> PICK m : m = p.index
  OBVIOUS
<1>4. m \in 1..(Len(input) + 1) /\ m \in 1..(MaxLength + 1) /\ Len(input) \in Nat
      /\ Begins(input) \subseteq 1..Len(input) /\ MaxParameters \in Nat
  <2>1. Begins(input) \subseteq 1..Len(input)
    BY BeginsFinite
  <2>2. Len(input) \in Nat
    BY PlainText
  <2>3. p.index \in 1..(MaxLength + 1) /\ MaxParameters \in Nat /\ MaxLength \in Nat
    BY <1>2, ParserFields
  <2>4. QED
    BY <1>2, <2>1, <2>2, <2>3
<1>5. Len(p.words) = Cardinality(Before(input, m))
      /\ \A i \in Before(input, m) : WordAt(input, i, p.words[Cardinality(UpTo(input, i))])
  BY <1>1 DEF WordsRead
<1>6. Len(p.words) \in Nat /\ Len(p.words) <= MaxParameters + 1
  BY <1>2, ParserFields
<1>7. m = Len(input) + 1 \/ Len(p.words) = MaxParameters + 1
  <2>1. CASE p.buffer[m] = Nul
    <3>1. m \in p.index..(MaxLength + 1)
      BY <1>4
    <3>2. p.buffer[m] = InputString(input)[m]
      BY <3>1 DEF PlainParsers
    <3>3. m > Len(input)
      BY <1>4, <2>1, <3>2, PlainText
    <3>4. QED
      BY <1>4, <3>3
  <2>2. CASE ListFull(p.words)
    BY <1>4, <1>6, <2>2 DEF ListFull
  <2>3. QED
    BY <1>1, <1>2, <2>1, <2>2 DEF LineRead
<1>8. ASSUME NEW i \in Begins(input) PROVE
         /\ Cardinality(Before(input, i)) \in Nat
         /\ i < m => Cardinality(Before(input, i)) < Cardinality(Before(input, m))
         /\ i >= m => Cardinality(Before(input, m)) <= Cardinality(Before(input, i))
  <2>1. /\ Before(input, i) \in SUBSET Begins(input) /\ Before(input, m) \in SUBSET Begins(input)
        /\ UpTo(input, i) \in SUBSET Begins(input)
    BY DEF Before, UpTo
  <2>2. i < m => UpTo(input, i) \subseteq Before(input, m)
    BY <1>4 DEF Before, UpTo
  <2>3. i >= m => Before(input, m) \subseteq Before(input, i)
    BY <1>4 DEF Before
  <2>4. i < m => Cardinality(UpTo(input, i)) <= Cardinality(Before(input, m))
    BY <2>1, <2>2, BeginsFinite, FS_Subset
  <2>5. i >= m => Cardinality(Before(input, m)) <= Cardinality(Before(input, i))
    BY <2>1, <2>3, BeginsFinite, FS_Subset
  <2>6. Cardinality(UpTo(input, i)) = Cardinality(Before(input, i)) + 1
        /\ Cardinality(Before(input, i)) \in Nat
    BY UpToCount
  <2>7. Cardinality(Before(input, m)) \in Nat
    BY <2>1, BeginsFinite
  <2>8. QED
    BY <2>4, <2>5, <2>6, <2>7
<1>9. Kept(input) = Before(input, m)
  <2>1. ASSUME NEW i \in Begins(input)
        PROVE  Cardinality(Before(input, i)) <= MaxParameters <=> i < m
    <3>1. i \in 1..Len(input)
      BY <1>4
    <3>2. CASE i < m
      BY <1>4, <1>5, <1>6, <1>8, <3>2
    <3>3. CASE ~(i < m)
      <4>1. i >= m /\ m # Len(input) + 1
        BY <1>4, <3>1, <3>3
      <4>2. QED
        BY <1>4, <1>5, <1>7, <1>8, <3>3, <4>1
    <3>4. QED
      BY <3>2, <3>3
  <2>2. QED
    BY <2>1 DEF Kept, Before
<1>10. QED
  BY <1>2, <1>3, <1>5, <1>9

=============================================================================
