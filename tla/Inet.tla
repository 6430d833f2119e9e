-------------------------------- MODULE Inet --------------------------------
(***************************************************************************)
(* Addresses as text: inet_ntop6, inet_pton6 and inet_aton of network/.     *)
(* The text of an IPv6 address is cut at its colons into groups, and a      *)
(* group is the sequence of 16-bit words it stands for: none between two    *)
(* colons, one for a number, two for a dotted IPv4 address.  The dotted     *)
(* text of IPv6 goes through the system's calls, which are taken to be each *)
(* other's inverse.                                                         *)
(***************************************************************************)
EXTENDS Integers, Sequences, FiniteSets, LibcThreads

CONSTANTS
    InetWords,   \* the words of the addresses that are written
    MaxGroups,   \* bound on the groups of the texts that are read
    ByteBase,    \* 256 in the code
    PartValues   \* the numbers of the texts that inet_aton reads

(* The largest word of an address.                                          *)
MaxWord == 65535

ASSUME InetAssumption ==
    InetWords \subseteq 0 .. MaxWord /\ MaxGroups \in Nat /\ MaxGroups < MaxWord

ASSUME AtonAssumption ==
    ByteBase \in Nat \ {0, 1} /\ PartValues \subseteq Nat

VARIABLE inet    \* the last call: its name, argument and answer, NULL before it

inetVars == <<inet>>

WORDS == 8       \* NS_IN6ADDRSZ / NS_INT16SZ

Address == [1 .. WORDS -> 0 .. MaxWord]

ASSUME NullIsNoAddress == NULL \notin Address

InetInit == inet = NULL

InetTypeOK ==
    inet # NULL =>
        CASE inet.call = "ntop" -> inet.of \in Address
          [] inet.call = "pton" -> inet.answer \in Address \cup {NULL}
          [] inet.call = "aton" ->
                 inet.answer \in [1 .. 4 -> 0 .. ByteBase - 1] \cup {NULL}

-----------------------------------------------------------------------------
(* inet_ntop6: the run of zero words that :: stands for.                    *)
NoRun == [base |-> 0, len |-> 0]

Better(cur, best) == cur.len > best.len

(* Word i is zero: it begins a run or makes the open one longer.             *)
Grown(cur, i) == IF cur = NoRun THEN [base |-> i, len |-> 1] ELSE [cur EXCEPT !.len = @ + 1]

(* The open run ends.                                                       *)
Closed(s) == IF Better(s.cur, s.best) THEN [cur |-> NoRun, best |-> s.cur]
             ELSE [s EXCEPT !.cur = NoRun]

(* One turn of the loop over the words.                                     *)
RunTurn(a, i, s) == IF a[i] # 0 THEN Closed(s) ELSE [s EXCEPT !.cur = Grown(@, i)]

BestRun(a) ==
    LET scan[i \in 0 .. WORDS] ==
            IF i = 0 THEN [cur |-> NoRun, best |-> NoRun] ELSE RunTurn(a, i, scan[i - 1])
        best == Closed(scan[WORDS]).best
    IN  IF best.len < 2 THEN NoRun ELSE best

(* The two words after a leading run are written as an IPv4 address.        *)
Encapsulated(a, best) ==
    best.base = 1 /\ (best.len = 6 \/ (best.len = 5 /\ a[6] = MaxWord))

Singles(ws) == [k \in 1 .. Len(ws) |-> <<ws[k]>>]

(* The groups left and right of ::, which is two colons at either end too.  *)
Around(left, right) ==
    LET OrEmpty(s) == IF s = <<>> THEN << <<>> >> ELSE s
    IN  OrEmpty(left) \o << <<>> >> \o OrEmpty(right)

inet_ntop6(a) ==
    LET best == BestRun(a)
        left == Singles(SubSeq(a, 1, best.base - 1))
        rest == best.base + best.len
        right == IF Encapsulated(a, best)
                 THEN Singles(SubSeq(a, rest, 6)) \o << <<a[7], a[8]>> >>
                 ELSE Singles(SubSeq(a, rest, WORDS))
    IN  IF best = NoRun THEN Singles(a) ELSE Around(left, right)

-----------------------------------------------------------------------------
(* inet_pton6: tp is the length of words, colonp that length when :: was    *)
(* seen, -1 before.                                                         *)
Refused(s) == [s EXCEPT !.ok = FALSE]

(* Mutant: a second :: is taken for the first.                              *)
SeenGapAgain(s) == [s EXCEPT !.colonp = Len(s.words)]

SeenGap(s) == IF s.colonp # -1 THEN Refused(s) ELSE [s EXCEPT !.colonp = Len(s.words)]

Stored(s, g) ==
    IF Len(s.words) + Len(g) > WORDS THEN Refused(s) ELSE [s EXCEPT !.words = @ \o g]

(* One group, with the colon or the end of the text after it.               *)
Read(s, g, last) ==
    CASE g = <<>> -> IF last THEN s ELSE SeenGap(s)
      [] Len(g) = 1 -> IF g[1] > MaxWord THEN Refused(s) ELSE Stored(s, g)
      [] Len(g) = 2 -> IF last THEN Stored(s, g) ELSE Refused(s)

(* Mutant: the last word to move is left where it is.                       *)
ShiftedShort(words, colonp) ==
    LET n == Len(words) - colonp
        move[i \in 0 .. n] ==
            IF i = 0 THEN [k \in 1 .. WORDS |-> IF k <= Len(words) THEN words[k] ELSE 0]
            ELSE LET m == move[i - 1]
                     from == colonp + n - i + 1
                 IN  [[m EXCEPT ![WORDS + 1 - i] = m[from]] EXCEPT ![from] = 0]
    IN  move[IF n = 0 THEN 0 ELSE n - 1]

(* The words after colonp move to the end, last first.                      *)
Shifted(words, colonp) ==
    LET n == Len(words) - colonp
        move[i \in 0 .. n] ==
            IF i = 0 THEN [k \in 1 .. WORDS |-> IF k <= Len(words) THEN words[k] ELSE 0]
            ELSE LET m == move[i - 1]
                     from == colonp + n - i + 1
                 IN  [[m EXCEPT ![WORDS + 1 - i] = m[from]] EXCEPT ![from] = 0]
    IN  move[n]

inet_pton6(text) ==
    LET n == Len(text)
        colon == n > 1 /\ text[1] = <<>>
        lone == colon /\ ~(n > 2 /\ text[2] = <<>>)
        first == IF colon THEN 2 ELSE 1
        read[k \in 0 .. n] ==
            IF k < first THEN [words |-> <<>>, colonp |-> -1, ok |-> TRUE]
            ELSE LET s == read[k - 1] IN IF s.ok THEN Read(s, text[k], k = n) ELSE s
        end == read[n]
    IN  CASE lone \/ ~end.ok -> NULL
          [] ~lone /\ end.ok /\ end.colonp # -1 -> Shifted(end.words, end.colonp)
          [] OTHER -> IF Len(end.words) = WORDS THEN end.words ELSE NULL

-----------------------------------------------------------------------------
(* The powers of ByteBase that the masks and shifts of inet_aton stand for. *)
Power(k) == CASE k = 0 -> 1
              [] k = 1 -> ByteBase
              [] k = 2 -> ByteBase * ByteBase
              [] k = 3 -> ByteBase * ByteBase * ByteBase
              [] OTHER -> ByteBase * ByteBase * ByteBase * ByteBase

(* inet_aton: parts are the numbers between the dots, -1 where there is no  *)
(* number.  strtoul gives the largest number for one that does not fit.     *)
Strtoul(v) == IF v < Power(4) THEN v ELSE Power(4) - 1

(* The low bytes of part k, below m, become the next part.                  *)
Carried(a, k, m) == [a EXCEPT ![k + 1] = a[k] % m, ![k] = a[k] \div m]

(* Mutant: the case of two parts does not fall through.                     *)
SpreadBreaks(a, i) == IF i = 1 THEN Carried(a, 2, Power(2)) ELSE a

(* The low bytes of the last part are the bytes that have no part.          *)
Spread(a, i) ==
    LET a0 == IF i = 0 THEN Carried(a, 1, Power(3)) ELSE a
        a1 == IF i <= 1 THEN Carried(a0, 2, Power(2)) ELSE a0
    IN  IF i <= 2 THEN Carried(a1, 3, ByteBase) ELSE a1

inet_aton(parts) ==
    LET a == Spread([k \in 1 .. 4 |-> IF k <= Len(parts) THEN Strtoul(parts[k]) ELSE 0],
                    Len(parts) - 1)
    IN  IF \/ Len(parts) > 4
           \/ \E k \in 1 .. Len(parts) : parts[k] = -1
           \/ \E k \in 1 .. 4 : a[k] >= ByteBase
        THEN NULL ELSE a

-----------------------------------------------------------------------------
(* Texts that are read: any pattern of numbers and empty groups, each       *)
(* number a different word, one of them perhaps too large, one perhaps a    *)
(* dotted address.                                                          *)
Spelled(number, big, dotted) ==
    [k \in DOMAIN number |-> CASE ~number[k] -> <<>>
                               [] number[k] /\ k = big -> <<MaxWord + 1>>
                               [] number[k] /\ k # big /\ k = dotted -> <<k, k + 1>>
                               [] OTHER -> <<k>>]

PartSeqs == (UNION {[1 .. n -> PartValues \cup {-1}] : n \in 1 .. 4}) \cup {[k \in 1 .. 5 |-> 1]}

(* inet_ntop6 into a buffer that is large enough.                           *)
Ntop(a) ==
    inet' = [call |-> "ntop", of |-> a, answer |-> inet_ntop6(a)]

Pton(text) ==
    inet' = [call |-> "pton", of |-> text, answer |-> inet_pton6(text)]

Aton(parts) ==
    inet' = [call |-> "aton", of |-> parts, answer |-> inet_aton(parts)]

InetDone == inet # NULL /\ inet' = NULL

InetNext ==
    \/ /\ inet = NULL
       /\ \/ \E a \in [1 .. WORDS -> InetWords] : Ntop(a)
          \/ \E n \in 1 .. MaxGroups : \E number \in [1 .. n -> BOOLEAN], big \in {0, 1, n} :
                \E dotted \in {0, n - 1, n} \ {big} : Pton(Spelled(number, big, dotted))
          \/ \E parts \in PartSeqs : Aton(parts)
    \/ InetDone

InetSpec == InetInit /\ [][InetNext]_inetVars

-----------------------------------------------------------------------------
InetAnswered(call) == inet # NULL /\ inet.call = call

(* The zero words from i to j.                                              *)
ZeroRun(a, i, j) == \A k \in i .. j : a[k] = 0

(* What inet_ntop writes for an IPv6 address is read back by inet_pton as   *)
(* the same address, with a run of zeros at either end, in the middle or    *)
(* nowhere, and with an encapsulated IPv4 address; and it shortens the      *)
(* first of the longest runs of zero words, and only a run of two or more.  *)
NtopExact ==
    InetAnswered("ntop") =>
        LET text == inet.answer
            gaps == {k \in 1 .. Len(text) : text[k] = <<>>}
            first == CHOOSE k \in gaps : \A g \in gaps : k <= g
            left == IF 1 \in gaps THEN 0 ELSE first - 1
            Runs == {r \in (1 .. WORDS) \X (1 .. WORDS) : r[1] < r[2] /\ ZeroRun(inet.of, r[1], r[2])}
            Longest == {r \in Runs : \A q \in Runs : q[2] - q[1] <= r[2] - r[1]}
        IN  /\ inet_pton6(text) = inet.of
            /\ gaps = {} <=> Runs = {}
            /\ Runs # {} => \E r \in Longest : left = r[1] - 1 /\ \A q \in Longest : r[1] <= q[1]

(* The words that groups stand for.                                         *)
Flat(groups) ==
    LET flat[k \in 0 .. Len(groups)] == IF k = 0 THEN <<>> ELSE flat[k - 1] \o groups[k]
    IN  flat[Len(groups)]

Zeros(n) == [k \in 1 .. n |-> 0]

(* The addresses a text stands for, one or none: eight words, or fewer with *)
(* :: once for the zero words that are missing; a dotted address is last.   *)
Meaning(text) ==
    LET n == Len(text)
        Proper(groups) == \A k \in 1 .. Len(groups) : groups[k] # <<>>
        Whole == IF Proper(text) /\ Len(Flat(text)) = WORDS THEN {Flat(text)} ELSE {}
        Cuts == {c \in (0 .. n) \X (1 .. n + 1) :
                    LET left == SubSeq(text, 1, c[1])
                        right == SubSeq(text, c[2], n)
                    IN  /\ Proper(left) /\ Proper(right)
                        /\ text = Around(left, right)}
        Filled(c) == LET left == Flat(SubSeq(text, 1, c[1]))
                         right == Flat(SubSeq(text, c[2], n))
                     IN  left \o Zeros(WORDS - Len(left) - Len(right)) \o right
    IN  IF \/ \E k \in 1 .. n : text[k] # <<>> /\ text[k][1] > MaxWord
           \/ \E k \in 1 .. n - 1 : Len(text[k]) = 2
        THEN {}
        ELSE Whole \cup {Filled(c) : c \in {d \in Cuts : Len(Flat(text)) < WORDS}}

(* A text without the colon that inet_pton6 passes over at its end.         *)
Unended(text) ==
    LET n == Len(text)
    IN  IF n > 1 /\ text[n] = <<>> /\ Len(text[n - 1]) = 1 THEN SubSeq(text, 1, n - 1) ELSE text

(* inet_pton accepts a text exactly if it stands for an IPv6 address, and   *)
(* gives that address.  Conceded: one colon after the last number, and ::   *)
(* among eight words, which the code takes for no word and then clears the  *)
(* words after it (network/inet_pton.c 125-128).                            *)
PtonExact ==
    InetAnswered("pton") =>
        LET text == Unended(inet.of)
            spare == Len(Flat(text)) = WORDS /\ \E k \in 1 .. Len(text) : text[k] = <<>>
        IN  ~spare => Meaning(text) = {inet.answer} \ {NULL}

(* inet_aton accepts one to four numbers, each but the last a byte and the  *)
(* last no larger than the bytes that are left, and gives the bytes of the  *)
(* number they make.  Conceded: a single number too large for strtoul.      *)
AtonExact ==
    InetAnswered("aton") /\ (\A k \in 1 .. Len(inet.of) : inet.of[k] < Power(4)) =>
        LET parts == inet.of
            n == Len(parts)
            Fits == /\ n <= 4
                    /\ \A k \in 1 .. n : parts[k] \in 0 .. ByteBase - 1 \/ k = n
                    /\ parts[n] \in 0 .. Power(5 - n) - 1
            Byte(k) == IF k < n THEN parts[k] ELSE (parts[n] \div Power(4 - k)) % ByteBase
        IN  IF Fits THEN inet.answer = [k \in 1 .. 4 |-> Byte(k)] ELSE inet.answer = NULL

=============================================================================
