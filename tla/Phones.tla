-------------------------------- MODULE Phones --------------------------------
(***************************************************************************)
(* Phone numbers: the table of countries, and how a typed number is taken  *)
(* apart, validated and brought to its international form.                 *)
(*                                                                         *)
(* A typed number is its leading plus, if any, its characters without      *)
(* formatting, as digits 0 .. 9 or Other, and whether spaces, dashes, dots *)
(* or parentheses stand between them.                                      *)
(*                                                                         *)
(* The operators whose names end in _Bug are plausible mistakes in the     *)
(* definition that follows them; only the mutation runs use them.          *)
(***************************************************************************)
EXTENDS Integers, SequencesExt

Other == 10

\* The length that the table states for a country, by its calling code.
Africa == 234 :> 11 @@ 27 :> 9 @@ 254 :> 9 @@ 233 :> 9 @@ 256 :> 9
       @@ 251 :> 9 @@ 20 :> 10 @@ 212 :> 9 @@ 225 :> 8 @@ 237 :> 9

NorthAmerica == 1 :> 10 @@ 52 :> 10

WesternEurope == 44 :> 10 @@ 33 :> 9 @@ 49 :> 11 @@ 39 :> 10 @@ 34 :> 9
              @@ 31 :> 9 @@ 46 :> 9 @@ 47 :> 8 @@ 45 :> 8 @@ 358 :> 9

EasternEurope == 48 :> 9 @@ 420 :> 9 @@ 36 :> 9 @@ 43 :> 11 @@ 41 :> 9
              @@ 32 :> 9 @@ 351 :> 9 @@ 30 :> 10 @@ 90 :> 10 @@ 7 :> 10

EastAsia == 81 :> 10 @@ 86 :> 11 @@ 91 :> 10 @@ 82 :> 10 @@ 65 :> 8
         @@ 60 :> 9 @@ 66 :> 9 @@ 84 :> 9 @@ 63 :> 10 @@ 62 :> 9

WestAsia == 880 :> 10 @@ 92 :> 10 @@ 971 :> 9 @@ 966 :> 9 @@ 972 :> 9
         @@ 98 :> 10 @@ 95 :> 10 @@ 855 :> 9 @@ 856 :> 10 @@ 977 :> 10
         @@ 94 :> 9

Oceania == 61 :> 9 @@ 64 :> 9 @@ 675 :> 8 @@ 679 :> 7

SouthAmerica == 55 :> 11 @@ 54 :> 10 @@ 57 :> 10 @@ 51 :> 9 @@ 56 :> 9
             @@ 58 :> 10 @@ 593 :> 9 @@ 595 :> 9 @@ 598 :> 8 @@ 591 :> 8
             @@ 507 :> 8 @@ 506 :> 8 @@ 503 :> 8 @@ 502 :> 8 @@ 504 :> 8
             @@ 505 :> 8

COUNTRY_CODES == Africa @@ NorthAmerica @@ WesternEurope @@ EasternEurope
              @@ EastAsia @@ WestAsia @@ Oceania @@ SouthAmerica

Code == DOMAIN COUNTRY_CODES

DEFAULT_COUNTRY_CODE == 234

isSupportedCountryCode(c) == c \in Code

\* The digits of a calling code.
DigitsOf(c) ==
    IF c < 10 THEN <<c>>
    ELSE IF c < 100 THEN <<c \div 10, c % 10>>
    ELSE <<c \div 100, (c \div 10) % 10, c % 10>>

CodeDigits == [c \in Code |-> DigitsOf(c)]

-----------------------------------------------------------------------------
(* Taking a number apart                                                   *)

OnlyDigits(s) == s # <<>> /\ \A i \in DOMAIN s : s[i] # Other

CleanedLength(n) == Len(n.digits) + (IF n.plus THEN 1 ELSE 0)

\* The table's length is compared as if it counted the code: a local number
\* may be shorter than it by as many digits as the code has.
LongEnough(c, local) == Len(local) >= COUNTRY_CODES[c] - Len(CodeDigits[c])

\* 07, 08, 09 or 01 and nine more digits
IsNigerianLocal(s) ==
    /\ Len(s) = 11 /\ OnlyDigits(s)
    /\ s[1] = 0 /\ s[2] \in {7, 8, 9, 1}

\* The codes that the number begins with, plus or no plus.
Matching(s) == {c \in Code : IsPrefix(CodeDigits[c], s)}

Longest(codes) ==
    CHOOSE c \in codes : \A d \in codes : Len(CodeDigits[d]) <= Len(CodeDigits[c])

\* A number that begins with no known code counts as local, of the default
\* country; after a plus it is never valid.
extractCountryCode(n) ==
    LET c == Longest(Matching(n.digits))
        local == SubSeq(n.digits, Len(CodeDigits[c]) + 1, Len(n.digits))
    IN  IF CleanedLength(n) >= 7 /\ Matching(n.digits) # {}
        THEN [code |-> c, local |-> local,
              isValid |-> LongEnough(c, local) /\ OnlyDigits(local)]
        ELSE [code |-> DEFAULT_COUNTRY_CODE, local |-> n.digits,
              isValid |-> ~n.plus /\ IsNigerianLocal(n.digits)]

WithoutZeros(s) ==
    LET first == CHOOSE i \in 1 .. Len(s) + 1 :
                    /\ \A j \in 1 .. i - 1 : s[j] = 0
                    /\ i <= Len(s) => s[i] # 0
    IN  SubSeq(s, first, Len(s))

\* mutant: the leading zero of a local number is kept
LocalDigits_Bug(c, s) == s

\* Of a Nigerian number one leading zero goes, of any other all.
LocalDigits(c, s) ==
    IF c = DEFAULT_COUNTRY_CODE
    THEN IF s # <<>> /\ s[1] = 0 THEN Tail(s) ELSE s
    ELSE WithoutZeros(s)

formatPhoneNumberWithCountryCode(c, s) ==
    [plus |-> TRUE, marks |-> FALSE, digits |-> CodeDigits[c] \o LocalDigits(c, s)]

\* The international form; of a number that is not valid, an exception.
normalizePhoneNumber(n) ==
    LET e == extractCountryCode(n)
    IN  formatPhoneNumberWithCountryCode(e.code, e.local)

CanNormalize(n) == extractCountryCode(n).isValid

\* A reference for normalizePhoneNumber: n is a way to write the number p, which
\* is in the international form.
Writes(n, p) ==
    LET e == extractCountryCode(n)
        f == extractCountryCode(p)
    IN  /\ p.plus /\ ~p.marks /\ f.isValid /\ f.local[1] # 0
        /\ e.isValid /\ e.code = f.code
        /\ e.local \in {f.local, <<0>> \o f.local}

-----------------------------------------------------------------------------
(* What a registration accepts                                             *)

LengthAllowed(s) == Len(s) \in 7 .. 15

\* validatePhoneNumber and validatePhoneNumberWithExceptions agree on what is
\* valid; they differ in how they report what is not.
validatePhoneNumber(n) ==
    LET e == extractCountryCode(n)
    IN  e.isValid /\ LengthAllowed(e.local)

\* A local number of a country named beside it, give or take two digits; a plus
\* is an invalid character.
validateLocalPhoneNumber(n, c) ==
    LET expected == COUNTRY_CODES[c] - Len(CodeDigits[c])
    IN  /\ isSupportedCountryCode(c)
        /\ ~n.plus /\ OnlyDigits(n.digits) /\ LengthAllowed(n.digits)
        /\ Len(n.digits) \in expected - 2 .. expected + 2

\* The validator of the request, of which only the plus is modelled, and the
\* validation in createUser, with the country code of the request or 0.
Accepted(n, c) ==
    /\ n.plus
    /\ IF c # 0 THEN validateLocalPhoneNumber(n, c) ELSE validatePhoneNumber(n)
=============================================================================
