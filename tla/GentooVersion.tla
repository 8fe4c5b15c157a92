--------------------------- MODULE GentooVersion ---------------------------
(***************************************************************************)
(* The versions of ebuild.go: how the text of a version is parsed, written *)
(* back, compared and incremented, and "g2 versions bump".                 *)
(*                                                                         *)
(* The text of a version is the record of its tokens: the numbers between  *)
(* the dots and the number of the revision as sequences of digits, the     *)
(* letter as its place in the alphabet (0 for none), the suffixes as pairs *)
(* of a name and of digits.  Texts that are no version are left out: no    *)
(* command sees an ebuild whose name holds none.  Numbers of more than     *)
(* nine digits are out of the bounds, and so is the overflow of those of   *)
(* nineteen.                                                               *)
(***************************************************************************)
EXTENDS Integers, Sequences

SuffixNames == <<"alpha", "beta", "pre", "rc", "", "p">>
Parts == {"major", "minor", "patch", "suffix", "revision"}

\* NoRevision is the revision of "1", and <<0>> that of "1-r0".
NoRevision == <<>>
Text(nums, letter, suffixes, rev) ==
    [nums |-> nums, letter |-> letter, suffixes |-> suffixes, rev |-> rev]
Digits == Seq(0 .. 9)
Texts ==
    [nums : Seq(Digits), letter : 0 .. 26,
     suffixes : Seq([name : {"alpha", "beta", "pre", "rc", "p"}, digits : Digits]), rev : Digits]

\* The powers of ten of numbers with at most nine digits.
Tens == <<1, 10, 100, 1000, 10000, 100000, 1000000, 10000000, 100000000, 1000000000>>

\* strconv.Atoi, for which no digits are zero, and strconv.Itoa.
Atoi(digits) ==
    LET UpTo[i \in 0 .. Len(digits)] == IF i = 0 THEN 0 ELSE 10 * UpTo[i - 1] + digits[i]
    IN  UpTo[Len(digits)]
Itoa(n) ==
    LET width == CHOOSE k \in 1 .. 9 : n < Tens[k + 1] /\ (k = 1 \/ n >= Tens[k])
    IN  [i \in 1 .. width |-> (n \div Tens[width - i + 1]) % 10]

-----------------------------------------------------------------------------
\* The numbers are kept as texts too (NumStrs, ValueStr); the revision is not.
ParseGentooVersion(text) ==
    [nums |-> [i \in DOMAIN text.nums |-> Atoi(text.nums[i])],
     numStrs |-> text.nums,
     letter |-> text.letter,
     suffixes |-> [i \in DOMAIN text.suffixes |->
                      [name |-> text.suffixes[i].name, value |-> Atoi(text.suffixes[i].digits),
                       valueStr |-> text.suffixes[i].digits]],
     revision |-> Atoi(text.rev)]

String(gv) ==
    Text(gv.numStrs, gv.letter,
         [i \in DOMAIN gv.suffixes |-> [name |-> gv.suffixes[i].name, digits |-> gv.suffixes[i].valueStr]],
         IF gv.revision > 0 THEN Itoa(gv.revision) ELSE NoRevision)

\* The variables PV and PR of an ebuild whose name ends in text; PVR is text itself.
PV(text) == String([ParseGentooVersion(text) EXCEPT !.revision = 0])
PR(text) == ParseGentooVersion(text).revision

-----------------------------------------------------------------------------
Sign(a, b) == IF a < b THEN -1 ELSE IF a > b THEN 1 ELSE 0
cmpInt(a, b) == Sign(a, b)

cmpStr(s, t) ==
    IF s = t THEN 0
    ELSE LET Differ == {i \in DOMAIN s \cap DOMAIN t : s[i] # t[i]}
         IN  IF Differ = {} THEN Sign(Len(s), Len(t))
             ELSE LET i == CHOOSE j \in Differ : \A k \in Differ : j <= k IN Sign(s[i], t[i])

LeadsWithZero(digits) == digits # <<>> /\ Head(digits) = 0
TrimRightZeros(digits) ==
    SubSeq(digits, 1, CHOOSE n \in 0 .. Len(digits) :
        /\ \A i \in n + 1 .. Len(digits) : digits[i] = 0
        /\ n = 0 \/ digits[n] # 0)

AllZero(nums, i) == \A j \in i .. Len(nums) : nums[j] = 0

\* Bug variant: only the first version may end in zeros.
compareNumberOneSided(v, w, i) ==
    IF i > Len(v.nums) THEN -1
    ELSE IF i > Len(w.nums) THEN IF AllZero(v.nums, i) THEN 0 ELSE 1
    ELSE cmpInt(v.nums[i], w.nums[i])

\* The i-th numbers.  One that is missing is as good as zeros to the end; where a number begins
\* with a zero the texts count, and not their zeros at the end.
compareNumber(v, w, i) ==
    IF i > Len(v.nums) THEN IF AllZero(w.nums, i) THEN 0 ELSE -1
    ELSE IF i > Len(w.nums) THEN IF AllZero(v.nums, i) THEN 0 ELSE 1
    ELSE LET s == v.numStrs[i]
             t == w.numStrs[i]
         IN  CASE LeadsWithZero(s) /\ ~LeadsWithZero(t) -> -1
               [] ~LeadsWithZero(s) /\ LeadsWithZero(t) -> 1
               [] LeadsWithZero(s) /\ LeadsWithZero(t) -> cmpStr(TrimRightZeros(s), TrimRightZeros(t))
               [] OTHER -> cmpInt(v.nums[i], w.nums[i])

\* No suffix comes before "p" and after the others.
suffixOrder(name) == CHOOSE i \in DOMAIN SuffixNames : SuffixNames[i] = name
compareSuffix(v, w, i) ==
    LET At(gv) == IF i <= Len(gv.suffixes) THEN gv.suffixes[i] ELSE [name |-> "", value |-> 0, valueStr |-> <<>>]
    IN  IF At(v).name # At(w).name THEN cmpInt(suffixOrder(At(v).name), suffixOrder(At(w).name))
        ELSE cmpInt(At(v).value, At(w).value)

\* The first comparison that decides.
FirstOf(results) ==
    LET Deciding == {i \in DOMAIN results : results[i] # 0}
    IN  IF Deciding = {} THEN 0 ELSE results[CHOOSE i \in Deciding : \A j \in Deciding : i <= j]
Longer(s, t) == IF Len(s) > Len(t) THEN Len(s) ELSE Len(t)

compareGentooVersionParts(v, w) ==
    FirstOf([i \in 1 .. Longer(v.nums, w.nums) |-> compareNumber(v, w, i)]
            \o <<cmpInt(v.letter, w.letter)>>
            \o [i \in 1 .. Longer(v.suffixes, w.suffixes) |-> compareSuffix(v, w, i)]
            \o <<cmpInt(v.revision, w.revision)>>)

CompareVersions(text1, text2) ==
    compareGentooVersionParts(ParseGentooVersion(text1), ParseGentooVersion(text2))

-----------------------------------------------------------------------------
\* A number is set together with its text, and what comes behind it begins anew.
Raised(gv, place, nums, numStrs) ==
    [gv EXCEPT !.nums = [i \in DOMAIN nums |-> IF i > place THEN 0 ELSE nums[i]],
               !.numStrs = [i \in DOMAIN numStrs |-> IF i > place THEN <<0>> ELSE numStrs[i]],
               !.letter = 0, !.suffixes = <<>>, !.revision = 0]

\* The number at place is raised; numbers that are missing before it become 0 and it 1.
IncrementNumber(gv, place) ==
    LET n == Len(gv.nums)
    IN  IF n >= place
        THEN Raised(gv, place, [gv.nums EXCEPT ![place] = @ + 1],
                    [gv.numStrs EXCEPT ![place] = Itoa(gv.nums[place] + 1)])
        ELSE Raised(gv, place, gv.nums \o [i \in 1 .. place - n |-> IF i = place - n THEN 1 ELSE 0],
                    gv.numStrs \o [i \in 1 .. place - n |-> IF i = place - n THEN <<1>> ELSE <<0>>])

IncrementSuffix(gv) ==
    LET n == Len(gv.suffixes)
        value == gv.suffixes[n].value + 1
    IN  IF n = 0 THEN [gv EXCEPT !.revision = 0]
        ELSE [gv EXCEPT !.suffixes[n] = [@ EXCEPT !.value = value, !.valueStr = Itoa(value)], !.revision = 0]

IncrementPart(gv, part) ==
    CASE part = "major" -> IncrementNumber(gv, 1)
      [] part = "minor" -> IncrementNumber(gv, 2)
      [] part = "patch" -> IncrementNumber(gv, 3)
      [] part = "suffix" -> IncrementSuffix(gv)
      [] part = "revision" -> [gv EXCEPT !.revision = @ + 1]

-----------------------------------------------------------------------------
\* "g2 versions bump": a number that is missing stays so, and a suffix that is asked for
\* replaces those of the version.  NoNumber stands for a missing argument.
NoNumber == -1
bumpVersionString(text, bumpType, suffix, forceNum) ==
    LET v == ParseGentooVersion(text)
        Number(place) == IF Len(v.nums) >= place THEN IncrementNumber(v, place)
                         ELSE Raised(v, place, v.nums, v.numStrs)
        bumped == CASE bumpType = "major" -> Number(1)
                    [] bumpType = "minor" -> Number(2)
                    [] bumpType = "patch" -> Number(3)
                    [] bumpType \in {"revision", "rev"} -> [v EXCEPT !.revision = @ + 1]
                    [] OTHER -> v
        n == IF forceNum = NoNumber THEN 1 ELSE forceNum
    IN  String(IF suffix = "" THEN bumped
               ELSE [bumped EXCEPT !.suffixes = <<[name |-> suffix, value |-> n, valueStr |-> Itoa(n)]>>])
=============================================================================
