------------------------------ MODULE Versions ------------------------------
(***************************************************************************)
(* Version texts, how siorb compares them (siorb-policy) and the           *)
(* constraints a command or a bundle puts on them (siorb-resolver).        *)
(*                                                                         *)
(* A text is the sequence of its tokens: a run of digits is the number it  *)
(* writes, any other character a negative code, and the codes are ordered  *)
(* as native_byte_rank orders the characters.                              *)
(***************************************************************************)
EXTENDS Integers, Sequences, SequencesExt

Tilde == -9     End == -8     LetterX == -7     Plus == -3     Dash == -2     Dot == -1

Text == Seq(-9..9)
Digits(t) == t >= 0

\* "1.2" out of <<1, 2>>, for the instances.
Dotted(numbers) == [i \in 1..(2 * Len(numbers) - 1) |-> IF i % 2 = 1 THEN numbers[(i + 1) \div 2] ELSE Dot]

\* The first of the positions that hold one of these tokens, or one past the end.
Cut(v, tokens) ==
  IF \E i \in DOMAIN v : v[i] \in tokens
  THEN CHOOSE i \in DOMAIN v : v[i] \in tokens /\ \A j \in 1..(i - 1) : v[j] \notin tokens
  ELSE Len(v) + 1

\* Lexicographic order; "shorter" stands for what ends before the other.
Before(v, w, shorter) ==
  \E i \in 1..(IF Len(v) > Len(w) THEN Len(v) ELSE Len(w)) :
    /\ \A j \in 1..(i - 1) : j \in DOMAIN v /\ j \in DOMAIN w /\ v[j] = w[j]
    /\ (IF i \in DOMAIN v THEN v[i] ELSE shorter) < (IF i \in DOMAIN w THEN w[i] ELSE shorter)

\* compare_native_versions: a tilde sorts before the end of the text.
NativeBefore(v, w) == Before(v, w, End)

-----------------------------------------------------------------------------
(* Semantic versions *)

Base(v) == SubSeq(v, 1, Cut(v, {Dash, Plus}) - 1)
Suffix(v) == SubSeq(v, Cut(v, {Dash, Plus}), Len(v))

\* loose_semver, normalize_version: one to three numbers, and then a suffix
\* that semver can parse (of which one numeric identifier, or x, is modelled).
Semantic(v) ==
  /\ Len(Base(v)) \in {1, 3, 5}
  /\ \A i \in DOMAIN Base(v) : IF i % 2 = 1 THEN Digits(v[i]) ELSE v[i] = Dot
  /\ \/ Suffix(v) = <<>>
     \/ Len(Suffix(v)) = 2 /\ (Digits(Suffix(v)[2]) \/ Suffix(v)[2] = LetterX)

Numbers(v) == [i \in 1..3 |-> IF 2 * i - 1 <= Len(Base(v)) THEN v[2 * i - 1] ELSE 0]
\* Major, minor, patch, pre-release and build: a pre-release comes before its
\* release, letters after numbers.
PreRank(t) == IF Digits(t) THEN t ELSE 10
SemanticKey(v) ==
  LET part(mark) == IF Suffix(v) # <<>> /\ Suffix(v)[1] = mark THEN PreRank(Suffix(v)[2]) ELSE -1
  IN Numbers(v) \o <<IF part(Dash) = -1 THEN 99 ELSE part(Dash), part(Plus)>>

\* Mutant: every version is compared as a native one.
VersionBeforeNative(v, w) == NativeBefore(v, w)
\* compare_versions(v, w) is Less.
VersionBefore(v, w) ==
  IF Semantic(v) /\ Semantic(w) THEN Before(SemanticKey(v), SemanticKey(w), 0) ELSE NativeBefore(v, w)

-----------------------------------------------------------------------------
(* Constraints *)

\* "=1.2" and "1.2" are exact; ">=1.2" and the like are not.
Operators == {"", "=", ">=", "^"}
Constraint == [mark : Operators, text : Text]

\* exact_constraint and exact_version: no range, no wildcard; an x anywhere is
\* taken for one.
Exact(c) == c.mark \in {"", "="} /\ \A i \in DOMAIN c.text : c.text[i] # LetterX

\* VersionConstraint::parse: what is not exact must be a requirement of semver.
ValidConstraint(c) ==
  /\ c.text # <<>>
  /\ Exact(c) \/ (Semantic(c.text) /\ (Suffix(c.text) = <<>> \/ Len(Base(c.text)) = 5))

\* semantic_versions: the version observed, and it without a native revision.
Readings(v) ==
  LET plain == SubSeq(v, 1, Cut(v, {Dash}) - 1)
  IN {w \in {v} \union (IF Len(v) - Len(plain) = 2 THEN {plain} ELSE {}) : Semantic(w)}

\* VersionReq::matches; a pre-release is only matched by one of its own release.
Requires(c, v) ==
  LET key == SemanticKey(v)  bound == SemanticKey(c.text)  three(s) == SubSeq(s, 1, 3) IN
  /\ ~Before(key, bound, 0)
  /\ c.mark # ">=" => key[1] = bound[1]
  /\ key[4] # 99 => three(key) = three(bound) /\ bound[4] # 99

\* VersionConstraint::matches
Satisfies(v, c) ==
  IF ~Exact(c) THEN \E w \in Readings(v) : Requires(c, w)
  ELSE IF Semantic(c.text) /\ Semantic(v) THEN SubSeq(SemanticKey(v), 1, 4) = SubSeq(SemanticKey(c.text), 1, 4)
  ELSE v = c.text
=============================================================================
