------------------------ MODULE SearchRankingProofs ------------------------
(***************************************************************************)
(* What the operators of SearchRanking compute, for any rows and requests. *)
(***************************************************************************)
EXTENDS SearchRanking, Counting, SequenceTheorems

(* Elements picked from a sequence.                                        *)
PickedFrom(seq, P, S, s) ==
    /\ s \in Seq(S)
    /\ Len(s) = Cardinality(P)
    /\ \A k \in DOMAIN s : \E i \in P : s[k] = seq[i]
    /\ \A i \in P : \E k \in DOMAIN s : s[k] = seq[i]

\* AtPositions picks the elements at the positions, and no others.
LEMMA AtPositionsPicks ==
    ASSUME NEW S, NEW seq \in Seq(S), NEW P \in SUBSET DOMAIN seq
    PROVE  PickedFrom(seq, P, S, AtPositions(seq, P))
<1>1. P \in SUBSET Int /\ IsFiniteSet(P)
  <2>1. DOMAIN seq = 1 .. Len(seq) /\ Len(seq) \in Nat
    OBVIOUS
  <2>2. IsFiniteSet(1 .. Len(seq))
    BY <2>1, FS_Interval
  <2> QED
    BY <2>1, <2>2, FS_Subset
<1>2. Listed(P)
  BY <1>1, Places
<1> DEFINE s == [k \in 1 .. Cardinality(P) |-> seq[Nth(P, k)]]
<1>3. AtPositions(seq, P) = s
  BY DEF AtPositions, Nth, Place
<1>4. Cardinality(P) \in Nat /\ \A k \in 1 .. Cardinality(P) : Nth(P, k) \in P
  BY <1>2 DEF Listed
<1>5. \A i \in P : seq[i] \in S
  OBVIOUS
<1>6. s \in Seq(S) /\ Len(s) = Cardinality(P) /\ DOMAIN s = 1 .. Cardinality(P)
  BY <1>4, <1>5
<1>7. \A k \in DOMAIN s : \E i \in P : s[k] = seq[i]
  BY <1>4, <1>6
<1>8. \A i \in P : \E k \in DOMAIN s : s[k] = seq[i]
  BY <1>2, <1>6 DEF Listed
<1> HIDE DEF s
<1> QED
  BY <1>3, <1>6, <1>7, <1>8 DEF PickedFrom

(* Texts and tags.                                                         *)
LEMMA Normalized ==
    ASSUME NEW text \in Text
    PROVE  /\ Strip(text) \in Text /\ Strip(text).word = text.word
           /\ NormalizeText(text) \in Text /\ NormalizeText(text).word = text.word
           /\ text.word \in Seq(STRING)
BY WordsAssumption DEF Strip, NormalizeText, Lower, Text

TagsKept(tags) ==
    /\ UniqueTags(tags) \in Seq(Text)
    /\ TagSet(UniqueTags(tags)) = TagSet(tags)

\* Stripping and dropping repeated tags loses none and adds none.
LEMMA UniqueTagsKeepTheSet ==
    ASSUME NEW tags \in Seq(Text)
    PROVE  TagsKept(tags)
<1> DEFINE stripped == [i \in DOMAIN tags |-> Strip(tags[i])]
           P == {i \in DOMAIN tags :
                    ~Blank(stripped[i]) /\ \A j \in 1..(i - 1) : stripped[j] # stripped[i]}
<1>1. stripped \in Seq(Text) /\ DOMAIN stripped = DOMAIN tags
  <2>1. DOMAIN tags = 1 .. Len(tags) /\ Len(tags) \in Nat
    OBVIOUS
  <2>2. \A i \in DOMAIN tags : Strip(tags[i]) \in Text
    BY Normalized
  <2> QED
    BY <2>1, <2>2
<1>2. PickedFrom(stripped, P, Text, UniqueTags(tags))
  <2>1. PickedFrom(stripped, P, Text, AtPositions(stripped, P))
    <3> HIDE DEF stripped
    <3> QED
      BY <1>1, AtPositionsPicks
  <2> QED
    BY <2>1 DEF UniqueTags
<1>3. ASSUME NEW i \in DOMAIN tags, ~Blank(tags[i])
      PROVE  \E j \in P : stripped[j] = stripped[i]
  <2> DEFINE Same == {j \in DOMAIN tags : stripped[j] = stripped[i]}
  <2>1. Same \in SUBSET Nat /\ Same # {}
    OBVIOUS
  <2>2. PICK j \in Same : \A k \in Same : j <= k
    <3> HIDE DEF Same
    <3> QED
      BY <2>1, LeastNatural
  <2>3. \A k \in 1 .. (j - 1) : stripped[k] # stripped[j]
    <3> SUFFICES ASSUME NEW k \in 1 .. (j - 1), stripped[k] = stripped[j] PROVE FALSE
      OBVIOUS
    <3>1. k \in DOMAIN tags /\ k < j
      OBVIOUS
    <3> QED
      BY <2>2, <3>1
  <2>4. ~Blank(stripped[j])
    BY <1>3, Normalized DEF Blank
  <2> QED
    BY <2>3, <2>4
<1>4. \A t \in Text : NormalizeText(t).word = t.word /\ Strip(t).word = t.word
  BY Normalized
<1> DEFINE unique == UniqueTags(tags)
<1>5. ASSUME NEW k \in DOMAIN unique
      PROVE  \E i \in DOMAIN tags : /\ ~Blank(tags[i]) /\ ~Blank(unique[k])
                                    /\ unique[k] = Strip(tags[i])
  <2>1. PICK i \in P : unique[k] = stripped[i]
    BY <1>2, <1>5 DEF PickedFrom
  <2>2. /\ i \in DOMAIN tags /\ ~Blank(Strip(tags[i]))
        /\ unique[k] = Strip(tags[i]) /\ tags[i] \in Text
    <3> HIDE DEF unique
    <3> QED
      BY <2>1
  <2> QED
    BY <1>4, <2>2 DEF Blank
<1>6. ASSUME NEW i \in DOMAIN tags, ~Blank(tags[i])
      PROVE  \E k \in DOMAIN unique : unique[k] = Strip(tags[i]) /\ ~Blank(unique[k])
  <2>1. PICK j \in P : stripped[j] = stripped[i]
    BY <1>3, <1>6
  <2>2. PICK k \in DOMAIN unique : unique[k] = stripped[j]
    BY <1>2 DEF PickedFrom
  <2> QED
    BY <1>4, <1>6, <2>1, <2>2 DEF Blank
<1>7. unique \in Seq(Text)
  BY <1>2 DEF PickedFrom
<1> HIDE DEF unique
<1>8. TagSet(unique) \subseteq TagSet(tags)
  <2> SUFFICES ASSUME NEW k \in DOMAIN unique, ~Blank(unique[k])
               PROVE  NormalizeText(unique[k]).word \in TagSet(tags)
    BY DEF TagSet
  <2>1. PICK i \in DOMAIN tags : ~Blank(tags[i]) /\ unique[k] = Strip(tags[i])
    BY <1>5
  <2>2. NormalizeText(unique[k]).word = NormalizeText(tags[i]).word
    <3>1. unique[k] \in Text /\ tags[i] \in Text
      BY <1>7
    <3> QED
      BY <1>4, <2>1, <3>1
  <2> QED
    BY <2>1, <2>2 DEF TagSet
<1>9. TagSet(tags) \subseteq TagSet(unique)
  BY <1>4, <1>6, <1>7 DEF TagSet
<1> QED
  BY <1>7, <1>8, <1>9 DEF TagsKept, unique

\* A sequence has finitely many tags.
LEMMA TagSetIsFinite ==
    ASSUME NEW tags \in Seq(Text)
    PROVE  IsFiniteSet(TagSet(tags))
<1> DEFINE P == {k \in DOMAIN tags : ~Blank(tags[k])}
           word == [i \in P |-> NormalizeText(tags[i]).word]
<1>1. IsFiniteSet(P)
  <2>1. DOMAIN tags = 1 .. Len(tags) /\ Len(tags) \in Nat
    OBVIOUS
  <2>2. IsFiniteSet(1 .. Len(tags))
    BY <2>1, FS_Interval
  <2>3. P \in SUBSET (1 .. Len(tags))
    BY <2>1
  <2> HIDE DEF P
  <2> QED
    BY <2>2, <2>3, FS_Subset
<1>2. word \in Surjection(P, TagSet(tags))
  BY DEF Surjection, TagSet
<1> HIDE DEF P, word
<1> QED
  BY <1>1, <1>2, FS_Surjection

-----------------------------------------------------------------------------
(* Replacing a character, one character of the text at a time.             *)

Any == "%"
One == "_"
Esc == "\\"
Space == " "
Chars == STRING \cup {Space, Any, One, Esc}
Texts == Seq(Chars)

\* The three characters that LIKE treats specially are different ones.
LEMMA SpecialDiffer == Any # One /\ Any # Esc /\ One # Esc
BY Zenon DEF Any, One, Esc

Put(x, c, by) == IF x = c THEN by ELSE <<x>>

\* f is the function that Replace(text, c, by) defines, up to n.
Replaces(f, text, c, by, n) ==
    /\ f \in [0 .. n -> Texts]
    /\ f[0] = <<>>
    /\ \A k \in 1 .. n : f[k] = f[k - 1] \o Put(text[k], c, by)

\* What a character is replaced by is a text.
LEMMA PutIsText ==
    ASSUME NEW text \in Texts, NEW c, NEW by \in Texts, NEW k \in 1 .. Len(text)
    PROVE  Put(text[k], c, by) \in Texts
<1>1. text[k] \in Chars
  BY DEF Texts
<1>2. <<text[k]>> \in Seq(Chars)
  BY <1>1
<1> QED
  BY <1>2 DEF Put, Texts

\* There is such a function, up to any position.
LEMMA ReplacesExists ==
    ASSUME NEW text \in Texts, NEW c, NEW by \in Texts, NEW n \in 0 .. Len(text)
    PROVE  \E f : Replaces(f, text, c, by, n)
<1> DEFINE T == {m \in Nat : m <= Len(text) => \E f : Replaces(f, text, c, by, m)}
<1>1. 0 \in T
  <2> DEFINE f == [k \in 0 .. 0 |-> <<>>]
  <2>1. Replaces(f, text, c, by, 0)
    BY DEF Replaces, Texts
  <2> QED
    BY <2>1
<1>2. ASSUME NEW m \in Nat, m \in T PROVE m + 1 \in T
  <2> SUFFICES ASSUME m + 1 <= Len(text) PROVE \E f : Replaces(f, text, c, by, m + 1)
    OBVIOUS
  <2>1. PICK f : Replaces(f, text, c, by, m)
    BY <1>2
  <2> DEFINE g == [k \in 0 .. m + 1 |-> IF k <= m THEN f[k]
                                        ELSE f[m] \o Put(text[m + 1], c, by)]
  <2>2. Put(text[m + 1], c, by) \in Texts
    <3>1. m + 1 \in 1 .. Len(text)
      BY DEF Texts
    <3> QED
      BY <3>1, PutIsText
  <2>3. g \in [0 .. m + 1 -> Texts]
    <3>1. f[m] \in Texts /\ \A k \in 0 .. m : f[k] \in Texts
      BY <2>1 DEF Replaces
    <3>2. f[m] \o Put(text[m + 1], c, by) \in Texts
      BY <2>2, <3>1 DEF Texts
    <3> QED
      BY <3>1, <3>2
  <2>4. g[0] = <<>>
    BY <2>1 DEF Replaces
  <2>5. ASSUME NEW k \in 1 .. m + 1
        PROVE  g[k] = g[k - 1] \o Put(text[k], c, by)
    <3>1. CASE k <= m
      <4>1. k \in 1 .. m /\ k \in 0 .. m + 1 /\ k - 1 \in 0 .. m + 1 /\ k - 1 <= m
        BY <3>1
      <4>2. g[k] = f[k] /\ g[k - 1] = f[k - 1]
        BY <3>1, <4>1
      <4> HIDE DEF g
      <4> QED
        BY <4>1, <4>2, <2>1 DEF Replaces
    <3>2. CASE k = m + 1
      <4>1. k \in 0 .. m + 1 /\ ~ (k <= m) /\ k - 1 = m /\ m \in 0 .. m + 1 /\ m <= m
        BY <3>2
      <4>2. g[k] = f[m] \o Put(text[m + 1], c, by) /\ g[m] = f[m]
        BY <4>1
      <4> HIDE DEF g
      <4> QED
        BY <4>1, <4>2, <3>2
    <3>3. k <= m \/ k = m + 1
      OBVIOUS
    <3> QED
      BY <3>1, <3>2, <3>3
  <2>6. Replaces(g, text, c, by, m + 1)
    BY <2>3, <2>4, <2>5 DEF Replaces
  <2> QED
    BY <2>6
<1>3. Nat \subseteq T
  <2> HIDE DEF T
  <2> QED
    BY <1>1, <1>2, NaturalInduction
<1> QED
  BY <1>3

\* What it computes depends on the characters up to there alone.
LEMMA ReplacesIsUnique ==
    ASSUME NEW text \in Texts, NEW more \in Texts, NEW c, NEW by,
           NEW n \in Nat, NEW m \in 0 .. n, NEW f, NEW g,
           \A k \in 1 .. m : text[k] = more[k],
           Replaces(f, text, c, by, m), Replaces(g, more, c, by, n)
    PROVE  f[m] = g[m]
<1> DEFINE T == {k \in Nat : k <= m => f[k] = g[k]}
<1>1. 0 \in T
  BY DEF Replaces
<1>2. ASSUME NEW k \in Nat, k \in T PROVE k + 1 \in T
  <2> SUFFICES ASSUME k + 1 <= m PROVE f[k + 1] = g[k + 1]
    OBVIOUS
  <2>1. k + 1 \in 1 .. m /\ k + 1 \in 1 .. n /\ (k + 1) - 1 = k
    OBVIOUS
  <2>2. f[k] = g[k] /\ text[k + 1] = more[k + 1]
    BY <1>2, <2>1
  <2>3. /\ f[k + 1] = f[k] \o Put(text[k + 1], c, by)
        /\ g[k + 1] = g[k] \o Put(more[k + 1], c, by)
    BY <2>1 DEF Replaces
  <2> QED
    BY <2>2, <2>3
<1>3. Nat \subseteq T
  <2> HIDE DEF T
  <2> QED
    BY <1>1, <1>2, NaturalInduction
<1> QED
  BY <1>3

DefinesReplace(f, text, c, by) ==
    f = [n \in 0..Len(text) |->
            IF n = 0 THEN <<>>
            ELSE f[n - 1] \o (IF text[n] = c THEN by ELSE <<text[n]>>)]

\* Replace(text, c, by) is computed one character at a time.
LEMMA ReplaceRuns ==
    ASSUME NEW text \in Texts, NEW c, NEW by \in Texts
    PROVE  \E f : Replaces(f, text, c, by, Len(text)) /\ Replace(text, c, by) = f[Len(text)]
<1>0. Len(text) \in Nat /\ Len(text) \in 0 .. Len(text)
  BY DEF Texts
<1>1. \E f : DefinesReplace(f, text, c, by)
  <2>1. PICK f : Replaces(f, text, c, by, Len(text))
    BY <1>0, ReplacesExists
  <2>2. DefinesReplace(f, text, c, by)
    <3>1. f = [n \in 0 .. Len(text) |-> f[n]]
      BY <2>1 DEF Replaces
    <3>2. \A n \in 0 .. Len(text) :
              f[n] = IF n = 0 THEN <<>>
                     ELSE f[n - 1] \o (IF text[n] = c THEN by ELSE <<text[n]>>)
      <4> SUFFICES ASSUME NEW n \in 0 .. Len(text)
                   PROVE  f[n] = IF n = 0 THEN <<>>
                                 ELSE f[n - 1] \o Put(text[n], c, by)
        BY DEF Put
      <4>1. n = 0 \/ n \in 1 .. Len(text)
        BY <1>0
      <4> QED
        BY <4>1, <2>1 DEF Replaces
    <3> QED
      BY <3>1, <3>2 DEF DefinesReplace
  <2> QED
    BY <2>2
<1> DEFINE f == CHOOSE g : DefinesReplace(g, text, c, by)
<1>2. DefinesReplace(f, text, c, by)
  BY <1>1
<1>3. Replace(text, c, by) = f[Len(text)]
  BY DEF Replace, DefinesReplace
<1> HIDE DEF f
<1>4. Replaces(f, text, c, by, Len(text))
  <2>1. /\ DOMAIN f = 0 .. Len(text) /\ f = [n \in 0 .. Len(text) |-> f[n]]
        /\ f[0] = <<>>
        /\ \A k \in 1 .. Len(text) : f[k] = f[k - 1] \o Put(text[k], c, by)
    BY <1>0, <1>2 DEF DefinesReplace, Put
  <2> DEFINE T == {k \in Nat : k <= Len(text) => f[k] \in Texts}
  <2>2. 0 \in T
    <3>1. <<>> \in Texts
      BY DEF Texts
    <3> QED
      BY <2>1, <3>1
  <2>3. ASSUME NEW k \in Nat, k \in T PROVE k + 1 \in T
    <3> SUFFICES ASSUME k + 1 <= Len(text) PROVE f[k + 1] \in Texts
      OBVIOUS
    <3>0. k + 1 \in 1 .. Len(text) /\ (k + 1) - 1 = k /\ k <= Len(text)
      BY <1>0
    <3>1. f[k + 1] = f[k] \o Put(text[k + 1], c, by)
      BY <2>1, <3>0
    <3>2. f[k] \in Texts /\ Put(text[k + 1], c, by) \in Texts
      BY <2>3, <3>0, PutIsText
    <3> QED
      BY <3>1, <3>2 DEF Texts
  <2>4. Nat \subseteq T
    <3> HIDE DEF T
    <3> QED
      BY <2>2, <2>3, NaturalInduction
  <2>5. f \in [0 .. Len(text) -> Texts]
    <3>1. \A k \in 0 .. Len(text) : f[k] \in Texts
      BY <1>0, <2>4
    <3> QED
      BY <2>1, <3>1
  <2> QED
    BY <2>1, <2>5 DEF Replaces
<1> QED
  BY <1>3, <1>4

\* Nothing is replaced in an empty text.
LEMMA ReplaceEmpty ==
    ASSUME NEW c, NEW by \in Texts
    PROVE  Replace(<<>>, c, by) = <<>>
<1>1. <<>> \in Texts /\ Len(<<>>) = 0
  BY DEF Texts
<1>2. PICK f : Replaces(f, <<>>, c, by, Len(<<>>)) /\ Replace(<<>>, c, by) = f[Len(<<>>)]
  BY <1>1, ReplaceRuns
<1> QED
  BY <1>1, <1>2 DEF Replaces

Extended(text, x, c, by) ==
    /\ Replace(text, c, by) \in Texts
    /\ Replace(Append(text, x), c, by) = Replace(text, c, by) \o Put(x, c, by)

\* A longer text is replaced like the shorter one, and its last character after it.
LEMMA ReplaceAppended ==
    ASSUME NEW text \in Texts, NEW x \in Chars, NEW c, NEW by \in Texts
    PROVE  Extended(text, x, c, by)
<1> DEFINE more == Append(text, x)
           n == Len(text)
<1>1. /\ n \in Nat /\ more \in Texts /\ Len(more) = n + 1 /\ more[n + 1] = x
      /\ \A k \in 1 .. n : text[k] = more[k]
  <2>1. text \in Seq(Chars)
    BY DEF Texts
  <2>2. more \in Seq(Chars) /\ Len(more) = n + 1
    BY <2>1
  <2>3. more[n + 1] = x /\ \A k \in 1 .. n : text[k] = more[k]
    BY <2>1
  <2> QED
    BY <2>1, <2>2, <2>3 DEF Texts
<1>2. PICK f : Replaces(f, text, c, by, n) /\ Replace(text, c, by) = f[n]
  BY ReplaceRuns
<1> HIDE DEF more, n
<1>3. PICK g : Replaces(g, more, c, by, n + 1) /\ Replace(more, c, by) = g[n + 1]
  BY <1>1, ReplaceRuns
<1>4. Replaces(g, more, c, by, n + 1) /\ n + 1 \in Nat /\ n \in 0 .. n + 1
  BY <1>1, <1>3
<1>5. f[n] = g[n]
  BY <1>1, <1>2, <1>4, ReplacesIsUnique
<1>6. f[n] \in Texts /\ g[n + 1] = g[n] \o Put(more[n + 1], c, by)
  <2>1. n \in 0 .. n /\ n + 1 \in 1 .. n + 1 /\ (n + 1) - 1 = n
    BY <1>1
  <2> QED
    BY <1>2, <1>3, <2>1 DEF Replaces
<1> QED
  BY <1>1, <1>2, <1>3, <1>5, <1>6 DEF Extended, more

(* A pattern puts an escape character before each special one.             *)

Special == {Esc, Any, One}

Escaped(text) ==
    Replace(Replace(Replace(text, Esc, <<Esc, Esc>>), Any, <<Esc, Any>>), One, <<Esc, One>>)

WithEscape(text, x) == IF x \in Special THEN Append(text, Esc) ELSE text

\* Putting one or two characters behind a text.
LEMMA TwoAppended ==
    ASSUME NEW text \in Texts, NEW x \in Chars, NEW y \in Chars
    PROVE  /\ text \o <<x>> = Append(text, x)
           /\ text \o <<x, y>> = Append(Append(text, x), y)
BY DEF Texts

\* A character that is not replaced is kept, one that is comes with an escape.
LEMMA ReplaceOne ==
    ASSUME NEW text \in Texts, NEW x \in Chars, NEW c \in Special
    PROVE  /\ Replace(text, c, <<Esc, c>>) \in Texts
           /\ Append(text, x) \in Texts
           /\ Replace(Append(text, x), c, <<Esc, c>>) =
                 IF x = c THEN Append(Append(Replace(text, c, <<Esc, c>>), Esc), c)
                          ELSE Append(Replace(text, c, <<Esc, c>>), x)
<1>1. Esc \in Chars /\ c \in Chars
  BY DEF Chars, Special
<1>2. <<Esc, c>> \in Texts
  BY <1>1 DEF Texts
<1>3. Extended(text, x, c, <<Esc, c>>)
  BY <1>2, ReplaceAppended
<1>4. Append(text, x) \in Texts
  BY DEF Texts
<1>5. Replace(text, c, <<Esc, c>>) \in Texts
  BY <1>3 DEF Extended
<1>6. CASE x = c
  <2>1. Put(x, c, <<Esc, c>>) = <<Esc, c>>
    BY <1>6 DEF Put
  <2>2. Replace(Append(text, x), c, <<Esc, c>>) = Replace(text, c, <<Esc, c>>) \o <<Esc, c>>
    BY <1>3, <2>1 DEF Extended
  <2>3. Replace(text, c, <<Esc, c>>) \o <<Esc, c>>
            = Append(Append(Replace(text, c, <<Esc, c>>), Esc), c)
    BY <1>1, <1>5, TwoAppended
  <2> QED
    BY <1>4, <1>5, <1>6, <2>2, <2>3
<1>7. CASE x # c
  <2>1. Put(x, c, <<Esc, c>>) = <<x>>
    BY <1>7 DEF Put
  <2>2. Replace(Append(text, x), c, <<Esc, c>>) = Replace(text, c, <<Esc, c>>) \o <<x>>
    BY <1>3, <2>1 DEF Extended
  <2> QED
    BY <1>4, <1>5, <1>7, <2>2, TwoAppended
<1> QED
  BY <1>6, <1>7

EscapesOne(text, x) ==
    /\ Escaped(text) \in Texts
    /\ Escaped(Append(text, x)) = Append(WithEscape(Escaped(text), x), x)

\* Escaping appends to the escaped text the next character, behind an escape if special:
\* the order of the three replacements does not escape the escapes again.
LEMMA EscapedAppended ==
    ASSUME NEW text \in Texts, NEW x \in Chars
    PROVE  EscapesOne(text, x)
<1> DEFINE one(t) == Replace(t, Esc, <<Esc, Esc>>)
           two(t) == Replace(t, Any, <<Esc, Any>>)
           three(t) == Replace(t, One, <<Esc, One>>)
<1>0. Any # One /\ Any # Esc /\ One # Esc
  BY SpecialDiffer
<1>1. Esc \in Special /\ Any \in Special /\ One \in Special /\ Esc \in Chars
  BY DEF Special, Chars
<1>2. \A t \in Texts : \A y \in Chars :
          /\ one(t) \in Texts /\ two(t) \in Texts /\ three(t) \in Texts
          /\ Append(t, y) \in Texts
          /\ one(Append(t, y)) = IF y = Esc THEN Append(Append(one(t), Esc), Esc)
                                             ELSE Append(one(t), y)
          /\ two(Append(t, y)) = IF y = Any THEN Append(Append(two(t), Esc), Any)
                                            ELSE Append(two(t), y)
          /\ three(Append(t, y)) = IF y = One THEN Append(Append(three(t), Esc), One)
                                              ELSE Append(three(t), y)
  <2> SUFFICES ASSUME NEW t \in Texts, NEW y \in Chars
               PROVE  /\ one(t) \in Texts /\ two(t) \in Texts /\ three(t) \in Texts
                      /\ Append(t, y) \in Texts
                      /\ one(Append(t, y)) = IF y = Esc THEN Append(Append(one(t), Esc), Esc)
                                                         ELSE Append(one(t), y)
                      /\ two(Append(t, y)) = IF y = Any THEN Append(Append(two(t), Esc), Any)
                                                        ELSE Append(two(t), y)
                      /\ three(Append(t, y)) = IF y = One THEN Append(Append(three(t), Esc), One)
                                                          ELSE Append(three(t), y)
    OBVIOUS
  <2> QED
    BY <1>1, ReplaceOne
<1>3. /\ Escaped(text) = three(two(one(text)))
      /\ Escaped(Append(text, x)) = three(two(one(Append(text, x))))
  BY DEF Escaped
<1> HIDE DEF one, two, three
<1> DEFINE r == one(text)
           s == two(one(text))
           e == three(two(one(text)))
<1>4. r \in Texts /\ s \in Texts /\ e \in Texts
  BY <1>0, <1>1, <1>2
<1>5. CASE x = Esc
  <2>1. one(Append(text, x)) = Append(Append(r, Esc), Esc)
    BY <1>0, <1>2, <1>5
  <2>2. two(Append(Append(r, Esc), Esc)) = Append(Append(s, Esc), Esc)
    <3>1. Append(r, Esc) \in Texts /\ two(Append(r, Esc)) = Append(s, Esc)
      BY <1>0, <1>1, <1>2, <1>4
    <3> QED
      BY <1>0, <1>1, <1>2, <3>1
  <2>3. three(Append(Append(s, Esc), Esc)) = Append(Append(e, Esc), Esc)
    <3>1. Append(s, Esc) \in Texts /\ three(Append(s, Esc)) = Append(e, Esc)
      BY <1>0, <1>1, <1>2, <1>4
    <3> QED
      BY <1>0, <1>1, <1>2, <3>1
  <2> QED
    BY <1>3, <1>4, <1>5, <2>1, <2>2, <2>3 DEF EscapesOne, WithEscape, Special
<1>6. CASE x = Any
  <2>1. one(Append(text, x)) = Append(r, x)
    BY <1>0, <1>2, <1>6
  <2>2. two(Append(r, x)) = Append(Append(s, Esc), x)
    BY <1>0, <1>2, <1>4, <1>6
  <2>3. three(Append(Append(s, Esc), x)) = Append(Append(e, Esc), x)
    <3>1. Append(s, Esc) \in Texts /\ three(Append(s, Esc)) = Append(e, Esc)
      BY <1>0, <1>1, <1>2, <1>4
    <3> QED
      BY <1>0, <1>1, <1>2, <1>6, <3>1
  <2> QED
    BY <1>3, <1>4, <1>6, <2>1, <2>2, <2>3 DEF EscapesOne, WithEscape, Special
<1>7. CASE x = One
  <2>1. one(Append(text, x)) = Append(r, x)
    BY <1>0, <1>2, <1>7
  <2>2. two(Append(r, x)) = Append(s, x)
    BY <1>0, <1>2, <1>4, <1>7
  <2>3. three(Append(s, x)) = Append(Append(e, Esc), x)
    BY <1>0, <1>2, <1>4, <1>7
  <2> QED
    BY <1>3, <1>4, <1>7, <2>1, <2>2, <2>3 DEF EscapesOne, WithEscape, Special
<1>8. CASE x \notin Special
  <2>0. x # Esc /\ x # Any /\ x # One
    BY <1>8 DEF Special
  <2>1. one(Append(text, x)) = Append(r, x)
    BY <1>2, <2>0
  <2>2. two(Append(r, x)) = Append(s, x)
    BY <1>0, <1>2, <1>4, <2>0
  <2>3. three(Append(s, x)) = Append(e, x)
    BY <1>0, <1>2, <1>4, <2>0
  <2> QED
    BY <1>3, <1>4, <1>8, <2>1, <2>2, <2>3 DEF EscapesOne, WithEscape
<1> QED
  BY <1>5, <1>6, <1>7, <1>8 DEF Special

\* The empty text needs no escapes.
LEMMA EscapedEmpty == Escaped(<<>>) = <<>>
<1>1. Esc \in Chars /\ Any \in Chars /\ One \in Chars
  BY DEF Chars
<1>2. <<Esc, Esc>> \in Texts /\ <<Esc, Any>> \in Texts /\ <<Esc, One>> \in Texts
  BY <1>1 DEF Texts
<1> QED
  BY <1>2, ReplaceEmpty DEF Escaped
-----------------------------------------------------------------------------
(* LIKE, from the end of the pattern to its start.                         *)

\* The positions from which on text matches pattern from j on, given f for later ones.
MatchesFrom(f, text, pattern, j) ==
    IF j > Len(pattern) THEN {Len(text) + 1}
    ELSE CASE pattern[j] = Any ->
                {i \in 1..(Len(text) + 1) : \E k \in f[j + 1] : i <= k}
           [] pattern[j] = One -> {i \in 1..Len(text) : i + 1 \in f[j + 1]}
           [] pattern[j] = Esc ->
                {i \in 1..Len(text) : /\ j < Len(pattern) /\ text[i] = pattern[j + 1]
                                      /\ i + 1 \in f[j + 2]}
           [] OTHER ->
                {i \in 1..Len(text) : text[i] = pattern[j] /\ i + 1 \in f[j + 1]}

DefinesLike(f, text, pattern) ==
    f = [j \in 1..(Len(pattern) + 1) |-> MatchesFrom(f, text, pattern, j)]

\* Like asks the function by which it is defined.
LEMMA LikeIsDefined ==
    ASSUME NEW text, NEW pattern, \E f : DefinesLike(f, text, pattern)
    PROVE  \E f : DefinesLike(f, text, pattern) /\ (Like(text, pattern) <=> 1 \in f[1])
<1> DEFINE f == CHOOSE g : DefinesLike(g, text, pattern)
<1>1. DefinesLike(f, text, pattern)
  OBVIOUS
<1>2. Like(text, pattern) <=> 1 \in f[1]
  BY Zenon DEF Like, DefinesLike, MatchesFrom, Any, One, Esc
<1> QED
  BY <1>1, <1>2

\* Where a pattern matches from depends on later positions of the pattern only.
LEMMA OnlyLaterMatter ==
    ASSUME NEW text \in Texts, NEW pattern \in Texts, NEW j \in 1..(Len(pattern) + 1),
           NEW f, NEW g, j <= Len(pattern) => f[j + 1] = g[j + 1],
           j < Len(pattern) => f[j + 2] = g[j + 2]
    PROVE  MatchesFrom(f, text, pattern, j) = MatchesFrom(g, text, pattern, j)
<1>0. Len(pattern) \in Nat
  BY DEF Texts
<1>1. CASE j > Len(pattern)
  BY <1>1 DEF MatchesFrom
<1>2. CASE j < Len(pattern)
  <2>1. f[j + 1] = g[j + 1] /\ f[j + 2] = g[j + 2] /\ ~ (j > Len(pattern))
    BY <1>0, <1>2
  <2> QED
    BY <2>1 DEF MatchesFrom
<1>3. CASE j = Len(pattern)
  <2>1. f[j + 1] = g[j + 1] /\ ~ (j < Len(pattern)) /\ ~ (j > Len(pattern))
    BY <1>0, <1>3
  <2> QED
    BY <2>1 DEF MatchesFrom
<1> QED
  BY <1>0, <1>1, <1>2, <1>3

\* There is such a function, for any pattern.
LEMMA MatchesExist ==
    ASSUME NEW text \in Texts, NEW pattern \in Texts
    PROVE  \E f : DefinesLike(f, text, pattern)
<1> DEFINE n == Len(pattern)
           Right(f, j) == f[j] = MatchesFrom(f, text, pattern, j)
           T == {m \in Nat : m <= n + 1 =>
                    \E f : DOMAIN f = 1..(n + 1) /\ f = [j \in 1..(n + 1) |-> f[j]]
                           /\ \A j \in 1..(n + 1) : j > n + 1 - m => Right(f, j)}
<1>0. n \in Nat
  BY DEF Texts
<1>1. 0 \in T
  <2> DEFINE f == [j \in 1..(n + 1) |-> {}]
  <2>1. DOMAIN f = 1..(n + 1) /\ f = [j \in 1..(n + 1) |-> f[j]]
    OBVIOUS
  <2>2. \A j \in 1..(n + 1) : ~ (j > n + 1 - 0)
    BY <1>0
  <2> QED
    BY <2>1, <2>2
<1>2. ASSUME NEW m \in Nat, m \in T PROVE m + 1 \in T
  <2> SUFFICES ASSUME m + 1 <= n + 1
               PROVE  \E f : DOMAIN f = 1..(n + 1) /\ f = [j \in 1..(n + 1) |-> f[j]]
                             /\ \A j \in 1..(n + 1) : j > n + 1 - (m + 1) => Right(f, j)
    OBVIOUS
  <2>1. PICK f : /\ DOMAIN f = 1..(n + 1) /\ f = [j \in 1..(n + 1) |-> f[j]]
                 /\ \A j \in 1..(n + 1) : j > n + 1 - m => Right(f, j)
    BY <1>0, <1>2
  <2> DEFINE at == n + 1 - m
             g == [j \in 1..(n + 1) |-> IF j = at THEN MatchesFrom(f, text, pattern, at)
                                        ELSE f[j]]
  <2>2. at \in 1..(n + 1)
    BY <1>0
  <2>3. /\ g[at] = MatchesFrom(f, text, pattern, at)
        /\ \A j \in 1..(n + 1) : j # at => g[j] = f[j]
        /\ DOMAIN g = 1..(n + 1) /\ g = [j \in 1..(n + 1) |-> g[j]]
    BY <2>2
  <2> HIDE DEF g
  <2>4. ASSUME NEW j \in 1..(n + 1), j > n + 1 - (m + 1)
        PROVE  Right(g, j)
    <3>1. j >= at /\ j \in Nat /\ at \in Nat
      BY <1>0, <2>2, <2>4
    <3>2. /\ j <= n => f[j + 1] = g[j + 1]
          /\ j < n => f[j + 2] = g[j + 2]
      BY <1>0, <2>3, <3>1
    <3>3. MatchesFrom(f, text, pattern, j) = MatchesFrom(g, text, pattern, j)
      BY <3>2, OnlyLaterMatter
    <3>4. CASE j = at
      BY <2>3, <3>3, <3>4
    <3>5. CASE j # at
      <4>1. j > n + 1 - m
        BY <1>0, <3>1, <3>5
      <4> QED
        BY <2>1, <2>3, <3>3, <3>5, <4>1
    <3> QED
      BY <3>4, <3>5
  <2> QED
    BY <2>3, <2>4
<1>3. n + 1 \in T
  <2>1. Nat \subseteq T
    <3> HIDE DEF T
    <3> QED
      BY <1>1, <1>2, NaturalInduction
  <2> QED
    BY <1>0, <2>1
<1>4. PICK f : /\ f = [j \in 1..(n + 1) |-> f[j]]
               /\ \A j \in 1..(n + 1) : j > n + 1 - (n + 1) => Right(f, j)
  BY <1>0, <1>3
<1>5. \A j \in 1..(n + 1) : f[j] = MatchesFrom(f, text, pattern, j)
  BY <1>0, <1>4
<1> QED
  BY <1>4, <1>5 DEF DefinesLike

MatchesByCharacter(f, text, pattern) ==
    \A j \in 1..(Len(pattern) + 1) : f[j] = MatchesFrom(f, text, pattern, j)

\* Like is computed from the end of the pattern, one position at a time.
LEMMA LikeRuns ==
    ASSUME NEW text \in Texts, NEW pattern \in Texts
    PROVE  \E f : MatchesByCharacter(f, text, pattern) /\ (Like(text, pattern) <=> 1 \in f[1])
<1>1. \E f : DefinesLike(f, text, pattern)
  BY MatchesExist
<1>2. PICK f : DefinesLike(f, text, pattern) /\ (Like(text, pattern) <=> 1 \in f[1])
  BY <1>1, LikeIsDefined
<1>3. MatchesByCharacter(f, text, pattern)
  BY <1>2 DEF DefinesLike, MatchesByCharacter
<1> QED
  BY <1>2, <1>3

\* The characters of a pattern that begin the escape of one character of the part.
EscapedTo(part, k) == Escaped(SubSeq(part, 1, k))

StartsAt(part, k) == 2 + Len(EscapedTo(part, k))

Pattern(part) == <<Any>> \o Escaped(part) \o <<Any>>

\* A pattern is the escaped part between two wildcards.
LEMMA PatternIsEscaped ==
    ASSUME NEW part
    PROVE  BuildContainsPattern(part) = Pattern(part)
BY Zenon DEF BuildContainsPattern, Pattern, Escaped, Any, One, Esc

\* What a pattern consists of.
Layout(part, p) ==
    /\ p \in Texts
    /\ Len(p) = StartsAt(part, Len(part))
    /\ p[1] = Any /\ p[Len(p)] = Any
    /\ StartsAt(part, 0) = 2
    /\ \A k \in 0 .. Len(part) : StartsAt(part, k) \in 2 .. Len(p)
    /\ \A k \in 1 .. Len(part) :
          IF part[k] \in Special
          THEN /\ p[StartsAt(part, k - 1)] = Esc
               /\ p[StartsAt(part, k - 1) + 1] = part[k]
               /\ StartsAt(part, k) = StartsAt(part, k - 1) + 2
          ELSE /\ p[StartsAt(part, k - 1)] = part[k]
               /\ StartsAt(part, k) = StartsAt(part, k - 1) + 1

Grows(part, k) ==
    /\ EscapedTo(part, k - 1) \in Texts
    /\ EscapedTo(part, k) = Append(WithEscape(EscapedTo(part, k - 1), part[k]), part[k])

\* One more character of the part is one or two more of the pattern.
LEMMA EscapedGrows ==
    ASSUME NEW part \in Texts, NEW k \in 1 .. Len(part)
    PROVE  Grows(part, k)
<1>1. part \in Seq(Chars) /\ Len(part) \in Nat
  BY DEF Texts
<1> DEFINE before == SubSeq(part, 1, k - 1)
<1>2. before \in Texts /\ part[k] \in Chars
  BY <1>1 DEF Texts
<1>3. SubSeq(part, 1, k) = Append(before, part[k])
  BY <1>1
<1>4. EscapesOne(before, part[k])
  BY <1>2, EscapedAppended
<1> QED
  BY <1>3, <1>4 DEF Grows, EscapesOne, EscapedTo

\* The escapes of no character and of the whole part.
LEMMA EscapedEnds ==
    ASSUME NEW part \in Texts
    PROVE  /\ EscapedTo(part, 0) = <<>>
           /\ EscapedTo(part, Len(part)) = Escaped(part)
           /\ \A k \in 0 .. Len(part) : EscapedTo(part, k) \in Texts
<1>1. SubSeq(part, 1, 0) = <<>> /\ SubSeq(part, 1, Len(part)) = part
  BY DEF Texts
<1>2. <<>> \in Texts
  BY DEF Texts
<1>3. ASSUME NEW k \in 1 .. Len(part) PROVE EscapedTo(part, k) \in Texts
  <2>1. Grows(part, k) /\ part[k] \in Chars /\ Esc \in Chars
    BY EscapedGrows DEF Texts, Chars
  <2>2. WithEscape(EscapedTo(part, k - 1), part[k]) \in Texts
    BY <2>1 DEF Grows, WithEscape, Texts
  <2> QED
    BY <2>1, <2>2 DEF Grows, Texts
<1>4. \A k \in 0 .. Len(part) : k = 0 \/ k \in 1 .. Len(part)
  BY DEF Texts
<1> QED
  BY <1>1, <1>2, <1>3, <1>4, EscapedEmpty DEF EscapedTo

Prefix(s, t) == Len(s) <= Len(t) /\ \A i \in 1 .. Len(s) : s[i] = t[i]

\* A prefix stays one when the text is appended to.
LEMMA PrefixOfAppended ==
    ASSUME NEW s \in Texts, NEW t \in Texts, NEW x \in Chars, Prefix(s, t)
    PROVE  Prefix(s, Append(t, x))
BY DEF Prefix, Texts

\* The escaped characters up to any point begin the whole pattern.
LEMMA EscapedPrefix ==
    ASSUME NEW part \in Texts, NEW k \in 0 .. Len(part)
    PROVE  Prefix(EscapedTo(part, k), Escaped(part))
<1> DEFINE n == Len(part)
           T == {m \in Nat : k <= m /\ m <= n => Prefix(EscapedTo(part, k), EscapedTo(part, m))}
<1>0. n \in Nat /\ \A m \in 0 .. n : EscapedTo(part, m) \in Texts
  BY EscapedEnds DEF Texts
<1>1. 0 \in T
  <2>1. Prefix(EscapedTo(part, 0), EscapedTo(part, 0))
    BY <1>0 DEF Prefix, Texts
  <2>2. k <= 0 => k = 0
    BY <1>0
  <2> QED
    BY <2>1, <2>2
<1>2. ASSUME NEW m \in Nat, m \in T PROVE m + 1 \in T
  <2> SUFFICES ASSUME k <= m + 1, m + 1 <= n
               PROVE  Prefix(EscapedTo(part, k), EscapedTo(part, m + 1))
    OBVIOUS
  <2>1. CASE k = m + 1
    BY <1>0, <2>1 DEF Prefix, Texts
  <2>2. CASE k # m + 1
    <3>1. k <= m /\ m <= n /\ m \in 0 .. n /\ m + 1 \in 1 .. n /\ (m + 1) - 1 = m
      BY <1>0, <2>2
    <3>2. Prefix(EscapedTo(part, k), EscapedTo(part, m))
      BY <1>2, <3>1
    <3>3. EscapedTo(part, m + 1) = Append(WithEscape(EscapedTo(part, m), part[m + 1]), part[m + 1])
      BY <3>1, EscapedGrows DEF Grows
    <3>4. Esc \in Chars /\ part[m + 1] \in Chars
      BY <3>1 DEF Chars, Texts
    <3>5. /\ WithEscape(EscapedTo(part, m), part[m + 1]) \in Texts
          /\ Prefix(EscapedTo(part, k), WithEscape(EscapedTo(part, m), part[m + 1]))
      <4>1. Append(EscapedTo(part, m), Esc) \in Texts
        BY <1>0, <3>1, <3>4 DEF Texts
      <4>2. Prefix(EscapedTo(part, k), Append(EscapedTo(part, m), Esc))
        BY <1>0, <3>1, <3>2, <3>4, PrefixOfAppended
      <4> QED
        BY <1>0, <3>1, <3>2, <4>1, <4>2 DEF WithEscape
    <3> QED
      BY <1>0, <3>3, <3>4, <3>5, PrefixOfAppended
  <2> QED
    BY <2>1, <2>2
<1>3. Nat \subseteq T
  <2> HIDE DEF T
  <2> QED
    BY <1>1, <1>2, NaturalInduction
<1> QED
  BY <1>0, <1>3, EscapedEnds

\* Every character of a part is in its pattern, alone, or behind an escape if special.
LEMMA PatternLayout ==
    ASSUME NEW part \in Texts
    PROVE  Layout(part, Pattern(part))
<1> DEFINE p == Pattern(part)
           e == Escaped(part)
           n == Len(part)
           E(k) == EscapedTo(part, k)
<1>0. n \in Nat /\ Any \in Chars
  BY DEF Texts, Chars
<1>1. /\ E(0) = <<>> /\ E(n) = e /\ e \in Texts
      /\ \A k \in 0 .. n : E(k) \in Texts /\ Prefix(E(k), e)
  BY <1>0, EscapedEnds, EscapedPrefix
<1>2. /\ p \in Texts /\ Len(p) = Len(e) + 2 /\ Len(e) \in Nat
      /\ p[1] = Any /\ p[Len(p)] = Any
      /\ \A i \in 1 .. Len(e) : p[i + 1] = e[i]
  <2>1. <<Any>> \in Seq(Chars) /\ e \in Seq(Chars)
    BY <1>0, <1>1 DEF Texts
  <2> HIDE DEF e
  <2>2. p = <<Any>> \o e \o <<Any>>
    BY DEF Pattern, e
  <2> HIDE DEF p
  <2> QED
    BY <2>1, <2>2 DEF Texts
<1> HIDE DEF p, e
<1>3. ASSUME NEW k \in 0 .. n
      PROVE  /\ Len(E(k)) \in Nat /\ Len(E(k)) <= Len(e)
             /\ \A i \in 1 .. Len(E(k)) : p[i + 1] = E(k)[i]
  <2>1. Len(E(k)) \in Nat
    BY <1>1 DEF Texts
  <2> QED
    BY <1>1, <1>2, <2>1 DEF Prefix
<1>4. ASSUME NEW k \in 1 .. n, part[k] \in Special
      PROVE  /\ p[Len(E(k - 1)) + 2] = Esc /\ p[Len(E(k - 1)) + 3] = part[k]
             /\ Len(E(k)) = Len(E(k - 1)) + 2
  <2>1. k \in 0 .. n /\ k - 1 \in 0 .. n /\ part[k] \in Chars /\ Esc \in Chars
    BY <1>0 DEF Texts, Chars
  <2>2. E(k) = Append(Append(E(k - 1), Esc), part[k]) /\ E(k - 1) \in Seq(Chars)
    BY <1>1, <1>4, <2>1, EscapedGrows DEF Grows, WithEscape, Texts
  <2>3. /\ Len(E(k)) = Len(E(k - 1)) + 2
        /\ E(k)[Len(E(k - 1)) + 1] = Esc /\ E(k)[Len(E(k - 1)) + 2] = part[k]
    BY <2>1, <2>2
  <2>4. Len(E(k - 1)) \in Nat
    BY <1>3, <2>1
  <2>5. p[(Len(E(k - 1)) + 1) + 1] = Esc /\ p[(Len(E(k - 1)) + 2) + 1] = part[k]
    <3>1. Len(E(k - 1)) + 1 \in 1 .. Len(E(k)) /\ Len(E(k - 1)) + 2 \in 1 .. Len(E(k))
      BY <2>3, <2>4
    <3>2. \A i \in 1 .. Len(E(k)) : p[i + 1] = E(k)[i]
      BY <1>3, <2>1
    <3> QED
      BY <2>3, <3>1, <3>2
  <2> QED
    BY <2>3, <2>4, <2>5
<1>5. ASSUME NEW k \in 1 .. n, part[k] \notin Special
      PROVE  p[Len(E(k - 1)) + 2] = part[k] /\ Len(E(k)) = Len(E(k - 1)) + 1
  <2>1. k \in 0 .. n /\ k - 1 \in 0 .. n /\ part[k] \in Chars
    BY <1>0 DEF Texts
  <2>2. E(k) = Append(E(k - 1), part[k]) /\ E(k - 1) \in Seq(Chars)
    BY <1>1, <1>5, <2>1, EscapedGrows DEF Grows, WithEscape, Texts
  <2>3. Len(E(k)) = Len(E(k - 1)) + 1 /\ E(k)[Len(E(k - 1)) + 1] = part[k]
    BY <2>1, <2>2
  <2>4. Len(E(k - 1)) \in Nat
    BY <1>3, <2>1
  <2>5. p[(Len(E(k - 1)) + 1) + 1] = part[k]
    BY <1>3, <2>1, <2>3, <2>4
  <2> QED
    BY <2>3, <2>4, <2>5
<1>6. Len(p) = StartsAt(part, n) /\ StartsAt(part, 0) = 2
  BY <1>1, <1>2 DEF StartsAt
<1>7. \A k \in 0 .. n : StartsAt(part, k) \in 2 .. Len(p)
  BY <1>2, <1>3 DEF StartsAt
<1>8. ASSUME NEW k \in 1 .. n
      PROVE  IF part[k] \in Special
             THEN /\ p[StartsAt(part, k - 1)] = Esc
                  /\ p[StartsAt(part, k - 1) + 1] = part[k]
                  /\ StartsAt(part, k) = StartsAt(part, k - 1) + 2
             ELSE /\ p[StartsAt(part, k - 1)] = part[k]
                  /\ StartsAt(part, k) = StartsAt(part, k - 1) + 1
  <2>1. /\ StartsAt(part, k - 1) = Len(E(k - 1)) + 2 /\ StartsAt(part, k) = Len(E(k)) + 2
        /\ Len(E(k - 1)) \in Nat /\ Len(E(k)) \in Nat
    <3>1. k - 1 \in 0 .. n /\ k \in 0 .. n
      BY <1>0
    <3> QED
      BY <1>3, <3>1 DEF StartsAt
  <2> QED
    BY <1>4, <1>5, <2>1
<1> QED
  BY <1>2, <1>6, <1>7, <1>8 DEF Layout, p

\* The characters of part from k + 1 on are those of text from i on.
Agrees(text, part, i, k) ==
    /\ i - 1 + (Len(part) - k) <= Len(text)
    /\ \A m \in (k + 1) .. Len(part) : text[i + (m - k) - 1] = part[m]

\* Agreement from one character on, by that character and the next.
LEMMA AgreesStep ==
    ASSUME NEW text \in Texts, NEW part \in Texts,
           NEW i \in 1 .. Len(text), NEW c \in 1 .. Len(part)
    PROVE  Agrees(text, part, i, c - 1) <=>
              text[i] = part[c] /\ Agrees(text, part, i + 1, c)
<1> DEFINE n == Len(part)
<1>0. n \in Nat /\ Len(text) \in Nat
  BY DEF Texts
<1>1. (c - 1) + 1 = c /\ i \in Nat /\ c \in Nat /\ c <= n
  BY <1>0
<1>2. i - 1 + (n - (c - 1)) = (i + 1) - 1 + (n - c)
  BY <1>0, <1>1
<1>3. \A m \in Nat : i + (m - (c - 1)) - 1 = (i + 1) + (m - c) - 1
  BY <1>1
<1>4. i + (c - (c - 1)) - 1 = i /\ c \in c .. n
  BY <1>0, <1>1
<1>5. \A m : m \in c .. n <=> m = c \/ m \in (c + 1) .. n
  BY <1>0, <1>1
<1>6. \A m \in c .. n : m \in Nat
  BY <1>0, <1>1
<1>7. Agrees(text, part, i, c - 1) <=>
          /\ i - 1 + (n - (c - 1)) <= Len(text)
          /\ \A m \in c .. n : text[i + (m - (c - 1)) - 1] = part[m]
  BY <1>1 DEF Agrees
<1>8. Agrees(text, part, i + 1, c) <=>
          /\ (i + 1) - 1 + (n - c) <= Len(text)
          /\ \A m \in (c + 1) .. n : text[(i + 1) + (m - c) - 1] = part[m]
  BY DEF Agrees
<1>9. (\A m \in c .. n : text[i + (m - (c - 1)) - 1] = part[m]) <=>
          /\ text[i] = part[c]
          /\ \A m \in (c + 1) .. n : text[(i + 1) + (m - c) - 1] = part[m]
  <2> HIDE DEF n
  <2> QED
    BY <1>3, <1>4, <1>5, <1>6
<1> QED
  BY <1>2, <1>7, <1>8, <1>9

(* A part in the pattern that is made of it matches itself only.           *)
LEMMA PartsMatchLiterally ==
    ASSUME NEW text \in Texts, NEW part \in Texts, NEW p, Layout(part, p),
           NEW f, MatchesByCharacter(f, text, p), NEW k \in 0 .. Len(part)
    PROVE  \A i \in Nat : i \in f[StartsAt(part, k)] <=>
              i \in 1 .. Len(text) + 1 /\ Agrees(text, part, i, k)
<1> DEFINE n == Len(part)
           at(h) == StartsAt(part, h)
           Right(h) == \A i \in Nat : i \in f[at(h)] <=>
                           i \in 1 .. Len(text) + 1 /\ Agrees(text, part, i, h)
           T == {h \in Nat : h <= n => Right(n - h)}
<1>0. /\ n \in Nat /\ Len(text) \in Nat /\ Len(p) \in Nat /\ at(n) = Len(p)
      /\ p \in Texts /\ p[Len(p)] = Any
      /\ \A h \in 0 .. n : at(h) \in 2 .. Len(p)
  BY DEF Texts, Layout
<1> HIDE DEF at
<1>1. 0 \in T
  <2>1. f[Len(p) + 1] = {Len(text) + 1}
    <3>1. Len(p) + 1 \in 1 .. Len(p) + 1 /\ Len(p) + 1 > Len(p)
      BY <1>0
    <3> QED
      BY <3>1 DEF MatchesByCharacter, MatchesFrom
  <2>2. f[Len(p)] = {i \in 1 .. Len(text) + 1 : \E m \in f[Len(p) + 1] : i <= m}
    <3>1. Len(p) \in 1 .. Len(p) + 1 /\ ~ (Len(p) > Len(p))
      <4>1. at(0) \in 2 .. Len(p)
        BY <1>0
      <4> QED
        BY <1>0, <4>1
    <3>2. f[Len(p)] = MatchesFrom(f, text, p, Len(p))
      BY <3>1 DEF MatchesByCharacter
    <3>3. p[Len(p)] = Any /\ Any # One /\ Any # Esc
      BY <1>0, SpecialDiffer
    <3> HIDE DEF at
    <3> QED
      BY <3>1, <3>2, <3>3 DEF MatchesFrom
  <2>3. f[Len(p)] = 1 .. Len(text) + 1
    BY <1>0, <2>1, <2>2
  <2>4. \A i \in 1 .. Len(text) + 1 : Agrees(text, part, i, n)
    BY <1>0 DEF Agrees
  <2>5. Right(n)
    BY <1>0, <2>3, <2>4
  <2>6. n - 0 = n
    BY <1>0
  <2> QED
    BY <2>5, <2>6
<1>2. ASSUME NEW h \in Nat, h \in T PROVE h + 1 \in T
  <2> SUFFICES ASSUME h + 1 <= n PROVE Right(n - (h + 1))
    OBVIOUS
  <2> DEFINE c == n - h
  <2>1. /\ c \in 1 .. n /\ c - 1 \in 0 .. n /\ c \in 0 .. n /\ n - (h + 1) = c - 1
        /\ Right(c)
    <3>1. h <= n
      BY <1>0
    <3>2. Right(n - h)
      BY <1>2, <3>1
    <3>3. /\ n - h \in 1 .. n /\ (n - h) - 1 \in 0 .. n /\ n - h \in 0 .. n
          /\ n - (h + 1) = (n - h) - 1
      BY <1>0, <3>1
    <3> QED
      BY <3>2, <3>3
  <2> HIDE DEF c
  <2>2. /\ at(c - 1) \in 1 .. Len(p) + 1 /\ ~ (at(c - 1) > Len(p)) /\ at(c - 1) \in Nat
        /\ at(c) <= Len(p) /\ at(c) \in Nat
    <3>1. at(c - 1) \in 2 .. Len(p) /\ at(c) \in 2 .. Len(p)
      BY <1>0, <2>1
    <3> QED
      BY <1>0, <3>1
  <2>3. Any # Esc /\ One # Esc
    BY SpecialDiffer
  <2>4. f[at(c - 1)] = {i \in 1 .. Len(text) : text[i] = part[c] /\ i + 1 \in f[at(c)]}
    <3>1. CASE part[c] \in Special
      <4>1. p[at(c - 1)] = Esc /\ p[at(c - 1) + 1] = part[c] /\ at(c) = at(c - 1) + 2
        BY <2>1, <3>1 DEF Layout, at
      <4>2. at(c - 1) < Len(p)
        BY <1>0, <2>2, <4>1
      <4>3. f[at(c - 1)] = {i \in 1 .. Len(text) :
                               /\ at(c - 1) < Len(p) /\ text[i] = p[at(c - 1) + 1]
                               /\ i + 1 \in f[at(c - 1) + 2]}
        BY <2>2, <2>3, <4>1 DEF MatchesByCharacter, MatchesFrom
      <4> QED
        BY <4>1, <4>2, <4>3
    <3>2. CASE part[c] \notin Special
      <4>1. p[at(c - 1)] = part[c] /\ at(c) = at(c - 1) + 1
        BY <2>1, <3>2 DEF Layout, at
      <4>2. part[c] # Any /\ part[c] # One /\ part[c] # Esc
        BY <3>2 DEF Special
      <4>3. f[at(c - 1)] = {i \in 1 .. Len(text) :
                               text[i] = p[at(c - 1)] /\ i + 1 \in f[at(c - 1) + 1]}
        BY <2>2, <4>1, <4>2 DEF MatchesByCharacter, MatchesFrom
      <4> QED
        BY <4>1, <4>3
    <3> QED
      BY <3>1, <3>2
  <2>5. \A i \in 1 .. Len(text) : Agrees(text, part, i, c - 1) <=>
                                      text[i] = part[c] /\ Agrees(text, part, i + 1, c)
    BY <2>1, AgreesStep
  <2>6. ASSUME NEW i \in Nat
        PROVE  i \in f[at(c - 1)] <=>
                  i \in 1 .. Len(text) + 1 /\ Agrees(text, part, i, c - 1)
    <3>1. Agrees(text, part, i, c - 1) => i <= Len(text)
      BY <1>0, <2>1 DEF Agrees
    <3>2. CASE i \in 1 .. Len(text)
      <4>1. i + 1 \in Nat /\ i + 1 \in 1 .. Len(text) + 1 /\ i \in 1 .. Len(text) + 1
        BY <1>0, <3>2
      <4>2. i + 1 \in f[at(c)] <=> Agrees(text, part, i + 1, c)
        BY <2>1, <4>1
      <4> QED
        BY <2>4, <2>5, <3>2, <4>1, <4>2
    <3>3. CASE i \notin 1 .. Len(text)
      BY <1>0, <2>4, <3>1, <3>3
    <3> QED
      BY <3>2, <3>3
  <2> QED
    BY <2>1, <2>6
<1>3. Nat \subseteq T
  <2> HIDE DEF T
  <2> QED
    BY <1>1, <1>2, NaturalInduction
<1>4. n - k \in Nat /\ n - (n - k) = k /\ n - k <= n
  BY <1>0
<1>5. n - k \in T
  <2> HIDE DEF T, n
  <2> QED
    BY <1>3, <1>4
<1>6. Right(n - (n - k))
  BY <1>4, <1>5
<1> QED
  BY <1>4, <1>6 DEF at

\* A part is a piece of the text where it agrees with it from its first character on.
LEMMA ContainsIsAgreement ==
    ASSUME NEW text \in Texts, NEW part \in Texts, NEW i \in Nat
    PROVE  Agrees(text, part, i + 1, 0) <=>
              /\ i \in 0 .. Len(text) - Len(part)
              /\ SubSeq(text, i + 1, i + Len(part)) = part
<1>0. /\ text \in Seq(Chars) /\ part \in Seq(Chars)
      /\ Len(text) \in Nat /\ Len(part) \in Nat
  BY DEF Texts
<1>1. Agrees(text, part, i + 1, 0) <=>
          /\ i + Len(part) <= Len(text)
          /\ \A m \in 1 .. Len(part) : text[i + m] = part[m]
  <2>1. \A m \in 1 .. Len(part) : (i + 1) + (m - 0) - 1 = i + m
    BY <1>0
  <2>2. (i + 1) - 1 + (Len(part) - 0) = i + Len(part) /\ 0 + 1 = 1
    BY <1>0
  <2> QED
    BY <2>1, <2>2 DEF Agrees
<1>2. i \in 0 .. Len(text) - Len(part) <=> i + Len(part) <= Len(text)
  BY <1>0
<1>3. ASSUME i + Len(part) <= Len(text)
      PROVE  SubSeq(text, i + 1, i + Len(part)) = part <=>
                \A m \in 1 .. Len(part) : text[i + m] = part[m]
  <2> DEFINE s == SubSeq(text, i + 1, i + Len(part))
  <2>1. /\ s \in Seq(Chars) /\ Len(s) = Len(part)
        /\ \A m \in 1 .. Len(part) : s[m] = text[i + m]
    BY <1>0, <1>3
  <2> HIDE DEF s
  <2>2. (\A m \in 1 .. Len(part) : s[m] = part[m]) => s = part
    BY <1>0, <2>1, SeqEqual
  <2> QED
    BY <2>1, <2>2 DEF s
<1> QED
  BY <1>1, <1>2, <1>3

LiteralMatch(text, part) == Like(text, BuildContainsPattern(part)) <=> Contains(text, part)

(* The pattern that build_contains_pattern makes of a text matches the     *)
(* texts that contain it, and no others: no character of it has a meaning  *)
(* of its own.                                                             *)
THEOREM PatternsAreLiteral ==
    ASSUME NEW text \in Texts, NEW part \in Texts
    PROVE  LiteralMatch(text, part)
<1> DEFINE p == BuildContainsPattern(part)
<1>1. Layout(part, p)
  BY PatternIsEscaped, PatternLayout
<1> HIDE DEF p
<1>2. p \in Texts /\ Len(p) \in Nat /\ Len(text) \in Nat /\ Len(part) \in Nat
  BY <1>1 DEF Layout, Texts
<1>3. PICK f : MatchesByCharacter(f, text, p) /\ (Like(text, p) <=> 1 \in f[1])
  BY <1>2, LikeRuns
<1>4. StartsAt(part, 0) = 2 /\ 2 \in 2 .. Len(p) /\ p[1] = Any
  <2>1. StartsAt(part, 0) = 2 /\ StartsAt(part, 0) \in 2 .. Len(p) /\ p[1] = Any
    BY <1>1, <1>2 DEF Layout
  <2> QED
    BY <2>1
<1>5. f[1] = {i \in 1 .. (Len(text) + 1) : \E k \in f[2] : i <= k}
  <2>1. 1 \in 1 .. Len(p) + 1 /\ ~ (1 > Len(p)) /\ 1 + 1 = 2
    BY <1>2, <1>4
  <2>2. f[1] = MatchesFrom(f, text, p, 1)
    BY <1>3, <2>1 DEF MatchesByCharacter
  <2>3. Any # One /\ Any # Esc
    BY SpecialDiffer
  <2> QED
    BY <1>4, <2>1, <2>2, <2>3 DEF MatchesFrom
<1>6. f[2] \subseteq 1 .. Len(text) + 1
  <2>1. 2 \in 1 .. Len(p) + 1 /\ ~ (2 > Len(p))
    BY <1>2, <1>4
  <2>2. f[2] = MatchesFrom(f, text, p, 2)
    BY <1>3, <2>1 DEF MatchesByCharacter
  <2>3. 1 .. Len(text) \subseteq 1 .. Len(text) + 1
    BY <1>2
  <2> QED
    BY <2>1, <2>2, <2>3 DEF MatchesFrom
<1>7. \A i \in Nat : i \in f[2] <=> i \in 1 .. Len(text) + 1 /\ Agrees(text, part, i, 0)
  BY <1>1, <1>2, <1>3, <1>4, PartsMatchLiterally
<1>8. Like(text, p) <=> \E i \in 1 .. Len(text) + 1 : Agrees(text, part, i, 0)
  BY <1>2, <1>3, <1>5, <1>6, <1>7
<1>9. ASSUME NEW i \in 1 .. Len(text) + 1, Agrees(text, part, i, 0)
      PROVE  Contains(text, part)
  <2>1. i - 1 \in Nat /\ (i - 1) + 1 = i
    BY <1>2
  <2>2. /\ i - 1 \in 0 .. Len(text) - Len(part)
        /\ SubSeq(text, (i - 1) + 1, (i - 1) + Len(part)) = part
    BY <1>9, <2>1, ContainsIsAgreement
  <2> QED
    BY <2>2 DEF Contains
<1>10. ASSUME Contains(text, part)
       PROVE  \E i \in 1 .. Len(text) + 1 : Agrees(text, part, i, 0)
  <2>1. PICK i \in 0 .. (Len(text) - Len(part)) : SubSeq(text, i + 1, i + Len(part)) = part
    BY <1>10 DEF Contains
  <2>2. i \in Nat /\ i + 1 \in 1 .. Len(text) + 1
    BY <1>2
  <2>3. Agrees(text, part, i + 1, 0)
    BY <2>1, <2>2, ContainsIsAgreement
  <2> QED
    BY <2>2, <2>3
<1> QED
  BY <1>8, <1>9, <1>10 DEF LiteralMatch, p
-----------------------------------------------------------------------------
(* Normalised requests are made of texts.                                  *)

\* The word of a text is a text, and normalising keeps it.
LEMMA WordsAreTexts ==
    ASSUME NEW text \in Text
    PROVE  text.word \in Texts /\ NormalizeText(text).word = text.word
<1>1. STRING \subseteq Chars
  BY DEF Chars
<1>2. Seq(STRING) \subseteq Seq(Chars)
  BY <1>1, SeqMonotonic
<1> QED
  BY <1>2, Normalized DEF Texts

QuerySplit(q) ==
    /\ QueryWords(q) \in Seq(Texts)
    /\ DOMAIN QueryWords(q) = 1 .. Len(QueryWords(q)) /\ Len(QueryWords(q)) \in Nat

\* A query is split into words that are texts.
LEMMA QueriesSplit ==
    ASSUME NEW q \in Seq(Text)
    PROVE  QuerySplit(q)
<1> DEFINE words == [i \in DOMAIN q |-> NormalizeText(q[i]).word]
           P == {i \in DOMAIN q : words[i] # <<>>}
<1>1. words \in Seq(Texts) /\ DOMAIN words = DOMAIN q
  <2>1. DOMAIN q = 1 .. Len(q) /\ Len(q) \in Nat
    OBVIOUS
  <2>2. \A i \in DOMAIN q : NormalizeText(q[i]).word \in Texts
    BY WordsAreTexts
  <2> QED
    BY <2>1, <2>2
<1>2. QueryWords(q) = AtPositions(words, P)
  BY DEF QueryWords
<1>3. P \in SUBSET DOMAIN words
  BY <1>1
<1> HIDE DEF words, P
<1>4. QueryWords(q) \in Seq(Texts)
  BY <1>1, <1>2, <1>3, AtPositionsPicks DEF PickedFrom
<1> QED
  BY <1>4 DEF QuerySplit

Gap == <<" ">>

DefinesJoined(f, words) ==
    f = [n \in 1..Len(words) |->
            IF n = 1 THEN words[1] ELSE f[n - 1] \o Gap \o words[n]]

Joins(f, words, n) ==
    /\ f \in [1 .. n -> Texts]
    /\ \A k \in 1 .. n :
          f[k] = IF k = 1 THEN words[1] ELSE f[k - 1] \o Gap \o words[k]

\* A space is a text.
LEMMA GapIsText == Gap \in Texts
<1>1. <<Space>> \in Texts
  <2>1. Space \in Chars
    BY DEF Chars
  <2> QED
    BY <2>1 DEF Texts
<1> QED
  BY Zenon, <1>1 DEF Space, Gap

\* Words can be joined, up to any of them.
LEMMA JoinsExists ==
    ASSUME NEW words \in Seq(Texts), NEW n \in 1 .. Len(words)
    PROVE  \E f : Joins(f, words, n)
<1> DEFINE T == {m \in Nat : m + 1 <= Len(words) => \E f : Joins(f, words, m + 1)}
<1>0. Len(words) \in Nat /\ \A k \in 1 .. Len(words) : words[k] \in Texts
  OBVIOUS
<1>1. 0 \in T
  <2> SUFFICES ASSUME 1 <= Len(words) PROVE \E f : Joins(f, words, 1)
    OBVIOUS
  <2> DEFINE f == [k \in 1 .. 1 |-> words[1]]
  <2>1. words[1] \in Texts
    BY <1>0
  <2>2. f \in [1 .. 1 -> Texts] /\ \A k \in 1 .. 1 : k = 1 /\ f[k] = words[1]
    BY <2>1
  <2> HIDE DEF f
  <2>3. Joins(f, words, 1)
    BY <2>2 DEF Joins
  <2> QED
    BY <2>3
<1>2. ASSUME NEW m \in Nat, m \in T PROVE m + 1 \in T
  <2> SUFFICES ASSUME (m + 1) + 1 <= Len(words)
               PROVE  \E f : Joins(f, words, (m + 1) + 1)
    OBVIOUS
  <2> DEFINE o == m + 1
  <2>0. o \in Nat /\ o >= 1 /\ o + 1 <= Len(words) /\ o <= Len(words)
    BY <1>0
  <2>1. PICK f : Joins(f, words, o)
    BY <1>0, <1>2, <2>0
  <2> HIDE DEF o
  <2> DEFINE last == f[o] \o Gap \o words[o + 1]
             g == [k \in 1 .. o + 1 |-> IF k <= o THEN f[k] ELSE last]
  <2>2. last \in Texts /\ \A k \in 1 .. o : f[k] \in Texts
    <3>1. words[o + 1] \in Texts /\ f[o] \in Texts /\ \A k \in 1 .. o : f[k] \in Texts
      BY <1>0, <2>0, <2>1 DEF Joins
    <3> QED
      BY GapIsText, <3>1 DEF Texts
  <2> HIDE DEF last
  <2>3. g \in [1 .. o + 1 -> Texts]
    BY <2>0, <2>2
  <2>4. /\ \A k \in 1 .. o : g[k] = f[k]
        /\ g[o + 1] = last
    BY <2>0
  <2> HIDE DEF g
  <2>5. ASSUME NEW k \in 1 .. o + 1
        PROVE  g[k] = IF k = 1 THEN words[1] ELSE g[k - 1] \o Gap \o words[k]
    <3>1. CASE k <= o
      <4>1. k \in 1 .. o /\ (k # 1 => k - 1 \in 1 .. o)
        BY <2>0, <3>1
      <4>2. f[k] = IF k = 1 THEN words[1] ELSE f[k - 1] \o Gap \o words[k]
        BY <2>1, <4>1 DEF Joins
      <4> QED
        BY <2>4, <4>1, <4>2
    <3>2. CASE k = o + 1
      <4>1. k # 1 /\ k - 1 = o /\ o \in 1 .. o
        BY <2>0, <3>2
      <4> QED
        BY <2>4, <3>2, <4>1 DEF last
    <3>3. k <= o \/ k = o + 1
      BY <2>0
    <3> QED
      BY <3>1, <3>2, <3>3
  <2>6. Joins(g, words, o + 1)
    BY <2>3, <2>5 DEF Joins
  <2> QED
    BY <2>6 DEF o
<1>3. n - 1 \in T
  <2> HIDE DEF T
  <2>1. Nat \subseteq T
    BY <1>1, <1>2, NaturalInduction
  <2>2. n - 1 \in Nat
    BY <1>0
  <2> QED
    BY <2>1, <2>2
<1> QED
  BY <1>0, <1>3

\* Joined words are a text.
LEMMA JoinedIsText ==
    ASSUME NEW words \in Seq(Texts), words # <<>>
    PROVE  Joined(words) \in Texts
<1> DEFINE n == Len(words)
<1>0. n \in Nat /\ n \in 1 .. n
  BY EmptySeq
<1>1. PICK g : Joins(g, words, n)
  BY <1>0, JoinsExists
<1>2. DefinesJoined(g, words)
  BY <1>1 DEF Joins, DefinesJoined
<1> DEFINE f == CHOOSE h : DefinesJoined(h, words)
<1>3. DefinesJoined(f, words)
  BY <1>2
<1>4. Joined(words) = f[Len(words)]
  BY Zenon DEF Joined, DefinesJoined, Gap
<1> HIDE DEF f
<1> DEFINE T == {m \in Nat : m + 1 <= n => f[m + 1] = g[m + 1]}
<1>5. \A k \in 1 .. n : /\ f[k] = IF k = 1 THEN words[1] ELSE f[k - 1] \o Gap \o words[k]
                        /\ g[k] = IF k = 1 THEN words[1] ELSE g[k - 1] \o Gap \o words[k]
  BY <1>2, <1>3 DEF DefinesJoined
<1>6. 0 \in T
  <2>1. 1 <= n => 1 \in 1 .. n
    BY <1>0
  <2> QED
    BY <1>5, <2>1
<1>7. ASSUME NEW m \in Nat, m \in T PROVE m + 1 \in T
  <2> SUFFICES ASSUME (m + 1) + 1 <= n PROVE f[(m + 1) + 1] = g[(m + 1) + 1]
    OBVIOUS
  <2>1. (m + 1) + 1 \in 1 .. n /\ (m + 1) + 1 # 1 /\ ((m + 1) + 1) - 1 = m + 1 /\ m + 1 <= n
    BY <1>0
  <2>2. f[m + 1] = g[m + 1]
    BY <1>7, <2>1
  <2> QED
    BY <1>5, <2>1, <2>2
<1>8. Nat \subseteq T
  <2> HIDE DEF T
  <2> QED
    BY <1>6, <1>7, NaturalInduction
<1>9. f[n] = g[n]
  <2>1. n - 1 \in Nat /\ (n - 1) + 1 = n
    BY <1>0
  <2>2. n - 1 \in T
    <3> HIDE DEF T, n
    <3> QED
      BY <1>8, <2>1
  <2>3. (n - 1) + 1 <= n => f[(n - 1) + 1] = g[(n - 1) + 1]
    BY <2>2
  <2> QED
    BY <1>0, <2>1, <2>3
<1> QED
  BY <1>0, <1>1, <1>4, <1>9 DEF Joins

\* The normalised query is a text, if there is any.
LEMMA QueryTextIsText ==
    ASSUME NEW q \in Optional(Seq(Text)), NormalizeSearchText(q) # Null
    PROVE  NormalizeSearchText(q) \in Texts
<1>1. q # Null /\ QueryWords(q) # <<>> /\ NormalizeSearchText(q) = Joined(QueryWords(q))
  BY DEF NormalizeSearchText
<1>2. q \in Seq(Text)
  BY <1>1 DEF Optional
<1>3. QueryWords(q) \in Seq(Texts)
  BY <1>2, QueriesSplit DEF QuerySplit
<1> QED
  BY <1>1, <1>3, JoinedIsText
-----------------------------------------------------------------------------
(* The ORDER BY is a strict total order of the rows.                       *)

Keys == [1 .. 9 -> Int]

Larger(x, y) == \E k \in DOMAIN x : /\ x[k] > y[k]
                                    /\ \A j \in 1..(k - 1) : x[j] = y[j]

\* The order of the keys is transitive,
LEMMA LargerIsTransitive ==
    ASSUME NEW x \in Keys, NEW y \in Keys, NEW z \in Keys, Larger(x, y), Larger(y, z)
    PROVE  Larger(x, z)
<1>1. PICK k \in 1 .. 9 : x[k] > y[k] /\ \A j \in 1..(k - 1) : x[j] = y[j]
  BY DEF Larger, Keys
<1>2. PICK h \in 1 .. 9 : y[h] > z[h] /\ \A j \in 1..(h - 1) : y[j] = z[j]
  BY DEF Larger, Keys
<1>3. \A j \in 1 .. 9 : x[j] \in Int /\ y[j] \in Int /\ z[j] \in Int
  BY DEF Keys
<1>4. CASE k <= h
  <2>1. \A j \in 1..(k - 1) : x[j] = z[j]
    <3> SUFFICES ASSUME NEW j \in 1..(k - 1) PROVE x[j] = z[j]
      OBVIOUS
    <3>1. j \in 1..(h - 1)
      BY <1>4
    <3> QED
      BY <1>1, <1>2, <3>1
  <2>2. x[k] > z[k]
    <3>1. k = h \/ k \in 1..(h - 1)
      BY <1>4
    <3>2. y[k] > z[k] \/ y[k] = z[k]
      BY <1>2, <3>1
    <3> QED
      BY <1>1, <1>3, <3>2
  <2> QED
    BY <2>1, <2>2 DEF Larger, Keys
<1>5. CASE h < k
  <2>1. \A j \in 1..(h - 1) : x[j] = z[j]
    <3> SUFFICES ASSUME NEW j \in 1..(h - 1) PROVE x[j] = z[j]
      OBVIOUS
    <3>1. j \in 1..(k - 1)
      BY <1>5
    <3> QED
      BY <1>1, <1>2, <3>1
  <2>2. h \in 1..(k - 1)
    BY <1>5
  <2>3. x[h] = y[h]
    BY <1>1, <2>2
  <2>4. x[h] > z[h]
    BY <1>2, <2>3
  <2> QED
    BY <2>1, <2>4 DEF Larger, Keys
<1> QED
  BY <1>4, <1>5

\* tells apart any two that differ in their last part,
LEMMA LargerIsTotal ==
    ASSUME NEW x \in Keys, NEW y \in Keys, x[9] # y[9]
    PROVE  Larger(x, y) \/ Larger(y, x)
<1> DEFINE differ == {k \in 1 .. 9 : x[k] # y[k]}
<1>1. differ \in SUBSET Nat /\ differ # {}
  OBVIOUS
<1>2. PICK k \in differ : \A j \in differ : k <= j
  <2> HIDE DEF differ
  <2> QED
    BY <1>1, LeastNatural
<1>3. \A j \in 1..(k - 1) : x[j] = y[j]
  <2> SUFFICES ASSUME NEW j \in 1..(k - 1), x[j] # y[j] PROVE FALSE
    OBVIOUS
  <2>1. j \in differ /\ j < k
    OBVIOUS
  <2> QED
    BY <1>2, <2>1
<1>4. k \in 1 .. 9 /\ (x[k] > y[k] \/ y[k] > x[k])
  BY DEF Keys
<1> QED
  BY <1>3, <1>4 DEF Larger, Keys

\* and puts no key before itself.
LEMMA LargerIsIrreflexive ==
    ASSUME NEW x \in Keys
    PROVE  ~Larger(x, x)
BY DEF Larger, Keys

\* Candidates that the ORDER BY tells apart.
Rankable(S) ==
    /\ IsFiniteSet(S)
    /\ \A a \in S : RankKey(a) \in Keys
    /\ \A a, b \in S : a = b \/ RankKey(a)[9] # RankKey(b)[9]

BetterPairs(S) == {p \in S \X S : Better(p[1], p[2])}

Ranking(S) ==
    /\ \A a \in S : ~Better(a, a)
    /\ \A a, b, c \in S : Better(a, b) /\ Better(b, c) => Better(a, c)
    /\ \A a, b \in S : a = b \/ Better(a, b) \/ Better(b, a)

\* The ORDER BY is a strict total order of candidates that differ in their version's key.
LEMMA RankableIsRanked ==
    ASSUME NEW S, Rankable(S)
    PROVE  Ranking(S) /\ Orders(BetterPairs(S), S)
<1>1. \A a, b : Better(a, b) <=> Larger(RankKey(a), RankKey(b))
  BY DEF Better, Larger
<1>2. ASSUME NEW a \in S PROVE ~Better(a, a)
  BY <1>1, LargerIsIrreflexive DEF Rankable
<1>3. ASSUME NEW a \in S, NEW b \in S, NEW c \in S, Better(a, b), Better(b, c)
      PROVE  Better(a, c)
  <2>1. RankKey(a) \in Keys /\ RankKey(b) \in Keys /\ RankKey(c) \in Keys
    BY DEF Rankable
  <2> QED
    BY <1>1, <1>3, <2>1, LargerIsTransitive
<1>4. ASSUME NEW a \in S, NEW b \in S, a # b PROVE Better(a, b) \/ Better(b, a)
  <2>1. RankKey(a) \in Keys /\ RankKey(b) \in Keys /\ RankKey(a)[9] # RankKey(b)[9]
    BY <1>4 DEF Rankable
  <2> QED
    BY <1>1, <2>1, LargerIsTotal
<1>5. Ranking(S)
  BY <1>2, <1>3, <1>4 DEF Ranking
<1> QED
  BY <1>5 DEF Ranking, Orders, BetterPairs

\* Fewer candidates are still told apart.
LEMMA FewerAreRankable ==
    ASSUME NEW S, Rankable(S), NEW T \in SUBSET S
    PROVE  Rankable(T)
BY FS_Subset DEF Rankable

\* A non-empty set of candidates has a best one.
LEMMA BestExists ==
    ASSUME NEW S, Rankable(S), S # {}
    PROVE  \E a \in S : \A b \in S : ~Better(b, a)
<1>1. Numbered(BetterPairs(S), S)
  BY RankableIsRanked, Ranks DEF Rankable
<1>2. Cardinality(S) # 0 /\ Cardinality(S) \in Nat
  BY <1>1, FS_EmptySet DEF Rankable, Numbered
<1>3. 0 \in 0 .. Cardinality(S) - 1
  BY <1>2
<1>4. PICK a \in S : Cardinality(Ahead(BetterPairs(S), S, a)) = 0
  BY <1>1, <1>3 DEF Numbered
<1>5. Ahead(BetterPairs(S), S, a) = {}
  BY <1>1, <1>4, FS_EmptySet DEF Numbered
<1> QED
  BY <1>5 DEF Ahead, BetterPairs

\* What the ranking needs of a row.
SearchRow(row) ==
    /\ row.slug \in Slugs
    /\ row.skill_version_fk \in Int /\ Density[row.skill_version_fk] \in Nat
    /\ row.usage_count \in Int /\ row.published_at \in Int /\ row.content_size_bytes \in Int
    /\ IsFiniteSet(row.normalized_tags)

SearchRows(rows) ==
    /\ IsFiniteSet(rows)
    /\ \A row \in rows : SearchRow(row)
    /\ \A row, other \in rows : row.skill_version_fk = other.skill_version_fk => row = other

ScoredRow(row, request) ==
    LET scored == Scored(row, request)
    IN  /\ scored.row = row
        /\ scored.exact_slug_match \in {0, 1} /\ scored.exact_name_match \in {0, 1}
        /\ scored.lexical_score \in Nat
        /\ scored.tag_overlap_count \in Nat
        /\ scored.tag_overlap_count = Cardinality(request.effective_tags \cap row.normalized_tags)
        /\ RankKey(scored) \in Keys
        /\ RankKey(scored)[9] = row.skill_version_fk

\* The scores of a row are numbers, and the last part of its key is its version's.
LEMMA ScoredRows ==
    ASSUME NEW row, NEW request, SearchRow(row)
    PROVE  ScoredRow(row, request)
<1> DEFINE scored == Scored(row, request)
<1>1. /\ scored.row = row
      /\ scored.exact_slug_match \in {0, 1} /\ scored.exact_name_match \in {0, 1}
      /\ scored.tag_overlap_count = Cardinality(request.effective_tags \cap row.normalized_tags)
  BY DEF Scored, Flag
<1>2. scored.lexical_score \in Nat
  BY DEF Scored, SearchRow
<1>3. scored.tag_overlap_count \in Nat
  <2>1. IsFiniteSet(request.effective_tags \cap row.normalized_tags)
    BY FS_Subset DEF SearchRow
  <2> QED
    BY <1>1, <2>1, FS_CardinalityType
<1>4. /\ row.usage_count \in Int /\ row.published_at \in Int
      /\ -row.content_size_bytes \in Int /\ -SlugPosition[row.slug] \in Int
      /\ row.skill_version_fk \in Int
  BY PositionAssumption DEF SearchRow
<1> HIDE DEF scored
<1>5. RankKey(scored) \in Keys /\ RankKey(scored)[9] = row.skill_version_fk
  <2> DEFINE e1 == scored.exact_slug_match
             e2 == scored.exact_name_match
             e3 == scored.lexical_score
             e4 == scored.tag_overlap_count
             e5 == row.usage_count
             e6 == row.published_at
             e7 == -row.content_size_bytes
             e8 == -SlugPosition[row.slug]
             e9 == row.skill_version_fk
             key == <<e1, e2, e3, e4, e5, e6, e7, e8, e9>>
  <2>1. RankKey(scored) = key
    BY <1>1 DEF RankKey
  <2>2. /\ e1 \in Int /\ e2 \in Int /\ e3 \in Int /\ e4 \in Int /\ e5 \in Int
        /\ e6 \in Int /\ e7 \in Int /\ e8 \in Int /\ e9 \in Int
    BY <1>1, <1>2, <1>3, <1>4
  <2> HIDE DEF e1, e2, e3, e4, e5, e6, e7, e8, e9
  <2>3. key \in [1 .. 9 -> Int] /\ key[9] = e9
    BY <2>2
  <2> QED
    BY <2>1, <2>3 DEF Keys, e9
<1> QED
  BY <1>1, <1>2, <1>3, <1>5 DEF ScoredRow, scored

ScoredSet(rows, request, filter) ==
    {Scored(row, request) : row \in Filtered(rows, request, filter)}

\* Whatever is asked, the ORDER BY tells the rows apart that the filter leaves.
LEMMA ScoredSetIsRankable ==
    ASSUME NEW rows, NEW request, NEW filter, SearchRows(rows)
    PROVE  Rankable(ScoredSet(rows, request, filter))
<1> DEFINE F == Filtered(rows, request, filter)
           S == ScoredSet(rows, request, filter)
           score == [row \in F |-> Scored(row, request)]
<1>1. F \in SUBSET rows
  BY DEF Filtered
<1>2. ASSUME NEW row \in F PROVE ScoredRow(row, request)
  BY <1>1, ScoredRows DEF SearchRows
<1>3. IsFiniteSet(S)
  <2>1. IsFiniteSet(F)
    BY <1>1, FS_Subset DEF SearchRows
  <2>2. S = {Scored(row, request) : row \in F}
    BY DEF ScoredSet
  <2> HIDE DEF F, S
  <2>3. score \in Surjection(F, S)
    BY <2>2 DEF Surjection
  <2> HIDE DEF score
  <2> QED
    BY <2>1, <2>3, FS_Surjection
<1>4. ASSUME NEW a \in S
      PROVE  \E row \in F : a = Scored(row, request) /\ ScoredRow(row, request)
  BY <1>2 DEF ScoredSet
<1> HIDE DEF S
<1>5. \A a \in S : RankKey(a) \in Keys
  BY <1>4 DEF ScoredRow
<1>6. ASSUME NEW a \in S, NEW b \in S, RankKey(a)[9] = RankKey(b)[9]
      PROVE  a = b
  <2>1. PICK row \in F : a = Scored(row, request) /\ ScoredRow(row, request)
    BY <1>4
  <2>2. PICK other \in F : b = Scored(other, request) /\ ScoredRow(other, request)
    BY <1>4
  <2>3. row.skill_version_fk = other.skill_version_fk
    BY <1>6, <2>1, <2>2 DEF ScoredRow
  <2>4. row = other
    BY <1>1, <2>3 DEF SearchRows
  <2> QED
    BY <2>1, <2>2, <2>4
<1> QED
  BY <1>3, <1>5, <1>6 DEF Rankable, S

\* A sequence that lists a set of candidates, best first.
ListsInOrder(s, S) ==
    /\ Cardinality(S) \in Nat
    /\ s \in [1 .. Cardinality(S) -> S]
    /\ \A i, j \in 1 .. Cardinality(S) : i < j => Better(s[i], s[j])
    /\ \A a \in S : \E i \in 1 .. Cardinality(S) : s[i] = a

\* The rows in the order of the statement are all the rows, best first.
LEMMA OrderedLists ==
    ASSUME NEW S, Rankable(S)
    PROVE  ListsInOrder(Ordered(S), S)
<1> DEFINE n == Cardinality(S)
           rank(a) == Cardinality({b \in S : Better(b, a)})
           s == Ordered(S)
<1>1. Numbered(BetterPairs(S), S) /\ Ranking(S)
  BY RankableIsRanked, Ranks DEF Rankable
<1>2. \A a \in S : {b \in S : Better(b, a)} = Ahead(BetterPairs(S), S, a)
  BY DEF Ahead, BetterPairs
<1>3. /\ n \in Nat
      /\ \A a \in S : rank(a) \in 0 .. n - 1
      /\ \A a, b \in S : Better(a, b) => rank(a) < rank(b)
      /\ \A m \in 0 .. n - 1 : \E a \in S : rank(a) = m
  <2>1. \A a, b \in S : Better(a, b) => <<a, b>> \in BetterPairs(S)
    BY DEF BetterPairs
  <2> QED
    BY <1>1, <1>2, <2>1 DEF Numbered
<1>4. s = [i \in 1 .. n |-> CHOOSE a \in S : rank(a) = i - 1]
  BY DEF Ordered
<1> HIDE DEF rank, s, n
<1>5. ASSUME NEW i \in 1 .. n
      PROVE  s[i] \in S /\ rank(s[i]) = i - 1
  <2>1. i - 1 \in 0 .. n - 1
    BY <1>3
  <2>2. \E a \in S : rank(a) = i - 1
    BY <1>3, <2>1
  <2> QED
    BY <1>4, <2>2
<1>6. ASSUME NEW a \in S, NEW b \in S, rank(a) = rank(b)
      PROVE  a = b
  <2>1. rank(a) \in Int /\ rank(b) \in Int
    BY <1>3
  <2>2. ~Better(a, b) /\ ~Better(b, a)
    BY <1>3, <1>6, <2>1
  <2> QED
    BY <1>1, <2>2 DEF Ranking
<1>7. ASSUME NEW i \in 1 .. n, NEW j \in 1 .. n, i < j
      PROVE  Better(s[i], s[j])
  <2>1. s[i] \in S /\ rank(s[i]) = i - 1 /\ s[j] \in S /\ rank(s[j]) = j - 1
    BY <1>5
  <2>2. i \in Int /\ j \in Int /\ i - 1 # j - 1 /\ ~ (j - 1 < i - 1)
    BY <1>3, <1>7
  <2>3. s[i] # s[j] /\ ~Better(s[j], s[i])
    <3>1. Better(s[j], s[i]) => rank(s[j]) < rank(s[i])
      BY <1>3, <2>1
    <3> QED
      BY <2>1, <2>2, <3>1
  <2> QED
    BY <1>1, <2>1, <2>3 DEF Ranking
<1>8. ASSUME NEW a \in S
      PROVE  \E i \in 1 .. n : s[i] = a
  <2>1. rank(a) + 1 \in 1 .. n /\ (rank(a) + 1) - 1 = rank(a)
    BY <1>3
  <2>2. s[rank(a) + 1] \in S /\ rank(s[rank(a) + 1]) = rank(a)
    BY <1>5, <2>1
  <2> QED
    BY <1>6, <2>1, <2>2
<1>9. s \in [1 .. n -> S]
  BY <1>4, <1>5
<1> QED
  BY <1>3, <1>7, <1>8, <1>9 DEF ListsInOrder, s, n

\* Every candidate's slug has a best candidate.
LEMMA BestOfSlug ==
    ASSUME NEW S, Rankable(S), NEW a \in S
    PROVE  \E b \in BestOfSlugs(S) : b.row.slug = a.row.slug /\ ~Better(a, b)
<1> DEFINE T == {b \in S : b.row.slug = a.row.slug}
<1>1. T \in SUBSET S /\ a \in T
  OBVIOUS
<1>2. Rankable(T) /\ T # {}
  <2> HIDE DEF T
  <2> QED
    BY <1>1, FewerAreRankable
<1>3. PICK b \in T : \A c \in T : ~Better(c, b)
  <2> HIDE DEF T
  <2> QED
    BY <1>2, BestExists
<1>4. b \in BestOfSlugs(S)
  BY <1>3 DEF BestOfSlugs
<1> QED
  BY <1>1, <1>3, <1>4

\* The best of each slug, best first, no more than limit of them.
Answers(found, S, limit) ==
    /\ found \in Seq(S) /\ Len(found) <= limit
    /\ \A i, j \in DOMAIN found : i < j =>
          Better(found[i], found[j]) /\ found[i].row.slug # found[j].row.slug
    /\ \A a \in S :
          \/ \E i \in DOMAIN found : found[i].row.slug = a.row.slug /\ ~Better(a, found[i])
          \/ Len(found) = limit /\ \A i \in DOMAIN found : Better(found[i], a)

\* Reducing to the best of each slug, ordering and cutting off, in this order, answers.
LEMMA LimitedAnswers ==
    ASSUME NEW S, Rankable(S), NEW limit \in Nat
    PROVE  Answers(Limited(Ordered(BestOfSlugs(S)), limit), S, limit)
<1> DEFINE B == BestOfSlugs(S)
           s == Ordered(B)
           n == Cardinality(B)
           m == IF limit < n THEN limit ELSE n
           found == Limited(s, limit)
<1>1. B \in SUBSET S /\ Ranking(S)
  BY RankableIsRanked DEF BestOfSlugs
<1>2. \A a, b \in B : a.row.slug = b.row.slug => ~Better(b, a)
  BY DEF BestOfSlugs
<1>3. ListsInOrder(s, B)
  BY <1>1, FewerAreRankable, OrderedLists
<1>4. \A a \in S : \E b \in B : b.row.slug = a.row.slug /\ ~Better(a, b)
  BY BestOfSlug
<1> HIDE DEF B
<1>5. /\ n \in Nat /\ s \in Seq(B) /\ Len(s) = n
      /\ \A i \in 1 .. n : s[i] \in B
  BY <1>3 DEF ListsInOrder
<1>6. m \in Nat /\ m <= n /\ m <= limit /\ (m = n \/ m = limit)
  BY <1>5
<1>7. /\ found \in Seq(B) /\ Len(found) = m /\ DOMAIN found = 1 .. m
      /\ \A i \in 1 .. m : found[i] = s[i]
  <2>1. found = SubSeq(s, 1, m)
    BY <1>5 DEF Limited
  <2> HIDE DEF s, m, found
  <2>2. SubSeq(s, 1, m) = [i \in 1 .. m |-> s[i]]
    BY <1>5, <1>6
  <2>3. [i \in 1 .. m |-> s[i]] \in Seq(B)
    BY <1>5, <1>6
  <2> QED
    BY <1>6, <2>1, <2>2, <2>3
<1> HIDE DEF s, m, found
<1>8. ASSUME NEW i \in 1 .. m, NEW j \in 1 .. m, i < j
      PROVE  Better(found[i], found[j]) /\ found[i].row.slug # found[j].row.slug
  <2>1. i \in 1 .. n /\ j \in 1 .. n
    BY <1>5, <1>6
  <2>2. Better(s[i], s[j]) /\ s[i] \in B /\ s[j] \in B
    BY <1>3, <1>5, <1>8, <2>1 DEF ListsInOrder
  <2> QED
    BY <1>2, <1>7, <2>2
<1>9. ASSUME NEW a \in S
      PROVE  \/ \E i \in 1 .. m : found[i].row.slug = a.row.slug /\ ~Better(a, found[i])
             \/ m = limit /\ \A i \in 1 .. m : Better(found[i], a)
  <2>1. PICK b \in B : b.row.slug = a.row.slug /\ ~Better(a, b)
    BY <1>4
  <2>2. PICK k \in 1 .. n : s[k] = b
    BY <1>3 DEF ListsInOrder
  <2>3. CASE k <= m
    BY <1>6, <1>7, <2>1, <2>2, <2>3
  <2>4. CASE ~ (k <= m)
    <3>1. m = limit
      BY <1>5, <1>6, <2>4
    <3>2. ASSUME NEW i \in 1 .. m PROVE Better(found[i], a)
      <4>1. i \in 1 .. n /\ i < k
        BY <1>5, <1>6, <2>4
      <4>2. Better(s[i], b)
        BY <1>3, <2>2, <4>1 DEF ListsInOrder
      <4>3. a = b \/ Better(b, a)
        BY <1>1, <2>1 DEF Ranking
      <4>4. s[i] \in S /\ b \in S
        BY <1>1, <1>5, <4>1
      <4>5. Better(s[i], a)
        BY <1>1, <4>2, <4>3, <4>4 DEF Ranking
      <4> QED
        BY <1>7, <4>5
    <3> QED
      BY <3>1, <3>2
  <2> QED
    BY <2>3, <2>4
<1>10. found \in Seq(S)
  <2>1. Seq(B) \subseteq Seq(S)
    BY <1>1, SeqMonotonic
  <2> QED
    BY <1>7, <2>1
<1> QED
  BY <1>6, <1>7, <1>8, <1>9, <1>10 DEF Answers, found, s, B

(* SEARCH_CANDIDATES_SQL with its window and its limit, for any rows: each *)
(* slug at most once, by its best row, the best slugs first, and a slug is *)
(* left out only of a full answer of better ones.                          *)
THEOREM CandidatesAreTheBest ==
    ASSUME NEW rows, NEW request, NEW filter, SearchRows(rows), request.limit \in Nat
    PROVE  Answers(SearchCandidates(rows, request, filter),
                   ScoredSet(rows, request, filter), request.limit)
<1>1. Rankable(ScoredSet(rows, request, filter))
  BY ScoredSetIsRankable
<1>2. SearchCandidates(rows, request, filter)
          = Limited(Ordered(BestOfSlugs(ScoredSet(rows, request, filter))), request.limit)
  BY DEF SearchCandidates, ScoredSet
<1> QED
  BY <1>1, <1>2, LimitedAnswers
=============================================================================
