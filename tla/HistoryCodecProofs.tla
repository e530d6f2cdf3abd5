-------------------------- MODULE HistoryCodecProofs --------------------------
(***************************************************************************)
(* Theorems about HistoryCodec, for every host and every domain: a sample   *)
(* is one line, and converting its line gives the row of the live CSV.  The *)
(* folds and the recursive functions of the code are followed here token by *)
(* token: induction is over the set of the numbers that have a property.    *)
(***************************************************************************)
EXTENDS HistoryCodec, SequenceTheorems, NaturalsInduction, WellFoundedInduction, TLAPS

(* The tokens of texts.  That a literal is a string has to be said here, as *)
(* the provers do not know it.                                              *)
Marks == {Quote, Backslash, Newline, "n", "{", "}", ",", ":", "t", "kind", "ping", "dns",
          "host", "rtt_ms", "loss_pct", "modo", "domain", "status", "latency_ms", "null"}
Tokens == STRING \cup Marks
Text == Seq(Tokens)

(* A set of numbers that has 0 and, with each number, the next, has all. *)
LEMMA Naturally ==
    ASSUME NEW Good, 0 \in Good, \A n \in Nat : n \in Good => n + 1 \in Good
    PROVE  \A n \in Nat : n \in Good
<1> DEFINE Bad == {n \in Nat : n \notin Good}
<1> SUFFICES ASSUME Bad # {} PROVE FALSE
  OBVIOUS
<1>1. PICK m \in Bad : \A n \in Bad : ~(<<n, m>> \in OpToRel(<, Nat))
  <2>1. Bad \subseteq Nat
    OBVIOUS
  <2> HIDE DEF Bad
  <2> QED
    BY <2>1, NatLessThanWellFounded, WFMin
<1>2. m \in Nat /\ m # 0 /\ m \notin Good
  OBVIOUS
<1>3. PICK k \in Nat : m = k + 1
  <2>1. m - 1 \in Nat /\ m = (m - 1) + 1
    BY <1>2
  <2> QED
    BY <2>1
<1>4. \A n \in Bad : ~(n < m)
  BY <1>1 DEF OpToRel
<1>5. k < m
  BY <1>2, <1>3
<1>6. k \in Good
  <2>1. k \notin Bad
    <3> HIDE DEF Bad
    <3> QED
      BY <1>4, <1>5
  <2> QED
    BY <1>3, <2>1
<1> QED
  BY <1>2, <1>3, <1>6

------------------------------------------------------------------------------
(* esc: the text escaped so far, token by token. *)

Flattening(seqs, f, n) ==
    f = [i \in 1..n |-> IF i = 1 THEN seqs[i] ELSE f[i - 1] \o seqs[i]]

LEMMA FlatteningExists ==
    ASSUME NEW seqs PROVE \A n \in Nat : \E f : Flattening(seqs, f, n)
<1> DEFINE Good == {n \in Nat : \E f : Flattening(seqs, f, n)}
<1>1. 0 \in Good
  <2>1. Flattening(seqs, [i \in 1..0 |-> 0], 0)
    BY DEF Flattening
  <2> QED
    BY <2>1
<1>2. ASSUME NEW n \in Nat, n \in Good PROVE n + 1 \in Good
  <2>1. PICK f : Flattening(seqs, f, n)
    BY <1>2
  <2> DEFINE g == [i \in 1..(n + 1) |->
                      IF i = n + 1 THEN IF i = 1 THEN seqs[i] ELSE f[n] \o seqs[i] ELSE f[i]]
             h == [i \in 1..(n + 1) |-> IF i = 1 THEN seqs[i] ELSE g[i - 1] \o seqs[i]]
  <2>2. ASSUME NEW i \in 1..(n + 1) PROVE g[i] = h[i]
    <3>1. CASE i = n + 1
      <4>1. i # 1 => i - 1 = n /\ n # n + 1 /\ n \in 1..(n + 1)
        BY <3>1
      <4>2. i # 1 => g[n] = f[n]
        BY <4>1
      <4>3. g[i] = (IF i = 1 THEN seqs[i] ELSE f[n] \o seqs[i])
        BY <3>1
      <4>4. h[i] = (IF i = 1 THEN seqs[i] ELSE g[i - 1] \o seqs[i])
        OBVIOUS
      <4>5. i # 1 => g[i - 1] = f[n]
        BY <4>1, <4>2, Zenon
      <4> HIDE DEF g, h
      <4>6. CASE i = 1
        BY <4>3, <4>4, <4>6
      <4>7. CASE i # 1
        BY <4>3, <4>4, <4>5, <4>7, Zenon
      <4> QED
        BY <4>6, <4>7
    <3>2. CASE i # n + 1
      <4>1. i \in 1..n /\ (i # 1 => i - 1 \in 1..n /\ i - 1 # n + 1)
        BY <3>2
      <4>2. f[i] = IF i = 1 THEN seqs[i] ELSE f[i - 1] \o seqs[i]
        BY <2>1, <4>1, Zenon DEF Flattening
      <4>3. g[i] = f[i] /\ (i # 1 => i - 1 \in 1..(n + 1))
        BY <3>2, <4>1
      <4>4. i # 1 => g[i - 1] = f[i - 1]
        BY <4>1, <4>3, Zenon
      <4>5. h[i] = IF i = 1 THEN seqs[i] ELSE g[i - 1] \o seqs[i]
        OBVIOUS
      <4> HIDE DEF g, h
      <4> QED
        BY <4>2, <4>3, <4>4, <4>5, Zenon
    <3> QED
      BY <3>1, <3>2
  <2>3. g = [i \in 1..(n + 1) |-> g[i]] /\ h = [i \in 1..(n + 1) |-> h[i]]
    OBVIOUS
  <2>4. g = h
    <3> HIDE DEF g, h
    <3> QED
      BY <2>2, <2>3
  <2>5. Flattening(seqs, g, n + 1)
    BY <2>4 DEF Flattening
  <2> QED
    BY <2>5
<1> HIDE DEF Good
<1>3. \A n \in Nat : n \in Good
  BY <1>1, <1>2, Naturally
<1> QED
  BY <1>3 DEF Good

Escapes(s, e) ==
    /\ e[0] = <<>> /\ esc(s) = e[Len(s)]
    /\ \A n \in 1..Len(s) : e[n] = e[n - 1] \o Escaped(s[n])

LEMMA Specials ==
    /\ Marks \subseteq Tokens /\ {Quote, Backslash, Newline, "n"} \subseteq Tokens
    /\ Quote # Backslash /\ Quote # Newline /\ Backslash # Newline
    /\ "n" \notin {Quote, Backslash, Newline}
<1>1. Marks \subseteq Tokens /\ {Quote, Backslash, Newline, "n"} \subseteq Tokens
  BY DEF Tokens, Marks
<1> QED
  BY <1>1 DEF Quote, Backslash, Newline

LEMMA Words ==
    ASSUME NEW a, NEW b, a \in Tokens, b \in Tokens
    PROVE  /\ <<a>> \in Text /\ Len(<<a>>) = 1 /\ <<a>>[1] = a
           /\ <<a, b>> \in Text /\ Len(<<a, b>>) = 2 /\ <<a, b>>[1] = a /\ <<a, b>>[2] = b
BY DEF Text

LEMMA EscapedType ==
    ASSUME NEW c \in Tokens
    PROVE  /\ Escaped(c) \in Text
           /\ \/ Len(Escaped(c)) = 1 /\ Escaped(c)[1] = c /\ c \notin {Quote, Backslash, Newline}
              \/ Len(Escaped(c)) = 2 /\ Escaped(c)[1] = Backslash /\ Escaped(c)[2] = c
                 /\ c \in {Quote, Backslash}
              \/ Len(Escaped(c)) = 2 /\ Escaped(c)[1] = Backslash /\ Escaped(c)[2] = "n"
                 /\ c = Newline
<1>5. Backslash \in Tokens /\ "n" \in Tokens
  BY Specials
<1>1. CASE c = Quote
  <2>1. Escaped(c) = <<Backslash, c>>
    BY <1>1, Specials DEF Escaped
  <2>2. <<Backslash, c>> \in Text /\ Len(<<Backslash, c>>) = 2 /\ <<Backslash, c>>[1] = Backslash /\ <<Backslash, c>>[2] = c
    BY <1>1, <1>5, Words, Zenon
  <2> HIDE DEF Text
  <2> QED
    BY <1>1, <2>1, <2>2
<1>2. CASE c = Backslash
  <2>1. Escaped(c) = <<Backslash, c>>
    BY <1>2, Specials DEF Escaped
  <2>2. <<Backslash, c>> \in Text /\ Len(<<Backslash, c>>) = 2 /\ <<Backslash, c>>[1] = Backslash /\ <<Backslash, c>>[2] = c
    BY <1>2, <1>5, Words, Zenon
  <2> HIDE DEF Text
  <2> QED
    BY <1>2, <2>1, <2>2
<1>3. CASE c = Newline
  <2>1. Escaped(c) = <<Backslash, "n">>
    BY <1>3, Specials DEF Escaped
  <2>2. <<Backslash, "n">> \in Text /\ Len(<<Backslash, "n">>) = 2 /\ <<Backslash, "n">>[1] = Backslash /\ <<Backslash, "n">>[2] = "n"
    BY <1>3, <1>5, Words, Zenon
  <2> HIDE DEF Text
  <2> QED
    BY <1>3, <2>1, <2>2
<1>4. CASE c \notin {Quote, Backslash, Newline}
  <2>1. Escaped(c) = <<c>>
    BY <1>4 DEF Escaped
  <2> QED
    BY <1>4, <2>1, Words
<1> QED
  BY <1>1, <1>2, <1>3, <1>4

LEMMA EscapesExist == ASSUME NEW s \in Text PROVE \E e : Escapes(s, e)
<1> DEFINE seqs == [i \in DOMAIN s |-> Escaped(s[i])]
           n == Len(s)
<1>1. n \in Nat /\ DOMAIN s = 1..n /\ seqs = [i \in 1..n |-> Escaped(s[i])]
  BY DEF Text
<1>2. seqs \in Seq(Text) /\ Len(seqs) = n
  <2>1. \A i \in 1..n : Escaped(s[i]) \in Text
    BY <1>1, EscapedType DEF Text
  <2> QED
    BY <1>1, <2>1
<1>3. CASE n = 0
  <2>1. esc(s) = seqs
    BY <1>2, <1>3 DEF esc, FlattenSeq
  <2>2. seqs = <<>>
    BY <1>2, <1>3
  <2>3. Escapes(s, [i \in {0} |-> <<>>])
    BY <1>3, <2>1, <2>2 DEF Escapes
  <2> QED
    BY <2>3
<1>4. CASE n # 0
  <2> DEFINE f == CHOOSE g : Flattening(seqs, g, n)
             e == [i \in 0..n |-> IF i = 0 THEN <<>> ELSE f[i]]
  <2>1. Flattening(seqs, f, n)
    <3> HIDE DEF seqs
    <3> QED
      BY <1>1, FlatteningExists
  <2>2. esc(s) = f[n]
    BY <1>2, <1>4 DEF esc, FlattenSeq, Flattening
  <2>3. ASSUME NEW i \in 1..n PROVE f[i] = (IF i = 1 THEN seqs[i] ELSE f[i - 1] \o seqs[i])
    <3> HIDE DEF f
    <3> QED
      BY <2>1 DEF Flattening
  <2>4. ASSUME NEW i \in 1..n PROVE e[i] = e[i - 1] \o Escaped(s[i])
    <3>1. seqs[i] = Escaped(s[i]) /\ s[i] \in Tokens
      BY <1>1 DEF Text
    <3>2. i \in 0..n /\ i - 1 \in 0..n /\ i # 0
      BY <1>1
    <3>3. e[i] = f[i] /\ e[i - 1] = (IF i - 1 = 0 THEN <<>> ELSE f[i - 1])
      BY <3>2
    <3> HIDE DEF f, seqs, e, n
    <3>4. CASE i = 1
      <4>1. e[i] = Escaped(s[i]) /\ e[i - 1] = <<>>
        BY <2>3, <3>1, <3>3, <3>4
      <4>2. Escaped(s[i]) \in Text
        BY <3>1, EscapedType
      <4>3. \A x \in Text : <<>> \o x = x
        BY DEF Text
      <4> QED
        BY <4>1, <4>2, <4>3
    <3>5. CASE i # 1
      <4>1. i - 1 # 0
        BY <3>5
      <4>2. f[i] = f[i - 1] \o seqs[i]
        BY <2>3, <3>5, Zenon
      <4> QED
        BY <3>1, <3>3, <4>1, <4>2, Zenon
    <3> QED
      BY <3>4, <3>5
  <2>5. e[0] = <<>> /\ e[n] = f[n]
    BY <1>1, <1>4
  <2>6. Escapes(s, e)
    <3> HIDE DEF e, f
    <3> QED
      BY <2>2, <2>4, <2>5 DEF Escapes
  <2> QED
    BY <2>6
<1> QED
  BY <1>3, <1>4
(* x is s escaped, and at[n] where its n-th token ends. *)
Plainly(c) == c \notin {Quote, Backslash, Newline}
Behind(x, i, c) ==
    /\ i > 1 /\ x[i - 1] = Backslash
    /\ IF c = Newline THEN x[i] = "n" ELSE c \in {Quote, Backslash} /\ x[i] = c

Laid(s, x, at) ==
    /\ at[0] = 0 /\ at[Len(s)] = Len(x)
    /\ \A n \in 0..Len(s) : at[n] \in 0..Len(x)
    /\ \A n \in 1..Len(s) :
          \/ at[n] = at[n - 1] + 1 /\ Plainly(s[n]) /\ x[at[n]] = s[n]
          \/ at[n] = at[n - 1] + 2 /\ Behind(x, at[n], s[n])

LEMMA EscapesPrefix ==
    ASSUME NEW s \in Text, NEW e, Escapes(s, e)
    PROVE  /\ esc(s) \in Text
           /\ \A n \in 0..Len(s) :
                /\ e[n] \in Text /\ Len(e[n]) \in 0..Len(esc(s))
                /\ \A j \in 1..Len(e[n]) : esc(s)[j] = e[n][j]
<1> DEFINE Pre(m) ==
             /\ e[m] \in Text
             /\ \A n \in 0..m : /\ e[n] \in Text /\ Len(e[n]) \in 0..Len(e[m])
                                /\ \A j \in 1..Len(e[n]) : e[m][j] = e[n][j]
           Good == {m \in Nat : m <= Len(s) => Pre(m)}
<1>0. Len(s) \in Nat /\ \A n \in 1..Len(s) : s[n] \in Tokens
  BY DEF Text
<1>1. 0 \in Good
  <2>1. e[0] = <<>> /\ <<>> \in Text /\ Len(<<>>) = 0
    BY DEF Escapes, Text
  <2>2. 0..0 = {0}
    OBVIOUS
  <2> QED
    BY <2>1, <2>2
<1>2. ASSUME NEW m \in Nat, m \in Good PROVE m + 1 \in Good
  <2> SUFFICES ASSUME m + 1 <= Len(s) PROVE Pre(m + 1)
    OBVIOUS
  <2>1. Pre(m) /\ m + 1 \in 1..Len(s)
    BY <1>0, <1>2
  <2>2. PICK y : y = Escaped(s[m + 1])
    OBVIOUS
  <2>3. y \in Text
    BY <1>0, <2>1, <2>2, EscapedType
  <2>4. e[m + 1] = e[m] \o y
    <3>1. (m + 1) - 1 = m
      OBVIOUS
    <3> QED
      BY <2>1, <2>2, <3>1 DEF Escapes
  <2>5. PICK a \in Text : a = e[m]
    BY <2>1
  <2>6. /\ a \o y \in Text /\ Len(a \o y) = Len(a) + Len(y)
        /\ \A j \in 1..Len(a) : (a \o y)[j] = a[j]
        /\ Len(a) \in Nat /\ Len(y) \in Nat
    BY <2>3, <2>5 DEF Text
  <2>7. PICK b \in Text : b = e[m + 1] /\ Len(a) <= Len(b) /\ Len(b) \in Nat
                          /\ \A j \in 1..Len(a) : b[j] = a[j]
    <3>1. Len(a) <= Len(a \o y) /\ Len(a \o y) \in Nat
      BY <2>6
    <3> QED
      BY <2>4, <2>5, <2>6, <3>1, Zenon
  <2>8. ASSUME NEW n \in 0..(m + 1)
        PROVE  /\ e[n] \in Text /\ Len(e[n]) \in 0..Len(b)
               /\ \A j \in 1..Len(e[n]) : b[j] = e[n][j]
    <3>1. CASE n = m + 1
      BY <2>7, <3>1
    <3>2. CASE n \in 0..m
      <4>1. /\ e[n] \in Text /\ Len(e[n]) \in 0..Len(a)
            /\ \A j \in 1..Len(e[n]) : a[j] = e[n][j]
        BY <2>1, <2>5, <3>2
      <4> QED
        BY <2>6, <2>7, <4>1
    <3> QED
      BY <3>1, <3>2
  <2> QED
    BY <2>7, <2>8
<1> HIDE DEF Good
<1>3. \A m \in Nat : m \in Good
  BY <1>1, <1>2, Naturally
<1>4. Pre(Len(s))
  BY <1>0, <1>3 DEF Good
<1> QED
  BY <1>4 DEF Escapes

LEMMA EscLaid ==
    ASSUME NEW s \in Text PROVE esc(s) \in Text /\ \E at : Laid(s, esc(s), at)
<1>1. PICK e : Escapes(s, e)
  BY EscapesExist
<1>2. PICK x \in Text : x = esc(s)
  BY <1>1, EscapesPrefix
<1>3. \A n \in 0..Len(s) : /\ e[n] \in Text /\ Len(e[n]) \in 0..Len(x)
                           /\ \A j \in 1..Len(e[n]) : x[j] = e[n][j]
  BY <1>1, <1>2, EscapesPrefix
<1> DEFINE at == [n \in 0..Len(s) |-> Len(e[n])]
<1>4. Len(s) \in Nat /\ \A n \in 1..Len(s) : s[n] \in Tokens
  BY DEF Text
<1>5. at[0] = 0 /\ at[Len(s)] = Len(x)
  BY <1>1, <1>2, <1>4 DEF Escapes
<1>6. \A n \in 0..Len(s) : at[n] \in 0..Len(x)
  BY <1>3
<1>7. ASSUME NEW n \in 1..Len(s)
      PROVE  \/ at[n] = at[n - 1] + 1 /\ Plainly(s[n]) /\ x[at[n]] = s[n]
             \/ at[n] = at[n - 1] + 2 /\ Behind(x, at[n], s[n])
  <2>1. n \in 0..Len(s) /\ n - 1 \in 0..Len(s)
    BY <1>4
  <2>2. PICK y \in Text : y = Escaped(s[n])
    BY <1>4, EscapedType
  <2>3. PICK a \in Text : a = e[n - 1] /\ at[n - 1] = Len(a)
    BY <1>3, <2>1
  <2>4. PICK b \in Text : b = e[n] /\ at[n] = Len(b) /\ \A j \in 1..Len(b) : x[j] = b[j]
    BY <1>3, <2>1
  <2>5. b = a \o y
    BY <1>1, <2>2, <2>3, <2>4 DEF Escapes
  <2>6. /\ Len(b) = Len(a) + Len(y)
        /\ \A j \in 1..Len(y) : b[Len(a) + j] = y[j]
        /\ Len(a) \in Nat /\ Len(y) \in Nat
    BY <2>5 DEF Text
  <2>7. \A j \in 1..Len(y) : x[Len(a) + j] = y[j]
    BY <2>4, <2>6
  <2>8. s[n] \in Tokens
    BY <1>4
  <2> HIDE DEF at
  <2>9. CASE Len(y) = 1 /\ y[1] = s[n] /\ s[n] \notin {Quote, Backslash, Newline}
    BY <2>3, <2>4, <2>6, <2>7, <2>9 DEF Plainly
  <2>10. CASE Len(y) = 2 /\ y[1] = Backslash /\ y[2] = s[n] /\ s[n] \in {Quote, Backslash}
    <3>1. s[n] # Newline
      BY <2>10, Specials
    <3>2. at[n] = Len(a) + 2 /\ x[Len(a) + 1] = Backslash /\ x[Len(a) + 2] = s[n]
      BY <2>4, <2>6, <2>7, <2>10
    <3> QED
      BY <2>3, <2>6, <2>10, <3>1, <3>2 DEF Behind
  <2>11. CASE Len(y) = 2 /\ y[1] = Backslash /\ y[2] = "n" /\ s[n] = Newline
    <3>1. at[n] = Len(a) + 2 /\ x[Len(a) + 1] = Backslash /\ x[Len(a) + 2] = "n"
      BY <2>4, <2>6, <2>7, <2>11
    <3> QED
      BY <2>3, <2>6, <2>11, <3>1 DEF Behind
  <2> QED
    BY <2>2, <2>8, <2>9, <2>10, <2>11, EscapedType
<1>8. Laid(s, x, at)
  <2> HIDE DEF at
  <2> QED
    BY <1>5, <1>6, <1>7 DEF Laid
<1> QED
  BY <1>2, <1>8

(* In an escaped text there is no newline, and each quote is behind a       *)
(* backslash.                                                               *)
LEMMA LaidIsSafe ==
    ASSUME NEW s \in Text, NEW x \in Text, NEW at, Laid(s, x, at)
    PROVE  \A j \in 1..Len(x) :
              x[j] # Newline /\ (x[j] = Quote => j > 1 /\ x[j - 1] = Backslash)
<1> DEFINE Ok(j) == x[j] # Newline /\ (x[j] = Quote => j > 1 /\ x[j - 1] = Backslash)
           Good == {n \in Nat : n <= Len(s) => \A j \in 1..at[n] : Ok(j)}
<1>0. Len(s) \in Nat /\ \A n \in 0..Len(s) : at[n] \in Nat
  BY DEF Laid, Text
<1>1. 0 \in Good
  BY DEF Laid
<1>2. ASSUME NEW n \in Nat, n \in Good PROVE n + 1 \in Good
  <2> SUFFICES ASSUME n + 1 <= Len(s), NEW j \in 1..at[n + 1] PROVE Ok(j)
    OBVIOUS
  <2>1. n + 1 \in 1..Len(s) /\ n \in 0..Len(s) /\ (n + 1) - 1 = n
    BY <1>0
  <2>2. \A k \in 1..at[n] : Ok(k)
    BY <1>0, <1>2
  <2>3. PICK a \in Nat, b \in Nat, c \in Tokens : a = at[n] /\ b = at[n + 1] /\ c = s[n + 1]
    BY <1>0, <2>1 DEF Text
  <2>4. \/ b = a + 1 /\ Plainly(c) /\ x[b] = c
        \/ b = a + 2 /\ Behind(x, b, c)
    BY <2>1, <2>3 DEF Laid
  <2>5. CASE j \in 1..a
    BY <2>2, <2>3, <2>5
  <2>6. CASE j \notin 1..a /\ b = a + 1 /\ Plainly(c) /\ x[b] = c
    <3>1. j = b
      BY <2>3, <2>6
    <3> QED
      BY <2>6, <3>1 DEF Plainly
  <2>7. CASE j \notin 1..a /\ b = a + 2 /\ Behind(x, b, c)
    <3>1. j = b - 1 \/ j = b
      <4>1. j \in 1..b /\ j \notin 1..a /\ b = a + 2
        BY <2>3, <2>7, Zenon
      <4> QED
        BY <4>1
    <3>2. x[b - 1] = Backslash /\ b > 1 /\ x[b] # Newline
      BY <2>7, Specials DEF Behind
    <3>3. CASE j = b - 1
      BY <3>2, <3>3, Specials
    <3>4. CASE j = b
      BY <3>2, <3>4
    <3> QED
      BY <3>1, <3>3, <3>4
  <2> QED
    BY <2>4, <2>5, <2>6, <2>7
<1> HIDE DEF Good
<1>3. \A n \in Nat : n \in Good
  BY <1>1, <1>2, Naturally
<1> QED
  BY <1>0, <1>3 DEF Laid, Good

------------------------------------------------------------------------------
(* unesc: what has been read so far, token by token. *)

Unread == [out |-> <<>>, esc |-> FALSE]
Kept(acc, c) ==
    IF acc.esc THEN [out |-> acc.out \o Unescaped(c), esc |-> FALSE]
    ELSE IF c = Backslash THEN [acc EXCEPT !.esc = TRUE]
    ELSE [acc EXCEPT !.out = Append(@, c)]

Folds(x, f, S) ==
    f = [k \in SUBSET S |-> IF k = {} THEN Unread ELSE Kept(f[k \ {Max(k)}], x[Max(k)])]

LEMMA MaxIsLast == ASSUME NEW n \in Nat, NEW k \in SUBSET (1..n), n \in k PROVE Max(k) = n
<1>1. n \in k /\ \A y \in k : n >= y
  OBVIOUS
<1>2. \A m \in k : (\A y \in k : m >= y) => m = n
  OBVIOUS
<1> QED
  BY <1>1, <1>2, Zenon DEF Max

LEMMA FoldsExist == ASSUME NEW x PROVE \A n \in Nat : \E f : Folds(x, f, 1..n)
<1> DEFINE Good == {n \in Nat : \E f : Folds(x, f, 1..n)}
<1>1. 0 \in Good
  <2> DEFINE f == [k \in SUBSET (1..0) |-> Unread]
  <2>1. \A k \in SUBSET (1..0) : k = {}
    OBVIOUS
  <2>2. f = [k \in SUBSET (1..0) |-> IF k = {} THEN Unread ELSE Kept(f[k \ {Max(k)}], x[Max(k)])]
    BY <2>1, Zenon
  <2> QED
    BY <2>2, Zenon DEF Folds
<1>2. ASSUME NEW n \in Nat, n \in Good PROVE n + 1 \in Good
  <2>1. PICK f : Folds(x, f, 1..n)
    BY <1>2
  <2> DEFINE m == n + 1
             g == [k \in SUBSET (1..m) |-> IF m \in k THEN Kept(f[k \ {m}], x[m]) ELSE f[k]]
             h == [k \in SUBSET (1..m) |-> IF k = {} THEN Unread
                                           ELSE Kept(g[k \ {Max(k)}], x[Max(k)])]
  <2>2. ASSUME NEW k \in SUBSET (1..m) PROVE g[k] = h[k]
    <3>1. CASE m \in k
      <4>1. Max(k) = m /\ m \in Nat
        BY <3>1, MaxIsLast
      <4>2. k \ {m} \in SUBSET (1..m) /\ m \notin (k \ {m}) /\ k # {}
        BY <3>1
      <4>3. g[k \ {m}] = f[k \ {m}]
        BY <4>2, Zenon
      <4>4. g[k] = Kept(f[k \ {m}], x[m])
        BY <3>1, Zenon
      <4>5. h[k] = Kept(g[k \ {m}], x[m])
        BY <4>1, <4>2, Zenon
      <4> QED
        BY <4>3, <4>4, <4>5, Zenon
    <3>2. CASE m \notin k
      <4>1. k \in SUBSET (1..n) /\ k \ {Max(k)} \in SUBSET (1..m) /\ m \notin k \ {Max(k)}
        <5>1. \A i \in k : i \in 1..n
          BY <3>2
        <5> QED
          BY <3>2, <5>1
      <4>2. g[k] = f[k] /\ g[k \ {Max(k)}] = f[k \ {Max(k)}]
        BY <3>2, <4>1, Zenon
      <4>3. f[k] = IF k = {} THEN Unread ELSE Kept(f[k \ {Max(k)}], x[Max(k)])
        BY <2>1, <4>1, Zenon DEF Folds
      <4>4. h[k] = IF k = {} THEN Unread ELSE Kept(g[k \ {Max(k)}], x[Max(k)])
        BY Zenon
      <4> QED
        BY <4>2, <4>3, <4>4, Zenon
    <3> QED
      BY <3>1, <3>2
  <2>3. g = [k \in SUBSET (1..m) |-> g[k]] /\ h = [k \in SUBSET (1..m) |-> h[k]]
    BY Zenon
  <2>4. g = h
    <3> HIDE DEF g, h
    <3> QED
      BY <2>2, <2>3, Zenon
  <2>5. Folds(x, g, 1..m)
    BY <2>4, Zenon DEF Folds
  <2> QED
    BY <2>5
<1> HIDE DEF Good
<1>3. \A n \in Nat : n \in Good
  BY <1>1, <1>2, Naturally
<1> QED
  BY <1>3 DEF Good

Unescapes(x, p) ==
    /\ p[0] = Unread
    /\ \A n \in 1..Len(x) : p[n] = Kept(p[n - 1], x[n])
    /\ unesc(x) = LET r == p[Len(x)] IN IF r.esc THEN Append(r.out, Backslash) ELSE r.out

LEMMA UnescapesExist == ASSUME NEW x \in Text PROVE \E p : Unescapes(x, p)
<1> DEFINE n == Len(x)
           f == CHOOSE g : Folds(x, g, 1..n)
           p == [m \in 0..n |-> f[1..m]]
<1>1. n \in Nat /\ DOMAIN x = 1..n
  BY DEF Text
<1>2. Folds(x, f, 1..n)
  BY <1>1, FoldsExist
<1>3. unesc(x) = LET r == f[1..n] IN IF r.esc THEN Append(r.out, Backslash) ELSE r.out
  BY <1>1 DEF unesc, FoldLeft, MapThenFoldSet, Folds, Unread, Kept
<1> HIDE DEF f
<1>4. p[0] = Unread
  <2>1. 1..0 = {} /\ {} \in SUBSET (1..n) /\ 0 \in 0..n
    BY <1>1
  <2> QED
    BY <1>2, <2>1, Zenon DEF Folds
<1>5. ASSUME NEW m \in 1..n PROVE p[m] = Kept(p[m - 1], x[m])
  <2>1. m \in 0..n /\ m - 1 \in 0..n /\ m \in Nat
    BY <1>1
  <2>2. 1..m \in SUBSET (1..n) /\ m \in 1..m
    BY <1>1
  <2>3. Max(1..m) = m
    BY <2>1, <2>2, MaxIsLast
  <2>4. (1..m) \ {m} = 1..(m - 1) /\ 1..m # {}
    <3>1. \A k : k \in 1..m /\ k # m <=> k \in 1..(m - 1)
      BY <2>1
    <3>2. (1..m) \ {m} = 1..(m - 1)
      BY <3>1, Zenon
    <3> QED
      BY <2>2, <3>2, Zenon
  <2>5. f[1..m] = Kept(f[1..(m - 1)], x[m])
    BY <1>2, <2>2, <2>3, <2>4, Zenon DEF Folds
  <2> QED
    BY <2>1, <2>5, Zenon
<1>6. p[n] = f[1..n]
  BY <1>1
<1> QED
  <2> HIDE DEF p
  <2> QED
    BY <1>3, <1>4, <1>5, <1>6 DEF Unescapes

LEMMA KeptPlain ==
    \A out, c : c # Backslash => Kept([out |-> out, esc |-> FALSE], c)
                                  = [out |-> Append(out, c), esc |-> FALSE]
<1> SUFFICES ASSUME NEW out, NEW c, c # Backslash
             PROVE  Kept([out |-> out, esc |-> FALSE], c)
                    = [out |-> Append(out, c), esc |-> FALSE]
  OBVIOUS
<1> DEFINE acc == [out |-> out, esc |-> FALSE]
<1>1. Kept(acc, c) = [acc EXCEPT !.out = Append(@, c)]
  BY DEF Kept
<1> QED
  BY <1>1

LEMMA KeptBackslash ==
    \A out : Kept([out |-> out, esc |-> FALSE], Backslash) = [out |-> out, esc |-> TRUE]
<1> SUFFICES ASSUME NEW out
             PROVE  Kept([out |-> out, esc |-> FALSE], Backslash) = [out |-> out, esc |-> TRUE]
  OBVIOUS
<1> DEFINE acc == [out |-> out, esc |-> FALSE]
<1>1. Kept(acc, Backslash) = [acc EXCEPT !.esc = TRUE]
  BY DEF Kept
<1> QED
  BY <1>1

LEMMA UnescOfLaid ==
    ASSUME NEW s \in Text, NEW x \in Text, NEW at, Laid(s, x, at) PROVE unesc(x) = s
<1> DEFINE Done(n) == [out |-> SubSeq(s, 1, n), esc |-> FALSE]
<1>0. PICK len \in Nat : len = Len(s) /\ \A n \in 1..len : s[n] \in Tokens
  BY DEF Text
<1>1. PICK p : Unescapes(x, p)
  BY UnescapesExist
<1> DEFINE Good == {n \in Nat : n <= len => p[at[n]] = Done(n)}
<1>2. 0 \in Good
  <2>1. p[at[0]] = Unread
    BY <1>1 DEF Laid, Unescapes
  <2>2. SubSeq(s, 1, 0) = <<>>
    BY DEF Text
  <2> QED
    BY <2>1, <2>2 DEF Unread
<1>3. ASSUME NEW n \in Nat, n \in Good PROVE n + 1 \in Good
  <2> SUFFICES ASSUME n + 1 <= len PROVE p[at[n + 1]] = Done(n + 1)
    OBVIOUS
  <2>1. n + 1 \in 1..len /\ n \in 0..len /\ (n + 1) - 1 = n /\ n + 1 \in 0..len
    BY <1>0
  <2>2. PICK a \in Nat, b \in Nat, c \in Tokens : a = at[n] /\ b = at[n + 1] /\ c = s[n + 1]
    <3>1. at[n] \in Nat /\ at[n + 1] \in Nat
      BY <1>0, <2>1 DEF Laid
    <3>2. s[n + 1] \in Tokens
      BY <1>0, <2>1
    <3> QED
      BY <3>1, <3>2
  <2>3. \/ b = a + 1 /\ Plainly(c) /\ x[b] = c
        \/ b = a + 2 /\ Behind(x, b, c)
    BY <1>0, <2>1, <2>2 DEF Laid
  <2>4. b \in 0..Len(x) /\ Len(x) \in Nat
    BY <1>0, <2>1, <2>2 DEF Laid, Text
  <2>5. p[a] = Done(n)
    BY <1>3, <2>1, <2>2
  <2>6. PICK out \in Text : out = SubSeq(s, 1, n)
    <3>1. \A i \in 1..n : s[i] \in Tokens
      BY <1>0, <2>1
    <3>2. SubSeq(s, 1, n) \in Seq(Tokens)
      BY <3>1, SubSeqProperties
    <3> QED
      BY <3>2 DEF Text
  <2>7. SubSeq(s, 1, n + 1) = Append(out, c)
    BY <1>0, <2>1, <2>2, <2>6 DEF Text
  <2>8. p[a] = [out |-> out, esc |-> FALSE]
    BY <2>5, <2>6
  <2>9. CASE b = a + 1 /\ Plainly(c) /\ x[b] = c
    <3>1. b \in 1..Len(x) /\ b - 1 = a
      BY <2>4, <2>9
    <3>2. p[b] = Kept(p[a], c)
      BY <1>1, <2>9, <3>1 DEF Unescapes
    <3>3. c # Backslash
      BY <2>9 DEF Plainly
    <3>4. p[b] = [out |-> Append(out, c), esc |-> FALSE]
      BY <2>8, <3>2, <3>3, KeptPlain
    <3> QED
      BY <2>2, <2>7, <3>4
  <2>10. CASE b = a + 2 /\ Behind(x, b, c)
    <3>1. b \in 1..Len(x) /\ a + 1 \in 1..Len(x) /\ b - 1 = a + 1 /\ (a + 1) - 1 = a
      BY <2>4, <2>10
    <3>2. x[a + 1] = Backslash
      BY <2>10, <3>1 DEF Behind
    <3>3. p[a + 1] = Kept(p[a], Backslash)
      BY <1>1, <3>1, <3>2 DEF Unescapes
    <3>4. p[a + 1] = [out |-> out, esc |-> TRUE]
      BY <2>8, <3>3, KeptBackslash
    <3>5. p[b] = Kept(p[a + 1], x[b])
      BY <1>1, <3>1 DEF Unescapes
    <3>6. p[b] = [out |-> out \o Unescaped(x[b]), esc |-> FALSE]
      BY <3>4, <3>5 DEF Kept
    <3>7. Unescaped(x[b]) = <<c>>
      <4>1. CASE c = Newline
        BY <2>10, <4>1, Specials DEF Behind, Unescaped
      <4>2. CASE c # Newline
        <5>1. x[b] = c /\ c \in {Quote, Backslash}
          BY <2>10, <4>2 DEF Behind
        <5>2. c # "n"
          BY <5>1, Specials
        <5> QED
          BY <5>1, <5>2 DEF Unescaped
      <4> QED
        BY <4>1, <4>2
    <3>8. out \o <<c>> = Append(out, c)
      BY <2>6 DEF Text
    <3> QED
      BY <2>2, <2>7, <3>6, <3>7, <3>8
  <2> QED
    BY <2>3, <2>9, <2>10
<1> HIDE DEF Good
<1>4. \A n \in Nat : n \in Good
  BY <1>2, <1>3, Naturally
<1>5. p[Len(x)] = Done(len)
  BY <1>0, <1>4 DEF Laid, Good
<1>6. SubSeq(s, 1, len) = s
  BY <1>0 DEF Text
<1>7. unesc(x) = LET r == p[Len(x)] IN IF r.esc THEN Append(r.out, Backslash) ELSE r.out
  BY <1>1 DEF Unescapes
<1> QED
  BY <1>5, <1>6, <1>7

------------------------------------------------------------------------------
(* ClosingQuote: from each place of a text that begins with a quote. *)

Closing(d, f, m) ==
    f = [i \in m..(Len(d) + 2) |->
            IF i > Len(d) THEN 0
            ELSE IF d[i] = Backslash THEN f[i + 2]
            ELSE IF d[i] = Quote THEN i
            ELSE f[i + 1]]

LEMMA ClosingExists ==
    ASSUME NEW d \in Text
    PROVE  \A n \in Nat : n <= Len(d) => \E f : Closing(d, f, Len(d) + 1 - n)
<1> DEFINE len == Len(d)
           Good == {n \in Nat : n <= len => \E f : Closing(d, f, len + 1 - n)}
<1>0. len \in Nat
  BY DEF Text
<1>1. 0 \in Good
  <2> DEFINE f == [i \in (len + 1)..(len + 2) |-> 0]
             h == [i \in (len + 1)..(len + 2) |->
                      IF i > len THEN 0
                      ELSE IF d[i] = Backslash THEN f[i + 2]
                      ELSE IF d[i] = Quote THEN i
                      ELSE f[i + 1]]
  <2>1. \A i \in (len + 1)..(len + 2) : i > len
    BY <1>0
  <2>2. h = f
    BY <2>1, Zenon
  <2>3. Closing(d, f, len + 1)
    BY <1>0, <2>2, Zenon DEF Closing
  <2>4. Len(d) + 1 - 0 = len + 1
    BY <1>0
  <2> HIDE DEF f
  <2> QED
    BY <2>3, <2>4
<1>2. ASSUME NEW n \in Nat, n \in Good PROVE n + 1 \in Good
  <2> SUFFICES ASSUME n + 1 <= len PROVE \E f : Closing(d, f, len + 1 - (n + 1))
    BY <1>0
  <2>1. PICK m \in Nat : m = len - n /\ m >= 1 /\ m <= len
    <3>1. len - n \in Nat /\ len - n >= 1 /\ len - n <= len
      BY <1>0
    <3> QED
      BY <3>1
  <2>2. PICK f : Closing(d, f, m + 1)
    <3>1. n <= len /\ len + 1 - n = m + 1
      BY <2>1
    <3> QED
      BY <1>0, <1>2, <3>1
  <2> DEFINE Sought(g, i) == IF i > len THEN 0
                             ELSE IF d[i] = Backslash THEN g[i + 2]
                             ELSE IF d[i] = Quote THEN i
                             ELSE g[i + 1]
             g == [i \in m..(len + 2) |-> IF i = m THEN Sought(f, i) ELSE f[i]]
             h == [i \in m..(len + 2) |-> Sought(g, i)]
  <2>3. ASSUME NEW i \in m..(len + 2) PROVE g[i] = h[i]
    <3>1. i <= len => g[i + 1] = f[i + 1] /\ g[i + 2] = f[i + 2]
      <4>1. i <= len => /\ i + 1 \in m..(len + 2) /\ i + 1 # m
                        /\ i + 2 \in m..(len + 2) /\ i + 2 # m
        BY <2>1
      <4> QED
        BY <4>1, Zenon
    <3>2. h[i] = Sought(g, i)
      BY Zenon
    <3>3. CASE i > len
      <4>1. i # m /\ i \in (m + 1)..(len + 2)
        BY <2>1, <3>3
      <4>2. f[i] = 0
        BY <1>0, <2>2, <3>3, <4>1, Zenon DEF Closing
      <4> QED
        BY <3>2, <3>3, <4>1, <4>2, Zenon
    <3>4. CASE i <= len
      <4>1. ~(i > len)
        BY <2>1, <3>4
      <4>2. Sought(g, i) = Sought(f, i)
        <5> HIDE DEF g
        <5> QED
          BY <3>1, <3>4, Zenon
      <4>3. CASE i = m
        BY <3>2, <4>2, <4>3, Zenon
      <4>4. CASE i # m
        <5>1. i \in (m + 1)..(len + 2)
          BY <2>1, <4>4
        <5>2. f[i] = Sought(f, i)
          BY <1>0, <2>2, <5>1, Zenon DEF Closing
        <5> QED
          BY <3>2, <4>2, <4>4, <5>2, Zenon
      <4> QED
        BY <4>3, <4>4
    <3> QED
      BY <2>1, <3>3, <3>4
  <2>4. g = [i \in m..(len + 2) |-> g[i]] /\ h = [i \in m..(len + 2) |-> h[i]]
    OBVIOUS
  <2>5. g = h
    <3> HIDE DEF g, h, len
    <3> QED
      BY <2>3, <2>4
  <2>6. Closing(d, g, m)
    <3> HIDE DEF g
    <3>1. g = [i \in m..(len + 2) |-> Sought(g, i)]
      BY <2>5
    <3>2. g = [i \in m..(Len(d) + 2) |->
                  IF i > Len(d) THEN 0
                  ELSE IF d[i] = Backslash THEN g[i + 2]
                  ELSE IF d[i] = Quote THEN i
                  ELSE g[i + 1]]
      BY <3>1
    <3> QED
      BY <3>2 DEF Closing
  <2>7. len + 1 - (n + 1) = m
    BY <2>1
  <2> HIDE DEF g
  <2> QED
    BY <2>6, <2>7
<1> HIDE DEF Good
<1>3. \A n \in Nat : n \in Good
  BY <1>1, <1>2, Naturally
<1> QED
  BY <1>3 DEF Good

LEMMA ClosingSteps ==
    ASSUME NEW d \in Text, Len(d) >= 1
    PROVE  \E q : /\ ClosingQuote(d) = q[2]
                  /\ \A i \in 2..Len(d) :
                        q[i] = IF d[i] = Backslash THEN q[i + 2]
                               ELSE IF d[i] = Quote THEN i ELSE q[i + 1]
<1> DEFINE f == CHOOSE g : Closing(d, g, 2)
<1>0. PICK len \in Nat : len = Len(d) /\ len >= 1
  BY DEF Text
<1>1. Closing(d, f, 2)
  <2>1. len - 1 \in Nat /\ len - 1 <= len /\ len + 1 - (len - 1) = 2
    BY <1>0
  <2>2. \E g : Closing(d, g, len + 1 - (len - 1))
    BY <1>0, <2>1, ClosingExists
  <2> QED
    BY <2>1, <2>2
<1>2. ClosingQuote(d) = f[2]
  BY DEF ClosingQuote, Closing
<1> HIDE DEF f
<1>3. ASSUME NEW i \in 2..len
      PROVE  f[i] = IF d[i] = Backslash THEN f[i + 2] ELSE IF d[i] = Quote THEN i ELSE f[i + 1]
  <2>1. i \in 2..(len + 2) /\ ~(i > len)
    BY <1>0
  <2> QED
    BY <1>0, <1>1, <2>1, Zenon DEF Closing
<1> QED
  BY <1>0, <1>2, <1>3

(* The string that begins d is closed where the escaped text s ends.        *)
LEMMA ClosesAfterLaid ==
    ASSUME NEW s \in Text, NEW x \in Text, NEW at, Laid(s, x, at),
           NEW d \in Text, Len(d) >= Len(x) + 2, d[Len(x) + 2] = Quote,
           \A j \in 1..Len(x) : d[j + 1] = x[j]
    PROVE  ClosingQuote(d) = Len(x) + 2
<1>0. PICK len \in Nat : len = Len(s) /\ Len(x) \in Nat /\ Len(d) \in Nat
  BY DEF Text
<1>1. PICK q : /\ ClosingQuote(d) = q[2]
               /\ \A i \in 2..Len(d) :
                     q[i] = IF d[i] = Backslash THEN q[i + 2]
                            ELSE IF d[i] = Quote THEN i ELSE q[i + 1]
  BY <1>0, ClosingSteps
<1> DEFINE Good == {n \in Nat : n <= len => q[at[n] + 2] = q[2]}
<1>2. 0 \in Good
  BY DEF Laid
<1>3. ASSUME NEW n \in Nat, n \in Good PROVE n + 1 \in Good
  <2> SUFFICES ASSUME n + 1 <= len PROVE q[at[n + 1] + 2] = q[2]
    OBVIOUS
  <2>1. n + 1 \in 1..len /\ n \in 0..len /\ (n + 1) - 1 = n /\ n + 1 \in 0..len
    BY <1>0
  <2>2. PICK a \in Nat, b \in Nat : a = at[n] /\ b = at[n + 1] /\ b <= Len(x)
    BY <1>0, <2>1 DEF Laid
  <2>3. PICK c : c = s[n + 1]
    OBVIOUS
  <2>4. \/ b = a + 1 /\ Plainly(c) /\ x[b] = c
        \/ b = a + 2 /\ Behind(x, b, c)
    BY <1>0, <2>1, <2>2, <2>3 DEF Laid
  <2>5. q[a + 2] = q[2]
    BY <1>3, <2>1, <2>2
  <2>6. a + 2 \in 2..Len(d) /\ a + 1 \in 1..Len(x) /\ (a + 1) + 1 = a + 2
    <3>1. PICK lx \in Nat, ld \in Nat : lx = Len(x) /\ ld = Len(d) /\ ld >= lx + 2
      BY <1>0
    <3>2. a \in Nat /\ b \in Nat /\ b <= lx /\ (b = a + 1 \/ b = a + 2)
      BY <2>2, <2>4, <3>1
    <3>3. a + 1 \in 1..lx /\ a + 2 \in 2..ld /\ (a + 1) + 1 = a + 2
      BY <3>1, <3>2
    <3> QED
      BY <3>1, <3>3, Zenon
  <2>7. d[a + 2] = x[a + 1]
    BY <2>6
  <2>8. q[a + 2] = IF d[a + 2] = Backslash THEN q[(a + 2) + 2]
                   ELSE IF d[a + 2] = Quote THEN a + 2 ELSE q[(a + 2) + 1]
    BY <1>1, <2>6
  <2>9. CASE b = a + 1 /\ Plainly(c) /\ x[b] = c
    <3>1. d[a + 2] # Backslash /\ d[a + 2] # Quote /\ (a + 2) + 1 = b + 2
      BY <2>2, <2>7, <2>9 DEF Plainly
    <3>2. q[a + 2] = q[(a + 2) + 1]
      BY <2>8, <3>1, Zenon
    <3> QED
      BY <2>2, <2>5, <3>1, <3>2
  <2>10. CASE b = a + 2 /\ Behind(x, b, c)
    <3>1. b - 1 = a + 1 /\ (a + 2) + 2 = b + 2
      BY <2>2, <2>10
    <3>2. d[a + 2] = Backslash
      BY <2>7, <2>10, <3>1 DEF Behind
    <3>3. q[a + 2] = q[(a + 2) + 2]
      BY <2>8, <3>2, Zenon
    <3> QED
      BY <2>2, <2>5, <3>1, <3>3
  <2> QED
    BY <2>4, <2>9, <2>10
<1> HIDE DEF Good
<1>4. \A n \in Nat : n \in Good
  BY <1>2, <1>3, Naturally
<1>5. q[Len(x) + 2] = q[2]
  BY <1>0, <1>4 DEF Laid, Good
<1>6. Len(x) + 2 \in 2..Len(d) /\ Quote # Backslash
  BY <1>0, Specials
<1>7. q[Len(x) + 2] = Len(x) + 2
  BY <1>1, <1>6
<1> QED
  BY <1>1, <1>5, <1>7

LEMMA PlainIsLaid ==
    ASSUME NEW c \in Tokens, Plainly(c)
    PROVE  Laid(<<c>>, <<c>>, [n \in {0, 1} |-> n])
BY Words DEF Laid

------------------------------------------------------------------------------
(* What stands where in a line. *)

At(line, p, w) == \A j \in 1..Len(w) : line[p + j] = w[j]
Prefix(z, line) == Len(z) <= Len(line) /\ At(line, 0, z)

LEMMA Joined ==
    \A z, w : z \in Text /\ w \in Text =>
        /\ z \o w \in Text /\ Len(z \o w) = Len(z) + Len(w)
        /\ \A j \in 1..Len(z) : (z \o w)[j] = z[j]
        /\ \A j \in 1..Len(w) : (z \o w)[Len(z) + j] = w[j]
<1> SUFFICES ASSUME NEW z, NEW w, z \in Text, w \in Text
             PROVE  /\ z \o w \in Text /\ Len(z \o w) = Len(z) + Len(w)
                    /\ \A j \in 1..Len(z) : (z \o w)[j] = z[j]
                    /\ \A j \in 1..Len(w) : (z \o w)[Len(z) + j] = w[j]
  OBVIOUS
<1>0. Len(z) \in Nat /\ Len(w) \in Nat
  BY DEF Text
<1>1. z \o w \in Text /\ Len(z \o w) = Len(z) + Len(w)
  BY DEF Text
<1>2. \A j \in 1..Len(z) : (z \o w)[j] = z[j]
  BY DEF Text
<1>3. \A j \in 1..Len(w) : (z \o w)[Len(z) + j] = w[j]
  BY DEF Text
<1> QED
  BY <1>1, <1>2, <1>3

LEMMA LenType == \A z : z \in Text => Len(z) \in Nat
BY DEF Text

LEMMA Piece ==
    ASSUME NEW line, NEW z, NEW w, line \in Text, z \in Text, w \in Text,
           Prefix(z \o w, line)
    PROVE  Prefix(z, line) /\ At(line, Len(z), w)
<1>0. PICK lz \in Nat : lz = Len(z)
  BY LenType
<1>1. PICK v \in Text : /\ v = z \o w /\ Len(v) = lz + Len(w)
                        /\ \A j \in 1..lz : v[j] = z[j]
                        /\ \A j \in 1..Len(w) : v[lz + j] = w[j]
  <2>1. /\ z \o w \in Text /\ Len(z \o w) = Len(z) + Len(w)
        /\ \A j \in 1..Len(z) : (z \o w)[j] = z[j]
        /\ \A j \in 1..Len(w) : (z \o w)[Len(z) + j] = w[j]
    BY Joined
  <2> QED
    BY <1>0, <2>1, Zenon
<1>2. Len(w) \in Nat /\ Len(line) \in Nat
  BY DEF Text
<1>3. Len(v) <= Len(line) /\ \A j \in 1..Len(v) : line[0 + j] = v[j]
  BY <1>1 DEF Prefix, At
<1>4. \A j \in 1..(lz + Len(w)) : line[j] = v[j]
  BY <1>1, <1>3
<1>5. \A j \in 1..lz : line[0 + j] = z[j]
  BY <1>1, <1>2, <1>4
<1>6. \A j \in 1..Len(w) : line[lz + j] = w[j]
  <2> SUFFICES ASSUME NEW j \in 1..Len(w) PROVE line[lz + j] = w[j]
    OBVIOUS
  <2>1. lz + j \in 1..(lz + Len(w))
    BY <1>2
  <2> QED
    BY <1>1, <1>4, <2>1
<1>7. lz <= Len(line)
  BY <1>1, <1>2, <1>3
<1> QED
  BY <1>0, <1>5, <1>6, <1>7 DEF Prefix, At

LEMMA KeyType ==
    ASSUME NEW key \in Tokens
    PROVE  Key(key) \in Text /\ Len(Key(key)) = 4
<1>1. Quote \in Tokens /\ ":" \in Tokens
  BY Specials DEF Marks
<1> QED
  BY <1>1 DEF Key, Text

LEMMA StringType ==
    ASSUME NEW x \in Text
    PROVE  String(x) \in Text /\ Len(String(x)) = Len(x) + 2
<1>1. Quote \in Tokens
  BY Specials
<1>2. <<Quote>> \in Text /\ Len(<<Quote>>) = 1
  BY <1>1, Words
<1>3. Len(x) \in Nat
  BY DEF Text
<1>4. PICK q \in Text : q = <<Quote>>
  BY <1>2
<1>5. q \o x \in Text /\ Len(q \o x) = Len(q) + Len(x)
  BY Joined
<1>6. (q \o x) \o q \in Text /\ Len((q \o x) \o q) = Len(q \o x) + Len(q)
  BY <1>5, Joined
<1>7. Len((q \o x) \o q) = Len(x) + 2
  BY <1>2, <1>3, <1>4, <1>5, <1>6
<1> QED
  BY <1>4, <1>6, <1>7 DEF String

LEMMA KeyAt ==
    ASSUME NEW line, NEW p \in Nat, NEW key, At(line, p, Key(key))
    PROVE  /\ line[p + 1] = Quote /\ line[p + 2] = key
           /\ line[p + 3] = Quote /\ line[p + 4] = ":"
<1>1. Len(Key(key)) = 4 /\ Key(key)[1] = Quote /\ Key(key)[2] = key
      /\ Key(key)[3] = Quote /\ Key(key)[4] = ":"
  BY DEF Key
<1>2. {1, 2, 3, 4} \subseteq 1..Len(Key(key))
  BY <1>1
<1> QED
  BY <1>1, <1>2 DEF At

LEMMA StringAt ==
    ASSUME NEW line, NEW p \in Nat, NEW x \in Text, At(line, p, String(x))
    PROVE  /\ line[p + 1] = Quote /\ line[Len(x) + (p + 2)] = Quote
           /\ At(line, p + 1, x)
<1>0. Len(x) \in Nat
  BY DEF Text
<1>1. /\ Len(String(x)) = Len(x) + 2 /\ String(x)[1] = Quote /\ String(x)[Len(x) + 2] = Quote
      /\ \A j \in 1..Len(x) : String(x)[j + 1] = x[j]
  <2>1. Quote \in Tokens
    BY Specials
  <2>2. <<Quote>> \in Text /\ Len(<<Quote>>) = 1 /\ <<Quote>>[1] = Quote
    BY <2>1, Words
  <2>3. PICK q \in Text : q = <<Quote>> /\ Len(q) = 1 /\ q[1] = Quote
    BY <2>2
  <2>4. PICK a \in Text : /\ a = q \o x /\ Len(a) = Len(x) + 1 /\ a[1] = Quote
                          /\ \A j \in 1..Len(x) : a[j + 1] = x[j]
    <3>1. /\ q \o x \in Text /\ Len(q \o x) = Len(q) + Len(x)
          /\ \A j \in 1..Len(q) : (q \o x)[j] = q[j]
          /\ \A j \in 1..Len(x) : (q \o x)[Len(q) + j] = x[j]
      BY Joined
    <3>2. Len(q \o x) = Len(x) + 1 /\ (q \o x)[1] = Quote
      BY <1>0, <2>3, <3>1
    <3>3. ASSUME NEW j \in 1..Len(x) PROVE (q \o x)[j + 1] = x[j]
      <4>1. Len(q) + j = j + 1
        BY <1>0, <2>3
      <4> QED
        BY <3>1, <4>1
    <3> QED
      BY <3>1, <3>2, <3>3, Zenon
  <2>5. PICK b \in Text : /\ b = a \o q /\ Len(b) = Len(x) + 2 /\ b[Len(x) + 2] = Quote
                          /\ \A j \in 1..(Len(x) + 1) : b[j] = a[j]
    <3>1. PICK la \in Nat : la = Len(x) + 1
      BY <1>0
    <3>2. /\ a \o q \in Text /\ Len(a \o q) = Len(a) + Len(q)
          /\ \A j \in 1..Len(a) : (a \o q)[j] = a[j]
          /\ \A j \in 1..Len(q) : (a \o q)[Len(a) + j] = q[j]
      BY Joined
    <3>3. (a \o q)[la + 1] = q[1] /\ la + 1 = Len(x) + 2
      BY <1>0, <2>3, <2>4, <3>1, <3>2
    <3>4. Len(a \o q) = Len(x) + 2 /\ (a \o q)[Len(x) + 2] = Quote
      BY <1>0, <2>3, <2>4, <3>1, <3>2, <3>3
    <3>5. \A j \in 1..(Len(x) + 1) : (a \o q)[j] = a[j]
      BY <2>4, <3>2
    <3> QED
      BY <3>2, <3>4, <3>5, Zenon
  <2>6. b = String(x)
    BY <2>3, <2>4, <2>5 DEF String
  <2> QED
    BY <1>0, <2>4, <2>5, <2>6
<1>2. \A j \in 1..(Len(x) + 2) : line[p + j] = String(x)[j]
  BY <1>1 DEF At
<1>3. line[p + 1] = Quote /\ line[p + (Len(x) + 2)] = Quote
  BY <1>0, <1>1, <1>2
<1>4. p + (Len(x) + 2) = Len(x) + (p + 2)
  BY <1>0
<1>5. ASSUME NEW j \in 1..Len(x) PROVE line[(p + 1) + j] = x[j]
  <2>1. j + 1 \in 1..(Len(x) + 2) /\ p + (j + 1) = (p + 1) + j
    BY <1>0
  <2> QED
    BY <1>1, <1>2, <2>1
<1> QED
  BY <1>3, <1>4, <1>5 DEF At


(* The line of a sample, piece by piece. *)
PingLine(T, x, y, loss, modo) ==
    <<"{">> \o Key("t") \o <<T, ",">> \o Key("kind") \o String(<<"ping">>) \o
    <<",">> \o Key("host") \o String(x) \o <<",">> \o Key("rtt_ms") \o y \o
    <<",">> \o Key("loss_pct") \o <<loss>> \o
    <<",">> \o Key("modo") \o String(<<modo>>) \o <<"}">>

PingLaid(line, T, x, y, loss, modo) ==
    /\ line \in Text /\ Len(line) = Len(x) + Len(y) + 41
    /\ At(line, 0, <<"{">>)
    /\ At(line, 1, Key("t"))
    /\ At(line, 5, <<T, ",">>)
    /\ At(line, 7, Key("kind"))
    /\ At(line, 11, String(<<"ping">>))
    /\ At(line, 14, <<",">>)
    /\ At(line, 15, Key("host"))
    /\ At(line, 19, String(x))
    /\ At(line, Len(x) + 21, <<",">>)
    /\ At(line, Len(x) + 22, Key("rtt_ms"))
    /\ At(line, Len(x) + 26, y)
    /\ At(line, Len(x) + Len(y) + 26, <<",">>)
    /\ At(line, Len(x) + Len(y) + 27, Key("loss_pct"))
    /\ At(line, Len(x) + Len(y) + 31, <<loss>>)
    /\ At(line, Len(x) + Len(y) + 32, <<",">>)
    /\ At(line, Len(x) + Len(y) + 33, Key("modo"))
    /\ At(line, Len(x) + Len(y) + 37, String(<<modo>>))
    /\ At(line, Len(x) + Len(y) + 40, <<"}">>)

LEMMA Names ==
    /\ {"{", "}", ",", ":", "t", "kind", "ping", "host", "rtt_ms", "loss_pct", "modo", "null"}
          \subseteq Tokens
    /\ Quote \in Tokens
BY DEF Marks, Tokens

LEMMA PingLineLaid ==
    ASSUME NEW T \in Tokens, NEW x \in Text, NEW y \in Text,
           NEW loss \in Tokens, NEW modo \in Tokens
    PROVE  PingLaid(PingLine(T, x, y, loss, modo), T, x, y, loss, modo)
<1>0. Len(x) \in Nat /\ Len(y) \in Nat
  BY LenType
<1>1. PICK w1 \in Text : w1 = <<"{">> /\ Len(w1) = 1
  BY Names, Words
<1>2. PICK w2 \in Text : w2 = Key("t") /\ Len(w2) = 4
  BY Names, KeyType
<1>3. PICK w3 \in Text : w3 = <<T, ",">> /\ Len(w3) = 2
  <2>1. PICK c \in Tokens : c = ","
    BY Names
  <2>2. <<T, c>> \in Text /\ Len(<<T, c>>) = 2
    BY Words
  <2> QED
    BY <2>1, <2>2, Zenon
<1>4. PICK w4 \in Text : w4 = Key("kind") /\ Len(w4) = 4
  BY Names, KeyType
<1>5. PICK w5 \in Text : w5 = String(<<"ping">>) /\ Len(w5) = 3
  <2>1. "ping" \in Tokens
    BY Names
  <2>2. PICK v \in Text : v = <<"ping">> /\ Len(v) = 1
    BY <2>1, Words, Zenon
  <2>3. String(v) \in Text /\ Len(String(v)) = Len(v) + 2
    BY StringType
  <2> QED
    BY <2>2, <2>3
<1>6. PICK w6 \in Text : w6 = <<",">> /\ Len(w6) = 1
  BY Names, Words
<1>7. PICK w7 \in Text : w7 = Key("host") /\ Len(w7) = 4
  BY Names, KeyType
<1>8. PICK w8 \in Text : w8 = String(x) /\ Len(w8) = Len(x) + 2
  BY Names, StringType
<1>9. PICK w9 \in Text : w9 = Key("rtt_ms") /\ Len(w9) = 4
  BY Names, KeyType
<1>10. PICK w10 \in Text : w10 = Key("loss_pct") /\ Len(w10) = 4
  BY Names, KeyType
<1>11. PICK w11 \in Text : w11 = <<loss>> /\ Len(w11) = 1
  BY Names, Words
<1>12. PICK w12 \in Text : w12 = Key("modo") /\ Len(w12) = 4
  BY Names, KeyType
<1>13. PICK w13 \in Text : w13 = String(<<modo>>) /\ Len(w13) = 3
  <2>1. PICK v \in Text : v = <<modo>> /\ Len(v) = 1
    BY Words, Zenon
  <2>2. String(v) \in Text /\ Len(String(v)) = Len(v) + 2
    BY StringType
  <2> QED
    BY <2>1, <2>2
<1>14. PICK w14 \in Text : w14 = <<"}">> /\ Len(w14) = 1
  BY Names, Words
<1>15. /\ Len(w1) = 1 /\ Len(w2) = 4 /\ Len(w3) = 2 /\ Len(w4) = 4 /\ Len(w5) = 3
       /\ Len(w6) = 1 /\ Len(w7) = 4 /\ Len(w8) = Len(x) + 2 /\ Len(w9) = 4 /\ Len(w10) = 4
       /\ Len(w11) = 1 /\ Len(w12) = 4 /\ Len(w13) = 3 /\ Len(w14) = 1
  BY <1>1, <1>2, <1>3, <1>4, <1>5, <1>6, <1>7, <1>8, <1>9, <1>10, <1>11, <1>12, <1>13,
     <1>14, Zenon
<1>16. PICK z1 \in Text : z1 = w1 /\ Len(z1) = 1
  BY <1>1
<1>17. PICK z2 \in Text : z2 = z1 \o w2 /\ Len(z2) = 5
  <2>1. Len(z1) + Len(w2) = 5
    BY <1>0, <1>16, <1>15, LenType
  <2>2. z1 \o w2 \in Text /\ Len(z1 \o w2) = Len(z1) + Len(w2)
    BY Joined
  <2> QED
    BY <2>1, <2>2, Zenon
<1>18. PICK z3 \in Text : z3 = z2 \o w3 /\ Len(z3) = 7
  <2>1. Len(z2) + Len(w3) = 7
    BY <1>0, <1>17, <1>15, LenType
  <2>2. z2 \o w3 \in Text /\ Len(z2 \o w3) = Len(z2) + Len(w3)
    BY Joined
  <2> QED
    BY <2>1, <2>2, Zenon
<1>19. PICK z4 \in Text : z4 = z3 \o w4 /\ Len(z4) = 11
  <2>1. Len(z3) + Len(w4) = 11
    BY <1>0, <1>18, <1>15, LenType
  <2>2. z3 \o w4 \in Text /\ Len(z3 \o w4) = Len(z3) + Len(w4)
    BY Joined
  <2> QED
    BY <2>1, <2>2, Zenon
<1>20. PICK z5 \in Text : z5 = z4 \o w5 /\ Len(z5) = 14
  <2>1. Len(z4) + Len(w5) = 14
    BY <1>0, <1>19, <1>15, LenType
  <2>2. z4 \o w5 \in Text /\ Len(z4 \o w5) = Len(z4) + Len(w5)
    BY Joined
  <2> QED
    BY <2>1, <2>2, Zenon
<1>21. PICK z6 \in Text : z6 = z5 \o w6 /\ Len(z6) = 15
  <2>1. Len(z5) + Len(w6) = 15
    BY <1>0, <1>20, <1>15, LenType
  <2>2. z5 \o w6 \in Text /\ Len(z5 \o w6) = Len(z5) + Len(w6)
    BY Joined
  <2> QED
    BY <2>1, <2>2, Zenon
<1>22. PICK z7 \in Text : z7 = z6 \o w7 /\ Len(z7) = 19
  <2>1. Len(z6) + Len(w7) = 19
    BY <1>0, <1>21, <1>15, LenType
  <2>2. z6 \o w7 \in Text /\ Len(z6 \o w7) = Len(z6) + Len(w7)
    BY Joined
  <2> QED
    BY <2>1, <2>2, Zenon
<1>23. PICK z8 \in Text : z8 = z7 \o w8 /\ Len(z8) = Len(x) + 21
  <2>1. Len(z7) + Len(w8) = Len(x) + 21
    BY <1>0, <1>22, <1>15, LenType
  <2>2. z7 \o w8 \in Text /\ Len(z7 \o w8) = Len(z7) + Len(w8)
    BY Joined
  <2> QED
    BY <2>1, <2>2, Zenon
<1>24. PICK z9 \in Text : z9 = z8 \o w6 /\ Len(z9) = Len(x) + 22
  <2>1. Len(z8) + Len(w6) = Len(x) + 22
    BY <1>0, <1>23, <1>15, LenType
  <2>2. z8 \o w6 \in Text /\ Len(z8 \o w6) = Len(z8) + Len(w6)
    BY Joined
  <2> QED
    BY <2>1, <2>2, Zenon
<1>25. PICK z10 \in Text : z10 = z9 \o w9 /\ Len(z10) = Len(x) + 26
  <2>1. Len(z9) + Len(w9) = Len(x) + 26
    BY <1>0, <1>24, <1>15, LenType
  <2>2. z9 \o w9 \in Text /\ Len(z9 \o w9) = Len(z9) + Len(w9)
    BY Joined
  <2> QED
    BY <2>1, <2>2, Zenon
<1>26. PICK z11 \in Text : z11 = z10 \o y /\ Len(z11) = Len(x) + Len(y) + 26
  <2>1. Len(z10) + Len(y) = Len(x) + Len(y) + 26
    BY <1>0, <1>25, <1>0, LenType
  <2>2. z10 \o y \in Text /\ Len(z10 \o y) = Len(z10) + Len(y)
    BY Joined
  <2> QED
    BY <2>1, <2>2, Zenon
<1>27. PICK z12 \in Text : z12 = z11 \o w6 /\ Len(z12) = Len(x) + Len(y) + 27
  <2>1. Len(z11) + Len(w6) = Len(x) + Len(y) + 27
    BY <1>0, <1>26, <1>15, LenType
  <2>2. z11 \o w6 \in Text /\ Len(z11 \o w6) = Len(z11) + Len(w6)
    BY Joined
  <2> QED
    BY <2>1, <2>2, Zenon
<1>28. PICK z13 \in Text : z13 = z12 \o w10 /\ Len(z13) = Len(x) + Len(y) + 31
  <2>1. Len(z12) + Len(w10) = Len(x) + Len(y) + 31
    BY <1>0, <1>27, <1>15, LenType
  <2>2. z12 \o w10 \in Text /\ Len(z12 \o w10) = Len(z12) + Len(w10)
    BY Joined
  <2> QED
    BY <2>1, <2>2, Zenon
<1>29. PICK z14 \in Text : z14 = z13 \o w11 /\ Len(z14) = Len(x) + Len(y) + 32
  <2>1. Len(z13) + Len(w11) = Len(x) + Len(y) + 32
    BY <1>0, <1>28, <1>15, LenType
  <2>2. z13 \o w11 \in Text /\ Len(z13 \o w11) = Len(z13) + Len(w11)
    BY Joined
  <2> QED
    BY <2>1, <2>2, Zenon
<1>30. PICK z15 \in Text : z15 = z14 \o w6 /\ Len(z15) = Len(x) + Len(y) + 33
  <2>1. Len(z14) + Len(w6) = Len(x) + Len(y) + 33
    BY <1>0, <1>29, <1>15, LenType
  <2>2. z14 \o w6 \in Text /\ Len(z14 \o w6) = Len(z14) + Len(w6)
    BY Joined
  <2> QED
    BY <2>1, <2>2, Zenon
<1>31. PICK z16 \in Text : z16 = z15 \o w12 /\ Len(z16) = Len(x) + Len(y) + 37
  <2>1. Len(z15) + Len(w12) = Len(x) + Len(y) + 37
    BY <1>0, <1>30, <1>15, LenType
  <2>2. z15 \o w12 \in Text /\ Len(z15 \o w12) = Len(z15) + Len(w12)
    BY Joined
  <2> QED
    BY <2>1, <2>2, Zenon
<1>32. PICK z17 \in Text : z17 = z16 \o w13 /\ Len(z17) = Len(x) + Len(y) + 40
  <2>1. Len(z16) + Len(w13) = Len(x) + Len(y) + 40
    BY <1>0, <1>31, <1>15, LenType
  <2>2. z16 \o w13 \in Text /\ Len(z16 \o w13) = Len(z16) + Len(w13)
    BY Joined
  <2> QED
    BY <2>1, <2>2, Zenon
<1>33. PICK z18 \in Text : z18 = z17 \o w14 /\ Len(z18) = Len(x) + Len(y) + 41
  <2>1. Len(z17) + Len(w14) = Len(x) + Len(y) + 41
    BY <1>0, <1>32, <1>15, LenType
  <2>2. z17 \o w14 \in Text /\ Len(z17 \o w14) = Len(z17) + Len(w14)
    BY Joined
  <2> QED
    BY <2>1, <2>2, Zenon
<1>34. Prefix(z18, z18)
  BY LenType DEF Prefix, At
<1>35. Prefix(z17, z18) /\ At(z18, Len(x) + Len(y) + 40, w14)
  <2>1. Prefix(z17 \o w14, z18)
    BY <1>33, <1>34, Zenon
  <2> QED
    BY <1>32, <2>1, Piece, Zenon
<1>36. Prefix(z16, z18) /\ At(z18, Len(x) + Len(y) + 37, w13)
  <2>1. Prefix(z16 \o w13, z18)
    BY <1>32, <1>35, Zenon
  <2> QED
    BY <1>31, <2>1, Piece, Zenon
<1>37. Prefix(z15, z18) /\ At(z18, Len(x) + Len(y) + 33, w12)
  <2>1. Prefix(z15 \o w12, z18)
    BY <1>31, <1>36, Zenon
  <2> QED
    BY <1>30, <2>1, Piece, Zenon
<1>38. Prefix(z14, z18) /\ At(z18, Len(x) + Len(y) + 32, w6)
  <2>1. Prefix(z14 \o w6, z18)
    BY <1>30, <1>37, Zenon
  <2> QED
    BY <1>29, <2>1, Piece, Zenon
<1>39. Prefix(z13, z18) /\ At(z18, Len(x) + Len(y) + 31, w11)
  <2>1. Prefix(z13 \o w11, z18)
    BY <1>29, <1>38, Zenon
  <2> QED
    BY <1>28, <2>1, Piece, Zenon
<1>40. Prefix(z12, z18) /\ At(z18, Len(x) + Len(y) + 27, w10)
  <2>1. Prefix(z12 \o w10, z18)
    BY <1>28, <1>39, Zenon
  <2> QED
    BY <1>27, <2>1, Piece, Zenon
<1>41. Prefix(z11, z18) /\ At(z18, Len(x) + Len(y) + 26, w6)
  <2>1. Prefix(z11 \o w6, z18)
    BY <1>27, <1>40, Zenon
  <2> QED
    BY <1>26, <2>1, Piece, Zenon
<1>42. Prefix(z10, z18) /\ At(z18, Len(x) + 26, y)
  <2>1. Prefix(z10 \o y, z18)
    BY <1>26, <1>41, Zenon
  <2> QED
    BY <1>25, <2>1, Piece, Zenon
<1>43. Prefix(z9, z18) /\ At(z18, Len(x) + 22, w9)
  <2>1. Prefix(z9 \o w9, z18)
    BY <1>25, <1>42, Zenon
  <2> QED
    BY <1>24, <2>1, Piece, Zenon
<1>44. Prefix(z8, z18) /\ At(z18, Len(x) + 21, w6)
  <2>1. Prefix(z8 \o w6, z18)
    BY <1>24, <1>43, Zenon
  <2> QED
    BY <1>23, <2>1, Piece, Zenon
<1>45. Prefix(z7, z18) /\ At(z18, 19, w8)
  <2>1. Prefix(z7 \o w8, z18)
    BY <1>23, <1>44, Zenon
  <2> QED
    BY <1>22, <2>1, Piece, Zenon
<1>46. Prefix(z6, z18) /\ At(z18, 15, w7)
  <2>1. Prefix(z6 \o w7, z18)
    BY <1>22, <1>45, Zenon
  <2> QED
    BY <1>21, <2>1, Piece, Zenon
<1>47. Prefix(z5, z18) /\ At(z18, 14, w6)
  <2>1. Prefix(z5 \o w6, z18)
    BY <1>21, <1>46, Zenon
  <2> QED
    BY <1>20, <2>1, Piece, Zenon
<1>48. Prefix(z4, z18) /\ At(z18, 11, w5)
  <2>1. Prefix(z4 \o w5, z18)
    BY <1>20, <1>47, Zenon
  <2> QED
    BY <1>19, <2>1, Piece, Zenon
<1>49. Prefix(z3, z18) /\ At(z18, 7, w4)
  <2>1. Prefix(z3 \o w4, z18)
    BY <1>19, <1>48, Zenon
  <2> QED
    BY <1>18, <2>1, Piece, Zenon
<1>50. Prefix(z2, z18) /\ At(z18, 5, w3)
  <2>1. Prefix(z2 \o w3, z18)
    BY <1>18, <1>49, Zenon
  <2> QED
    BY <1>17, <2>1, Piece, Zenon
<1>51. Prefix(z1, z18) /\ At(z18, 1, w2)
  <2>1. Prefix(z1 \o w2, z18)
    BY <1>17, <1>50, Zenon
  <2> QED
    BY <1>16, <2>1, Piece, Zenon
<1>52. At(z18, 0, w1)
  BY <1>16, <1>51, Zenon DEF Prefix
<1>53. z18 = PingLine(T, x, y, loss, modo)
  BY <1>1, <1>2, <1>3, <1>4, <1>5, <1>6, <1>7, <1>8, <1>9, <1>10, <1>11, <1>12, <1>13,
     <1>14, <1>16, <1>17, <1>18, <1>19, <1>20, <1>21, <1>22, <1>23, <1>24, <1>25, <1>26,
     <1>27, <1>28, <1>29, <1>30, <1>31, <1>32, <1>33, Zenon DEF PingLine
<1> QED
  BY <1>1, <1>2, <1>3, <1>4, <1>5, <1>6, <1>7, <1>8, <1>9, <1>10, <1>11, <1>12, <1>13,
     <1>14, <1>33, <1>35, <1>36, <1>37, <1>38, <1>39, <1>40, <1>41, <1>42, <1>43, <1>44,
     <1>45, <1>46, <1>47, <1>48, <1>49, <1>50, <1>51, <1>52, <1>53, Zenon DEF PingLaid

(* Behind an escaped host, nothing but a key looks like one: the places of  *)
(* the six keys, whatever the tokens are.                                   *)
Behaved(line, n, r, q, colon, comma, back) ==
    /\ q # colon /\ q # comma /\ colon # comma
    /\ {line[1], line[3], line[6], line[9], line[13], line[17]} \cap {q} = {}
    /\ {line[5], line[11], line[19]} = {colon} /\ {line[7], line[15]} = {comma}
    /\ \A j \in 1..n : line[20 + j] = q => j > 1 /\ line[20 + (j - 1)] = back
    /\ line[n + 22] = comma /\ line[n + 24] \notin {q, colon} /\ line[n + 26] = colon
    /\ \A j \in 1..r : line[n + 26 + j] # q
    /\ line[n + r + 27] = comma /\ line[n + r + 29] \notin {q, colon}
    /\ line[n + r + 31] = colon /\ line[n + r + 32] # q /\ line[n + r + 33] = comma
    /\ line[n + r + 35] \notin {q, colon} /\ line[n + r + 37] = colon
    /\ line[n + r + 39] # q /\ line[n + r + 41] # colon

LooksNamed(line, i, key, q, colon, comma, back) ==
    /\ key \notin {q, colon, comma, back}
    /\ line[i] = q /\ line[i + 1] = key /\ line[i + 2] = q /\ line[i + 3] = colon

LEMMA OnlyKeys ==
    ASSUME NEW line, NEW n \in Nat, NEW r \in Nat, NEW q, NEW colon, NEW comma, NEW back,
           NEW key, NEW i \in 1..(n + r + 38),
           Behaved(line, n, r, q, colon, comma, back),
           LooksNamed(line, i, key, q, colon, comma, back)
    PROVE  i \in {2, 8, 16, n + 23, n + r + 28, n + r + 34}
<1> USE DEF Behaved, LooksNamed
<1>1. CASE i \in 1..18
  <2>1. i \in {1, 2, 3, 4, 5, 6, 7, 8, 9, 10, 11, 12, 13, 14, 15, 16, 17, 18}
    BY <1>1
  <2>2. /\ i # 1 /\ i # 3 /\ i # 6 /\ i # 9 /\ i # 13 /\ i # 17
        /\ i # 5 /\ i # 11 /\ i # 7 /\ i # 15
    <3>1. q \notin {line[1], line[3], line[6], line[9], line[13], line[17]}
      <4>1. {line[1], line[3], line[6], line[9], line[13], line[17]} \cap {q} = {}
        BY Zenon
      <4> QED
        BY <4>1, Zenon
    <3>2. line[5] = colon /\ line[11] = colon /\ line[7] = comma /\ line[15] = comma
      <4>1. \A a, b, c, d : {a, b, c} = {d} => a = d /\ b = d
        OBVIOUS
      <4>2. \A a, b, d : {a, b} = {d} => a = d /\ b = d
        OBVIOUS
      <4>3. {line[5], line[11], line[19]} = {colon} /\ {line[7], line[15]} = {comma}
        OBVIOUS
      <4> HIDE DEF Behaved, LooksNamed
      <4>4. line[5] = colon /\ line[11] = colon
        BY <4>1, <4>3, Zenon
      <4>5. line[7] = comma /\ line[15] = comma
        BY <4>2, <4>3, Zenon
      <4> QED
        BY <4>4, <4>5
    <3>3. line[i] = q /\ q # colon /\ q # comma
      BY Zenon
    <3> QED
      BY <3>1, <3>2, <3>3
  <2>3. i # 4 /\ i # 10 /\ i # 18 /\ i # 12 /\ i # 14
    OBVIOUS
  <2> QED
    BY <2>1, <2>2, <2>3
<1>2. CASE i \in 19..(n + 18)
  <2>1. PICK j \in 1..n : i = 18 + j
    <3>1. i - 18 \in 1..n /\ i = 18 + (i - 18)
      BY <1>2
    <3> QED
      BY <3>1
  <2>2. i + 2 = 20 + j /\ i + 1 = 20 + (j - 1)
    BY <2>1
  <2>3. line[i + 1] = back
    BY <2>2
  <2> QED
    BY <2>3
<1>3. CASE i \in (n + 19)..(n + 24)
  <2>1. i \in {n + 19, n + 20, n + 21, n + 22, n + 23, n + 24}
    BY <1>3
  <2>2. i # n + 19
    OBVIOUS
  <2>3. i # n + 20
    OBVIOUS
  <2>4. i # n + 21
    OBVIOUS
  <2>5. i # n + 22 /\ i # n + 24
    OBVIOUS
  <2> QED
    BY <2>1, <2>2, <2>3, <2>4, <2>5
<1>4. CASE i \in (n + 25)..(n + r + 24)
  <2>1. PICK j \in 1..r : i + 2 = n + 26 + j
    <3>1. i - n - 24 \in 1..r /\ i + 2 = n + 26 + (i - n - 24)
      BY <1>4
    <3> QED
      BY <3>1
  <2> QED
    BY <2>1
<1>5. CASE i \in (n + r + 25)..(n + r + 38)
  <2>1. PICK k \in 25..38 : i = n + r + k
    <3>1. i - n - r \in 25..38 /\ i = n + r + (i - n - r)
      BY <1>5
    <3> QED
      BY <3>1
  <2>2. k \in {25, 26, 27, 28, 29, 30, 31, 32, 33, 34, 35, 36, 37, 38}
    BY <2>1
  <2>3. k # 25 /\ k # 26 /\ k # 27 /\ k # 29
    BY <2>1
  <2>4. k # 30 /\ k # 31 /\ k # 32 /\ k # 33
    BY <2>1
  <2>5. k # 35 /\ k # 36 /\ k # 37 /\ k # 38
    BY <2>1
  <2> QED
    BY <2>1, <2>2, <2>3, <2>4, <2>5
<1> QED
  BY <1>1, <1>2, <1>3, <1>4, <1>5

------------------------------------------------------------------------------
(* raw_field: what follows the first place that looks like the key. *)

Named(line, i, key) ==
    /\ line[i] = Quote /\ line[i + 1] = key
    /\ line[i + 2] = Quote /\ line[i + 3] = ":"

First(line, key, p, rest) ==
    /\ line \in Text /\ p \in Nat /\ rest \in Nat
    /\ p >= 1 /\ rest >= 1 /\ Len(line) = p + 3 + rest
    /\ Named(line, p, key)
    /\ \A i \in 1..(p + rest) : Named(line, i, key) => i >= p

LEMMA NamedIsKey ==
    ASSUME NEW line \in Text, NEW key, NEW i, i \in 1..(Len(line) - 3)
    PROVE  (line[i + 1] = key /\ SubSeq(line, i, i + 3) = Key(key)) <=> Named(line, i, key)
<1>0. Len(line) \in Nat /\ \A j \in 1..Len(line) : line[j] \in Tokens
  BY DEF Text
<1>1. i \in Int /\ i + 3 \in Int /\ \A j \in i..(i + 3) : line[j] \in Tokens
  BY <1>0
<1>2. PICK w : w = SubSeq(line, i, i + 3)
  OBVIOUS
<1>3. /\ w \in Seq(Tokens) /\ Len(w) = (IF i <= i + 3 THEN (i + 3) - i + 1 ELSE 0)
      /\ \A j \in 1..((i + 3) - i + 1) : w[j] = line[i + j - 1]
  BY <1>1, <1>2, SubSeqProperties
<1>4. Len(w) = 4 /\ 1..((i + 3) - i + 1) = {1, 2, 3, 4}
  BY <1>0, <1>3
<1>5. w[1] = line[i] /\ w[2] = line[i + 1] /\ w[3] = line[i + 2] /\ w[4] = line[i + 3]
  BY <1>0, <1>3, <1>4
<1>6. PICK v : v = Key(key)
  OBVIOUS
<1>7. v = <<v[1], v[2], v[3], v[4]>> /\ v[1] = Quote /\ v[2] = key /\ v[3] = Quote /\ v[4] = ":"
  BY <1>6 DEF Key
<1>8. w = <<w[1], w[2], w[3], w[4]>>
  BY <1>3, <1>4
<1>9. w = v <=> w[1] = v[1] /\ w[2] = v[2] /\ w[3] = v[3] /\ w[4] = v[4]
  BY <1>7, <1>8, Zenon
<1> QED
  BY <1>2, <1>5, <1>6, <1>7, <1>9, Zenon DEF Named

LEMMA AfterFirst ==
    ASSUME NEW line, NEW key, NEW p, NEW rest, First(line, key, p, rest)
    PROVE  After(line, key) = SubSeq(line, p + 4, p + 3 + rest)
<1> DEFINE at == {i \in 1..(Len(line) - 3) :
                    line[i + 1] = key /\ SubSeq(line, i, i + 3) = Key(key)}
<1>1. p \in Nat /\ rest \in Nat /\ Len(line) = p + 3 + rest /\ p >= 1 /\ line \in Text
      /\ Len(line) - 3 = p + rest
  BY DEF First
<1>2. p \in at /\ \A i \in at : p <= i
  <2>1. \A i \in 1..(Len(line) - 3) :
           (line[i + 1] = key /\ SubSeq(line, i, i + 3) = Key(key)) <=> Named(line, i, key)
    BY <1>1, NamedIsKey
  <2>2. p \in 1..(Len(line) - 3)
    BY <1>1 DEF First
  <2>3. p \in at
    BY <2>1, <2>2 DEF First
  <2>4. ASSUME NEW i \in at PROVE p <= i
    <3>1. i \in 1..(p + rest) /\ Named(line, i, key)
      BY <1>1, <2>1
    <3> QED
      BY <1>1, <3>1 DEF First
  <2> QED
    BY <2>3, <2>4
<1>3. \A i \in at : (\A j \in at : i <= j) => i = p
  <2>1. \A i \in at : i \in Int
    BY <1>1
  <2> HIDE DEF at
  <2> QED
    BY <1>1, <1>2, <2>1
<1>4. Min(at) = p /\ at # {}
  <2> HIDE DEF at
  <2> QED
    BY <1>2, <1>3, Zenon DEF Min
<1>5. After(line, key) = SubSeq(line, Min(at) + 4, Len(line))
  BY <1>4, Zenon DEF After
<1> HIDE DEF at
<1> QED
  BY <1>1, <1>4, <1>5

LEMMA RestIs ==
    ASSUME NEW line, NEW key, NEW p, NEW rest, First(line, key, p, rest)
    PROVE  \E d \in Text : /\ d = After(line, key) /\ Len(d) = rest /\ d # <<>>
                           /\ \A j \in 1..rest : d[j] = line[p + 3 + j]
<1>1. p \in Nat /\ rest \in Nat /\ Len(line) = p + 3 + rest /\ rest >= 1 /\ line \in Text
  BY DEF First
<1>2. PICK a \in Int, b \in Int : a = p + 4 /\ b = p + 3 + rest
  BY <1>1
<1>3. \A j \in a..b : line[j] \in Tokens
  BY <1>1, <1>2 DEF Text
<1>4. PICK d : d = SubSeq(line, a, b)
  OBVIOUS
<1>5. /\ d \in Seq(Tokens) /\ Len(d) = (IF a <= b THEN b - a + 1 ELSE 0)
      /\ \A j \in 1..(b - a + 1) : d[j] = line[a + j - 1]
  BY <1>3, <1>4, SubSeqProperties
<1>6. Len(d) = rest /\ b - a + 1 = rest /\ d \in Text
  <2>1. b - a + 1 = rest /\ a <= b
    BY <1>1, <1>2
  <2>2. d \in Text
    BY <1>5, Zenon DEF Text
  <2>3. Len(d) = b - a + 1
    BY <1>5, <2>1, Zenon
  <2> QED
    BY <2>1, <2>2, <2>3, Zenon
<1>7. d # <<>>
  BY <1>1, <1>6
<1>8. ASSUME NEW j \in 1..rest PROVE d[j] = line[p + 3 + j]
  <2>1. a + j - 1 = p + 3 + j
    BY <1>1, <1>2
  <2> QED
    BY <1>5, <1>6, <2>1
<1>9. d = After(line, key)
  BY <1>2, <1>4, AfterFirst
<1> QED
  BY <1>6, <1>7, <1>8, <1>9

LEMMA SliceIs ==
    ASSUME NEW d \in Text, NEW x \in Text, NEW a \in Nat, a >= 1,
           Len(d) >= a + Len(x) - 1, \A j \in 1..Len(x) : d[a + j - 1] = x[j]
    PROVE  SubSeq(d, a, a + Len(x) - 1) = x
<1>0. PICK n \in Nat : n = Len(x) /\ Len(d) \in Nat
  BY LenType
<1>1. PICK b \in Int : b = a + n - 1
  <2>1. a + n - 1 \in Int
    BY <1>0
  <2> QED
    BY <2>1
<1>2. \A j \in a..b : d[j] \in Tokens
  BY <1>0, <1>1 DEF Text
<1>3. PICK w : w = SubSeq(d, a, b)
  OBVIOUS
<1>4. /\ w \in Seq(Tokens) /\ Len(w) = (IF a <= b THEN b - a + 1 ELSE 0)
      /\ \A j \in 1..(b - a + 1) : w[j] = d[a + j - 1]
  BY <1>2, <1>3, SubSeqProperties
<1>5. Len(w) = n /\ b - a + 1 = n
  BY <1>0, <1>1, <1>4
<1>6. \A j \in 1..n : w[j] = x[j]
  BY <1>0, <1>4, <1>5
<1>7. w = x
  BY <1>0, <1>4, <1>5, <1>6, SeqEqual DEF Text
<1> QED
  BY <1>0, <1>1, <1>3, <1>7

(* A string's text, as it was escaped. *)
LEMMA StringField ==
    ASSUME NEW line, NEW key, NEW p, NEW rest, First(line, key, p, rest),
           NEW s \in Text, NEW x \in Text, NEW at, Laid(s, x, at), rest >= Len(x) + 2,
           line[p + 4] = Quote, \A j \in 1..Len(x) : line[p + 4 + j] = x[j],
           line[p + 5 + Len(x)] = Quote
    PROVE  raw_field(line, key) = <<x>>
<1>0. PICK n \in Nat : n = Len(x)
  BY LenType
<1>1. p \in Nat /\ rest \in Nat /\ rest >= n + 2
  BY <1>0 DEF First
<1>2. PICK d \in Text : /\ d = After(line, key) /\ Len(d) = rest /\ d # <<>>
                        /\ \A j \in 1..rest : d[j] = line[p + 3 + j]
  BY RestIs
<1>3. d[1] = Quote
  <2>1. 1 \in 1..rest /\ p + 3 + 1 = p + 4
    BY <1>1
  <2> QED
    BY <1>2, <2>1
<1>4. ASSUME NEW j \in 1..n PROVE d[j + 1] = x[j]
  <2>1. j + 1 \in 1..rest /\ p + 3 + (j + 1) = p + 4 + j
    BY <1>1
  <2> QED
    BY <1>0, <1>2, <2>1
<1>5. d[n + 2] = Quote
  <2>1. n + 2 \in 1..rest /\ p + 3 + (n + 2) = p + 5 + n
    BY <1>1
  <2> QED
    BY <1>0, <1>2, <2>1
<1>6. ClosingQuote(d) = n + 2
  <2>1. Len(d) >= Len(x) + 2 /\ d[Len(x) + 2] = Quote
    BY <1>0, <1>1, <1>2, <1>5
  <2>2. \A j \in 1..Len(x) : d[j + 1] = x[j]
    BY <1>0, <1>4
  <2>3. ClosingQuote(d) = Len(x) + 2
    BY <2>1, <2>2, ClosesAfterLaid
  <2> QED
    BY <1>0, <2>3
<1>7. SubSeq(d, 2, n + 1) = x
  <2>1. 2 \in Nat /\ 2 >= 1 /\ Len(d) >= 2 + Len(x) - 1
    BY <1>0, <1>1, <1>2
  <2>2. \A j \in 1..Len(x) : d[2 + j - 1] = x[j]
    <3>1. \A j \in 1..n : 2 + j - 1 = j + 1
      OBVIOUS
    <3> QED
      BY <1>0, <1>4, <3>1
  <2>3. SubSeq(d, 2, 2 + Len(x) - 1) = x
    BY <2>1, <2>2, SliceIs
  <2>4. 2 + Len(x) - 1 = n + 1
    BY <1>0
  <2> QED
    BY <2>3, <2>4
<1>8. ClosingQuote(d) # 0 /\ ClosingQuote(d) - 1 = n + 1
  BY <1>6
<1>9. raw_field(line, key) = <<SubSeq(d, 2, ClosingQuote(d) - 1)>>
  BY <1>2, <1>3, <1>8, Zenon DEF raw_field
<1> QED
  BY <1>7, <1>8, <1>9

(* What is not quoted goes to the next comma or brace. *)
Stops == {",", "}"}

LEMMA BareField ==
    ASSUME NEW line, NEW key, NEW p, NEW rest, First(line, key, p, rest),
           NEW y \in Text, Len(y) >= 1, rest >= Len(y) + 1, y[1] # Quote,
           \A j \in 1..Len(y) : line[p + 3 + j] = y[j] /\ y[j] \notin Stops,
           line[p + 4 + Len(y)] \in Stops
    PROVE  raw_field(line, key) = <<y>>
<1>0. PICK n \in Nat : n = Len(y) /\ n >= 1
  BY LenType
<1>1. p \in Nat /\ rest \in Nat /\ rest >= n + 1
  BY <1>0 DEF First
<1>2. PICK d \in Text : /\ d = After(line, key) /\ Len(d) = rest /\ d # <<>>
                        /\ \A j \in 1..rest : d[j] = line[p + 3 + j]
  BY RestIs
<1>3. ASSUME NEW j \in 1..n PROVE d[j] = y[j] /\ d[j] \notin Stops
  <2>1. j \in 1..rest
    BY <1>1
  <2> QED
    BY <1>0, <1>2, <2>1
<1>4. d[1] # Quote
  BY <1>0, <1>3
<1>5. d[n + 1] \in Stops
  <2>1. n + 1 \in 1..rest /\ p + 3 + (n + 1) = p + 4 + n
    BY <1>1
  <2> QED
    BY <1>0, <1>2, <2>1
<1> DEFINE stop == {i \in DOMAIN d : d[i] \in Stops}
<1>6. DOMAIN d = 1..rest
  BY <1>2 DEF Text
<1>7. n + 1 \in stop /\ \A i \in stop : i \in 1..rest /\ n + 1 <= i
  <2>1. n + 1 \in 1..rest
    BY <1>1
  <2>2. n + 1 \in stop
    BY <1>5, <1>6, <2>1
  <2>3. ASSUME NEW i \in stop PROVE i \in 1..rest /\ n + 1 <= i
    <3>1. i \in 1..rest /\ d[i] \in Stops
      BY <1>6
    <3>2. i \notin 1..n
      BY <1>3, <3>1
    <3> QED
      BY <3>1, <3>2
  <2> QED
    BY <2>2, <2>3
<1>8. Min(stop) = n + 1 /\ stop # {}
  <2> HIDE DEF stop
  <2>1. \A i \in stop : (\A j \in stop : i <= j) => i = n + 1
    BY <1>1, <1>7
  <2> QED
    BY <1>7, <2>1, Zenon DEF Min
<1>9. raw_field(line, key) = <<SubSeq(d, 1, Min(stop) - 1)>>
  BY <1>2, <1>4, <1>8, Zenon DEF raw_field, Stops
<1>10. SubSeq(d, 1, n) = y
  <2>1. 1 \in Nat /\ 1 >= 1 /\ Len(d) >= 1 + Len(y) - 1
    BY <1>0, <1>1, <1>2
  <2>2. \A j \in 1..Len(y) : d[1 + j - 1] = y[j]
    <3>1. \A j \in 1..n : 1 + j - 1 = j
      OBVIOUS
    <3> QED
      BY <1>0, <1>3, <3>1
  <2>3. SubSeq(d, 1, 1 + Len(y) - 1) = y
    BY <2>1, <2>2, SliceIs
  <2>4. 1 + Len(y) - 1 = n
    BY <1>0
  <2> QED
    BY <2>3, <2>4
<1>11. (n + 1) - 1 = n
  OBVIOUS
<1> HIDE DEF stop
<1> QED
  BY <1>8, <1>9, <1>10, <1>11

------------------------------------------------------------------------------
(* The six fields of a sample's line. *)

Comma == ","
Brace == "{"
Close == "}"

LEMMA Punctuation ==
    /\ Comma # Quote /\ Comma # ":" /\ Comma # Backslash /\ Quote # ":" /\ Quote # Backslash
    /\ Brace # Quote /\ Close # ":" /\ Close # Quote
    /\ Stops = {Comma, Close}
BY DEF Comma, Brace, Close, Quote, Backslash, Stops

(* The tokens of numbers and of single words. *)
Plain == {c \in Tokens : Plainly(c) /\ c # ":" /\ c \notin Stops}

LEMMA OneAt == ASSUME NEW line, NEW p, NEW a, At(line, p, <<a>>) PROVE line[p + 1] = a
<1>1. Len(<<a>>) = 1 /\ <<a>>[1] = a
  OBVIOUS
<1>2. 1 \in 1..Len(<<a>>)
  BY <1>1
<1> QED
  BY <1>1, <1>2, Zenon DEF At

LEMMA TwoAt ==
    ASSUME NEW line, NEW p, NEW a, NEW b, At(line, p, <<a, b>>)
    PROVE  line[p + 1] = a /\ line[p + 2] = b
<1>1. Len(<<a, b>>) = 2 /\ <<a, b>>[1] = a /\ <<a, b>>[2] = b
  OBVIOUS
<1>2. 1 \in 1..Len(<<a, b>>) /\ 2 \in 1..Len(<<a, b>>)
  BY <1>1
<1> QED
  BY <1>1, <1>2, Zenon DEF At

PingPlaces(line, n, r, T, x, y, loss, modo) ==
    /\ line \in Text /\ Len(line) = n + r + 41
    /\ line[1] = Brace
    /\ line[2] = Quote /\ line[3] = "t" /\ line[4] = Quote /\ line[5] = ":"
    /\ line[6] = T /\ line[7] = Comma
    /\ line[8] = Quote /\ line[9] = "kind" /\ line[10] = Quote /\ line[11] = ":"
    /\ line[12] = Quote /\ line[13] = "ping" /\ line[14] = Quote /\ line[15] = Comma
    /\ line[16] = Quote /\ line[17] = "host" /\ line[18] = Quote /\ line[19] = ":"
    /\ line[20] = Quote /\ line[n + 21] = Quote /\ line[n + 22] = Comma
    /\ \A j \in 1..n : line[20 + j] = x[j]
    /\ line[n + 23] = Quote /\ line[n + 24] = "rtt_ms" /\ line[n + 25] = Quote
    /\ line[n + 26] = ":"
    /\ \A j \in 1..r : line[n + 26 + j] = y[j]
    /\ line[n + r + 27] = Comma
    /\ line[n + r + 28] = Quote /\ line[n + r + 29] = "loss_pct" /\ line[n + r + 30] = Quote
    /\ line[n + r + 31] = ":" /\ line[n + r + 32] = loss /\ line[n + r + 33] = Comma
    /\ line[n + r + 34] = Quote /\ line[n + r + 35] = "modo" /\ line[n + r + 36] = Quote
    /\ line[n + r + 37] = ":"
    /\ line[n + r + 38] = Quote /\ line[n + r + 39] = modo /\ line[n + r + 40] = Quote
    /\ line[n + r + 41] = Close

LEMMA PingPlaced ==
    ASSUME NEW line, NEW T, NEW x \in Text, NEW y \in Text, NEW loss, NEW modo \in Tokens,
           NEW n \in Nat, NEW r \in Nat, n = Len(x), r = Len(y),
           PingLaid(line, T, x, y, loss, modo)
    PROVE  PingPlaces(line, n, r, T, x, y, loss, modo)
<1>1. /\ line \in Text /\ Len(line) = n + r + 41
      /\ At(line, 0, <<Brace>>)
      /\ At(line, 1, Key("t"))
      /\ At(line, 5, <<T, Comma>>)
      /\ At(line, 7, Key("kind"))
      /\ At(line, 11, String(<<"ping">>))
      /\ At(line, 14, <<Comma>>)
      /\ At(line, 15, Key("host"))
      /\ At(line, 19, String(x))
      /\ At(line, n + 21, <<Comma>>)
      /\ At(line, n + 22, Key("rtt_ms"))
      /\ At(line, n + 26, y)
      /\ At(line, n + r + 26, <<Comma>>)
      /\ At(line, n + r + 27, Key("loss_pct"))
      /\ At(line, n + r + 31, <<loss>>)
      /\ At(line, n + r + 32, <<Comma>>)
      /\ At(line, n + r + 33, Key("modo"))
      /\ At(line, n + r + 37, String(<<modo>>))
      /\ At(line, n + r + 40, <<Close>>)
  BY Zenon DEF PingLaid, Brace, Comma, Close
<1>2. PICK ping \in Tokens : ping = "ping"
  BY Names
<1>3. <<ping>> \in Text /\ Len(<<ping>>) = 1 /\ <<modo>> \in Text /\ Len(<<modo>>) = 1
  BY Words
<1>4. line[1] = Brace
  <2>1. PICK p : p = 0
    OBVIOUS
  <2>2. At(line, p, <<Brace>>)
    BY <1>1, <2>1, Zenon
  <2>3. line[p + 1] = Brace
    BY <2>2, OneAt
  <2> QED
    BY <2>1, <2>3
<1>5. line[2] = Quote /\ line[3] = "t" /\ line[4] = Quote /\ line[5] = ":"
  <2>1. PICK p \in Nat : p = 1
    OBVIOUS
  <2>2. PICK key : key = "t"
    OBVIOUS
  <2>3. At(line, p, Key(key))
    BY <1>1, <2>1, <2>2, Zenon
  <2>4. line[p + 1] = Quote /\ line[p + 2] = key /\ line[p + 3] = Quote /\ line[p + 4] = ":"
    BY <2>3, KeyAt
  <2> QED
    BY <2>1, <2>2, <2>4
<1>6. line[6] = T /\ line[7] = Comma
  <2>1. PICK p : p = 5
    OBVIOUS
  <2>2. At(line, p, <<T, Comma>>)
    BY <1>1, <2>1, Zenon
  <2>3. line[p + 1] = T /\ line[p + 2] = Comma
    BY <2>2, TwoAt
  <2> QED
    BY <2>1, <2>3
<1>7. line[8] = Quote /\ line[9] = "kind" /\ line[10] = Quote /\ line[11] = ":"
  <2>1. PICK p \in Nat : p = 7
    OBVIOUS
  <2>2. PICK key : key = "kind"
    OBVIOUS
  <2>3. At(line, p, Key(key))
    BY <1>1, <2>1, <2>2, Zenon
  <2>4. line[p + 1] = Quote /\ line[p + 2] = key /\ line[p + 3] = Quote /\ line[p + 4] = ":"
    BY <2>3, KeyAt
  <2> QED
    BY <2>1, <2>2, <2>4
<1>8. line[12] = Quote /\ line[13] = "ping" /\ line[14] = Quote
  <2>1. /\ line[11 + 1] = Quote /\ line[Len(<<ping>>) + (11 + 2)] = Quote
        /\ At(line, 11 + 1, <<ping>>)
    BY <1>1, <1>2, <1>3, StringAt
  <2>2. line[11 + 1 + 1] = ping
    BY <2>1, OneAt
  <2> QED
    BY <1>2, <1>3, <2>1, <2>2
<1>9. line[15] = Comma
  <2>1. PICK p : p = 14
    OBVIOUS
  <2>2. At(line, p, <<Comma>>)
    BY <1>1, <2>1, Zenon
  <2>3. line[p + 1] = Comma
    BY <2>2, OneAt
  <2> QED
    BY <2>1, <2>3
<1>10. line[16] = Quote /\ line[17] = "host" /\ line[18] = Quote /\ line[19] = ":"
  <2>1. PICK p \in Nat : p = 15
    OBVIOUS
  <2>2. PICK key : key = "host"
    OBVIOUS
  <2>3. At(line, p, Key(key))
    BY <1>1, <2>1, <2>2, Zenon
  <2>4. line[p + 1] = Quote /\ line[p + 2] = key /\ line[p + 3] = Quote /\ line[p + 4] = ":"
    BY <2>3, KeyAt
  <2> QED
    BY <2>1, <2>2, <2>4
<1>11. /\ line[20] = Quote /\ line[n + 21] = Quote /\ \A j \in 1..n : line[20 + j] = x[j]
  <2>1. line[19 + 1] = Quote /\ line[Len(x) + (19 + 2)] = Quote /\ At(line, 19 + 1, x)
    BY <1>1, StringAt
  <2> QED
    BY <2>1 DEF At
<1>12. line[n + 22] = Comma
  <2>1. PICK p : p = n + 21
    OBVIOUS
  <2>2. At(line, p, <<Comma>>)
    BY <1>1, <2>1, Zenon
  <2>3. line[p + 1] = Comma
    BY <2>2, OneAt
  <2> QED
    BY <2>1, <2>3
<1>13. /\ line[n + 23] = Quote /\ line[n + 24] = "rtt_ms" /\ line[n + 25] = Quote
       /\ line[n + 26] = ":"
  <2>1. PICK p \in Nat : p = n + 22
    OBVIOUS
  <2>2. PICK key : key = "rtt_ms"
    OBVIOUS
  <2>3. At(line, p, Key(key))
    BY <1>1, <2>1, <2>2, Zenon
  <2>4. line[p + 1] = Quote /\ line[p + 2] = key /\ line[p + 3] = Quote /\ line[p + 4] = ":"
    BY <2>3, KeyAt
  <2> QED
    BY <2>1, <2>2, <2>4
<1>14. \A j \in 1..r : line[n + 26 + j] = y[j]
  BY <1>1 DEF At
<1>15. line[n + r + 27] = Comma
  <2>1. PICK p : p = n + r + 26
    OBVIOUS
  <2>2. At(line, p, <<Comma>>)
    BY <1>1, <2>1, Zenon
  <2>3. line[p + 1] = Comma
    BY <2>2, OneAt
  <2> QED
    BY <2>1, <2>3
<1>16. /\ line[n + r + 28] = Quote /\ line[n + r + 29] = "loss_pct" /\ line[n + r + 30] = Quote
       /\ line[n + r + 31] = ":"
  <2>1. PICK p \in Nat : p = n + r + 27
    OBVIOUS
  <2>2. PICK key : key = "loss_pct"
    OBVIOUS
  <2>3. At(line, p, Key(key))
    BY <1>1, <2>1, <2>2, Zenon
  <2>4. line[p + 1] = Quote /\ line[p + 2] = key /\ line[p + 3] = Quote /\ line[p + 4] = ":"
    BY <2>3, KeyAt
  <2> QED
    BY <2>1, <2>2, <2>4
<1>17. line[n + r + 32] = loss
  <2>1. PICK p : p = n + r + 31
    OBVIOUS
  <2>2. At(line, p, <<loss>>)
    BY <1>1, <2>1, Zenon
  <2>3. line[p + 1] = loss
    BY <2>2, OneAt
  <2> QED
    BY <2>1, <2>3
<1>18. line[n + r + 33] = Comma
  <2>1. PICK p : p = n + r + 32
    OBVIOUS
  <2>2. At(line, p, <<Comma>>)
    BY <1>1, <2>1, Zenon
  <2>3. line[p + 1] = Comma
    BY <2>2, OneAt
  <2> QED
    BY <2>1, <2>3
<1>19. /\ line[n + r + 34] = Quote /\ line[n + r + 35] = "modo" /\ line[n + r + 36] = Quote
       /\ line[n + r + 37] = ":"
  <2>1. PICK p \in Nat : p = n + r + 33
    OBVIOUS
  <2>2. PICK key : key = "modo"
    OBVIOUS
  <2>3. At(line, p, Key(key))
    BY <1>1, <2>1, <2>2, Zenon
  <2>4. line[p + 1] = Quote /\ line[p + 2] = key /\ line[p + 3] = Quote /\ line[p + 4] = ":"
    BY <2>3, KeyAt
  <2> QED
    BY <2>1, <2>2, <2>4
<1>20. line[n + r + 38] = Quote /\ line[n + r + 39] = modo /\ line[n + r + 40] = Quote
  <2>0. PICK p \in Nat : p = n + r + 37
    OBVIOUS
  <2>1. /\ line[p + 1] = Quote /\ line[Len(<<modo>>) + (p + 2)] = Quote
        /\ At(line, p + 1, <<modo>>)
    BY <1>1, <1>3, <2>0, StringAt
  <2>2. line[p + 1 + 1] = modo
    BY <2>1, OneAt
  <2> QED
    BY <1>3, <2>0, <2>1, <2>2
<1>21. line[n + r + 41] = Close
  <2>1. PICK p \in Nat : p = n + r + 40 /\ At(line, p, <<Close>>)
    BY <1>1
  <2>2. line[p + 1] = Close
    BY <2>1, OneAt
  <2> QED
    BY <2>1, <2>2
<1> QED
  BY <1>1, <1>4, <1>5, <1>6, <1>7, <1>8, <1>9, <1>10, <1>11, <1>12, <1>13, <1>14, <1>15,
     <1>16, <1>17, <1>18, <1>19, <1>20, <1>21, Zenon DEF PingPlaces

PingAs(line, n, r, T, s, x, y, loss, modo) ==
    /\ PingPlaces(line, n, r, T, x, y, loss, modo)
    /\ n \in Nat /\ r \in Nat /\ s \in Text /\ x \in Text /\ y \in Text
    /\ n = Len(x) /\ r = Len(y) /\ r >= 1
    /\ \E at : Laid(s, x, at)
    /\ T \in Plain /\ loss \in Plain /\ modo \in Plain /\ \A j \in 1..r : y[j] \in Plain

LEMMA PlainType ==
    \A c \in Plain : c \in Tokens /\ c # Quote /\ c # ":" /\ c # Comma /\ c # Close /\ Plainly(c)
BY Punctuation DEF Plain, Plainly

LEMMA PingNamed ==
    ASSUME NEW line, NEW n, NEW r, NEW T, NEW s, NEW x, NEW y, NEW loss, NEW modo,
           PingAs(line, n, r, T, s, x, y, loss, modo),
           NEW key, key \notin {Quote, ":", Comma, Backslash},
           NEW i, i \in 1..(n + r + 38), Named(line, i, key)
    PROVE  \/ i = 2 /\ key = "t"
           \/ i = 8 /\ key = "kind"
           \/ i = 16 /\ key = "host"
           \/ i = n + 23 /\ key = "rtt_ms"
           \/ i = n + r + 28 /\ key = "loss_pct"
           \/ i = n + r + 34 /\ key = "modo"
<1>1. n \in Nat /\ r \in Nat /\ PingPlaces(line, n, r, T, x, y, loss, modo)
  BY DEF PingAs
<1>2. /\ line[1] = Brace /\ line[3] = "t" /\ line[6] = T /\ line[9] = "kind"
      /\ line[13] = "ping" /\ line[17] = "host"
      /\ line[5] = ":" /\ line[11] = ":" /\ line[19] = ":"
      /\ line[7] = Comma /\ line[15] = Comma
  BY <1>1, Zenon DEF PingPlaces
<1>3. /\ line[n + 22] = Comma /\ line[n + 24] = "rtt_ms" /\ line[n + 26] = ":"
      /\ line[n + r + 27] = Comma /\ line[n + r + 29] = "loss_pct" /\ line[n + r + 31] = ":"
      /\ line[n + r + 32] = loss /\ line[n + r + 33] = Comma
      /\ line[n + r + 35] = "modo" /\ line[n + r + 37] = ":"
      /\ line[n + r + 39] = modo /\ line[n + r + 41] = Close
  BY <1>1, Zenon DEF PingPlaces
<1>4. T # Quote /\ loss # Quote /\ modo # Quote /\ \A j \in 1..r : y[j] # Quote
  BY PlainType DEF PingAs
<1>5. /\ "t" \notin {Quote, ":"} /\ "kind" \notin {Quote, ":"} /\ "ping" \notin {Quote, ":"}
      /\ "host" \notin {Quote, ":"} /\ "rtt_ms" \notin {Quote, ":"}
      /\ "loss_pct" \notin {Quote, ":"} /\ "modo" \notin {Quote, ":"}
  BY DEF Quote
<1>6. \A j \in 1..n : line[20 + j] = Quote => j > 1 /\ line[20 + (j - 1)] = Backslash
  <2>1. \A j \in 1..n : line[20 + j] = x[j]
    BY <1>1 DEF PingPlaces
  <2>2. \A j \in 1..n : x[j] = Quote => j > 1 /\ x[j - 1] = Backslash
    BY LaidIsSafe DEF PingAs
  <2> SUFFICES ASSUME NEW j \in 1..n, line[20 + j] = Quote
               PROVE  j > 1 /\ line[20 + (j - 1)] = Backslash
    OBVIOUS
  <2>3. j > 1 /\ x[j - 1] = Backslash
    BY <2>1, <2>2
  <2>4. j - 1 \in 1..n
    BY <1>1, <2>3
  <2> QED
    BY <2>1, <2>3, <2>4
<1>7. \A j \in 1..r : line[n + 26 + j] # Quote
  <2>1. \A j \in 1..r : line[n + 26 + j] = y[j]
    BY <1>1, Zenon DEF PingPlaces
  <2> QED
    BY <1>4, <2>1
<1>8. line[i] = Quote /\ line[i + 1] = key /\ line[i + 2] = Quote /\ line[i + 3] = ":"
  BY DEF Named
<1>9. {line[1], line[3], line[6], line[9], line[13], line[17]} \cap {Quote} = {}
  BY <1>2, <1>4, <1>5, Punctuation
<1>10. {line[5], line[11], line[19]} = {":"} /\ {line[7], line[15]} = {Comma}
  BY <1>2
<1>11. /\ line[n + 24] \notin {Quote, ":"} /\ line[n + r + 29] \notin {Quote, ":"}
       /\ line[n + r + 32] # Quote /\ line[n + r + 35] \notin {Quote, ":"}
       /\ line[n + r + 39] # Quote /\ line[n + r + 41] # ":"
  BY <1>3, <1>4, <1>5, Punctuation
<1>12. i \in {2, 8, 16, n + 23, n + r + 28, n + r + 34}
  <2>1. PICK q : q = Quote
    OBVIOUS
  <2>2. PICK colon : colon = ":"
    OBVIOUS
  <2>3. PICK back : back = Backslash
    OBVIOUS
  <2>4. q # colon /\ q # Comma /\ colon # Comma /\ key \notin {q, colon, Comma, back}
    BY <2>1, <2>2, <2>3, Punctuation
  <2>5. /\ {line[1], line[3], line[6], line[9], line[13], line[17]} \cap {q} = {}
        /\ {line[5], line[11], line[19]} = {colon} /\ {line[7], line[15]} = {Comma}
        /\ \A j \in 1..n : line[20 + j] = q => j > 1 /\ line[20 + (j - 1)] = back
    BY <1>6, <1>9, <1>10, <2>1, <2>2, <2>3, Zenon
  <2>6. /\ line[n + 22] = Comma /\ line[n + 24] \notin {q, colon} /\ line[n + 26] = colon
        /\ \A j \in 1..r : line[n + 26 + j] # q
        /\ line[n + r + 27] = Comma /\ line[n + r + 29] \notin {q, colon}
        /\ line[n + r + 31] = colon /\ line[n + r + 32] # q /\ line[n + r + 33] = Comma
        /\ line[n + r + 35] \notin {q, colon} /\ line[n + r + 37] = colon
        /\ line[n + r + 39] # q /\ line[n + r + 41] # colon
    BY <1>3, <1>7, <1>11, <2>1, <2>2, Zenon
  <2>7. line[i] = q /\ line[i + 1] = key /\ line[i + 2] = q /\ line[i + 3] = colon
    BY <1>8, <2>1, <2>2
  <2>8. Behaved(line, n, r, q, colon, Comma, back)
    BY <2>4, <2>5, <2>6, Zenon DEF Behaved
  <2>9. LooksNamed(line, i, key, q, colon, Comma, back)
    BY <2>4, <2>7, Zenon DEF LooksNamed
  <2> QED
    BY <1>1, <2>8, <2>9, OnlyKeys, Zenon
<1>13. /\ i = 2 => key = "t"
       /\ i = 8 => key = "kind"
       /\ i = 16 => key = "host"
  BY <1>2, <1>8
<1>14. /\ i = n + 23 => key = "rtt_ms"
       /\ i = n + r + 28 => key = "loss_pct"
       /\ i = n + r + 34 => key = "modo"
  BY <1>1, <1>3, <1>8
<1> QED
  BY <1>12, <1>13, <1>14

(* Where the reader first meets each key. *)
LEMMA PingFirst ==
    ASSUME NEW line, NEW n, NEW r, NEW T, NEW s, NEW x, NEW y, NEW loss, NEW modo,
           PingAs(line, n, r, T, s, x, y, loss, modo)
    PROVE  /\ First(line, "t", 2, n + r + 36)
           /\ First(line, "kind", 8, n + r + 30)
           /\ First(line, "host", 16, n + r + 22)
           /\ First(line, "rtt_ms", n + 23, r + 15)
           /\ First(line, "loss_pct", n + r + 28, 10)
           /\ First(line, "modo", n + r + 34, 4)
<1>1. n \in Nat /\ r \in Nat /\ PingPlaces(line, n, r, T, x, y, loss, modo)
  BY DEF PingAs
<1>2. line \in Text /\ Len(line) = n + r + 41
  BY <1>1, Zenon DEF PingPlaces
<1>3. /\ line[2] = Quote /\ line[3] = "t" /\ line[4] = Quote /\ line[5] = ":"
      /\ line[8] = Quote /\ line[9] = "kind" /\ line[10] = Quote /\ line[11] = ":"
      /\ line[16] = Quote /\ line[17] = "host" /\ line[18] = Quote /\ line[19] = ":"
  BY <1>1, Zenon DEF PingPlaces
<1>4. /\ line[n + 23] = Quote /\ line[n + 24] = "rtt_ms" /\ line[n + 25] = Quote
      /\ line[n + 26] = ":"
      /\ line[n + r + 28] = Quote /\ line[n + r + 29] = "loss_pct"
      /\ line[n + r + 30] = Quote /\ line[n + r + 31] = ":"
      /\ line[n + r + 34] = Quote /\ line[n + r + 35] = "modo" /\ line[n + r + 36] = Quote
      /\ line[n + r + 37] = ":"
  BY <1>1, Zenon DEF PingPlaces
<1>5. /\ Named(line, 2, "t") /\ Named(line, 8, "kind") /\ Named(line, 16, "host")
  BY <1>3 DEF Named
<1>6. /\ Named(line, n + 23, "rtt_ms") /\ Named(line, n + r + 28, "loss_pct")
      /\ Named(line, n + r + 34, "modo")
  <2>1. /\ (n + 23) + 1 = n + 24 /\ (n + 23) + 2 = n + 25 /\ (n + 23) + 3 = n + 26
        /\ (n + r + 28) + 1 = n + r + 29 /\ (n + r + 28) + 2 = n + r + 30
        /\ (n + r + 28) + 3 = n + r + 31
        /\ (n + r + 34) + 1 = n + r + 35 /\ (n + r + 34) + 2 = n + r + 36
        /\ (n + r + 34) + 3 = n + r + 37
    BY <1>1
  <2>2. Named(line, n + 23, "rtt_ms")
    BY <1>4, <2>1, Zenon DEF Named
  <2>3. Named(line, n + r + 28, "loss_pct")
    BY <1>4, <2>1, Zenon DEF Named
  <2>4. Named(line, n + r + 34, "modo")
    BY <1>4, <2>1, Zenon DEF Named
  <2> QED
    BY <2>2, <2>3, <2>4
<1>7. \A key \in {"t", "kind", "host", "rtt_ms", "loss_pct", "modo"} :
         key \notin {Quote, ":", Comma, Backslash}
  BY DEF Quote, Comma, Backslash
<1>8. ASSUME NEW key, key \in {"t", "kind", "host", "rtt_ms", "loss_pct", "modo"},
             NEW i, i \in 1..(n + r + 38), Named(line, i, key)
      PROVE  \/ i = 2 /\ key = "t"
             \/ i = 8 /\ key = "kind"
             \/ i = 16 /\ key = "host"
             \/ i = n + 23 /\ key = "rtt_ms"
             \/ i = n + r + 28 /\ key = "loss_pct"
             \/ i = n + r + 34 /\ key = "modo"
  BY <1>7, <1>8, PingNamed
<1>9. First(line, "t", 2, n + r + 36)
  <2>1. 2 + (n + r + 36) = n + r + 38 /\ Len(line) = 2 + 3 + (n + r + 36)
    BY <1>1, <1>2
  <2>2. \A i \in 1..(2 + (n + r + 36)) : Named(line, i, "t") => i >= 2
    BY <1>1, <1>8, <2>1
  <2> QED
    BY <1>1, <1>2, <1>5, <2>1, <2>2 DEF First
<1>10. First(line, "kind", 8, n + r + 30)
  <2>1. 8 + (n + r + 30) = n + r + 38 /\ Len(line) = 8 + 3 + (n + r + 30)
    BY <1>1, <1>2
  <2>2. \A i \in 1..(8 + (n + r + 30)) : Named(line, i, "kind") => i >= 8
    BY <1>1, <1>8, <2>1
  <2> QED
    BY <1>1, <1>2, <1>5, <2>1, <2>2 DEF First
<1>11. First(line, "host", 16, n + r + 22)
  <2>1. 16 + (n + r + 22) = n + r + 38 /\ Len(line) = 16 + 3 + (n + r + 22)
    BY <1>1, <1>2
  <2>2. \A i \in 1..(16 + (n + r + 22)) : Named(line, i, "host") => i >= 16
    BY <1>1, <1>8, <2>1
  <2> QED
    BY <1>1, <1>2, <1>5, <2>1, <2>2 DEF First
<1>12. First(line, "rtt_ms", n + 23, r + 15)
  <2>1. (n + 23) + (r + 15) = n + r + 38 /\ Len(line) = (n + 23) + 3 + (r + 15)
    BY <1>1, <1>2
  <2>2. \A i \in 1..((n + 23) + (r + 15)) : Named(line, i, "rtt_ms") => i >= n + 23
    BY <1>1, <1>8, <2>1
  <2> QED
    BY <1>1, <1>2, <1>6, <2>1, <2>2 DEF First
<1>13. First(line, "loss_pct", n + r + 28, 10)
  <2>1. (n + r + 28) + 10 = n + r + 38 /\ Len(line) = (n + r + 28) + 3 + 10
    BY <1>1, <1>2
  <2>2. \A i \in 1..((n + r + 28) + 10) : Named(line, i, "loss_pct") => i >= n + r + 28
    BY <1>1, <1>8, <2>1
  <2> QED
    BY <1>1, <1>2, <1>6, <2>1, <2>2 DEF First
<1>14. First(line, "modo", n + r + 34, 4)
  <2>1. (n + r + 34) + 4 = n + r + 38 /\ Len(line) = (n + r + 34) + 3 + 4
    BY <1>1, <1>2
  <2>2. \A i \in 1..((n + r + 34) + 4) : Named(line, i, "modo") => i >= n + r + 34
    BY <1>1, <1>8, <2>1
  <2> QED
    BY <1>1, <1>2, <1>6, <2>1, <2>2 DEF First
<1> QED
  BY <1>9, <1>10, <1>11, <1>12, <1>13, <1>14

(* One plain token, quoted or bare. *)
LEMMA QuotedToken ==
    ASSUME NEW line, NEW key, NEW p, NEW rest, First(line, key, p, rest), rest >= 3,
           NEW c \in Plain,
           line[p + 4] = Quote, line[p + 5] = c, line[p + 6] = Quote
    PROVE  raw_field(line, key) = <<<<c>>>>
<1>1. p \in Nat
  BY DEF First
<1>2. c \in Tokens /\ Plainly(c)
  BY PlainType
<1>3. PICK w \in Text : w = <<c>> /\ Len(w) = 1 /\ w[1] = c
  BY <1>2, Words
<1>4. Laid(w, w, [n \in {0, 1} |-> n])
  BY <1>2, <1>3, PlainIsLaid, Zenon
<1>5. \A j \in 1..Len(w) : line[p + 4 + j] = w[j]
  <2>1. \A j \in 1..Len(w) : j = 1 /\ p + 4 + j = p + 5
    BY <1>1, <1>3
  <2> QED
    BY <1>3, <2>1
<1>6. line[p + 5 + Len(w)] = Quote /\ rest >= Len(w) + 2
  <2>1. p + 5 + Len(w) = p + 6 /\ Len(w) + 2 = 3
    BY <1>1, <1>3
  <2> QED
    BY <2>1
<1>7. raw_field(line, key) = <<w>>
  BY <1>4, <1>5, <1>6, StringField
<1> QED
  BY <1>3, <1>7

LEMMA BareToken ==
    ASSUME NEW line, NEW key, NEW p, NEW rest, First(line, key, p, rest), rest >= 2,
           NEW c \in Plain,
           line[p + 4] = c, line[p + 5] \in Stops
    PROVE  raw_field(line, key) = <<<<c>>>>
<1>1. p \in Nat
  BY DEF First
<1>2. c \in Tokens /\ c # Quote /\ c \notin Stops
  BY PlainType DEF Plain
<1>3. PICK w \in Text : w = <<c>> /\ Len(w) = 1 /\ w[1] = c
  BY <1>2, Words
<1>4. \A j \in 1..Len(w) : line[p + 3 + j] = w[j] /\ w[j] \notin Stops
  <2>1. \A j \in 1..Len(w) : j = 1 /\ p + 3 + j = p + 4
    BY <1>1, <1>3
  <2> QED
    BY <1>2, <1>3, <2>1
<1>5. line[p + 4 + Len(w)] \in Stops /\ rest >= Len(w) + 1 /\ Len(w) >= 1 /\ w[1] # Quote
  <2>1. p + 4 + Len(w) = p + 5 /\ Len(w) + 1 = 2
    BY <1>1, <1>3
  <2> QED
    BY <1>2, <1>3, <2>1
<1>6. raw_field(line, key) = <<w>>
  <2> HIDE DEF Stops
  <2>1. \A j \in 1..Len(w) : line[p + 3 + j] = w[j] /\ w[j] \notin Stops
    BY <1>4
  <2>2. Len(w) >= 1 /\ rest >= Len(w) + 1 /\ w[1] # Quote /\ line[p + 4 + Len(w)] \in Stops
    BY <1>5
  <2> QED
    BY <2>1, <2>2, BareField, SMTT(30)
<1> QED
  BY <1>3, <1>6

LEMMA PingFields ==
    ASSUME NEW line, NEW n, NEW r, NEW T, NEW s, NEW x, NEW y, NEW loss, NEW modo,
           PingAs(line, n, r, T, s, x, y, loss, modo)
    PROVE  /\ raw_field(line, "t") = <<<<T>>>>
           /\ raw_field(line, "kind") = <<<<"ping">>>>
           /\ raw_field(line, "host") = <<x>>
           /\ raw_field(line, "rtt_ms") = <<y>>
           /\ raw_field(line, "loss_pct") = <<<<loss>>>>
           /\ raw_field(line, "modo") = <<<<modo>>>>
<1>1. /\ n \in Nat /\ r \in Nat /\ PingPlaces(line, n, r, T, x, y, loss, modo)
      /\ s \in Text /\ x \in Text /\ y \in Text /\ n = Len(x) /\ r = Len(y) /\ r >= 1
      /\ T \in Plain /\ loss \in Plain /\ modo \in Plain /\ \A j \in 1..r : y[j] \in Plain
  BY DEF PingAs
<1>2. PICK at : Laid(s, x, at)
  BY Zenon DEF PingAs
<1>3. /\ First(line, "t", 2, n + r + 36) /\ First(line, "kind", 8, n + r + 30)
      /\ First(line, "host", 16, n + r + 22) /\ First(line, "rtt_ms", n + 23, r + 15)
      /\ First(line, "loss_pct", n + r + 28, 10) /\ First(line, "modo", n + r + 34, 4)
  BY PingFirst
<1>4. /\ line[6] = T /\ line[7] = Comma
      /\ line[12] = Quote /\ line[13] = "ping" /\ line[14] = Quote
      /\ line[20] = Quote /\ line[n + 21] = Quote
  BY <1>1, Zenon DEF PingPlaces
<1>5. /\ \A j \in 1..n : line[20 + j] = x[j]
      /\ \A j \in 1..r : line[n + 26 + j] = y[j]
  BY <1>1, Zenon DEF PingPlaces
<1>6. /\ line[n + r + 27] = Comma
      /\ line[n + r + 32] = loss /\ line[n + r + 33] = Comma
      /\ line[n + r + 38] = Quote /\ line[n + r + 39] = modo /\ line[n + r + 40] = Quote
  BY <1>1, Zenon DEF PingPlaces
<1>7. Comma \in Stops
  BY Punctuation
<1> HIDE DEF Stops
<1>8. raw_field(line, "t") = <<<<T>>>>
  <2>1. 2 + 4 = 6 /\ 2 + 5 = 7 /\ n + r + 36 >= 2
    BY <1>1
  <2> QED
    BY <1>1, <1>3, <1>4, <1>7, <2>1, BareToken
<1>9. raw_field(line, "kind") = <<<<"ping">>>>
  <2>1. 8 + 4 = 12 /\ 8 + 5 = 13 /\ 8 + 6 = 14 /\ n + r + 30 >= 3
    BY <1>1
  <2>2. "ping" \in Plain
    <3>1. "ping" \in Tokens
      BY Names
    <3> QED
      BY <3>1 DEF Plain, Plainly, Stops, Quote, Backslash, Newline
  <2>3. PICK c \in Plain : c = "ping"
    BY <2>2
  <2>4. raw_field(line, "kind") = <<<<c>>>>
    BY <1>3, <1>4, <2>1, <2>3, QuotedToken
  <2> QED
    BY <2>3, <2>4
<1>10. raw_field(line, "host") = <<x>>
  <2>1. PICK p : p = 16
    OBVIOUS
  <2>2. PICK rest : rest = n + r + 22
    OBVIOUS
  <2>3. /\ p + 4 = 20 /\ p + 5 + Len(x) = n + 21 /\ rest >= Len(x) + 2
    BY <1>1, <2>1, <2>2
  <2>4. \A j \in 1..Len(x) : line[p + 4 + j] = x[j]
    BY <1>1, <1>5, <2>3
  <2>5. line[p + 4] = Quote /\ line[p + 5 + Len(x)] = Quote
    BY <1>4, <2>3
  <2>6. First(line, "host", p, rest)
    BY <1>3, <2>1, <2>2
  <2> QED
    BY <1>1, <1>2, <2>3, <2>4, <2>5, <2>6, StringField
<1>11. raw_field(line, "rtt_ms") = <<y>>
  <2>1. PICK p : p = n + 23
    OBVIOUS
  <2>2. PICK rest : rest = r + 15
    OBVIOUS
  <2>3. /\ p + 4 + Len(y) = n + r + 27 /\ rest >= Len(y) + 1 /\ Len(y) >= 1
        /\ \A j \in 1..Len(y) : p + 3 + j = n + 26 + j
    BY <1>1, <2>1, <2>2
  <2>4. \A j \in 1..Len(y) : line[p + 3 + j] = y[j] /\ y[j] \notin Stops
    BY <1>1, <1>5, <2>3 DEF Plain
  <2>5. y[1] # Quote
    BY <1>1, PlainType
  <2>6. line[p + 4 + Len(y)] \in Stops
    BY <1>6, <1>7, <2>3
  <2>7. First(line, "rtt_ms", p, rest)
    BY <1>3, <2>1, <2>2
  <2> QED
    BY <1>1, <2>3, <2>4, <2>5, <2>6, <2>7, BareField
<1>12. raw_field(line, "loss_pct") = <<<<loss>>>>
  <2>1. PICK p : p = n + r + 28
    OBVIOUS
  <2>2. p + 4 = n + r + 32 /\ p + 5 = n + r + 33 /\ 10 >= 2
    BY <1>1, <2>1
  <2>3. First(line, "loss_pct", p, 10) /\ line[p + 4] = loss /\ line[p + 5] \in Stops
    BY <1>3, <1>6, <1>7, <2>1, <2>2
  <2> QED
    BY <1>1, <2>2, <2>3, BareToken
<1>13. raw_field(line, "modo") = <<<<modo>>>>
  <2>1. PICK p : p = n + r + 34
    OBVIOUS
  <2>2. p + 4 = n + r + 38 /\ p + 5 = n + r + 39 /\ p + 6 = n + r + 40 /\ 4 >= 3
    BY <1>1, <2>1
  <2>3. /\ First(line, "modo", p, 4) /\ line[p + 4] = Quote /\ line[p + 5] = modo
        /\ line[p + 6] = Quote
    BY <1>3, <1>6, <2>1, <2>2
  <2> QED
    BY <1>1, <2>2, <2>3, QuotedToken
<1> QED
  BY <1>8, <1>9, <1>10, <1>11, <1>12, <1>13

(* A number's text is read back as the number.                              *)
LEMMA NumbersRead ==
    ASSUME NEW t \in 0..(Len(Numeral) - 1)
    PROVE  ToText(t) \in Plain /\ IsNumber(ToText(t)) /\ ToNumber(ToText(t)) = t
<1>0. Numeral \in Seq(STRING)
  BY CodecAssumption
<1>1. t + 1 \in DOMAIN Numeral /\ DOMAIN Numeral = 1..Len(Numeral) /\ Len(Numeral) \in Nat
  BY <1>0
<1>2. ToText(t) \in Plain /\ IsNumber(ToText(t))
  <2>1. Numeral[t + 1] \in Tokens
    <3>1. Numeral[t + 1] \in STRING
      BY <1>0, <1>1
    <3> QED
      BY <3>1 DEF Tokens
  <2>2. Numeral[t + 1] \in Plain
    BY <1>1, <2>1, CodecAssumption DEF Plain, Plainly, Stops
  <2> QED
    BY <1>1, <2>2 DEF ToText, IsNumber
<1>3. ASSUME NEW m \in 0..(Len(Numeral) - 1), ToText(m) = ToText(t) PROVE m = t
  <2>1. m + 1 \in DOMAIN Numeral
    BY <1>1
  <2>2. m + 1 = t + 1
    BY <1>1, <1>3, <2>1, CodecAssumption DEF ToText
  <2> QED
    BY <2>2
<1> QED
  BY <1>2, <1>3, Zenon DEF ToNumber

(* A sample as the exporter is given it: its host is any text, its rtt what *)
(* a number is written with, or nothing when the sample was lost.           *)
Sample(s) ==
    /\ s.host \in Text /\ s.rtt \in Seq(Plain) /\ s.rtt # <<"null">>
    /\ s.loss \in Plain /\ s.modo \in Plain

Rtt(s) == IF s.rtt = <<>> THEN <<"null">> ELSE s.rtt

LEMMA SampleAs ==
    ASSUME NEW t \in 0..(Len(Numeral) - 1), NEW s, Sample(s),
           NEW n \in Nat, NEW r \in Nat, n = Len(esc(s.host)), r = Len(Rtt(s))
    PROVE  PingAs(ndjson_ping(t, s), n, r, ToText(t), s.host, esc(s.host), Rtt(s), s.loss, s.modo)
<1>1. s.host \in Text /\ s.loss \in Plain /\ s.modo \in Plain
  BY DEF Sample
<1>2. PICK x \in Text : x = esc(s.host) /\ \E at : Laid(s.host, x, at)
  BY <1>1, EscLaid
<1>3. PICK T \in Plain : T = ToText(t)
  BY NumbersRead, Zenon
<1>4. PICK y \in Seq(Plain) : y = Rtt(s) /\ Len(y) >= 1
  <2>1. "null" \in Plain
    <3>1. "null" \in Tokens
      BY Names
    <3> QED
      BY <3>1 DEF Plain, Plainly, Stops, Quote, Backslash, Newline
  <2>2. <<"null">> \in Seq(Plain) /\ Len(<<"null">>) >= 1
    BY <2>1
  <2>3. s.rtt \in Seq(Plain) /\ (s.rtt # <<>> => Len(s.rtt) >= 1)
    BY DEF Sample
  <2> QED
    BY <2>2, <2>3, Zenon DEF Rtt
<1>5. y \in Text /\ \A j \in 1..Len(y) : y[j] \in Plain
  BY PlainType DEF Text
<1>6. PICK loss \in Plain, modo \in Plain : loss = s.loss /\ modo = s.modo
  BY <1>1
<1>7. T \in Tokens /\ loss \in Tokens /\ modo \in Tokens
  BY PlainType
<1>8. PICK line : line = ndjson_ping(t, s)
  OBVIOUS
<1>9. line = PingLine(T, x, y, loss, modo)
  BY <1>2, <1>3, <1>4, <1>6, <1>8, Zenon DEF ndjson_ping, PingLine, Rtt
<1>10. PingLaid(line, T, x, y, loss, modo)
  BY <1>5, <1>7, <1>9, PingLineLaid, Zenon
<1>11. n = Len(x) /\ r = Len(y)
  BY <1>2, <1>4
<1>12. PingPlaces(line, n, r, T, x, y, loss, modo)
  BY <1>5, <1>7, <1>10, <1>11, PingPlaced
<1>13. PingAs(line, n, r, T, s.host, x, y, loss, modo)
  <2>1. \A j \in 1..r : y[j] \in Plain
    BY <1>5, <1>11
  <2>2. r >= 1
    BY <1>4, <1>11
  <2> QED
    BY <1>1, <1>2, <1>5, <1>11, <1>12, <2>1, <2>2, Zenon DEF PingAs
<1> QED
  BY <1>2, <1>3, <1>4, <1>6, <1>8, <1>13, Zenon

(* However the host is called, a sample's line is one line.                 *)
THEOREM SamplesAreLines ==
    ASSUME NEW t \in 0..(Len(Numeral) - 1), NEW s, Sample(s)
    PROVE  \A i \in DOMAIN ndjson_ping(t, s) : ndjson_ping(t, s)[i] # Newline
<1>1. PICK x \in Text : x = esc(s.host) /\ \E at : Laid(s.host, x, at)
  BY EscLaid DEF Sample
<1>2. PICK y : y = Rtt(s)
  OBVIOUS
<1>3. PICK n \in Nat, r \in Nat : n = Len(x) /\ r = Len(y)
  <2>1. s.rtt \in Seq(Plain)
    BY DEF Sample
  <2>2. Len(<<"null">>) = 1
    OBVIOUS
  <2>3. Len(x) \in Nat /\ Len(s.rtt) \in Nat
    BY <2>1, LenType
  <2>4. Len(y) \in Nat
    BY <1>2, <2>2, <2>3 DEF Rtt
  <2> QED
    BY <2>3, <2>4
<1>4. PICK line : line = ndjson_ping(t, s)
  OBVIOUS
<1>5. PICK T : T = ToText(t)
  OBVIOUS
<1>6. PingAs(line, n, r, T, s.host, x, y, s.loss, s.modo)
  BY <1>1, <1>2, <1>3, <1>4, <1>5, SampleAs, Zenon
<1>7. /\ PingPlaces(line, n, r, T, x, y, s.loss, s.modo)
      /\ s.host \in Text /\ T \in Plain /\ s.loss \in Plain /\ s.modo \in Plain
      /\ \A j \in 1..r : y[j] \in Plain
  BY <1>6, Zenon DEF PingAs
<1>8. PICK nl : nl = Newline
  OBVIOUS
<1>9. \A c \in Plain : c # nl
  BY <1>8 DEF Plain, Plainly
<1>10. /\ \A c \in {Quote, Comma, Brace, Close, ":"} : c # nl
       /\ \A c \in {"t", "kind", "ping", "host", "rtt_ms", "loss_pct", "modo"} : c # nl
  BY <1>8 DEF Newline, Quote, Comma, Brace, Close
<1>11. \A j \in 1..n : x[j] # nl
  BY <1>1, <1>3, <1>7, <1>8, LaidIsSafe
<1>12. line \in Text /\ Len(line) = n + r + 41
  BY <1>7, Zenon DEF PingPlaces
<1>13. /\ line[1] # nl /\ line[2] # nl /\ line[3] # nl /\ line[4] # nl /\ line[5] # nl
       /\ line[6] # nl /\ line[7] # nl /\ line[8] # nl /\ line[9] # nl /\ line[10] # nl
       /\ line[11] # nl /\ line[12] # nl /\ line[13] # nl /\ line[14] # nl
       /\ line[15] # nl /\ line[16] # nl /\ line[17] # nl /\ line[18] # nl
       /\ line[19] # nl /\ line[20] # nl
  <2>1. /\ line[1] = Brace /\ line[2] = Quote /\ line[3] = "t" /\ line[4] = Quote /\ line[5] = ":"
        /\ line[6] = T /\ line[7] = Comma /\ line[8] = Quote /\ line[9] = "kind" /\ line[10] = Quote
        /\ line[11] = ":" /\ line[12] = Quote /\ line[13] = "ping" /\ line[14] = Quote /\ line[15] = Comma
        /\ line[16] = Quote /\ line[17] = "host" /\ line[18] = Quote /\ line[19] = ":" /\ line[20] = Quote
    BY <1>7, Zenon DEF PingPlaces
  <2> QED
    BY <1>7, <1>9, <1>10, <2>1
<1>14. /\ \A j \in 1..n : line[20 + j] # nl
       /\ \A j \in 1..r : line[n + 26 + j] # nl
  <2>1. /\ \A j \in 1..n : line[20 + j] = x[j]
        /\ \A j \in 1..r : line[n + 26 + j] = y[j]
    BY <1>7, Zenon DEF PingPlaces
  <2> QED
    BY <1>7, <1>9, <1>11, <2>1, Zenon
<1>15. /\ line[n + 21] # nl /\ line[n + 22] # nl /\ line[n + 23] # nl
       /\ line[n + 24] # nl /\ line[n + 25] # nl /\ line[n + 26] # nl
  <2>1. /\ line[n + 21] = Quote /\ line[n + 22] = Comma /\ line[n + 23] = Quote
        /\ line[n + 24] = "rtt_ms" /\ line[n + 25] = Quote /\ line[n + 26] = ":"
    BY <1>7, Zenon DEF PingPlaces
  <2> QED
    BY <1>10, <2>1
<1>16. /\ line[n + r + 27] # nl /\ line[n + r + 28] # nl /\ line[n + r + 29] # nl
       /\ line[n + r + 30] # nl /\ line[n + r + 31] # nl /\ line[n + r + 32] # nl
       /\ line[n + r + 33] # nl /\ line[n + r + 34] # nl /\ line[n + r + 35] # nl
       /\ line[n + r + 36] # nl /\ line[n + r + 37] # nl /\ line[n + r + 38] # nl
       /\ line[n + r + 39] # nl /\ line[n + r + 40] # nl /\ line[n + r + 41] # nl
  <2>1. /\ line[n + r + 27] = Comma /\ line[n + r + 28] = Quote /\ line[n + r + 29] = "loss_pct"
        /\ line[n + r + 30] = Quote /\ line[n + r + 31] = ":" /\ line[n + r + 32] = s.loss
        /\ line[n + r + 33] = Comma /\ line[n + r + 34] = Quote /\ line[n + r + 35] = "modo"
        /\ line[n + r + 36] = Quote /\ line[n + r + 37] = ":" /\ line[n + r + 38] = Quote
        /\ line[n + r + 39] = s.modo /\ line[n + r + 40] = Quote /\ line[n + r + 41] = Close
    BY <1>7, Zenon DEF PingPlaces
  <2>2. \A c \in {Quote, Comma, Close, ":", "loss_pct", "modo", s.loss, s.modo} : c # nl
    BY <1>7, <1>9, <1>10, Zenon
  <2>3. line[n + r + 27] # nl /\ line[n + r + 28] # nl /\ line[n + r + 29] # nl
    BY <2>1, <2>2, Zenon
  <2>4. line[n + r + 30] # nl /\ line[n + r + 31] # nl /\ line[n + r + 32] # nl
    BY <2>1, <2>2, Zenon
  <2>5. line[n + r + 33] # nl /\ line[n + r + 34] # nl /\ line[n + r + 35] # nl
    BY <2>1, <2>2, Zenon
  <2>6. line[n + r + 36] # nl /\ line[n + r + 37] # nl /\ line[n + r + 38] # nl
    BY <2>1, <2>2, Zenon
  <2>7. line[n + r + 39] # nl /\ line[n + r + 40] # nl /\ line[n + r + 41] # nl
    BY <2>1, <2>2, Zenon
  <2> QED
    BY <2>3, <2>4, <2>5, <2>6, <2>7, Zenon
<1>17. ASSUME NEW i \in 1..(n + r + 41) PROVE line[i] # nl
  <2>1. CASE i \in 1..20
    <3>1. i \in {1, 2, 3, 4, 5, 6, 7, 8, 9, 10, 11, 12, 13, 14, 15, 16, 17, 18, 19, 20}
      BY <2>1
    <3> QED
      BY <1>13, <3>1, Zenon
  <2>2. CASE i \in 21..(n + 20)
    <3>1. i - 20 \in 1..n /\ 20 + (i - 20) = i
      BY <1>3, <2>2
    <3> QED
      BY <1>14, <3>1
  <2>3. CASE i \in (n + 21)..(n + 26)
    <3>1. i \in {n + 21, n + 22, n + 23, n + 24, n + 25, n + 26}
      BY <1>3, <2>3
    <3> QED
      BY <1>15, <3>1, Zenon
  <2>4. CASE i \in (n + 27)..(n + r + 26)
    <3>1. i - n - 26 \in 1..r /\ n + 26 + (i - n - 26) = i
      BY <1>3, <2>4
    <3> QED
      BY <1>14, <3>1
  <2>5. CASE i \in (n + r + 27)..(n + r + 41)
    <3>1. PICK k \in 27..41 : i = n + r + k
      <4>1. PICK m \in Nat : m = n + r
        BY <1>3
      <4>2. i \in (m + 27)..(m + 41)
        BY <2>5, <4>1
      <4>3. i - m \in 27..41 /\ i = m + (i - m)
        BY <4>1, <4>2
      <4> QED
        BY <4>1, <4>3
    <3>2. k \in {27, 28, 29, 30, 31, 32, 33, 34, 35, 36, 37, 38, 39, 40, 41}
      OBVIOUS
    <3> QED
      BY <1>16, <3>1, <3>2
  <2> QED
    BY <1>3, <2>1, <2>2, <2>3, <2>4, <2>5
<1>18. DOMAIN line = 1..(n + r + 41)
  BY <1>12 DEF Text
<1> QED
  BY <1>4, <1>8, <1>17, <1>18, Zenon

LEMMA Pair ==
    ASSUME NEW a \in Tokens, NEW b \in Tokens PROVE <<a>> \o <<b>> = <<a, b>>
<1>1. PICK u \in Text : u = <<a>> /\ Len(u) = 1 /\ u[1] = a
  BY Words
<1>2. PICK v \in Text : v = <<b>> /\ Len(v) = 1 /\ v[1] = b
  BY Words
<1>3. PICK w : w = u \o v
  OBVIOUS
<1>4. /\ w \in Text /\ Len(w) = Len(u) + Len(v)
      /\ \A j \in 1..Len(u) : w[j] = u[j]
      /\ \A j \in 1..Len(v) : w[Len(u) + j] = v[j]
  BY <1>3, Joined
<1>5. Len(w) = 2 /\ w[1] = a /\ w[2] = b
  BY <1>1, <1>2, <1>4
<1>6. w = <<w[1], w[2]>>
  <2>1. w \in Seq(Tokens) /\ Len(w) = 2
    BY <1>4, <1>5 DEF Text
  <2> QED
    BY <2>1
<1> QED
  BY <1>1, <1>2, <1>3, <1>5, <1>6, Zenon

LEMMA Triple ==
    ASSUME NEW a \in Tokens, NEW b \in Tokens, NEW c \in Tokens
    PROVE  <<a, b>> \o <<c>> = <<a, b, c>>
<1>1. PICK u \in Text : u = <<a, b>> /\ Len(u) = 2 /\ u[1] = a /\ u[2] = b
  <2>1. <<a, b>> \in Text /\ Len(<<a, b>>) = 2 /\ <<a, b>>[1] = a /\ <<a, b>>[2] = b
    BY Words
  <2> QED
    BY <2>1, Zenon
<1>2. PICK v \in Text : v = <<c>> /\ Len(v) = 1 /\ v[1] = c
  BY Words
<1>3. PICK w : w = u \o v
  OBVIOUS
<1>4. /\ w \in Text /\ Len(w) = Len(u) + Len(v)
      /\ \A j \in 1..Len(u) : w[j] = u[j]
      /\ \A j \in 1..Len(v) : w[Len(u) + j] = v[j]
  BY <1>3, Joined
<1>5. Len(w) = 3 /\ w[1] = a /\ w[2] = b /\ w[3] = c
  BY <1>1, <1>2, <1>4
<1>6. w = <<w[1], w[2], w[3]>>
  <2>1. w \in Seq(Tokens) /\ Len(w) = 3
    BY <1>4, <1>5 DEF Text
  <2> QED
    BY <2>1
<1> QED
  BY <1>1, <1>2, <1>3, <1>5, <1>6, Zenon

LEMMA Quadruple ==
    ASSUME NEW a \in Tokens, NEW b \in Tokens, NEW c \in Tokens, NEW d \in Tokens
    PROVE  <<a, b, c>> \o <<d>> = <<a, b, c, d>>
<1>1. PICK u \in Text : u = <<a, b, c>> /\ Len(u) = 3 /\ u[1] = a /\ u[2] = b /\ u[3] = c
  <2>1. /\ <<a, b, c>> \in Text /\ Len(<<a, b, c>>) = 3
        /\ <<a, b, c>>[1] = a /\ <<a, b, c>>[2] = b /\ <<a, b, c>>[3] = c
    BY DEF Text
  <2> QED
    BY <2>1, Zenon
<1>2. PICK v \in Text : v = <<d>> /\ Len(v) = 1 /\ v[1] = d
  BY Words
<1>3. PICK w : w = u \o v
  OBVIOUS
<1>4. /\ w \in Text /\ Len(w) = Len(u) + Len(v)
      /\ \A j \in 1..Len(u) : w[j] = u[j]
      /\ \A j \in 1..Len(v) : w[Len(u) + j] = v[j]
  BY <1>3, Joined
<1>5. Len(w) = 4 /\ w[1] = a /\ w[2] = b /\ w[3] = c /\ w[4] = d
  BY <1>1, <1>2, <1>4
<1>6. w = <<w[1], w[2], w[3], w[4]>>
  <2>1. w \in Seq(Tokens) /\ Len(w) = 4
    BY <1>4, <1>5 DEF Text
  <2> QED
    BY <2>1
<1> QED
  BY <1>1, <1>2, <1>3, <1>5, <1>6, Zenon

Spread(z, a, b, c, d) ==
    z \o <<a>> \o <<b>> \o <<c>> \o <<d>> = z \o <<a, b, c, d>>

LEMMA Pieces ==
    ASSUME NEW z \in Text, NEW a \in Tokens, NEW b \in Tokens, NEW c \in Tokens, NEW d \in Tokens
    PROVE  Spread(z, a, b, c, d)
<1>1. /\ <<a>> \in Text /\ <<b>> \in Text /\ <<c>> \in Text /\ <<d>> \in Text
      /\ <<a, b>> \in Text /\ <<a, b, c>> \in Text /\ <<a, b, c, d>> \in Text
  BY DEF Text
<1>2. /\ <<a>> \o <<b>> = <<a, b>> /\ <<a, b>> \o <<c>> = <<a, b, c>>
      /\ <<a, b, c>> \o <<d>> = <<a, b, c, d>>
  BY Pair, Triple, Quadruple
<1>3. \A u, v, w : u \in Text /\ v \in Text /\ w \in Text => (u \o v) \o w = u \o (v \o w)
  BY ConcatAssociative DEF Text
<1>4. PICK u1 \in Text, u2 \in Text, u3 \in Text, u4 \in Text :
          u1 = <<a>> /\ u2 = <<b>> /\ u3 = <<c>> /\ u4 = <<d>>
  BY <1>1, Zenon
<1>5. PICK v2 \in Text, v3 \in Text, v4 \in Text :
          /\ v2 = <<a, b>> /\ v3 = <<a, b, c>> /\ v4 = <<a, b, c, d>>
          /\ u1 \o u2 = v2 /\ v2 \o u3 = v3 /\ v3 \o u4 = v4
  BY <1>1, <1>2, <1>4, Zenon
<1>6. (z \o u1) \o u2 = z \o v2
  <2>1. (z \o u1) \o u2 = z \o (u1 \o u2)
    <3>1. u1 \in Text /\ u2 \in Text
      BY <1>4, <1>5, Zenon
    <3> QED
      BY <1>3, <3>1, SMT
  <2> QED
    BY <1>5, <2>1, Zenon
<1>7. (z \o v2) \o u3 = z \o v3
  <2>1. (z \o v2) \o u3 = z \o (v2 \o u3)
    <3>1. v2 \in Text /\ u3 \in Text
      BY <1>4, <1>5, Zenon
    <3> QED
      BY <1>3, <3>1, SMT
  <2> QED
    BY <1>5, <2>1, Zenon
<1>8. (z \o v3) \o u4 = z \o v4
  <2>1. (z \o v3) \o u4 = z \o (v3 \o u4)
    <3>1. v3 \in Text /\ u4 \in Text
      BY <1>4, <1>5, Zenon
    <3> QED
      BY <1>3, <3>1, SMT
  <2> QED
    BY <1>5, <2>1, Zenon
<1> QED
  BY <1>4, <1>5, <1>6, <1>7, <1>8, Zenon DEF Spread

(* The row of the live CSV is what the conversion makes of a sample's line, *)
(* whatever the host is called and whether the sample was lost or not; a    *)
(* line older than --last gives nothing.                                    *)
THEOREM LinesConvert ==
    ASSUME NEW t \in 0..(Len(Numeral) - 1), NEW s, Sample(s),
           NEW now \in Nat, NEW last \in {<<>>} \cup {<<k>> : k \in Nat}
    PROVE  Converted(ndjson_ping(t, s), "csv", now, last) =
              IF t < Cutoff(now, last) THEN NoRow ELSE Row(csv_row(t, s))
<1>1. s.host \in Text
  BY DEF Sample
<1>2. PICK x \in Text : x = esc(s.host) /\ \E at : Laid(s.host, x, at)
  BY <1>1, EscLaid
<1>3. unesc(x) = s.host
  BY <1>1, <1>2, UnescOfLaid
<1>4. PICK y : y = Rtt(s)
  OBVIOUS
<1>5. y \in Seq(Plain)
  <2>1. "null" \in Plain
    <3>1. "null" \in Tokens
      BY Names
    <3> QED
      BY <3>1 DEF Plain, Plainly, Stops, Quote, Backslash, Newline
  <2>2. <<"null">> \in Seq(Plain)
    BY <2>1
  <2> QED
    BY <1>4, <2>2, Zenon DEF Rtt, Sample
<1>6. PICK n \in Nat, r \in Nat : n = Len(x) /\ r = Len(y)
  <2>1. Len(x) \in Nat /\ Len(y) \in Nat
    BY <1>5, LenType
  <2> QED
    BY <2>1
<1>7. PICK line : line = ndjson_ping(t, s)
  OBVIOUS
<1>8. PICK T : T = ToText(t)
  OBVIOUS
<1>9. PingAs(line, n, r, T, s.host, x, y, s.loss, s.modo)
  BY <1>2, <1>4, <1>6, <1>7, <1>8, SampleAs, Zenon
<1>10. /\ raw_field(line, "t") = <<<<T>>>>
       /\ raw_field(line, "kind") = <<<<"ping">>>>
       /\ raw_field(line, "host") = <<x>>
       /\ raw_field(line, "rtt_ms") = <<y>>
       /\ raw_field(line, "loss_pct") = <<<<s.loss>>>>
       /\ raw_field(line, "modo") = <<<<s.modo>>>>
  BY <1>9, PingFields
<1>11. line # <<>>
  <2>1. Len(line) = n + r + 41
    BY <1>9, Zenon DEF PingAs, PingPlaces
  <2> QED
    BY <1>6, <2>1
<1>12. IsNumber(T) /\ ToNumber(T) = t
  BY <1>8, NumbersRead, Zenon
<1>13. (IF y = <<"null">> THEN <<>> ELSE y) = s.rtt
  <2>1. <<"null">> # <<>>
    OBVIOUS
  <2> QED
    BY <1>4, <2>1, Zenon DEF Rtt, Sample
<1>14. <<T>> \o <<",">> \o s.host \o <<",">> \o s.rtt \o <<",">> \o <<s.loss>> \o <<",">> \o <<s.modo>>
          = csv_row(t, s)
  <2>1. PICK c \in Tokens : c = ","
    BY Names
  <2>2. PICK loss \in Tokens, modo \in Tokens : loss = s.loss /\ modo = s.modo
    BY PlainType DEF Sample
  <2>3. T \in Tokens
    BY <1>9, PlainType DEF PingAs
  <2>4. <<T>> \o <<c>> = <<T, c>>
    BY <2>3, Pair
  <2>5. PICK z \in Text : z = <<T, c>> \o s.host \o <<c>> \o s.rtt
    <3>1. <<T, c>> \in Text /\ <<c>> \in Text /\ s.host \in Text /\ s.rtt \in Text
      BY <1>1, <2>3, Words, PlainType DEF Sample, Text
    <3>2. \A u, v : u \in Text /\ v \in Text => u \o v \in Text
      BY Joined
    <3>3. <<T, c>> \o s.host \in Text
      BY <3>1, <3>2, Zenon
    <3>4. (<<T, c>> \o s.host) \o <<c>> \in Text
      BY <3>1, <3>2, <3>3, Zenon
    <3>5. ((<<T, c>> \o s.host) \o <<c>>) \o s.rtt \in Text
      BY <3>1, <3>2, <3>4, Zenon
    <3> QED
      BY <3>5, Zenon
  <2>6. z \o <<c>> \o <<loss>> \o <<c>> \o <<modo>> = z \o <<c, loss, c, modo>>
    <3>1. c \in Tokens /\ loss \in Tokens /\ modo \in Tokens /\ z \in Text
      BY <2>1, <2>2, <2>5, Zenon
    <3>2. Spread(z, c, loss, c, modo)
      BY <3>1, Pieces
    <3> QED
      BY <3>2, Zenon DEF Spread
  <2>7. csv_row(t, s) = z \o <<c, loss, c, modo>>
    BY <1>8, <2>1, <2>2, <2>5, Zenon DEF csv_row
  <2> QED
    BY <2>1, <2>2, <2>4, <2>5, <2>6, <2>7, Zenon
<1>15. CASE t < Cutoff(now, last)
  <2>1. Converted(line, "csv", now, last) = NoRow
    <3>1. Len(<<T>>) = 1 /\ <<T>>[1] = T /\ <<<<T>>>>[1] = <<T>> /\ <<<<T>>>> # <<>>
          /\ <<<<"ping">>>> # <<>>
      OBVIOUS
    <3> QED
      BY <1>10, <1>11, <1>12, <1>15, <3>1, Zenon DEF Converted
  <2> QED
    BY <1>7, <1>15, <2>1, Zenon
<1>16. CASE ~(t < Cutoff(now, last))
  <2>1. Converted(line, "csv", now, last) =
          Row(<<T>> \o <<",">> \o unesc(x) \o <<",">> \o (IF y = <<"null">> THEN <<>> ELSE y) \o
              <<",">> \o <<s.loss>> \o <<",">> \o <<s.modo>>)
    <3>1. PICK keys : keys = {"host", "rtt_ms", "loss_pct", "modo"}
      OBVIOUS
    <3>2. PICK fields : fields = [k \in keys |-> raw_field(line, k)]
      OBVIOUS
    <3>3. /\ fields["host"] = <<x>> /\ fields["rtt_ms"] = <<y>>
          /\ fields["loss_pct"] = <<<<s.loss>>>> /\ fields["modo"] = <<<<s.modo>>>>
      <4>1. {"host", "rtt_ms", "loss_pct", "modo"} \subseteq keys
        BY <3>1
      <4> QED
        BY <1>10, <3>2, <4>1, Zenon
    <3>4. \A k \in DOMAIN fields : fields[k] # <<>>
      <4>1. \A k \in keys : k = "host" \/ k = "rtt_ms" \/ k = "loss_pct" \/ k = "modo"
        BY <3>1
      <4>2. \A z : <<z>> # <<>>
        OBVIOUS
      <4> QED
        BY <3>2, <3>3, <4>1, <4>2, Zenon
    <3>5. /\ Len(<<T>>) = 1 /\ <<T>>[1] = T /\ <<<<T>>>>[1] = <<T>> /\ <<<<T>>>> # <<>>
          /\ <<<<"ping">>>> # <<>> /\ <<<<"ping">>>>[1] = <<"ping">>
          /\ <<x>>[1] = x /\ <<y>>[1] = y /\ <<<<s.loss>>>>[1] = <<s.loss>>
          /\ <<<<s.modo>>>>[1] = <<s.modo>>
      OBVIOUS
    <3>6. fields = [k \in {"host", "rtt_ms", "loss_pct", "modo"} |-> raw_field(line, k)]
      BY <3>1, <3>2, Zenon
    <3> QED
      BY <1>10, <1>11, <1>12, <1>16, <3>3, <3>4, <3>5, <3>6, Zenon DEF Converted
  <2> QED
    BY <1>3, <1>7, <1>13, <1>14, <1>16, <2>1, Zenon
<1> QED
  BY <1>15, <1>16

(* A lookup's line: only its head is looked at. *)
DnsLine(T, x, status, latency) ==
    <<"{">> \o Key("t") \o <<T, ",">> \o Key("kind") \o String(<<"dns">>) \o
    <<",">> \o Key("domain") \o String(x) \o
    <<",">> \o Key("status") \o String(<<status>>) \o
    <<",">> \o Key("latency_ms") \o <<latency, "}">>

DnsHead(line, T) ==
    /\ line \in Text /\ Len(line) >= 36
    /\ At(line, 0, <<Brace>>) /\ At(line, 1, Key("t")) /\ At(line, 5, <<T, Comma>>)
    /\ At(line, 7, Key("kind")) /\ At(line, 11, String(<<"dns">>))

LEMMA DnsLineLaid ==
    ASSUME NEW T \in Tokens, NEW x \in Text, NEW status \in Tokens, NEW latency \in Tokens
    PROVE  DnsHead(DnsLine(T, x, status, latency), T)
<1>0. Len(x) \in Nat /\ {"dns", "domain", "status", "latency_ms"} \subseteq Tokens
  BY LenType DEF Tokens, Marks
<1>1. PICK w1 \in Text : w1 = <<"{">> /\ Len(w1) = 1
  BY <1>0, Names, Words
<1>2. PICK w2 \in Text : w2 = Key("t") /\ Len(w2) = 4
  BY <1>0, Names, KeyType
<1>3. PICK w3 \in Text : w3 = <<T, ",">> /\ Len(w3) = 2
  <2>1. PICK c \in Tokens : c = ","
    BY Names
  <2>2. <<T, c>> \in Text /\ Len(<<T, c>>) = 2
    BY Words
  <2> QED
    BY <2>1, <2>2, Zenon
<1>4. PICK w4 \in Text : w4 = Key("kind") /\ Len(w4) = 4
  BY <1>0, Names, KeyType
<1>5. PICK w5 \in Text : w5 = String(<<"dns">>) /\ Len(w5) = 3
  <2>1. PICK v \in Text : v = <<"dns">> /\ Len(v) = 1
    BY <1>0, Words
  <2>2. String(v) \in Text /\ Len(String(v)) = Len(v) + 2
    BY StringType
  <2> QED
    BY <2>1, <2>2
<1>6. PICK w6 \in Text : w6 = <<",">> /\ Len(w6) = 1
  BY <1>0, Names, Words
<1>7. PICK w7 \in Text : w7 = Key("domain") /\ Len(w7) = 4
  BY <1>0, Names, KeyType
<1>8. PICK w8 \in Text : w8 = String(x) /\ Len(w8) = Len(x) + 2
  BY StringType
<1>9. PICK w9 \in Text : w9 = Key("status") /\ Len(w9) = 4
  BY <1>0, Names, KeyType
<1>10. PICK w10 \in Text : w10 = String(<<status>>) /\ Len(w10) = 3
  <2>1. PICK v \in Text : v = <<status>> /\ Len(v) = 1
    BY <1>0, Words
  <2>2. String(v) \in Text /\ Len(String(v)) = Len(v) + 2
    BY StringType
  <2> QED
    BY <2>1, <2>2
<1>11. PICK w11 \in Text : w11 = Key("latency_ms") /\ Len(w11) = 4
  BY <1>0, Names, KeyType
<1>12. PICK w12 \in Text : w12 = <<latency, "}">> /\ Len(w12) = 2
  <2>1. PICK c \in Tokens : c = "}"
    BY Names
  <2>2. <<latency, c>> \in Text /\ Len(<<latency, c>>) = 2
    BY Words
  <2> QED
    BY <2>1, <2>2, Zenon
<1>13. /\ Len(w1) = 1 /\ Len(w2) = 4 /\ Len(w3) = 2 /\ Len(w4) = 4 /\ Len(w5) = 3
       /\ Len(w6) = 1 /\ Len(w7) = 4 /\ Len(w8) = Len(x) + 2 /\ Len(w9) = 4 /\ Len(w10) = 3
       /\ Len(w11) = 4 /\ Len(w12) = 2
  BY <1>1, <1>2, <1>3, <1>4, <1>5, <1>6, <1>7, <1>8, <1>9, <1>10, <1>11, <1>12, Zenon
<1>14. PICK z1 \in Text : z1 = w1 /\ Len(z1) = 1
  BY <1>1
<1>15. PICK z2 \in Text : z2 = z1 \o w2 /\ Len(z2) = 5
  <2>1. Len(z1) + Len(w2) = 5
    <3>1. Len(z1) = 1 /\ Len(w2) = 4
      BY <1>13, <1>14, Zenon
    <3> QED
      BY <3>1
  <2>2. z1 \o w2 \in Text /\ Len(z1 \o w2) = Len(z1) + Len(w2)
    BY Joined
  <2> QED
    BY <2>1, <2>2, Zenon
<1>16. PICK z3 \in Text : z3 = z2 \o w3 /\ Len(z3) = 7
  <2>1. Len(z2) + Len(w3) = 7
    BY <1>0, <1>13, <1>15, LenType
  <2>2. z2 \o w3 \in Text /\ Len(z2 \o w3) = Len(z2) + Len(w3)
    BY Joined
  <2> QED
    BY <2>1, <2>2, Zenon
<1>17. PICK z4 \in Text : z4 = z3 \o w4 /\ Len(z4) = 11
  <2>1. Len(z3) + Len(w4) = 11
    BY <1>0, <1>13, <1>16, LenType
  <2>2. z3 \o w4 \in Text /\ Len(z3 \o w4) = Len(z3) + Len(w4)
    BY Joined
  <2> QED
    BY <2>1, <2>2, Zenon
<1>18. PICK z5 \in Text : z5 = z4 \o w5 /\ Len(z5) = 14
  <2>1. Len(z4) + Len(w5) = 14
    BY <1>0, <1>13, <1>17, LenType
  <2>2. z4 \o w5 \in Text /\ Len(z4 \o w5) = Len(z4) + Len(w5)
    BY Joined
  <2> QED
    BY <2>1, <2>2, Zenon
<1>19. PICK z6 \in Text : z6 = z5 \o w6 /\ Len(z6) = 15
  <2>1. Len(z5) + Len(w6) = 15
    BY <1>0, <1>13, <1>18, LenType
  <2>2. z5 \o w6 \in Text /\ Len(z5 \o w6) = Len(z5) + Len(w6)
    BY Joined
  <2> QED
    BY <2>1, <2>2, Zenon
<1>20. PICK z7 \in Text : z7 = z6 \o w7 /\ Len(z7) = 19
  <2>1. Len(z6) + Len(w7) = 19
    BY <1>0, <1>13, <1>19, LenType
  <2>2. z6 \o w7 \in Text /\ Len(z6 \o w7) = Len(z6) + Len(w7)
    BY Joined
  <2> QED
    BY <2>1, <2>2, Zenon
<1>21. PICK z8 \in Text : z8 = z7 \o w8 /\ Len(z8) = Len(x) + 21
  <2>1. Len(z7) + Len(w8) = Len(x) + 21
    BY <1>0, <1>13, <1>20, LenType
  <2>2. z7 \o w8 \in Text /\ Len(z7 \o w8) = Len(z7) + Len(w8)
    BY Joined
  <2> QED
    BY <2>1, <2>2, Zenon
<1>22. PICK z9 \in Text : z9 = z8 \o w6 /\ Len(z9) = Len(x) + 22
  <2>1. Len(z8) + Len(w6) = Len(x) + 22
    BY <1>0, <1>13, <1>21, LenType
  <2>2. z8 \o w6 \in Text /\ Len(z8 \o w6) = Len(z8) + Len(w6)
    BY Joined
  <2> QED
    BY <2>1, <2>2, Zenon
<1>23. PICK z10 \in Text : z10 = z9 \o w9 /\ Len(z10) = Len(x) + 26
  <2>1. Len(z9) + Len(w9) = Len(x) + 26
    BY <1>0, <1>13, <1>22, LenType
  <2>2. z9 \o w9 \in Text /\ Len(z9 \o w9) = Len(z9) + Len(w9)
    BY Joined
  <2> QED
    BY <2>1, <2>2, Zenon
<1>24. PICK z11 \in Text : z11 = z10 \o w10 /\ Len(z11) = Len(x) + 29
  <2>1. Len(z10) + Len(w10) = Len(x) + 29
    BY <1>0, <1>13, <1>23, LenType
  <2>2. z10 \o w10 \in Text /\ Len(z10 \o w10) = Len(z10) + Len(w10)
    BY Joined
  <2> QED
    BY <2>1, <2>2, Zenon
<1>25. PICK z12 \in Text : z12 = z11 \o w6 /\ Len(z12) = Len(x) + 30
  <2>1. Len(z11) + Len(w6) = Len(x) + 30
    BY <1>0, <1>13, <1>24, LenType
  <2>2. z11 \o w6 \in Text /\ Len(z11 \o w6) = Len(z11) + Len(w6)
    BY Joined
  <2> QED
    BY <2>1, <2>2, Zenon
<1>26. PICK z13 \in Text : z13 = z12 \o w11 /\ Len(z13) = Len(x) + 34
  <2>1. Len(z12) + Len(w11) = Len(x) + 34
    BY <1>0, <1>13, <1>25, LenType
  <2>2. z12 \o w11 \in Text /\ Len(z12 \o w11) = Len(z12) + Len(w11)
    BY Joined
  <2> QED
    BY <2>1, <2>2, Zenon
<1>27. PICK z14 \in Text : z14 = z13 \o w12 /\ Len(z14) = Len(x) + 36
  <2>1. Len(z13) + Len(w12) = Len(x) + 36
    BY <1>0, <1>13, <1>26, LenType
  <2>2. z13 \o w12 \in Text /\ Len(z13 \o w12) = Len(z13) + Len(w12)
    BY Joined
  <2> QED
    BY <2>1, <2>2, Zenon
<1>28. Prefix(z14, z14)
  <2>1. Len(z14) \in Nat
    BY LenType
  <2> QED
    BY <2>1 DEF Prefix, At
<1>29. Prefix(z13, z14)
  <2>1. Prefix(z13 \o w12, z14)
    BY <1>27, <1>28, Zenon
  <2> QED
    BY <1>26, <2>1, Piece, Zenon
<1>30. Prefix(z12, z14)
  <2>1. Prefix(z12 \o w11, z14)
    BY <1>26, <1>29, Zenon
  <2> QED
    BY <1>25, <2>1, Piece, Zenon
<1>31. Prefix(z11, z14)
  <2>1. Prefix(z11 \o w6, z14)
    BY <1>25, <1>30, Zenon
  <2> QED
    BY <1>24, <2>1, Piece, Zenon
<1>32. Prefix(z10, z14)
  <2>1. Prefix(z10 \o w10, z14)
    BY <1>24, <1>31, Zenon
  <2> QED
    BY <1>23, <2>1, Piece, Zenon
<1>33. Prefix(z9, z14)
  <2>1. Prefix(z9 \o w9, z14)
    BY <1>23, <1>32, Zenon
  <2> QED
    BY <1>22, <2>1, Piece, Zenon
<1>34. Prefix(z8, z14)
  <2>1. Prefix(z8 \o w6, z14)
    BY <1>22, <1>33, Zenon
  <2> QED
    BY <1>21, <2>1, Piece, Zenon
<1>35. Prefix(z7, z14)
  <2>1. Prefix(z7 \o w8, z14)
    BY <1>21, <1>34, Zenon
  <2> QED
    BY <1>20, <2>1, Piece, Zenon
<1>36. Prefix(z6, z14)
  <2>1. Prefix(z6 \o w7, z14)
    BY <1>20, <1>35, Zenon
  <2> QED
    BY <1>19, <2>1, Piece, Zenon
<1>37. Prefix(z5, z14)
  <2>1. Prefix(z5 \o w6, z14)
    BY <1>19, <1>36, Zenon
  <2> QED
    BY <1>18, <2>1, Piece, Zenon
<1>38. Prefix(z4, z14) /\ At(z14, 11, w5)
  <2>1. Prefix(z4 \o w5, z14)
    BY <1>18, <1>37, Zenon
  <2> QED
    BY <1>17, <2>1, Piece, Zenon
<1>39. Prefix(z3, z14) /\ At(z14, 7, w4)
  <2>1. Prefix(z3 \o w4, z14)
    BY <1>17, <1>38, Zenon
  <2> QED
    BY <1>16, <2>1, Piece, Zenon
<1>40. Prefix(z2, z14) /\ At(z14, 5, w3)
  <2>1. Prefix(z2 \o w3, z14)
    BY <1>16, <1>39, Zenon
  <2> QED
    BY <1>15, <2>1, Piece, Zenon
<1>41. Prefix(z1, z14) /\ At(z14, 1, w2)
  <2>1. Prefix(z1 \o w2, z14)
    BY <1>15, <1>40, Zenon
  <2> QED
    BY <1>14, <2>1, Piece, Zenon
<1>42. At(z14, 0, w1)
  BY <1>14, <1>41, Zenon DEF Prefix
<1>43. z14 = DnsLine(T, x, status, latency)
  BY <1>1, <1>2, <1>3, <1>4, <1>5, <1>6, <1>7, <1>8, <1>9, <1>10, <1>11, <1>12, <1>14,
     <1>15, <1>16, <1>17, <1>18, <1>19, <1>20, <1>21, <1>22, <1>23, <1>24, <1>25, <1>26,
     <1>27, Zenon DEF DnsLine
<1>44. Len(z14) >= 36
  <2>1. Len(z14) = Len(x) + 36
    BY <1>27, Zenon
  <2> QED
    BY <1>0, <2>1
<1> QED
  BY <1>1, <1>2, <1>3, <1>4, <1>5, <1>38, <1>39, <1>40, <1>41, <1>42, <1>43, <1>44, Zenon
     DEF DnsHead, Brace, Comma

(* A result as the exporter is given it: its domain is any text. *)
Result(r) == r.domain \in Text /\ r.status \in Tokens /\ r.latency \in Tokens

LEMMA DnsPlaces ==
    ASSUME NEW line, NEW T, DnsHead(line, T)
    PROVE  /\ line \in Text /\ Len(line) >= 36 /\ line[1] = Brace
           /\ line[2] = Quote /\ line[3] = "t" /\ line[4] = Quote /\ line[5] = ":"
           /\ line[6] = T /\ line[7] = Comma
           /\ line[8] = Quote /\ line[9] = "kind" /\ line[10] = Quote /\ line[11] = ":"
           /\ line[12] = Quote /\ line[13] = "dns" /\ line[14] = Quote
<1>1. /\ line \in Text /\ Len(line) >= 36
      /\ At(line, 0, <<Brace>>) /\ At(line, 1, Key("t")) /\ At(line, 5, <<T, Comma>>)
      /\ At(line, 7, Key("kind")) /\ At(line, 11, String(<<"dns">>))
  BY Zenon DEF DnsHead
<1>2. PICK dns \in Tokens : dns = "dns"
  BY DEF Tokens, Marks
<1>3. <<dns>> \in Text /\ Len(<<dns>>) = 1
  BY Words
<1>4. line[1] = Brace
  BY <1>1, OneAt
<1>5. line[2] = Quote /\ line[3] = "t" /\ line[4] = Quote /\ line[5] = ":"
  <2>1. PICK p \in Nat : p = 1
    OBVIOUS
  <2>2. PICK key : key = "t"
    OBVIOUS
  <2>3. At(line, p, Key(key))
    BY <1>1, <2>1, <2>2, Zenon
  <2>4. line[p + 1] = Quote /\ line[p + 2] = key /\ line[p + 3] = Quote /\ line[p + 4] = ":"
    BY <2>3, KeyAt
  <2> QED
    BY <2>1, <2>2, <2>4
<1>6. line[6] = T /\ line[7] = Comma
  BY <1>1, TwoAt
<1>7. line[8] = Quote /\ line[9] = "kind" /\ line[10] = Quote /\ line[11] = ":"
  <2>1. PICK p \in Nat : p = 7
    OBVIOUS
  <2>2. PICK key : key = "kind"
    OBVIOUS
  <2>3. At(line, p, Key(key))
    BY <1>1, <2>1, <2>2, Zenon
  <2>4. line[p + 1] = Quote /\ line[p + 2] = key /\ line[p + 3] = Quote /\ line[p + 4] = ":"
    BY <2>3, KeyAt
  <2> QED
    BY <2>1, <2>2, <2>4
<1>8. line[12] = Quote /\ line[13] = "dns" /\ line[14] = Quote
  <2>1. /\ line[11 + 1] = Quote /\ line[Len(<<dns>>) + (11 + 2)] = Quote
        /\ At(line, 11 + 1, <<dns>>)
    BY <1>1, <1>2, <1>3, StringAt
  <2>2. line[11 + 1 + 1] = dns
    BY <2>1, OneAt
  <2> QED
    BY <1>2, <1>3, <2>1, <2>2
<1> QED
  BY <1>1, <1>4, <1>5, <1>6, <1>7, <1>8, Zenon

LEMMA DnsFields ==
    ASSUME NEW line, NEW T \in Plain, DnsHead(line, T)
    PROVE  raw_field(line, "t") = <<<<T>>>> /\ raw_field(line, "kind") = <<<<"dns">>>>
<1>1. /\ line \in Text /\ Len(line) >= 36 /\ line[1] = Brace
      /\ line[2] = Quote /\ line[3] = "t" /\ line[4] = Quote /\ line[5] = ":"
      /\ line[6] = T /\ line[7] = Comma
      /\ line[8] = Quote /\ line[9] = "kind" /\ line[10] = Quote /\ line[11] = ":"
      /\ line[12] = Quote /\ line[13] = "dns" /\ line[14] = Quote
  BY DnsPlaces, Zenon
<1>2. PICK len \in Nat : len = Len(line) /\ len >= 36
  BY <1>1, LenType
<1>3. "t" # Quote /\ "kind" \notin {Quote, ":", Comma} /\ "dns" \in Plain
  <2>1. "dns" \in Tokens
    BY DEF Tokens, Marks
  <2> QED
    BY <2>1 DEF Plain, Plainly, Stops, Quote, Backslash, Newline, Comma
<1>4. First(line, "t", 2, len - 5)
  <2>1. Named(line, 2, "t")
    BY <1>1 DEF Named
  <2>2. len - 5 \in Nat /\ len - 5 >= 1 /\ Len(line) = 2 + 3 + (len - 5)
    BY <1>2
  <2>3. ASSUME NEW i \in 1..(2 + (len - 5)), Named(line, i, "t") PROVE i >= 2
    <3>1. line[i] = Quote
      BY <2>3 DEF Named
    <3>2. i # 1
      BY <1>1, <3>1, Punctuation
    <3> QED
      BY <1>2, <3>2
  <2> QED
    BY <1>1, <2>1, <2>2, <2>3 DEF First
<1>5. First(line, "kind", 8, len - 11)
  <2>1. Named(line, 8, "kind")
    BY <1>1 DEF Named
  <2>2. len - 11 \in Nat /\ len - 11 >= 1 /\ Len(line) = 8 + 3 + (len - 11)
    BY <1>2
  <2>3. ASSUME NEW i \in 1..(8 + (len - 11)), Named(line, i, "kind") PROVE i >= 8
    <3>1. line[i] = Quote /\ line[i + 1] = "kind"
      BY <2>3 DEF Named
    <3>2. i # 1 /\ i # 3 /\ i # 5 /\ i # 7
      BY <1>1, <1>3, <3>1, Punctuation
    <3>3. i # 2 /\ i # 4 /\ i # 6
      <4>1. line[2 + 1] = "t" /\ line[4 + 1] = ":" /\ line[6 + 1] = Comma
        BY <1>1
      <4>2. "kind" # "t" /\ "kind" # ":" /\ "kind" # Comma
        BY <1>3
      <4> QED
        BY <3>1, <4>1, <4>2, Zenon
    <3>4. i \in Nat /\ i >= 1
      BY <1>2
    <3> QED
      BY <3>2, <3>3, <3>4
  <2> QED
    BY <1>1, <2>1, <2>2, <2>3 DEF First
<1>6. raw_field(line, "t") = <<<<T>>>>
  <2>1. PICK p \in Nat, rest \in Nat : p = 2 /\ rest = len - 5
    BY <1>2
  <2>2. First(line, "t", p, rest) /\ rest >= 2
    BY <1>2, <1>4, <2>1
  <2>3. line[p + 4] = T /\ line[p + 5] \in Stops
    BY <1>1, <2>1, Punctuation
  <2> QED
    BY <2>2, <2>3, BareToken
<1>7. raw_field(line, "kind") = <<<<"dns">>>>
  <2>1. PICK p \in Nat, rest \in Nat : p = 8 /\ rest = len - 11
    BY <1>2
  <2>2. First(line, "kind", p, rest) /\ rest >= 3
    BY <1>2, <1>5, <2>1
  <2>3. PICK c \in Plain : c = "dns"
    BY <1>3
  <2>4. line[p + 4] = Quote /\ line[p + 5] = c /\ line[p + 6] = Quote
    BY <1>1, <2>1, <2>3
  <2>5. raw_field(line, "kind") = <<<<c>>>>
    BY <2>2, <2>3, <2>4, QuotedToken
  <2> QED
    BY <2>3, <2>5
<1> QED
  BY <1>6, <1>7

(* A lookup's line gives the CSV nothing, whatever the domain is called.    *)
THEOREM LookupsConvert ==
    ASSUME NEW t \in 0..(Len(Numeral) - 1), NEW r, Result(r),
           NEW now \in Nat, NEW last \in {<<>>} \cup {<<k>> : k \in Nat}
    PROVE  Converted(ndjson_dns(t, r), "csv", now, last) = NoRow
<1>1. PICK x \in Text : x = esc(r.domain)
  BY EscLaid DEF Result
<1>2. PICK T \in Plain : T = ToText(t)
  BY NumbersRead, Zenon
<1>3. T \in Tokens
  BY PlainType
<1>4. PICK status \in Tokens, latency \in Tokens : status = r.status /\ latency = r.latency
  BY DEF Result
<1>5. PICK line : line = ndjson_dns(t, r)
  OBVIOUS
<1>6. line = DnsLine(T, x, status, latency)
  BY <1>1, <1>2, <1>4, <1>5, Zenon DEF ndjson_dns, DnsLine
<1>7. DnsHead(line, T)
  BY <1>1, <1>3, <1>4, <1>6, DnsLineLaid, Zenon
<1>8. raw_field(line, "t") = <<<<T>>>> /\ raw_field(line, "kind") = <<<<"dns">>>>
  BY <1>2, <1>7, DnsFields
<1>9. IsNumber(T) /\ ToNumber(T) = t
  BY <1>2, NumbersRead, Zenon
<1>10. line # <<>>
  <2>1. Len(line) >= 36
    BY <1>7, Zenon DEF DnsHead
  <2> QED
    BY <2>1
<1>11. /\ Len(<<T>>) = 1 /\ <<T>>[1] = T /\ <<<<T>>>>[1] = <<T>> /\ <<<<T>>>> # <<>>
       /\ <<<<"dns">>>> # <<>> /\ <<<<"dns">>>>[1] = <<"dns">> /\ <<"dns">> # <<"ping">>
  OBVIOUS
<1>12. Converted(line, "csv", now, last) = NoRow
  BY <1>8, <1>9, <1>10, <1>11, Zenon DEF Converted
<1> QED
  BY <1>5, <1>12, Zenon
==============================================================================
