----------------------------- MODULE Utf8Proofs -----------------------------
(***************************************************************************)
(* Theorems about the UTF-8 functions, for strings of any length over all  *)
(* bytes but FE and FF: they recognise, decode and validate exactly what   *)
(* the definition of UTF-8 says, a stream may be cut into buffers anywhere *)
(* and hops count characters.                                              *)
(*                                                                         *)
(* From the tables up: each is a function of the byte, each automaton      *)
(* accepts a language, whose members are, by the arithmetic of values, the *)
(* characters of a set of code points.  What a loop over a string does     *)
(* follows from its invariant.                                             *)
(***************************************************************************)
EXTENDS Utf8, SequenceTheorems, FiniteSetTheorems, FunctionTheorems, WellFoundedInduction, TLAPS

-----------------------------------------------------------------------------
(* Loops.  Induction is over sets of numbers, the form the provers can     *)
(* cite.                                                                   *)

(* Induction up to n, for what can be written as a set of numbers.         *)
LEMMA UpTo ==
  ASSUME NEW n \in Nat, NEW S, 0 \in S, \A i \in 1 .. n : i - 1 \in S => i \in S
  PROVE  \A i \in 0 .. n : i \in S
<1> DEFINE T == {i \in 0 .. n : i \notin S}
<1> SUFFICES ASSUME T # {} PROVE FALSE
  OBVIOUS
<1>1. T \subseteq Nat
  OBVIOUS
<1>2. PICK k \in T : \A j \in T : ~(<<j, k>> \in OpToRel(<, Nat))
  <2> HIDE DEF T
  <2> QED
    BY ONLY <1>1, T # {}, NatLessThanWellFounded, WFMin
<1>3. \A j \in T : ~(j < k)
  BY <1>1, <1>2 DEF OpToRel
<1>4. k \in 0 .. n /\ k # 0 /\ k - 1 \in 0 .. n
  OBVIOUS
<1>5. k - 1 \in T
  BY <1>4
<1> QED
  BY <1>3, <1>4, <1>5

(* The values a loop goes through, up to turn n.                           *)
Run(body, x, g, n) == g = [i \in 0 .. n |-> IF i = 0 THEN x ELSE body[i][g[i - 1]]]

(* A run does what the turns say, there is one, and no two differ: so the  *)
(* recursive function that Loop chooses exists.                            *)
LEMMA RunValues ==
  ASSUME NEW body, NEW x, NEW g, NEW n \in Nat, Run(body, x, g, n)
  PROVE  g[0] = x /\ \A i \in 1 .. n : g[i] = body[i][g[i - 1]]
BY DEF Run

LEMMA RunExists ==
  ASSUME NEW body, NEW x, NEW n \in Nat
  PROVE  \E g : Run(body, x, g, n)
<1> DEFINE S == {i \in 0 .. n : \E g : Run(body, x, g, i)}
<1>1. 0 \in S
  <2>1. Run(body, x, [i \in 0 .. 0 |-> x], 0)
    BY DEF Run
  <2> QED
    BY <2>1
<1>2. ASSUME NEW i \in 1 .. n, i - 1 \in S PROVE i \in S
  <2>1. PICK g : Run(body, x, g, i - 1)
    BY <1>2
  <2> DEFINE h == [j \in 0 .. i |-> IF j = i THEN body[i][g[i - 1]] ELSE g[j]]
  <2>2. g[0] = x /\ \A j \in 1 .. i - 1 : g[j] = body[j][g[j - 1]]
    BY <2>1, RunValues
  <2>3. ASSUME NEW j \in 0 .. i PROVE h[j] = IF j = 0 THEN x ELSE body[j][h[j - 1]]
    BY <2>2
  <2>4. Run(body, x, h, i)
    BY <2>3 DEF Run
  <2> QED
    BY <2>4
<1> HIDE DEF S
<1>3. n \in S
  BY ONLY <1>1, <1>2, UpTo, n \in Nat
<1> QED
  BY <1>3 DEF S

LEMMA RunUnique ==
  ASSUME NEW body, NEW x, NEW g, NEW h, NEW n \in Nat, NEW m \in Nat,
         Run(body, x, g, n), Run(body, x, h, m), NEW k \in Nat, k <= n, k <= m
  PROVE  g[k] = h[k]
<1> DEFINE S == {i \in 0 .. k : g[i] = h[i]}
<1>1. /\ g[0] = x /\ \A i \in 1 .. n : g[i] = body[i][g[i - 1]]
      /\ h[0] = x /\ \A i \in 1 .. m : h[i] = body[i][h[i - 1]]
  BY RunValues
<1>2. 0 \in S
  BY <1>1
<1>3. ASSUME NEW i \in 1 .. k, i - 1 \in S PROVE i \in S
  BY <1>1, <1>3
<1> HIDE DEF S
<1>4. k \in S
  BY ONLY <1>2, <1>3, UpTo, k \in Nat
<1> QED
  BY <1>4 DEF S

(* A loop is what its turns say.                                           *)
LEMMA LoopTurns ==
  ASSUME NEW body, NEW x
  PROVE  Loop(body, 0, x) = x /\ \A n \in Nat \ {0} : Loop(body, n, x) = body[n][Loop(body, n - 1, x)]
<1> DEFINE pick(i) == CHOOSE g : Run(body, x, g, i)
           at == [i \in Nat |-> pick(i)[i]]
           Def(g) == [i \in Nat |-> IF i = 0 THEN x ELSE body[i][g[i - 1]]]
<1>1. \A i \in Nat : Run(body, x, pick(i), i)
  BY RunExists
<1> HIDE DEF pick
<1>2. at[0] = x
  BY <1>1, RunValues
<1>3. ASSUME NEW i \in Nat \ {0} PROVE at[i] = body[i][at[i - 1]]
  <2>1. pick(i)[i] = body[i][pick(i)[i - 1]]
    BY <1>1, RunValues
  <2>2. i - 1 \in Nat /\ i - 1 <= i /\ i \in Nat
    OBVIOUS
  <2>3. pick(i)[i - 1] = pick(i - 1)[i - 1]
    BY <1>1, <2>2, RunUnique
  <2> QED
    BY <2>1, <2>2, <2>3
<1>4. at = Def(at)
  BY <1>2, <1>3
<1>5. \E g : g = Def(g)
  <2> HIDE DEF at, Def
  <2> QED
    BY <1>4
<1> DEFINE f == CHOOSE g : g = Def(g)
<1>6. f = Def(f)
  <2> HIDE DEF at, Def
  <2> QED
    BY <1>5
<1>7. \A n \in Nat : Loop(body, n, x) = f[n]
  BY DEF Loop
<1> HIDE DEF f
<1>8. \A n \in Nat : f[n] = IF n = 0 THEN x ELSE body[n][f[n - 1]]
  BY <1>6
<1> QED
  BY <1>7, <1>8

(* A loop's invariant: S[i] holds after turn i.                            *)
LEMMA LoopInvariant ==
  ASSUME NEW body, NEW x, NEW n \in Nat, NEW S, x \in S[0],
         \A i \in 1 .. n : \A v \in S[i - 1] : body[i][v] \in S[i]
  PROVE  Loop(body, n, x) \in S[n]
<1> DEFINE T == {i \in 0 .. n : Loop(body, i, x) \in S[i]}
<1>1. 0 \in T
  BY LoopTurns
<1>2. ASSUME NEW i \in 1 .. n, i - 1 \in T PROVE i \in T
  <2>1. i \in Nat \ {0}
    OBVIOUS
  <2>2. Loop(body, i, x) = body[i][Loop(body, i - 1, x)]
    BY ONLY <2>1, LoopTurns, Zenon
  <2> QED
    BY <1>2, <2>2
<1> HIDE DEF T
<1>3. n \in T
  BY ONLY <1>1, <1>2, UpTo, n \in Nat
<1> QED
  BY <1>3 DEF T

(* The two forms in which loops of a known number of turns are unrolled.   *)
LEMMA LoopNone ==
  ASSUME NEW body, NEW x
  PROVE  Loop(body, 0, x) = x
BY LoopTurns

LEMMA LoopTurn ==
  ASSUME NEW body, NEW x, NEW n \in Nat, n > 0
  PROVE  Loop(body, n, x) = body[n][Loop(body, n - 1, x)]
<1>1. n \in Nat \ {0}
  OBVIOUS
<1> QED
  BY ONLY <1>1, LoopTurns, Zenon

-----------------------------------------------------------------------------
(* Strings, and what an automaton that accepts a language does with one.   *)

(* What the functions are called with, of any length.                      *)
Strings == Seq(0 .. 253)

Prefix(g, n) == SubSeq(g, 1, n)

(* Elements and lengths of strings, of slices, and of longer strings.      *)
LEMMA StringFacts ==
  ASSUME NEW s \in Strings
  PROVE  /\ Len(s) \in Nat /\ (Len(s) = 0 <=> s = <<>>)
         /\ \A i \in 1 .. Len(s) : s[i] \in 0 .. 253
BY ElementOfSeq, LenProperties, EmptySeq DEF Strings

LEMMA Slices ==
  ASSUME NEW s \in Strings, NEW a \in Nat, NEW b \in a .. Len(s)
  PROVE  /\ SubSeq(s, a + 1, b) \in Strings
         /\ Len(SubSeq(s, a + 1, b)) = b - a
         /\ \A i \in 1 .. b - a : SubSeq(s, a + 1, b)[i] = s[a + i]
<1>1. Len(s) \in Nat /\ \A i \in 1 .. Len(s) : s[i] \in 0 .. 253
  BY StringFacts
<1>2. a + 1 \in Int /\ b \in Int /\ \A i \in a + 1 .. b : s[i] \in 0 .. 253
  <2>1. ASSUME NEW i \in a + 1 .. b PROVE s[i] \in 0 .. 253
    <3>1. i \in 1 .. Len(s)
      BY <1>1
    <3> QED
      BY <1>1, <3>1
  <2> QED
    BY <1>1, <2>1
<1> DEFINE t == SubSeq(s, a + 1, b)
<1>3. /\ t \in Seq(0 .. 253)
      /\ Len(t) = IF a + 1 <= b THEN b - (a + 1) + 1 ELSE 0
      /\ \A i \in 1 .. b - (a + 1) + 1 : t[i] = s[a + 1 + i - 1]
  BY ONLY <1>2, SubSeqProperties
<1> HIDE DEF t
<1>4. Len(t) = b - a /\ \A i \in 1 .. b - a : t[i] = s[a + i]
  BY <1>1, <1>3
<1> QED
  BY <1>3, <1>4 DEF t, Strings

LEMMA SameString ==
  ASSUME NEW s \in Strings, NEW t \in Strings, Len(s) = Len(t), \A i \in 1 .. Len(s) : s[i] = t[i]
  PROVE  s = t
BY SeqEqual DEF Strings

LEMMA Longer ==
  ASSUME NEW s \in Strings, NEW b \in 0 .. 253
  PROVE  /\ Append(s, b) \in Strings /\ Len(Append(s, b)) = Len(s) + 1
         /\ Append(s, b)[Len(s) + 1] = b
         /\ \A i \in 1 .. Len(s) : Append(s, b)[i] = s[i]
BY AppendProperties DEF Strings

(* The bytes an automaton has read so far.                                 *)
LEMMA PrefixFacts ==
  ASSUME NEW g \in Strings, NEW n \in 0 .. Len(g)
  PROVE  /\ Prefix(g, n) \in Strings
         /\ Len(Prefix(g, n)) = n
         /\ \A j \in 1 .. n : Prefix(g, n)[j] = g[j]
<1>1. n \in 0 .. Len(g) /\ 0 \in Nat /\ 0 + 1 = 1 /\ n - 0 = n /\ \A i \in 1 .. n : 0 + i = i
  BY StringFacts
<1>2. /\ SubSeq(g, 0 + 1, n) \in Strings /\ Len(SubSeq(g, 0 + 1, n)) = n - 0
      /\ \A i \in 1 .. n - 0 : SubSeq(g, 0 + 1, n)[i] = g[0 + i]
  BY ONLY <1>1, Slices, g \in Strings
<1> QED
  BY <1>1, <1>2 DEF Prefix

LEMMA WholePrefix ==
  ASSUME NEW g \in Strings
  PROVE  Prefix(g, Len(g)) = g
BY SubSeqFull DEF Prefix, Strings

LEMMA LongerPrefix ==
  ASSUME NEW g \in Strings, NEW n \in 1 .. Len(g)
  PROVE  Prefix(g, n) = Append(Prefix(g, n - 1), g[n])
<1>1. Len(g) \in Nat /\ g[n] \in 0 .. 253 /\ n - 1 \in 0 .. Len(g) /\ n \in 0 .. Len(g) /\ n - 1 + 1 = n
  BY StringFacts
<1> DEFINE p == Prefix(g, n - 1)
<1>2. p \in Strings /\ Len(p) = n - 1 /\ \A j \in 1 .. n - 1 : p[j] = g[j]
  BY ONLY <1>1, PrefixFacts, g \in Strings
<1>3. Prefix(g, n) \in Strings /\ Len(Prefix(g, n)) = n /\ \A j \in 1 .. n : Prefix(g, n)[j] = g[j]
  BY ONLY <1>1, PrefixFacts, g \in Strings
<1> HIDE DEF p
<1>4. /\ Append(p, g[n]) \in Strings /\ Len(Append(p, g[n])) = Len(p) + 1
      /\ Append(p, g[n])[Len(p) + 1] = g[n]
      /\ \A j \in 1 .. Len(p) : Append(p, g[n])[j] = p[j]
  BY ONLY <1>1, <1>2, Longer
<1>5. Prefix(g, n) = Append(p, g[n])
  <2>1. Len(Append(p, g[n])) = n /\ \A j \in 1 .. n : Prefix(g, n)[j] = Append(p, g[n])[j]
    BY ONLY <1>1, <1>2, <1>3, <1>4
  <2> QED
    BY ONLY <1>3, <1>4, <2>1, SameString
<1> QED
  BY <1>5 DEF p

LEMMA FirstPrefix ==
  ASSUME NEW g \in Strings, Len(g) > 0
  PROVE  Prefix(g, 1) = <<g[1]>>
<1>1. 1 \in 1 .. Len(g) /\ 1 - 1 = 0
  BY StringFacts
<1>2. Prefix(g, 1) = Append(Prefix(g, 0), g[1])
  BY ONLY <1>1, LongerPrefix, g \in Strings
<1>3. Prefix(g, 0) = <<>>
  BY SubSeqEmpty DEF Prefix
<1>4. Append(<<>>, g[1]) = <<g[1]>>
  OBVIOUS
<1> QED
  BY ONLY <1>2, <1>3, <1>4

LEMMA PrefixOfPrefix ==
  ASSUME NEW g \in Strings, NEW n \in 0 .. Len(g), NEW m \in 0 .. n
  PROVE  Prefix(Prefix(g, n), m) = Prefix(g, m)
<1>1. Len(g) \in Nat /\ n \in 0 .. Len(g) /\ m \in 0 .. n /\ m \in 0 .. Len(g)
  BY StringFacts
<1> DEFINE p == Prefix(g, n)
<1>2. p \in Strings /\ Len(p) = n /\ \A j \in 1 .. n : p[j] = g[j]
  BY ONLY <1>1, PrefixFacts, g \in Strings
<1>3. Prefix(g, m) \in Strings /\ Len(Prefix(g, m)) = m /\ \A j \in 1 .. m : Prefix(g, m)[j] = g[j]
  BY ONLY <1>1, PrefixFacts, g \in Strings
<1> HIDE DEF p
<1>4. Prefix(p, m) \in Strings /\ Len(Prefix(p, m)) = m /\ \A j \in 1 .. m : Prefix(p, m)[j] = p[j]
  BY ONLY <1>1, <1>2, PrefixFacts
<1>5. \A j \in 1 .. m : Prefix(p, m)[j] = Prefix(g, m)[j]
  BY <1>1, <1>2, <1>3, <1>4
<1>6. Prefix(p, m) = Prefix(g, m)
  BY ONLY <1>3, <1>4, <1>5, SameString
<1> QED
  BY <1>6 DEF p

(* The automaton accepts a language: Good has the beginnings of its      *)
(* members, and node the state each of them leads to.                      *)
FirstByte(dfa, Good, node) ==
  \A b \in 0 .. 253 : Goto(dfa, 0, b) = IF <<b>> \in Good THEN node[<<b>>] ELSE R

FurtherByte(dfa, Good, node) ==
  \A g \in Good, b \in 0 .. 253 : node[g] # 0
    => Goto(dfa, node[g], b) = IF Append(g, b) \in Good THEN node[Append(g, b)] ELSE R

Beginnings(Good, node) ==
  \A g \in Good : /\ g \in Strings /\ Len(g) > 0 /\ Len(g) <= Width(g[1])
                  /\ node[g] \in 0 .. 11 /\ (node[g] = 0 <=> Len(g) = Width(g[1]))
                  /\ \A n \in 1 .. Len(g) : Prefix(g, n) \in Good

Language(dfa, Good, node) ==
  FirstByte(dfa, Good, node) /\ FurtherByte(dfa, Good, node) /\ Beginnings(Good, node)

(* What that says of the prefixes of bytes: G has the lengths of those in  *)
(* Good, and q their nodes.                                                *)
Walks(dfa, bytes, G, q, w) ==
  /\ w \in 0 .. 6 /\ G \subseteq 1 .. Len(bytes)
  /\ \A i \in G : /\ i <= w /\ q[i] \in 0 .. 11 /\ (q[i] = 0 <=> i = w)
                  /\ \A j \in 1 .. i : j \in G
  /\ \A i \in 1 .. Len(bytes) : \A s :
       \/ i = 1 /\ s = 0
       \/ i > 1 /\ i - 1 \in G /\ s = q[i - 1] /\ s # 0
       => Goto(dfa, s, bytes[i]) = IF i \in G THEN q[i] ELSE R

(* A language determines how its automaton walks along any string.         *)
LEMMA LanguageWalks ==
  ASSUME NEW dfa, NEW Good, NEW node, Language(dfa, Good, node), NEW bytes \in Strings,
         NEW G, G = {i \in 1 .. Len(bytes) : Prefix(bytes, i) \in Good},
         NEW q, q = [i \in 1 .. Len(bytes) |-> node[Prefix(bytes, i)]],
         NEW w, w = IF bytes = <<>> THEN 0 ELSE Width(bytes[1])
  PROVE  Walks(dfa, bytes, G, q, w)
<1>1. Len(bytes) \in Nat /\ (Len(bytes) = 0 <=> bytes = <<>>)
  BY StringFacts
<1>2. w \in 0 .. 6
  BY DEF Width
<1>3. ASSUME NEW i \in G
      PROVE  i <= w /\ q[i] \in 0 .. 11 /\ (q[i] = 0 <=> i = w) /\ \A j \in 1 .. i : j \in G
  <2> DEFINE g == Prefix(bytes, i)
  <2>1. i \in 1 .. Len(bytes) /\ i \in 0 .. Len(bytes) /\ q[i] = node[g] /\ g \in Good
    BY <1>1
  <2>2. g \in Strings /\ Len(g) = i /\ g[1] = bytes[1]
    BY <2>1, PrefixFacts
  <2>3. ASSUME NEW j \in 1 .. i PROVE Prefix(g, j) = Prefix(bytes, j) /\ j \in 1 .. Len(bytes)
    <3>1. j \in 0 .. i /\ j \in 1 .. Len(bytes)
      BY ONLY <2>1, <1>1, j \in 1 .. i
    <3> QED
      BY ONLY <2>1, <3>1, PrefixOfPrefix, bytes \in Strings DEF g
  <2> HIDE DEF g
  <2>4. /\ Len(g) <= Width(g[1]) /\ node[g] \in 0 .. 11 /\ (node[g] = 0 <=> Len(g) = Width(g[1]))
        /\ \A n \in 1 .. Len(g) : Prefix(g, n) \in Good
    BY ONLY <2>1, Language(dfa, Good, node) DEF Language, Beginnings
  <2>5. w = Width(g[1])
    BY <1>1, <2>1, <2>2
  <2>6. ASSUME NEW j \in 1 .. i PROVE j \in G
    BY <2>2, <2>3, <2>4
  <2> QED
    BY <2>1, <2>2, <2>4, <2>5, <2>6
<1>4. ASSUME NEW i \in 1 .. Len(bytes), NEW s,
             \/ i = 1 /\ s = 0
             \/ i > 1 /\ i - 1 \in G /\ s = q[i - 1] /\ s # 0
      PROVE  Goto(dfa, s, bytes[i]) = IF i \in G THEN q[i] ELSE R
  <2> DEFINE h == Prefix(bytes, i)
  <2>1. bytes[i] \in 0 .. 253 /\ q[i] = node[h] /\ (i \in G <=> h \in Good)
    BY ONLY i \in 1 .. Len(bytes), bytes \in Strings, StringFacts,
      q = [k \in 1 .. Len(bytes) |-> node[Prefix(bytes, k)]],
      G = {k \in 1 .. Len(bytes) : Prefix(bytes, k) \in Good}
  <2>2. CASE i = 1
    <3>1. h = <<bytes[i]>>
      BY <1>1, <2>2, FirstPrefix
    <3> HIDE DEF h
    <3>2. Goto(dfa, 0, bytes[i]) = IF <<bytes[i]>> \in Good THEN node[<<bytes[i]>>] ELSE R
      BY ONLY <2>1, Language(dfa, Good, node) DEF Language, FirstByte
    <3> QED
      BY ONLY <1>4, <2>1, <2>2, <3>1, <3>2
  <2>3. CASE i > 1
    <3> DEFINE g == Prefix(bytes, i - 1)
    <3>1. h = Append(g, bytes[i])
      BY LongerPrefix
    <3>2. g \in Good /\ s = node[g] /\ node[g] # 0
      BY <1>4, <2>3
    <3> HIDE DEF h, g
    <3>3. Goto(dfa, node[g], bytes[i]) = IF Append(g, bytes[i]) \in Good THEN node[Append(g, bytes[i])] ELSE R
      BY ONLY <2>1, <3>2, Language(dfa, Good, node) DEF Language, FurtherByte
    <3> QED
      BY ONLY <2>1, <3>1, <3>2, <3>3
  <2> QED
    BY <2>2, <2>3
<1> QED
  BY <1>2, <1>3, <1>4 DEF Walks

(* Where the automaton is after i bytes.                                   *)
Where(G, q, i, at) ==
  \/ i = 0 /\ at.n = 0 /\ at.state = 0
  \/ at.n \in 1 .. i /\ at.state = 0 /\ at.n \in G /\ q[at.n] = 0
  \/ i > 0 /\ at.n = i /\ i \in G /\ at.state = q[i] /\ q[i] # 0
  \/ at.n \in 1 .. i /\ at.state = R /\ at.n \notin G /\ (at.n > 1 => at.n - 1 \in G /\ q[at.n - 1] # 0)

(* The invariant of the automaton's loop, and what it says at its end.     *)
LEMMA AutomatonStep ==
  ASSUME NEW dfa, NEW bytes, Len(bytes) \in Nat, NEW G, NEW q, NEW w, Walks(dfa, bytes, G, q, w),
         NEW i \in 1 .. Len(bytes), NEW at \in [state : R .. 11, n : 0 .. Len(bytes)],
         Where(G, q, i - 1, at),
         NEW to, to = IF Stopped(at) THEN at ELSE [state |-> Goto(dfa, at.state, bytes[i]), n |-> i]
  PROVE  to \in [state : R .. 11, n : 0 .. Len(bytes)] /\ Where(G, q, i, to)
<1>1. CASE Stopped(at)
  <2>1. to = at /\ at.n > 0 /\ at.state \in {0, R}
    BY <1>1 DEF Stopped
  <2>2. ~(at.n = i - 1 /\ i - 1 \in G /\ at.state = q[i - 1] /\ q[i - 1] # 0)
    BY <2>1 DEF Walks, R
  <2> QED
    BY <2>1, <2>2 DEF Where
<1>2. CASE ~Stopped(at)
  <2>1. to.n = i /\ to.state = Goto(dfa, at.state, bytes[i]) /\ to = [state |-> to.state, n |-> i]
    BY <1>2
  <2>2. \/ i = 1 /\ at.state = 0
        \/ i > 1 /\ i - 1 \in G /\ at.state = q[i - 1] /\ q[i - 1] # 0
    BY <1>2 DEF Where, Stopped
  <2>3. to.state = IF i \in G THEN q[i] ELSE R
    BY ONLY <2>1, <2>2, Walks(dfa, bytes, G, q, w), i \in 1 .. Len(bytes) DEF Walks
  <2>4. i \in G => q[i] \in 0 .. 11
    BY DEF Walks
  <2>5. to \in [state : R .. 11, n : 0 .. Len(bytes)]
    BY <2>1, <2>3, <2>4 DEF R
  <2>6. Where(G, q, i, to)
    BY ONLY <2>1, <2>2, <2>3, i \in 1 .. Len(bytes), Len(bytes) \in Nat DEF Where
  <2> QED
    BY <2>5, <2>6
<1> QED
  BY <1>1, <1>2

LEMMA AutomatonStops ==
  ASSUME NEW dfa, NEW bytes \in Strings, NEW G, NEW q, NEW w, Walks(dfa, bytes, G, q, w)
  PROVE  /\ PERL_IS_UTF8_CHAR_DFA(bytes, dfa) \in [state : R .. 11, n : 0 .. Len(bytes)]
         /\ Where(G, q, Len(bytes), PERL_IS_UTF8_CHAR_DFA(bytes, dfa))
<1> DEFINE n == Len(bytes)
           Ats == [state : R .. 11, n : 0 .. Len(bytes)]
           turn == [i \in 1 .. Len(bytes) |-> [at \in Ats |->
                      IF Stopped(at) THEN at ELSE [state |-> Goto(dfa, at.state, bytes[i]), n |-> i]]]
           x == [state |-> 0, n |-> 0]
           S == [i \in 0 .. n |-> {at \in Ats : Where(G, q, i, at)}]
<1>1. n \in Nat
  BY StringFacts
<1>2. x \in S[0]
  BY <1>1 DEF Where, R
<1>3. ASSUME NEW i \in 1 .. n, NEW at \in S[i - 1] PROVE turn[i][at] \in S[i]
  <2>1. at \in Ats /\ Where(G, q, i - 1, at)
    BY <1>1
  <2> DEFINE to == IF Stopped(at) THEN at ELSE [state |-> Goto(dfa, at.state, bytes[i]), n |-> i]
  <2>2. turn[i][at] = to
    BY <2>1
  <2>3. to \in Ats /\ Where(G, q, i, to)
    BY <1>1, <2>1, AutomatonStep
  <2> HIDE DEF to, turn
  <2> QED
    BY <2>2, <2>3
<1>4. PERL_IS_UTF8_CHAR_DFA(bytes, dfa) = Loop(turn, n, x)
  BY DEF PERL_IS_UTF8_CHAR_DFA
<1>5. Loop(turn, n, x) \in S[n]
  <2> HIDE DEF n, turn, x, S
  <2> QED
    BY ONLY <1>1, <1>2, <1>3, LoopInvariant
<1> QED
  BY <1>1, <1>4, <1>5

(* The automaton accepts exactly at the length of a full member, and is    *)
(* between two states exactly when the string is the beginning of one.     *)
LEMMA Automaton ==
  ASSUME NEW dfa, NEW bytes \in Strings, NEW G, NEW q, NEW w, Walks(dfa, bytes, G, q, w),
         NEW at, at = PERL_IS_UTF8_CHAR_DFA(bytes, dfa)
  PROVE  /\ at.state \in R .. 11 /\ at.n \in 0 .. Len(bytes)
         /\ Accepted(at) => at.n > 0 /\ at.n \in G /\ q[at.n] = 0
         /\ ~Accepted(at) => \A n \in G : q[n] # 0
         /\ at.state \notin {0, R} <=> Len(bytes) \in G /\ q[Len(bytes)] # 0
         /\ at.state = 0 /\ ~Accepted(at) => bytes = <<>>
<1>1. /\ at.state \in R .. 11 /\ at.n \in 0 .. Len(bytes)
      /\ Where(G, q, Len(bytes), at)
  BY AutomatonStops
<1>2. Len(bytes) \in Nat /\ (Len(bytes) = 0 <=> bytes = <<>>)
  BY StringFacts
<1> DEFINE n == Len(bytes)
<1>3. w \in 0 .. 6 /\ G \subseteq 1 .. n
  BY DEF Walks
<1>4. \A i \in G : /\ i <= w /\ q[i] \in 0 .. 11 /\ (q[i] = 0 <=> i = w)
                   /\ \A j \in 1 .. i : j \in G
  BY DEF Walks
<1> HIDE DEF n
<1>5. Accepted(at) => at.n > 0 /\ at.n \in G /\ q[at.n] = 0
  BY <1>1, <1>2, <1>3, <1>4 DEF Where, Accepted, R, n
<1>6. ASSUME NEW k \in G, q[k] = 0 PROVE Accepted(at)
  <2>1. k = w /\ k \in 1 .. n /\ \A j \in G : j <= k
    BY <1>3, <1>4, <1>6
  <2>2. ~(n \in G /\ q[n] # 0)
    BY <1>2, <1>3, <1>4, <2>1 DEF n
  <2>3. ~(at.n \in 1 .. n /\ at.n \notin G /\ (at.n > 1 => at.n - 1 \in G /\ q[at.n - 1] # 0))
    BY <1>2, <1>3, <1>4, <2>1 DEF n
  <2> QED
    BY <1>1, <1>2, <2>1, <2>2, <2>3 DEF Where, Accepted, n
<1>7. at.state \notin {0, R} => n \in G /\ q[n] # 0
  BY <1>1, <1>2 DEF Where, n
<1>8. ASSUME n \in G, q[n] # 0 PROVE at.state \notin {0, R}
  <2>1. \A j \in 1 .. n : j \in G /\ q[j] # 0
    BY <1>2, <1>3, <1>4, <1>8 DEF n
  <2>2. q[n] \in 0 .. 11 /\ n > 0
    BY <1>3, <1>4, <1>8
  <2> QED
    BY <1>1, <1>2, <2>1, <2>2, <1>8 DEF Where, R, n
<1>9. at.state = 0 /\ ~Accepted(at) => bytes = <<>>
  BY <1>1, <1>2 DEF Where, Accepted
<1> QED
  BY <1>1, <1>5, <1>6, <1>7, <1>8, <1>9 DEF n

-----------------------------------------------------------------------------
(* The tables, read as functions of the byte.                              *)

(* The three tables.                                                       *)
Ext == PL_extended_utf8_dfa_tab
Str == PL_strict_utf8_dfa_tab
C9t == PL_c9_utf8_dfa_tab

(* Every entry of the extended table: the classes, the rows, and both      *)
(* together, where an automaton goes from each state on each byte.         *)
LEMMA ExtClass ==
  ASSUME NEW b \in 0 .. 253
  PROVE  Class(Ext, b) =
     CASE b \in 0 .. 127 -> 0 [] b \in 128 .. 129 -> 7 [] b \in 130 .. 131 -> 8
       [] b \in 132 .. 135 -> 9 [] b \in 136 .. 143 -> 10 [] b \in 144 .. 159 -> 11
       [] b \in 160 .. 191 -> 12 [] b \in 192 .. 193 -> 1 [] b \in 194 .. 223 -> 2
       [] b = 224 -> 13 [] b \in 225 .. 239 -> 3 [] b = 240 -> 14
       [] b \in 241 .. 247 -> 4 [] b = 248 -> 15 [] b \in 249 .. 251 -> 5
       [] b = 252 -> 16 [] b = 253 -> 6 
BY DEF Class, Ext, PL_extended_utf8_dfa_tab

LEMMA ExtClassFacts ==
  ASSUME NEW b \in 0 .. 253, NEW c, c = Class(Ext, b)
  PROVE  /\ c \in 0 .. 16
         /\ b < 128 <=> c = 0
         /\ b \in 128 .. 191 <=> c \in 7 .. 12
         /\ b \in 132 .. 191 <=> c \in 9 .. 12
         /\ b \in 136 .. 191 <=> c \in 10 .. 12
         /\ b \in 144 .. 191 <=> c \in 11 .. 12
         /\ b \in 160 .. 191 <=> c = 12
         /\ b \in 192 .. 193 <=> c = 1
         /\ b \in 194 .. 223 <=> c = 2
         /\ b = 224 <=> c = 13
         /\ b \in 225 .. 239 <=> c = 3
         /\ b = 240 <=> c = 14
         /\ b \in 241 .. 247 <=> c = 4
         /\ b = 248 <=> c = 15
         /\ b \in 249 .. 251 <=> c = 5
         /\ b = 252 <=> c = 16
         /\ b = 253 <=> c = 6
BY ExtClass

LEMMA ExtRows ==
  ASSUME NEW c \in 0 .. 16
  PROVE  /\ Ext.node[1][c + 1] = CASE c = 0 -> 0 [] c = 2 -> 1 [] c = 3 -> 2 [] c = 4 -> 3 [] c = 5 -> 4
                                   [] c = 6 -> 5 [] c = 13 -> 6 [] c = 14 -> 7 [] c = 15 -> 8
                                   [] c = 16 -> 9 [] OTHER -> R
         /\ Ext.node[2][c + 1] = IF c \in 7 .. 12 THEN 0 ELSE R
         /\ Ext.node[3][c + 1] = IF c \in 7 .. 12 THEN 1 ELSE R
         /\ Ext.node[4][c + 1] = IF c \in 7 .. 12 THEN 2 ELSE R
         /\ Ext.node[5][c + 1] = IF c \in 7 .. 12 THEN 3 ELSE R
         /\ Ext.node[6][c + 1] = IF c \in 7 .. 12 THEN 4 ELSE R
         /\ Ext.node[7][c + 1] = IF c = 12 THEN 1 ELSE R
         /\ Ext.node[8][c + 1] = IF c \in 11 .. 12 THEN 2 ELSE R
         /\ Ext.node[9][c + 1] = IF c \in 10 .. 12 THEN 3 ELSE R
         /\ Ext.node[10][c + 1] = IF c \in 9 .. 12 THEN 4 ELSE R
BY DEF Ext, PL_extended_utf8_dfa_tab, R

LEMMA ExtGoto ==
  ASSUME NEW b \in 0 .. 253
  PROVE  /\ Goto(Ext, 0, b) = CASE b < 128 -> 0 [] b \in 194 .. 223 -> 1 [] b = 224 -> 6
                                [] b \in 225 .. 239 -> 2 [] b = 240 -> 7 [] b \in 241 .. 247 -> 3
                                [] b = 248 -> 8 [] b \in 249 .. 251 -> 4 [] b = 252 -> 9
                                [] b = 253 -> 5 [] OTHER -> R
         /\ \A k \in 1 .. 5 : Goto(Ext, k, b) = IF b \in 128 .. 191 THEN k - 1 ELSE R
         /\ Goto(Ext, 6, b) = IF b \in 160 .. 191 THEN 1 ELSE R
         /\ Goto(Ext, 7, b) = IF b \in 144 .. 191 THEN 2 ELSE R
         /\ Goto(Ext, 8, b) = IF b \in 136 .. 191 THEN 3 ELSE R
         /\ Goto(Ext, 9, b) = IF b \in 132 .. 191 THEN 4 ELSE R
<1>1. PICK c : c = Class(Ext, b)
  OBVIOUS
<1>2. \A s : Goto(Ext, s, b) = Ext.node[s + 1][c + 1]
  BY <1>1 DEF Goto
<1>3. c \in 0 .. 16
  BY <1>1, ExtClassFacts
<1>4. Goto(Ext, 0, b) = CASE b < 128 -> 0 [] b \in 194 .. 223 -> 1 [] b = 224 -> 6
                                [] b \in 225 .. 239 -> 2 [] b = 240 -> 7 [] b \in 241 .. 247 -> 3
                                [] b = 248 -> 8 [] b \in 249 .. 251 -> 4 [] b = 252 -> 9
                                [] b = 253 -> 5 [] OTHER -> R
  BY <1>1, <1>2, <1>3, ExtRows, ExtClassFacts
<1>5. /\ \A k \in 1 .. 5 : Goto(Ext, k, b) = IF b \in 128 .. 191 THEN k - 1 ELSE R
      /\ Goto(Ext, 6, b) = IF b \in 160 .. 191 THEN 1 ELSE R
      /\ Goto(Ext, 7, b) = IF b \in 144 .. 191 THEN 2 ELSE R
      /\ Goto(Ext, 8, b) = IF b \in 136 .. 191 THEN 3 ELSE R
      /\ Goto(Ext, 9, b) = IF b \in 132 .. 191 THEN 4 ELSE R
  BY <1>1, <1>2, <1>3, ExtRows, ExtClassFacts
<1> QED
  BY <1>4, <1>5

(* The same for the table of Corrigendum 9.                                *)
LEMMA C9Class ==
  ASSUME NEW b \in 0 .. 253
  PROVE  Class(C9t, b) =
     CASE b \in 0 .. 127 -> 0 [] b \in 128 .. 143 -> 9 [] b \in 144 .. 159 -> 10
       [] b \in 160 .. 191 -> 11 [] b \in 192 .. 193 -> 1 [] b \in 194 .. 223 -> 2
       [] b = 224 -> 7 [] b \in 225 .. 236 -> 3 [] b = 237 -> 4
       [] b \in 238 .. 239 -> 3 [] b = 240 -> 8 [] b \in 241 .. 243 -> 6
       [] b = 244 -> 5 [] b \in 245 .. 253 -> 1
BY DEF Class, C9t, PL_c9_utf8_dfa_tab

LEMMA C9ClassFacts ==
  ASSUME NEW b \in 0 .. 253, NEW c, c = Class(C9t, b)
  PROVE  /\ c \in 0 .. 11
         /\ b < 128 <=> c = 0
         /\ b \in 128 .. 143 <=> c = 9
         /\ b \in 144 .. 159 <=> c = 10
         /\ b \in 160 .. 191 <=> c = 11
         /\ b \in 194 .. 223 <=> c = 2
         /\ b = 224 <=> c = 7
         /\ b \in 225 .. 239 /\ b # 237 <=> c = 3
         /\ b = 237 <=> c = 4
         /\ b = 240 <=> c = 8
         /\ b \in 241 .. 243 <=> c = 6
         /\ b = 244 <=> c = 5
BY C9Class

LEMMA C9Rows ==
  ASSUME NEW c \in 0 .. 11
  PROVE  /\ C9t.node[1][c + 1] = CASE c = 0 -> 0 [] c = 2 -> 1 [] c = 3 -> 2 [] c = 4 -> 5 [] c = 5 -> 7
                                   [] c = 6 -> 3 [] c = 7 -> 4 [] c = 8 -> 6 [] OTHER -> R
         /\ C9t.node[2][c + 1] = IF c \in 9 .. 11 THEN 0 ELSE R
         /\ C9t.node[3][c + 1] = IF c \in 9 .. 11 THEN 1 ELSE R
         /\ C9t.node[4][c + 1] = IF c \in 9 .. 11 THEN 2 ELSE R
         /\ C9t.node[5][c + 1] = IF c = 11 THEN 1 ELSE R
         /\ C9t.node[6][c + 1] = IF c \in 9 .. 10 THEN 1 ELSE R
         /\ C9t.node[7][c + 1] = IF c \in 10 .. 11 THEN 2 ELSE R
         /\ C9t.node[8][c + 1] = IF c = 9 THEN 2 ELSE R
BY DEF C9t, PL_c9_utf8_dfa_tab, R

LEMMA C9Goto ==
  ASSUME NEW b \in 0 .. 253
  PROVE  /\ Goto(C9t, 0, b) = CASE b < 128 -> 0 [] b \in 194 .. 223 -> 1 [] b = 224 -> 4 [] b = 237 -> 5
                                [] b \in 225 .. 239 \ {237} -> 2 [] b = 240 -> 6
                                [] b \in 241 .. 243 -> 3 [] b = 244 -> 7 [] OTHER -> R
         /\ \A k \in 1 .. 3 : Goto(C9t, k, b) = IF b \in 128 .. 191 THEN k - 1 ELSE R
         /\ Goto(C9t, 4, b) = IF b \in 160 .. 191 THEN 1 ELSE R
         /\ Goto(C9t, 5, b) = IF b \in 128 .. 159 THEN 1 ELSE R
         /\ Goto(C9t, 6, b) = IF b \in 144 .. 191 THEN 2 ELSE R
         /\ Goto(C9t, 7, b) = IF b \in 128 .. 143 THEN 2 ELSE R
<1>1. PICK c : c = Class(C9t, b)
  OBVIOUS
<1>2. \A s : Goto(C9t, s, b) = C9t.node[s + 1][c + 1]
  BY <1>1 DEF Goto
<1>3. c \in 0 .. 11
  BY <1>1, C9ClassFacts
<1>4. Goto(C9t, 0, b) = CASE b < 128 -> 0 [] b \in 194 .. 223 -> 1 [] b = 224 -> 4 [] b = 237 -> 5
                                [] b \in 225 .. 239 \ {237} -> 2 [] b = 240 -> 6
                                [] b \in 241 .. 243 -> 3 [] b = 244 -> 7 [] OTHER -> R
  BY <1>1, <1>2, <1>3, C9Rows, C9ClassFacts
<1>5. /\ \A k \in 1 .. 3 : Goto(C9t, k, b) = IF b \in 128 .. 191 THEN k - 1 ELSE R
      /\ Goto(C9t, 4, b) = IF b \in 160 .. 191 THEN 1 ELSE R
      /\ Goto(C9t, 5, b) = IF b \in 128 .. 159 THEN 1 ELSE R
      /\ Goto(C9t, 6, b) = IF b \in 144 .. 191 THEN 2 ELSE R
      /\ Goto(C9t, 7, b) = IF b \in 128 .. 143 THEN 2 ELSE R
  BY <1>1, <1>2, <1>3, C9Rows, C9ClassFacts
<1> QED
  BY <1>4, <1>5

(* The same for the strict table.                                          *)
LEMMA StrClass ==
  ASSUME NEW b \in 0 .. 253
  PROVE  Class(Str, b) =
     CASE b \in 0 .. 127 -> 0 [] b \in 128 .. 142 -> 9 [] b = 143 -> 10
       [] b \in 144 .. 158 -> 11 [] b = 159 -> 12 [] b \in 160 .. 174 -> 13
       [] b = 175 -> 14 [] b \in 176 .. 182 -> 15 [] b = 183 -> 16
       [] b \in 184 .. 189 -> 15 [] b = 190 -> 17 [] b = 191 -> 18
       [] b \in 192 .. 193 -> 1 [] b \in 194 .. 223 -> 2 [] b = 224 -> 7
       [] b \in 225 .. 236 -> 3 [] b = 237 -> 1 [] b = 238 -> 3 [] b = 239 -> 4
       [] b = 240 -> 8 [] b \in 241 .. 243 -> 6 [] b = 244 -> 5
       [] b \in 245 .. 253 -> 1
BY DEF Class, Str, PL_strict_utf8_dfa_tab

LEMMA StrClassFacts ==
  ASSUME NEW b \in 0 .. 253, NEW c, c = Class(Str, b)
  PROVE  /\ c \in 0 .. 18
         /\ b < 128 <=> c = 0
         /\ b \in 128 .. 142 <=> c = 9
         /\ b = 143 <=> c = 10
         /\ b \in 144 .. 158 <=> c = 11
         /\ b = 159 <=> c = 12
         /\ b \in 160 .. 174 <=> c = 13
         /\ b = 175 <=> c = 14
         /\ b \in 176 .. 189 /\ b # 183 <=> c = 15
         /\ b = 183 <=> c = 16
         /\ b = 190 <=> c = 17
         /\ b = 191 <=> c = 18
         /\ b \in 194 .. 223 <=> c = 2
         /\ b = 224 <=> c = 7
         /\ b \in 225 .. 238 /\ b # 237 <=> c = 3
         /\ b = 239 <=> c = 4
         /\ b = 240 <=> c = 8
         /\ b \in 241 .. 243 <=> c = 6
         /\ b = 244 <=> c = 5
BY StrClass

LEMMA StrRows ==
  ASSUME NEW c \in 0 .. 18
  PROVE  /\ Str.node[1][c + 1] = CASE c = 0 -> 0 [] c = 2 -> 1 [] c = 3 -> 2 [] c = 4 -> 4 [] c = 5 -> 7
                                   [] c = 6 -> 6 [] c = 7 -> 3 [] c = 8 -> 5 [] OTHER -> R
         /\ Str.node[2][c + 1] = IF c \in 9 .. 18 THEN 0 ELSE R
         /\ Str.node[3][c + 1] = IF c \in 9 .. 18 THEN 1 ELSE R
         /\ Str.node[4][c + 1] = IF c \in 13 .. 18 THEN 1 ELSE R
         /\ Str.node[5][c + 1] = CASE c = 16 -> 8 [] c = 18 -> 9 [] c \in {9, 10, 11, 12, 13, 14, 15, 17} -> 1 [] OTHER -> R
         /\ Str.node[6][c + 1] = CASE c \in {12, 14, 18} -> 10 [] c \in {11, 13, 15, 16, 17} -> 2 [] OTHER -> R
         /\ Str.node[7][c + 1] = CASE c \in {10, 12, 14, 18} -> 10 [] c \in {9, 11, 13, 15, 16, 17} -> 2 [] OTHER -> R
         /\ Str.node[8][c + 1] = CASE c = 10 -> 10 [] c = 9 -> 2 [] OTHER -> R
         /\ Str.node[9][c + 1] = IF c \in {9, 10, 15, 16, 17, 18} THEN 0 ELSE R
         /\ Str.node[10][c + 1] = IF c \in 9 .. 16 THEN 0 ELSE R
         /\ Str.node[11][c + 1] = CASE c = 18 -> 11 [] c \in 9 .. 17 -> 1 [] OTHER -> R
         /\ Str.node[12][c + 1] = IF c \in 9 .. 16 THEN 0 ELSE R
BY DEF Str, PL_strict_utf8_dfa_tab, R

LEMMA StrGoto ==
  ASSUME NEW b \in 0 .. 253
  PROVE  /\ Goto(Str, 0, b) = CASE b < 128 -> 0 [] b \in 194 .. 223 -> 1 [] b = 224 -> 3
                                [] b \in 225 .. 238 \ {237} -> 2 [] b = 239 -> 4 [] b = 240 -> 5
                                [] b \in 241 .. 243 -> 6 [] b = 244 -> 7 [] OTHER -> R
         /\ \A k \in 1 .. 2 : Goto(Str, k, b) = IF b \in 128 .. 191 THEN k - 1 ELSE R
         /\ Goto(Str, 3, b) = IF b \in 160 .. 191 THEN 1 ELSE R
         /\ Goto(Str, 4, b) = CASE b = 183 -> 8 [] b = 191 -> 9 [] b \in 128 .. 190 \ {183} -> 1 [] OTHER -> R
         /\ Goto(Str, 5, b) = CASE b \in {159, 175, 191} -> 10 [] b \in 144 .. 190 \ {159, 175} -> 2 [] OTHER -> R
         /\ Goto(Str, 6, b) = CASE b \in {143, 159, 175, 191} -> 10 [] b \in 128 .. 190 \ {143, 159, 175} -> 2 [] OTHER -> R
         /\ Goto(Str, 7, b) = CASE b = 143 -> 10 [] b \in 128 .. 142 -> 2 [] OTHER -> R
         /\ Goto(Str, 8, b) = IF b \in 128 .. 143 \cup 176 .. 191 THEN 0 ELSE R
         /\ Goto(Str, 9, b) = IF b \in 128 .. 189 THEN 0 ELSE R
         /\ Goto(Str, 10, b) = CASE b = 191 -> 11 [] b \in 128 .. 190 -> 1 [] OTHER -> R
         /\ Goto(Str, 11, b) = IF b \in 128 .. 189 THEN 0 ELSE R
<1>1. PICK c : c = Class(Str, b)
  OBVIOUS
<1>2. \A s : Goto(Str, s, b) = Str.node[s + 1][c + 1]
  BY <1>1 DEF Goto
<1>3. c \in 0 .. 18
  BY <1>1, StrClassFacts
<1>4. Goto(Str, 0, b) = CASE b < 128 -> 0 [] b \in 194 .. 223 -> 1 [] b = 224 -> 3
                                [] b \in 225 .. 238 \ {237} -> 2 [] b = 239 -> 4 [] b = 240 -> 5
                                [] b \in 241 .. 243 -> 6 [] b = 244 -> 7 [] OTHER -> R
  BY <1>1, <1>2, <1>3, StrRows, StrClassFacts
<1>5. /\ \A k \in 1 .. 2 : Goto(Str, k, b) = IF b \in 128 .. 191 THEN k - 1 ELSE R
      /\ Goto(Str, 3, b) = IF b \in 160 .. 191 THEN 1 ELSE R
      /\ Goto(Str, 4, b) = CASE b = 183 -> 8 [] b = 191 -> 9 [] b \in 128 .. 190 \ {183} -> 1 [] OTHER -> R
  BY <1>1, <1>2, <1>3, StrRows, StrClassFacts
<1>6. /\ Goto(Str, 5, b) = CASE b \in {159, 175, 191} -> 10 [] b \in 144 .. 190 \ {159, 175} -> 2 [] OTHER -> R
      /\ Goto(Str, 6, b) = CASE b \in {143, 159, 175, 191} -> 10 [] b \in 128 .. 190 \ {143, 159, 175} -> 2 [] OTHER -> R
      /\ Goto(Str, 7, b) = CASE b = 143 -> 10 [] b \in 128 .. 142 -> 2 [] OTHER -> R
  BY <1>1, <1>2, <1>3, StrRows, StrClassFacts
<1>7. /\ Goto(Str, 8, b) = IF b \in 128 .. 143 \cup 176 .. 191 THEN 0 ELSE R
      /\ Goto(Str, 9, b) = IF b \in 128 .. 189 THEN 0 ELSE R
      /\ Goto(Str, 10, b) = CASE b = 191 -> 11 [] b \in 128 .. 190 -> 1 [] OTHER -> R
      /\ Goto(Str, 11, b) = IF b \in 128 .. 189 THEN 0 ELSE R
  BY <1>1, <1>2, <1>3, StrRows, StrClassFacts
<1> QED
  BY <1>4, <1>5, <1>6, <1>7

-----------------------------------------------------------------------------
(* Characters by their shape, and the extended automaton's language.       *)

(* Start bytes by the length they announce.                                *)
LEMMA WidthFacts ==
  ASSUME NEW b \in 0 .. 253
  PROVE  /\ Width(b) \in 0 .. 6
         /\ Width(b) = 0 <=> b \in 128 .. 191
         /\ Width(b) = 1 <=> b \in 0 .. 127
         /\ Width(b) = 2 <=> b \in 192 .. 223
         /\ Width(b) = 3 <=> b \in 224 .. 239
         /\ Width(b) = 4 <=> b \in 240 .. 247
         /\ Width(b) = 5 <=> b \in 248 .. 251
         /\ Width(b) = 6 <=> b \in 252 .. 253
BY DEF Width

(* Bytes 2 to n continue a character.                                      *)
Continued(g, n) == \A i \in 2 .. n : g[i] \in 128 .. 191

LEMMA ContinuedPrefix ==
  ASSUME NEW g, NEW n \in Nat, NEW h, NEW m \in 0 .. n, \A j \in 1 .. m : h[j] = g[j], Continued(g, n)
  PROVE  Continued(h, m)
<1> SUFFICES ASSUME NEW i \in 2 .. m PROVE h[i] \in 128 .. 191
  BY DEF Continued
<1>1. i \in 1 .. m /\ i \in 2 .. n
  OBVIOUS
<1> QED
  BY <1>1 DEF Continued

LEMMA ContinuedBy ==
  ASSUME NEW g, NEW n \in Nat \ {0}, NEW h, \A j \in 1 .. n : h[j] = g[j], Continued(g, n)
  PROVE  Continued(h, n + 1) <=> h[n + 1] \in 128 .. 191
<1>1. Continued(h, n)
  BY ContinuedPrefix
<1>2. n + 1 \in 2 .. n + 1 /\ \A i \in 2 .. n + 1 : i = n + 1 \/ i \in 2 .. n
  OBVIOUS
<1> QED
  BY <1>1, <1>2 DEF Continued

(* A language in which only the second byte depends on the first.          *)
Plain(Starts, Second) ==
  {g \in Strings : /\ Len(g) > 0 /\ Len(g) <= Width(g[1]) /\ g[1] \in Starts
                   /\ Len(g) > 1 => g[2] \in Second[g[1]]
                   /\ Continued(g, Len(g))}
(* What such a language is made of, and how a member grows by a byte.      *)
PlainBytes(Starts, Second) ==
  \A f \in Starts : f \in 0 .. 253 /\ Width(f) \in 1 .. 6 /\ Second[f] \subseteq 128 .. 191

LEMMA InPlain ==
  ASSUME NEW Starts, NEW Second, NEW g
  PROVE  g \in Plain(Starts, Second) <=>
           /\ g \in Strings
           /\ Len(g) > 0 /\ Len(g) <= Width(g[1]) /\ g[1] \in Starts
           /\ Len(g) > 1 => g[2] \in Second[g[1]]
           /\ Continued(g, Len(g))
BY DEF Plain

LEMMA PlainLengths ==
  ASSUME NEW Starts, NEW Second, PlainBytes(Starts, Second), NEW g \in Plain(Starts, Second)
  PROVE  /\ g \in Strings /\ Len(g) \in 1 .. 6 /\ Width(g[1]) \in 1 .. 6 /\ Len(g) <= Width(g[1])
         /\ g[1] \in Starts /\ Second[g[1]] \subseteq 128 .. 191
<1>1. g \in Strings /\ Len(g) > 0 /\ Len(g) <= Width(g[1]) /\ g[1] \in Starts
  BY InPlain
<1>2. Len(g) \in Nat /\ Width(g[1]) \in 1 .. 6 /\ Second[g[1]] \subseteq 128 .. 191
  <2>1. Len(g) \in Nat
    BY ONLY <1>1, StringFacts
  <2>2. Width(g[1]) \in 1 .. 6 /\ Second[g[1]] \subseteq 128 .. 191
    <3>1. PICK f : f = g[1] /\ f \in Starts
      BY ONLY <1>1
    <3>2. f \in Starts
      BY <3>1
    <3>3. Width(f) \in 1 .. 6 /\ Second[f] \subseteq 128 .. 191
      BY ONLY <3>2, PlainBytes(Starts, Second) DEF PlainBytes
    <3> QED
      BY ONLY <3>1, <3>3
  <2> QED
    BY ONLY <2>1, <2>2
<1>3. PICK n, w : n = Len(g) /\ w = Width(g[1])
  OBVIOUS
<1>4. n \in 1 .. 6 /\ w \in 1 .. 6 /\ n <= w
  <2>1. n \in Nat /\ w \in 1 .. 6
    BY ONLY <1>2, <1>3
  <2>2. n > 0 /\ n <= w
    BY ONLY <1>1, <1>3
  <2> QED
    BY ONLY <2>1, <2>2
<1> QED
  BY ONLY <1>1, <1>2, <1>3, <1>4

LEMMA PlainOne ==
  ASSUME NEW Starts, NEW Second, PlainBytes(Starts, Second), NEW b \in 0 .. 253, NEW g, g = <<b>>
  PROVE  g \in Strings /\ Len(g) = 1 /\ g[1] = b /\ (g \in Plain(Starts, Second) <=> b \in Starts)
<1>1. g \in Strings /\ Len(g) = 1 /\ g[1] = b
  BY DEF Strings
<1>2. Continued(g, 1)
  BY DEF Continued
<1>3. b \in Starts => Width(b) \in 1 .. 6
  BY DEF PlainBytes
<1> QED
  <2>1. g \in Plain(Starts, Second) <=>
           /\ g \in Strings
           /\ Len(g) > 0 /\ Len(g) <= Width(g[1]) /\ g[1] \in Starts
           /\ Len(g) > 1 => g[2] \in Second[g[1]]
           /\ Continued(g, Len(g))
    BY ONLY InPlain
  <2> QED
    BY ONLY <1>1, <1>2, <1>3, <2>1

Grown(Starts, Second, g, b, h) ==
  /\ h \in Strings /\ Len(h) = Len(g) + 1 /\ h[Len(h)] = b
  /\ \A i \in 1 .. Len(g) : h[i] = g[i]
  /\ h \in Plain(Starts, Second) <=> b \in 128 .. 191 /\ (Len(g) = 1 => b \in Second[g[1]])

LEMMA PlainAppend ==
  ASSUME NEW Starts, NEW Second, PlainBytes(Starts, Second), NEW g \in Plain(Starts, Second),
         Len(g) < Width(g[1]), NEW b \in 0 .. 253, NEW h, h = Append(g, b)
  PROVE  Grown(Starts, Second, g, b, h)
<1>1. /\ g \in Strings /\ Len(g) > 0 /\ Len(g) <= Width(g[1]) /\ g[1] \in Starts
      /\ Len(g) > 1 => g[2] \in Second[g[1]]
      /\ Continued(g, Len(g))
  BY InPlain
<1>2. PICK n, f, w : n = Len(g) /\ f = g[1] /\ w = Width(f)
  OBVIOUS
<1>3. n \in Nat /\ w \in 1 .. 6 /\ Second[f] \subseteq 128 .. 191
  BY ONLY <1>1, <1>2, StringFacts, PlainBytes(Starts, Second) DEF PlainBytes
<1>4. n > 0 /\ n < w
  BY <1>1, <1>2, <1>3
<1>5. h \in Strings /\ Len(h) = n + 1 /\ h[n + 1] = b /\ \A i \in 1 .. n : h[i] = g[i]
  BY ONLY <1>1, <1>2, Longer, b \in 0 .. 253, h = Append(g, b)
<1>6. h[1] = f /\ (n > 1 => h[2] = g[2])
  BY ONLY <1>2, <1>3, <1>4, <1>5
<1>7. h \in Plain(Starts, Second) <=> h[2] \in Second[f] /\ Continued(h, n + 1)
  <2>1. n + 1 > 0 /\ n + 1 <= Width(h[1]) /\ h[1] \in Starts /\ n + 1 > 1
    BY ONLY <1>1, <1>2, <1>3, <1>4, <1>6
  <2> QED
    BY ONLY <2>1, <1>5, <1>6, InPlain
<1>8. h[2] \in Second[f] <=> (n = 1 => b \in Second[f])
  <2>1. n = 1 => h[2] = b
    BY ONLY <1>5
  <2>2. n > 1 => g[2] \in Second[f]
    BY ONLY <1>1, <1>2
  <2> QED
    BY ONLY <1>3, <1>4, <1>6, <2>1, <2>2
<1>9. Continued(h, n + 1) <=> b \in 128 .. 191
  <2>1. n \in Nat \ {0} /\ Continued(g, n) /\ \A i \in 1 .. n : h[i] = g[i]
    BY ONLY <1>1, <1>2, <1>3, <1>4, <1>5
  <2>2. Continued(h, n + 1) <=> h[n + 1] \in 128 .. 191
    BY ONLY <2>1, ContinuedBy
  <2> QED
    BY ONLY <1>5, <2>2
<1> QED
  BY ONLY <1>2, <1>5, <1>7, <1>8, <1>9 DEF Grown

LEMMA PlainPrefix ==
  ASSUME NEW Starts, NEW Second, PlainBytes(Starts, Second), NEW g \in Plain(Starts, Second),
         NEW n \in 1 .. Len(g),
         NEW p, p = Prefix(g, n)
  PROVE  p \in Plain(Starts, Second) /\ Len(p) = n /\ \A j \in 1 .. n : p[j] = g[j]
<1>1. /\ g \in Strings /\ Len(g) > 0 /\ Len(g) <= Width(g[1]) /\ g[1] \in Starts
      /\ Len(g) > 1 => g[2] \in Second[g[1]]
      /\ Continued(g, Len(g))
  BY InPlain
<1>2. Len(g) \in Nat /\ Width(g[1]) \in 1 .. 6
  BY ONLY <1>1, StringFacts, PlainBytes(Starts, Second) DEF PlainBytes
<1>3. n \in 0 .. Len(g) /\ n \in Nat /\ n > 0
  BY <1>2
<1>4. p \in Strings /\ Len(p) = n /\ \A j \in 1 .. n : p[j] = g[j]
  BY ONLY <1>1, <1>3, p = Prefix(g, n), PrefixFacts
<1>5. p[1] = g[1] /\ (n > 1 => p[2] = g[2])
  BY ONLY <1>3, <1>4
<1>6. Continued(p, n)
  BY ONLY <1>1, <1>2, <1>3, <1>4, ContinuedPrefix
<1>7. n <= Width(p[1]) /\ (n > 1 => Len(g) > 1)
  BY ONLY <1>1, <1>2, <1>3, <1>5, n \in 1 .. Len(g)
<1>8. p \in Plain(Starts, Second)
  BY ONLY <1>1, <1>3, <1>4, <1>5, <1>6, <1>7, InPlain
<1> QED
  BY <1>4, <1>8

(* An automaton for such a language: First has the state after the first   *)
(* byte.                                                                   *)
PlainNode(Starts, Second, First) ==
  [g \in Plain(Starts, Second) |-> IF Len(g) = 1 THEN First[g[1]] ELSE Width(g[1]) - Len(g)]

(* Such a table: the first byte leads to First, the second of those        *)
(* allowed on, and each further byte one state closer to 0.                *)
PlainGoto(dfa, Starts, Second, First, b) ==
  /\ Goto(dfa, 0, b) = IF b \in Starts THEN First[b] ELSE R
  /\ \A f \in Starts :
       /\ Width(f) > 1 => Goto(dfa, First[f], b) = IF b \in Second[f] THEN Width(f) - 2 ELSE R
       /\ \A k \in 1 .. Width(f) - 2 : Goto(dfa, k, b) = IF b \in 128 .. 191 THEN k - 1 ELSE R

PlainTable(dfa, Starts, Second, First) ==
  /\ PlainBytes(Starts, Second)
  /\ \A f \in Starts : First[f] \in 0 .. 11 /\ (First[f] = 0 <=> Width(f) = 1)
  /\ \A b \in 0 .. 253 : PlainGoto(dfa, Starts, Second, First, b)

(* An automaton with such a table accepts the language.                    *)
LEMMA PlainLanguage ==
  ASSUME NEW dfa, NEW Starts, NEW Second, NEW First,
         PlainTable(dfa, Starts, Second, First)
  PROVE  Language(dfa, Plain(Starts, Second), PlainNode(Starts, Second, First))
<1> DEFINE Good == Plain(Starts, Second)
           node == PlainNode(Starts, Second, First)
<1>1. /\ PlainBytes(Starts, Second)
      /\ \A f \in Starts : First[f] \in 0 .. 11 /\ (First[f] = 0 <=> Width(f) = 1)
      /\ \A b \in 0 .. 253 : PlainGoto(dfa, Starts, Second, First, b)
  BY DEF PlainTable
<1>2. \A g \in Good : node[g] = IF Len(g) = 1 THEN First[g[1]] ELSE Width(g[1]) - Len(g)
  BY DEF PlainNode
<1> HIDE DEF node
<1>3. FirstByte(dfa, Good, node)
  <2> SUFFICES ASSUME NEW b \in 0 .. 253
               PROVE  Goto(dfa, 0, b) = IF <<b>> \in Good THEN node[<<b>>] ELSE R
    BY DEF FirstByte
  <2>1. PICK g : g = <<b>>
    OBVIOUS
  <2>2. g \in Strings /\ Len(g) = 1 /\ g[1] = b /\ (g \in Good <=> b \in Starts)
    BY ONLY <1>1, <2>1, PlainOne, b \in 0 .. 253
  <2>3. Goto(dfa, 0, b) = IF b \in Starts THEN First[b] ELSE R
    <3>1. PlainGoto(dfa, Starts, Second, First, b)
      BY ONLY <1>1, b \in 0 .. 253
    <3> QED
      BY ONLY <3>1 DEF PlainGoto
  <2>4. g \in Good => node[g] = First[b]
    BY ONLY <1>2, <2>2
  <2> QED
    BY ONLY <2>1, <2>2, <2>3, <2>4
<1>4. FurtherByte(dfa, Good, node)
  <2> SUFFICES ASSUME NEW g \in Good, NEW b \in 0 .. 253, node[g] # 0
               PROVE  Goto(dfa, node[g], b) = IF Append(g, b) \in Good THEN node[Append(g, b)] ELSE R
    BY DEF FurtherByte
  <2>1. PICK n, f, w, h : n = Len(g) /\ f = g[1] /\ w = Width(f) /\ h = Append(g, b)
    OBVIOUS
  <2>2. f \in Starts /\ n \in 1 .. 6 /\ w \in 1 .. 6 /\ n <= w /\ Second[f] \subseteq 128 .. 191
    <3>1. PlainBytes(Starts, Second) /\ g \in Good
      BY ONLY <1>1, g \in Good
    <3>2. /\ g \in Strings /\ Len(g) \in 1 .. 6 /\ Width(g[1]) \in 1 .. 6 /\ Len(g) <= Width(g[1])
          /\ g[1] \in Starts /\ Second[g[1]] \subseteq 128 .. 191
      BY ONLY <3>1, PlainLengths
    <3> QED
      BY ONLY <2>1, <3>2
  <2>3. node[g] = IF n = 1 THEN First[f] ELSE w - n
    BY ONLY <1>2, <2>1, g \in Good
  <2>4. n < w
    <3>1. First[f] = 0 <=> w = 1
      BY ONLY <1>1, <2>1, <2>2
    <3> QED
      BY ONLY <2>2, <2>3, <3>1, node[g] # 0
  <2>5. /\ Len(h) = n + 1 /\ \A i \in 1 .. n : h[i] = g[i]
        /\ h \in Good <=> b \in 128 .. 191 /\ (n = 1 => b \in Second[f])
    <3>1. PlainBytes(Starts, Second) /\ g \in Good /\ b \in 0 .. 253 /\ Len(g) < Width(g[1]) /\ h = Append(g, b)
      BY ONLY <1>1, <2>1, <2>4, g \in Good, b \in 0 .. 253
    <3>2. Grown(Starts, Second, g, b, h)
      BY ONLY <3>1, PlainAppend
    <3> QED
      BY ONLY <2>1, <3>2 DEF Grown
  <2>6. h \in Good => node[h] = w - (n + 1)
    <3>1. h[1] = f
      BY ONLY <2>1, <2>2, <2>5
    <3>2. h \in Good => node[h] = IF n + 1 = 1 THEN First[f] ELSE w - (n + 1)
      BY ONLY <1>2, <2>1, <2>5, <3>1
    <3> QED
      BY ONLY <2>2, <3>2
  <2>7. PlainGoto(dfa, Starts, Second, First, b)
    BY ONLY <1>1, b \in 0 .. 253
  <2>8. CASE n = 1
    <3>1. Goto(dfa, First[f], b) = IF b \in Second[f] THEN w - 2 ELSE R
      <4>1. Width(f) > 1
        BY ONLY <2>1, <2>2, <2>4, <2>8
      <4> QED
        BY ONLY <2>1, <2>2, <2>7, <4>1 DEF PlainGoto
    <3>2. b \in Second[f] => b \in 128 .. 191
      BY ONLY <2>2
    <3>3. Goto(dfa, node[g], b) = IF h \in Good THEN node[h] ELSE R
      BY ONLY <2>2, <2>3, <2>5, <2>6, <2>8, <3>1, <3>2
    <3> QED
      BY ONLY <2>1, <3>3
  <2>9. CASE n > 1
    <3>1. PICK k : k = w - n /\ k \in 1 .. Width(f) - 2
      BY ONLY <2>1, <2>2, <2>4, <2>9
    <3>2. Goto(dfa, k, b) = IF b \in 128 .. 191 THEN k - 1 ELSE R
      BY ONLY <2>2, <2>7, <3>1 DEF PlainGoto
    <3>3. Goto(dfa, node[g], b) = IF h \in Good THEN node[h] ELSE R
      BY ONLY <2>2, <2>3, <2>5, <2>6, <2>9, <3>1, <3>2
    <3> QED
      BY ONLY <2>1, <3>3
  <2> QED
    BY <2>2, <2>8, <2>9
<1>5. Beginnings(Good, node)
  <2> SUFFICES ASSUME NEW g \in Good
               PROVE  /\ g \in Strings /\ Len(g) > 0 /\ Len(g) <= Width(g[1])
                      /\ node[g] \in 0 .. 11 /\ (node[g] = 0 <=> Len(g) = Width(g[1]))
                      /\ \A n \in 1 .. Len(g) : Prefix(g, n) \in Good
    BY DEF Beginnings
  <2>1. PICK n, f, w : n = Len(g) /\ f = g[1] /\ w = Width(f)
    OBVIOUS
  <2>2. g \in Strings /\ f \in Starts /\ n \in 1 .. 6 /\ w \in 1 .. 6 /\ n <= w
    <3>1. PlainBytes(Starts, Second) /\ g \in Good
      BY ONLY <1>1, g \in Good
    <3>2. /\ g \in Strings /\ Len(g) \in 1 .. 6 /\ Width(g[1]) \in 1 .. 6 /\ Len(g) <= Width(g[1])
          /\ g[1] \in Starts /\ Second[g[1]] \subseteq 128 .. 191
      BY ONLY <3>1, PlainLengths
    <3> QED
      BY ONLY <2>1, <3>2
  <2>3. node[g] \in 0 .. 11 /\ (node[g] = 0 <=> n = w)
    <3>1. node[g] = IF n = 1 THEN First[f] ELSE w - n
      BY ONLY <1>2, <2>1, g \in Good
    <3>2. First[f] \in 0 .. 11 /\ (First[f] = 0 <=> w = 1)
      BY ONLY <1>1, <2>1, <2>2
    <3> QED
      BY ONLY <3>1, <3>2, <2>2
  <2>4. \A m \in 1 .. Len(g) : Prefix(g, m) \in Good
    BY ONLY <1>1, PlainPrefix, g \in Good
  <2> QED
    BY ONLY <2>1, <2>2, <2>3, <2>4
<1> QED
  BY ONLY <1>3, <1>4, <1>5 DEF Language, node

(* The extended automaton: no overlong forms.                              *)
ExtStarts == 0 .. 127 \cup 194 .. 253
ExtSecond ==
  [f \in ExtStarts |-> CASE f = 224 -> 160 .. 191 [] f = 240 -> 144 .. 191 [] f = 248 -> 136 .. 191
                         [] f = 252 -> 132 .. 191 [] OTHER -> 128 .. 191]
ExtFirst ==
  [f \in ExtStarts |-> CASE f = 224 -> 6 [] f = 240 -> 7 [] f = 248 -> 8 [] f = 252 -> 9
                        [] OTHER -> Width(f) - 1]

(* The extended automaton's table is one of these.                         *)
LEMMA ExtTable == PlainTable(Ext, ExtStarts, ExtSecond, ExtFirst)
<1>1. ASSUME NEW f \in ExtStarts
      PROVE  /\ f \in 0 .. 253 /\ Width(f) \in 1 .. 6
             /\ f < 128 \/ f \in 194 .. 253
             /\ ExtFirst[f] = CASE f = 224 -> 6 [] f = 240 -> 7 [] f = 248 -> 8 [] f = 252 -> 9
                                [] OTHER -> Width(f) - 1
             /\ ExtFirst[f] \in 0 .. 11 /\ (ExtFirst[f] = 0 <=> Width(f) = 1)
  <2>1. f \in 0 .. 253 /\ (f < 128 \/ f \in 194 .. 253)
    BY DEF ExtStarts
  <2>2. Width(f) \in 1 .. 6 /\ (Width(f) = 1 <=> f < 128)
    BY <2>1, WidthFacts
  <2>3. ExtFirst[f] = CASE f = 224 -> 6 [] f = 240 -> 7 [] f = 248 -> 8 [] f = 252 -> 9
                                [] OTHER -> Width(f) - 1
    BY DEF ExtFirst
  <2> QED
    BY ONLY <2>1, <2>2, <2>3
<1>2. ASSUME NEW f \in ExtStarts
      PROVE  ExtSecond[f] = (CASE f = 224 -> 160 .. 191 [] f = 240 -> 144 .. 191 [] f = 248 -> 136 .. 191
                              [] f = 252 -> 132 .. 191 [] OTHER -> 128 .. 191)
  BY DEF ExtSecond
<1>3. PlainBytes(ExtStarts, ExtSecond)
  BY <1>1, <1>2 DEF PlainBytes
<1>4. ASSUME NEW b \in 0 .. 253 PROVE PlainGoto(Ext, ExtStarts, ExtSecond, ExtFirst, b)
  <2>1. Goto(Ext, 0, b) = IF b \in ExtStarts THEN ExtFirst[b] ELSE R
    <3>1. b \in ExtStarts <=> b < 128 \/ b \in 194 .. 253
      BY DEF ExtStarts
    <3> QED
      BY <1>1, <3>1, ExtGoto, WidthFacts
  <2>2. ASSUME NEW f \in ExtStarts, Width(f) > 1
        PROVE  Goto(Ext, ExtFirst[f], b) = IF b \in ExtSecond[f] THEN Width(f) - 2 ELSE R
    <3>1. CASE f \in {224, 240, 248, 252}
      BY <1>1, <1>2, <3>1, ExtGoto, WidthFacts
    <3>2. CASE f \notin {224, 240, 248, 252}
      <4>1. PICK k : k = Width(f) - 1 /\ k \in 1 .. 5 /\ ExtFirst[f] = k /\ ExtSecond[f] = 128 .. 191
        BY <1>1, <1>2, <2>2, <3>2
      <4>2. Goto(Ext, k, b) = IF b \in 128 .. 191 THEN k - 1 ELSE R
        BY ONLY <4>1, ExtGoto, b \in 0 .. 253
      <4> QED
        BY <1>1, <4>1, <4>2
    <3> QED
      BY <3>1, <3>2
  <2>3. ASSUME NEW f \in ExtStarts, NEW k \in 1 .. Width(f) - 2
        PROVE  Goto(Ext, k, b) = IF b \in 128 .. 191 THEN k - 1 ELSE R
    <3>1. k \in 1 .. 5
      BY <1>1
    <3> QED
      BY ONLY <3>1, ExtGoto, b \in 0 .. 253
  <2> QED
    BY ONLY <2>1, <2>2, <2>3 DEF PlainGoto
<1> QED
  BY <1>1, <1>3, <1>4 DEF PlainTable

-----------------------------------------------------------------------------
(* The languages of the other two automata.                                *)

(* That of Corrigendum 9: neither overlong nor surrogates, nor above       *)
(* 10FFFF.                                                                 *)
C9Starts == 0 .. 127 \cup 194 .. 244
C9Second ==
  [f \in C9Starts |-> CASE f = 224 -> 160 .. 191 [] f = 237 -> 128 .. 159 [] f = 240 -> 144 .. 191
                        [] f = 244 -> 128 .. 143 [] OTHER -> 128 .. 191]
C9First ==
  [f \in C9Starts |-> CASE f = 224 -> 4 [] f = 237 -> 5 [] f = 240 -> 6 [] f = 244 -> 7
                        [] OTHER -> Width(f) - 1]

LEMMA C9Bytes ==
  ASSUME NEW f \in C9Starts
  PROVE  /\ f \in 0 .. 253 /\ Width(f) \in 1 .. 4 /\ (Width(f) = 1 <=> f < 128)
         /\ f < 128 \/ f \in 194 .. 244
         /\ C9Second[f] = CASE f = 224 -> 160 .. 191 [] f = 237 -> 128 .. 159 [] f = 240 -> 144 .. 191
                            [] f = 244 -> 128 .. 143 [] OTHER -> 128 .. 191
         /\ C9Second[f] \subseteq 128 .. 191
<1>1. f \in 0 .. 253 /\ (f < 128 \/ f \in 194 .. 244)
  BY DEF C9Starts
<1>2. Width(f) \in 1 .. 4 /\ (Width(f) = 1 <=> f < 128)
  BY <1>1, WidthFacts
<1>3. C9Second[f] = CASE f = 224 -> 160 .. 191 [] f = 237 -> 128 .. 159 [] f = 240 -> 144 .. 191
                            [] f = 244 -> 128 .. 143 [] OTHER -> 128 .. 191
  BY DEF C9Second
<1>4. C9Second[f] \subseteq 128 .. 191
  BY <1>3
<1> QED
  BY <1>1, <1>2, <1>3, <1>4

(* Its table is one of these too.                                          *)
LEMMA C9Table == PlainTable(C9t, C9Starts, C9Second, C9First)
<1>1. ASSUME NEW f \in C9Starts
      PROVE  /\ C9First[f] = CASE f = 224 -> 4 [] f = 237 -> 5 [] f = 240 -> 6 [] f = 244 -> 7
                               [] OTHER -> Width(f) - 1
             /\ C9First[f] \in 0 .. 11 /\ (C9First[f] = 0 <=> Width(f) = 1)
  <2>1. C9First[f] = CASE f = 224 -> 4 [] f = 237 -> 5 [] f = 240 -> 6 [] f = 244 -> 7
                       [] OTHER -> Width(f) - 1
    BY DEF C9First
  <2>2. f \in 0 .. 253 /\ Width(f) \in 1 .. 4 /\ (Width(f) = 1 <=> f < 128)
    BY C9Bytes
  <2> QED
    BY ONLY <2>1, <2>2
<1>2. PlainBytes(C9Starts, C9Second)
  <2> SUFFICES ASSUME NEW f \in C9Starts
               PROVE  f \in 0 .. 253 /\ Width(f) \in 1 .. 6 /\ C9Second[f] \subseteq 128 .. 191
    BY DEF PlainBytes
  <2> QED
    BY C9Bytes
<1>3. ASSUME NEW b \in 0 .. 253 PROVE PlainGoto(C9t, C9Starts, C9Second, C9First, b)
  <2>1. Goto(C9t, 0, b) = IF b \in C9Starts THEN C9First[b] ELSE R
    <3>1. b \in C9Starts <=> b < 128 \/ b \in 194 .. 244
      BY DEF C9Starts
    <3> QED
      BY <1>1, <3>1, C9Goto, WidthFacts
  <2>2. ASSUME NEW f \in C9Starts, Width(f) > 1
        PROVE  Goto(C9t, C9First[f], b) = IF b \in C9Second[f] THEN Width(f) - 2 ELSE R
    <3>1. CASE f \in {224, 237, 240, 244}
      <4>1. f \in 0 .. 253
        BY C9Bytes
      <4> QED
        BY <1>1, <3>1, <4>1, C9Bytes, C9Goto, WidthFacts
    <3>2. CASE f \notin {224, 237, 240, 244}
      <4>1. PICK k : k = Width(f) - 1 /\ k \in 1 .. 3 /\ C9First[f] = k /\ C9Second[f] = 128 .. 191
        BY <1>1, <2>2, <3>2, C9Bytes
      <4>2. Goto(C9t, k, b) = IF b \in 128 .. 191 THEN k - 1 ELSE R
        BY ONLY <4>1, C9Goto, b \in 0 .. 253
      <4>3. Width(f) \in 1 .. 4
        BY C9Bytes
      <4> QED
        BY ONLY <4>1, <4>2, <4>3
    <3> QED
      BY <3>1, <3>2
  <2>3. ASSUME NEW f \in C9Starts, NEW k \in 1 .. Width(f) - 2
        PROVE  Goto(C9t, k, b) = IF b \in 128 .. 191 THEN k - 1 ELSE R
    <3>1. k \in 1 .. 3
      BY C9Bytes
    <3> QED
      BY ONLY <3>1, C9Goto, b \in 0 .. 253
  <2> QED
    BY ONLY <2>1, <2>2, <2>3 DEF PlainGoto
<1> QED
  BY <1>1, <1>2, <1>3 DEF PlainTable

(* The strict automaton also tells some third and fourth bytes apart.      *)
StrictStarts == C9Starts \ {237}
(* FDD0 to FDEF and the last two code points of each plane are left out.   *)
LastOfPlane == {143, 159, 175, 191}

ThirdAllowed(f, s, b) == f = 239 => (s = 183 => b \notin 144 .. 175) /\ (s = 191 => b < 190)
FourthAllowed(s, t, b) == s \in LastOfPlane /\ t = 191 => b < 190

(* The beginnings the strict automaton allows, and its state after each.   *)
Strict ==
  {g \in Plain(StrictStarts, C9Second) :
     /\ Len(g) > 2 => ThirdAllowed(g[1], g[2], g[3])
     /\ Len(g) > 3 => FourthAllowed(g[2], g[3], g[4])}

StrictFirst(f) ==
  CASE f < 128 -> 0 [] f \in 194 .. 223 -> 1 [] f = 224 -> 3 [] f = 239 -> 4 [] f = 240 -> 5
    [] f \in 241 .. 243 -> 6 [] f = 244 -> 7 [] OTHER -> 2
StrictSecond(f, s) ==
  CASE f = 239 /\ s = 183 -> 8 [] f = 239 /\ s = 191 -> 9 [] f >= 240 /\ s \in LastOfPlane -> 10
    [] OTHER -> Width(f) - 2
StrictThird(f, s, t) == IF f >= 240 /\ s \in LastOfPlane /\ t = 191 THEN 11 ELSE Width(f) - 3

StrictState(g) ==
  CASE Len(g) = 1 -> StrictFirst(g[1]) [] Len(g) = 2 -> StrictSecond(g[1], g[2])
    [] Len(g) = 3 -> StrictThird(g[1], g[2], g[3]) [] OTHER -> 0
StrictNode == [g \in Strict |-> StrictState(g)]

LEMMA StrictLengths ==
  ASSUME NEW g \in Plain(StrictStarts, C9Second), NEW f, f = g[1]
  PROVE  /\ g \in Strings /\ Len(g) \in 1 .. 4 /\ Width(f) \in 1 .. 4 /\ Len(g) <= Width(f)
         /\ f \in StrictStarts /\ f \in C9Starts /\ f \in 0 .. 244 /\ f # 237 /\ (f < 128 \/ f >= 194)
         /\ PlainBytes(StrictStarts, C9Second)
<1>1. PlainBytes(StrictStarts, C9Second)
  <2>1. PlainBytes(C9Starts, C9Second)
    BY C9Table DEF PlainTable
  <2> QED
    BY ONLY <2>1 DEF PlainBytes, StrictStarts
<1>2. /\ g \in Strings /\ Len(g) \in 1 .. 6 /\ Width(g[1]) \in 1 .. 6 /\ Len(g) <= Width(g[1])
      /\ g[1] \in StrictStarts
  BY <1>1, PlainLengths
<1>3. f \in C9Starts /\ f # 237 /\ f \in StrictStarts
  BY <1>2 DEF StrictStarts
<1>4. f \in 0 .. 253 /\ Width(f) \in 1 .. 4 /\ (f < 128 \/ f \in 194 .. 244)
  BY ONLY <1>3, C9Bytes
<1> QED
  <2>1. PICK n, w : n = Len(g) /\ w = Width(f)
    OBVIOUS
  <2>2. n \in 1 .. 6 /\ w \in 1 .. 4 /\ n <= w
    BY ONLY <1>2, <1>4, <2>1, f = g[1]
  <2>3. n \in 1 .. 4 /\ f \in 0 .. 244 /\ (f < 128 \/ f >= 194)
    BY ONLY <1>4, <2>2
  <2> QED
    BY ONLY <1>1, <1>2, <1>3, <2>1, <2>2, <2>3

(* The states by the bytes that have been read.                            *)
LEMMA StrictGotoSecond ==
  ASSUME NEW f \in StrictStarts, Width(f) > 1, NEW b \in 0 .. 253
  PROVE  Goto(Str, StrictFirst(f), b) =
           IF b \in 128 .. 191 /\ b \in C9Second[f] THEN StrictSecond(f, b) ELSE R
<1>1. f \in C9Starts /\ f # 237
  BY DEF StrictStarts
<1>2. f \in 194 .. 244 /\ Width(f) = (CASE f < 224 -> 2 [] f \in 224 .. 239 -> 3 [] OTHER -> 4)
  BY <1>1, C9Bytes, WidthFacts
<1>3. C9Second[f] = CASE f = 224 -> 160 .. 191 [] f = 240 -> 144 .. 191
                            [] f = 244 -> 128 .. 143 [] OTHER -> 128 .. 191
  BY <1>1, C9Bytes
<1>4. CASE f \in 194 .. 223
  BY <1>2, <1>3, <1>4, StrGoto DEF StrictFirst, StrictSecond
<1>5. CASE f \in 224 .. 239
  BY <1>1, <1>2, <1>3, <1>5, StrGoto DEF StrictFirst, StrictSecond
<1>6. CASE f \in 240 .. 244
  BY <1>2, <1>3, <1>6, StrGoto DEF StrictFirst, StrictSecond, LastOfPlane
<1> QED
  BY <1>2, <1>4, <1>5, <1>6

LEMMA StrictGotoThird ==
  ASSUME NEW f \in StrictStarts, Width(f) > 2, NEW s \in 128 .. 191, NEW b \in 0 .. 253
  PROVE  Goto(Str, StrictSecond(f, s), b) =
           IF b \in 128 .. 191 /\ ThirdAllowed(f, s, b) THEN StrictThird(f, s, b) ELSE R
<1>1. f \in C9Starts /\ f # 237
  BY DEF StrictStarts
<1>2. f \in 224 .. 244 /\ Width(f) = (IF f \in 224 .. 239 THEN 3 ELSE 4)
  BY <1>1, C9Bytes, WidthFacts
<1>3. CASE f \in 224 .. 239
  BY <1>2, <1>3, StrGoto DEF StrictThird, StrictSecond, ThirdAllowed
<1>4. CASE f \in 240 .. 244
  BY <1>2, <1>4, StrGoto DEF StrictThird, StrictSecond, ThirdAllowed
<1> QED
  BY <1>2, <1>3, <1>4

LEMMA StrictGotoFourth ==
  ASSUME NEW f \in StrictStarts, Width(f) > 3, NEW s \in 128 .. 191, NEW t \in 128 .. 191,
         NEW b \in 0 .. 253
  PROVE  Goto(Str, StrictThird(f, s, t), b) =
           IF b \in 128 .. 191 /\ FourthAllowed(s, t, b) THEN 0 ELSE R
<1>1. f \in C9Starts /\ f # 237
  BY DEF StrictStarts
<1>2. f \in 240 .. 244 /\ Width(f) = 4
  BY <1>1, C9Bytes, WidthFacts
<1> QED
  BY <1>2, StrGoto DEF StrictThird, FourthAllowed

LEMMA InStrict ==
  ASSUME NEW g
  PROVE  g \in Strict <=>
           /\ g \in Plain(StrictStarts, C9Second)
           /\ Len(g) > 2 => ThirdAllowed(g[1], g[2], g[3])
           /\ Len(g) > 3 => FourthAllowed(g[2], g[3], g[4])
BY DEF Strict

LEMMA StrictStates ==
  ASSUME NEW g \in Strict
  PROVE  StrictState(g) \in 0 .. 11 /\ (StrictState(g) = 0 <=> Len(g) = Width(g[1]))
<1>1. PICK n, f, w, s, t : n = Len(g) /\ f = g[1] /\ w = Width(f) /\ s = g[2] /\ t = g[3]
  OBVIOUS
<1>2. n \in 1 .. 4 /\ w \in 1 .. 4 /\ n <= w /\ f \in 0 .. 244 /\ (f < 128 \/ f >= 194)
  <2>1. g \in Plain(StrictStarts, C9Second)
    BY InStrict
  <2> QED
    <3>1. f = g[1]
      BY ONLY <1>1
    <3>2. Len(g) \in 1 .. 4 /\ Width(f) \in 1 .. 4 /\ Len(g) <= Width(f) /\ f \in 0 .. 244 /\ (f < 128 \/ f >= 194)
      BY ONLY <2>1, <3>1, StrictLengths
    <3> QED
      BY ONLY <1>1, <3>2
<1>3. StrictState(g) = CASE n = 1 -> StrictFirst(f) [] n = 2 -> StrictSecond(f, s) [] n = 3 -> StrictThird(f, s, t)
                         [] OTHER -> 0
  BY <1>1 DEF StrictState
<1>4. /\ w = 1 <=> f < 128
      /\ w = 4 <=> f >= 240
      /\ w = 3 <=> f \in 224 .. 239
  <2>1. f \in 0 .. 253
    BY ONLY <1>2
  <2>2. /\ Width(f) = 1 <=> f \in 0 .. 127
        /\ Width(f) = 3 <=> f \in 224 .. 239
        /\ Width(f) = 4 <=> f \in 240 .. 247
    BY ONLY <2>1, WidthFacts
  <2> QED
    <3>1. w = Width(f)
      BY ONLY <1>1
    <3> QED
      BY ONLY <1>2, <2>2, <3>1
<1>5. StrictFirst(f) \in 0 .. 11 /\ (StrictFirst(f) = 0 <=> w = 1)
  BY ONLY <1>2, <1>4 DEF StrictFirst
<1>6. n = 2 => StrictSecond(f, s) \in 0 .. 11 /\ (StrictSecond(f, s) = 0 <=> w = 2)
  BY ONLY <1>1, <1>2, <1>4 DEF StrictSecond
<1>7. n = 3 => StrictThird(f, s, t) \in 0 .. 11 /\ (StrictThird(f, s, t) = 0 <=> w = 3)
  BY ONLY <1>1, <1>2, <1>4 DEF StrictThird
<1>8. StrictState(g) \in 0 .. 11 /\ (StrictState(g) = 0 <=> n = w)
  BY ONLY <1>2, <1>3, <1>5, <1>6, <1>7
<1> QED
  BY ONLY <1>1, <1>8

(* The strict automaton accepts its language.                              *)
LEMMA StrictLanguage == Language(Str, Strict, StrictNode)
<1>1. PlainBytes(StrictStarts, C9Second)
  <2>1. PlainBytes(C9Starts, C9Second)
    BY C9Table DEF PlainTable
  <2> QED
    BY ONLY <2>1 DEF PlainBytes, StrictStarts
<1>2. FirstByte(Str, Strict, StrictNode)
  <2> SUFFICES ASSUME NEW b \in 0 .. 253
               PROVE  Goto(Str, 0, b) = IF <<b>> \in Strict THEN StrictNode[<<b>>] ELSE R
    BY DEF FirstByte
  <2>1. PICK g : g = <<b>>
    OBVIOUS
  <2>2. Len(g) = 1 /\ g[1] = b /\ (g \in Plain(StrictStarts, C9Second) <=> b \in StrictStarts)
    BY ONLY <1>1, <2>1, PlainOne, b \in 0 .. 253
  <2>3. g \in Strict <=> b \in StrictStarts
    BY ONLY <2>2, InStrict
  <2>4. g \in Strict => StrictNode[g] = StrictFirst(b)
    BY ONLY <2>2 DEF StrictNode, StrictState
  <2>5. b \in StrictStarts <=> b # 237 /\ (b < 128 \/ b \in 194 .. 244)
    BY DEF StrictStarts, C9Starts
  <2>6. Goto(Str, 0, b) = IF b \in StrictStarts THEN StrictFirst(b) ELSE R
    BY ONLY <2>5, StrGoto, b \in 0 .. 253 DEF StrictFirst
  <2> QED
    BY ONLY <2>1, <2>3, <2>4, <2>6
<1>3. FurtherByte(Str, Strict, StrictNode)
  <2> SUFFICES ASSUME NEW g \in Strict, NEW b \in 0 .. 253, StrictNode[g] # 0
               PROVE  Goto(Str, StrictNode[g], b) = IF Append(g, b) \in Strict THEN StrictNode[Append(g, b)] ELSE R
    BY DEF FurtherByte
  <2>1. PICK n, f, w, s, t, h, q :
          n = Len(g) /\ f = g[1] /\ w = Width(f) /\ s = g[2] /\ t = g[3] /\ h = Append(g, b) /\ q = StrictNode[g]
    OBVIOUS
  <2>2. q = StrictState(g) /\ q # 0
    BY ONLY <2>1, g \in Strict, StrictNode[g] # 0 DEF StrictNode
  <2>3. g \in Plain(StrictStarts, C9Second)
    BY InStrict
  <2>4. n \in 1 .. 4 /\ w \in 1 .. 4 /\ n <= w /\ f \in StrictStarts /\ f \in C9Starts
    <3>1. f = g[1]
      BY ONLY <2>1
    <3>2. Len(g) \in 1 .. 4 /\ Width(f) \in 1 .. 4 /\ Len(g) <= Width(f) /\ f \in StrictStarts /\ f \in C9Starts
      BY ONLY <2>3, <3>1, StrictLengths
    <3> QED
      BY ONLY <2>1, <3>2
  <2>5. n < w
    <3>1. n # w
      BY ONLY <2>1, <2>2, StrictStates, g \in Strict
    <3> QED
      BY ONLY <2>4, <3>1
  <2>6. /\ Len(h) = n + 1 /\ h[Len(h)] = b /\ \A i \in 1 .. n : h[i] = g[i]
        /\ h \in Plain(StrictStarts, C9Second) <=> b \in 128 .. 191 /\ (n = 1 => b \in C9Second[f])
    <3>1. Len(g) < Width(g[1])
      BY ONLY <2>1, <2>5
    <3>2. Grown(StrictStarts, C9Second, g, b, h)
      BY ONLY <1>1, <2>1, <2>3, <3>1, PlainAppend, b \in 0 .. 253
    <3> QED
      BY ONLY <2>1, <3>2 DEF Grown
  <2>7. h[1] = f /\ h[n + 1] = b /\ (n > 1 => h[2] = s) /\ (n > 2 => h[3] = t)
    BY ONLY <2>1, <2>4, <2>6
  <2>8. (n > 1 => s \in 128 .. 191) /\ (n > 2 => t \in 128 .. 191)
    <3>1. Continued(g, n)
      BY ONLY <2>1, <2>3, InPlain
    <3> QED
      <4>1. (n > 1 => g[2] \in 128 .. 191) /\ (n > 2 => g[3] \in 128 .. 191)
        BY ONLY <2>4, <3>1 DEF Continued
      <4> QED
        BY ONLY <2>1, <4>1
  <2>9. h \in Strict => StrictNode[h] = StrictState(h)
    BY DEF StrictNode
  <2>10. CASE n = 1
    <3>1. q = StrictFirst(f)
      BY ONLY <2>1, <2>2, <2>10 DEF StrictState
    <3>2. Goto(Str, q, b) = IF b \in 128 .. 191 /\ b \in C9Second[f] THEN StrictSecond(f, b) ELSE R
      <4>1. f \in StrictStarts /\ Width(f) > 1
        BY ONLY <2>1, <2>4, <2>5, <2>10
      <4> QED
        BY ONLY <4>1, <3>1, StrictGotoSecond, b \in 0 .. 253
    <3>3. h \in Strict <=> b \in 128 .. 191 /\ b \in C9Second[f]
      BY ONLY <2>6, <2>10, InStrict
    <3>4. StrictState(h) = StrictSecond(f, b)
      BY ONLY <2>6, <2>7, <2>10 DEF StrictState
    <3> QED
      BY ONLY <2>1, <2>9, <3>2, <3>3, <3>4
  <2>11. CASE n = 2
    <3>1. q = StrictSecond(f, s)
      BY ONLY <2>1, <2>2, <2>11 DEF StrictState
    <3>2. Goto(Str, q, b) = IF b \in 128 .. 191 /\ ThirdAllowed(f, s, b) THEN StrictThird(f, s, b) ELSE R
      <4>1. f \in StrictStarts /\ Width(f) > 2 /\ s \in 128 .. 191
        BY ONLY <2>1, <2>4, <2>5, <2>8, <2>11
      <4> QED
        BY ONLY <4>1, <3>1, StrictGotoThird, b \in 0 .. 253, Zenon
    <3>3. h \in Strict <=> b \in 128 .. 191 /\ ThirdAllowed(f, s, b)
      <4>1. Len(h) = 3 /\ h[1] = f /\ h[2] = s /\ h[3] = b
        BY ONLY <2>6, <2>7, <2>11
      <4>2. h \in Plain(StrictStarts, C9Second) <=> b \in 128 .. 191
        BY ONLY <2>6, <2>11
      <4>3. h \in Strict <=>
              /\ h \in Plain(StrictStarts, C9Second)
              /\ Len(h) > 2 => ThirdAllowed(h[1], h[2], h[3])
              /\ Len(h) > 3 => FourthAllowed(h[2], h[3], h[4])
        BY ONLY InStrict
      <4> QED
        BY ONLY <4>1, <4>2, <4>3
    <3>4. StrictState(h) = StrictThird(f, s, b)
      BY ONLY <2>6, <2>7, <2>11 DEF StrictState
    <3> QED
      BY ONLY <2>1, <2>9, <3>2, <3>3, <3>4
  <2>12. CASE n = 3
    <3>1. q = StrictThird(f, s, t)
      BY ONLY <2>1, <2>2, <2>12 DEF StrictState
    <3>2. Goto(Str, q, b) = IF b \in 128 .. 191 /\ FourthAllowed(s, t, b) THEN 0 ELSE R
      <4>1. f \in StrictStarts /\ Width(f) > 3 /\ s \in 128 .. 191 /\ t \in 128 .. 191
        BY ONLY <2>1, <2>4, <2>5, <2>8, <2>12
      <4> QED
        BY ONLY <4>1, <3>1, StrictGotoFourth, b \in 0 .. 253, Zenon
    <3>3. ThirdAllowed(f, s, t)
      <4>1. Len(g) > 2 => ThirdAllowed(g[1], g[2], g[3])
        BY InStrict
      <4> QED
        BY ONLY <2>1, <2>12, <4>1
    <3>4. h \in Strict <=> b \in 128 .. 191 /\ FourthAllowed(s, t, b)
      <4>1. Len(h) = 4 /\ h[1] = f /\ h[2] = s /\ h[3] = t /\ h[4] = b
        BY ONLY <2>6, <2>7, <2>12
      <4>2. h \in Plain(StrictStarts, C9Second) <=> b \in 128 .. 191
        BY ONLY <2>6, <2>12
      <4>3. h \in Strict <=>
              /\ h \in Plain(StrictStarts, C9Second)
              /\ Len(h) > 2 => ThirdAllowed(h[1], h[2], h[3])
              /\ Len(h) > 3 => FourthAllowed(h[2], h[3], h[4])
        BY ONLY InStrict
      <4> QED
        BY ONLY <3>3, <4>1, <4>2, <4>3
    <3>5. StrictState(h) = 0
      BY ONLY <2>6, <2>7, <2>12 DEF StrictState
    <3> QED
      BY ONLY <2>1, <2>9, <3>2, <3>4, <3>5
  <2> QED
    BY ONLY <2>4, <2>5, <2>10, <2>11, <2>12
<1>4. Beginnings(Strict, StrictNode)
  <2> SUFFICES ASSUME NEW g \in Strict
               PROVE  /\ g \in Strings /\ Len(g) > 0 /\ Len(g) <= Width(g[1])
                      /\ StrictNode[g] \in 0 .. 11 /\ (StrictNode[g] = 0 <=> Len(g) = Width(g[1]))
                      /\ \A n \in 1 .. Len(g) : Prefix(g, n) \in Strict
    BY DEF Beginnings
  <2>1. /\ g \in Plain(StrictStarts, C9Second)
        /\ Len(g) > 2 => ThirdAllowed(g[1], g[2], g[3])
        /\ Len(g) > 3 => FourthAllowed(g[2], g[3], g[4])
    BY InStrict
  <2>2. g \in Strings /\ Len(g) \in 1 .. 4 /\ Len(g) <= Width(g[1])
    BY <2>1, StrictLengths
  <2>3. StrictNode[g] \in 0 .. 11 /\ (StrictNode[g] = 0 <=> Len(g) = Width(g[1]))
    BY StrictStates DEF StrictNode
  <2>4. ASSUME NEW n \in 1 .. Len(g) PROVE Prefix(g, n) \in Strict
    <3>1. PICK p : p = Prefix(g, n)
      OBVIOUS
    <3>2. p \in Plain(StrictStarts, C9Second) /\ Len(p) = n /\ \A j \in 1 .. n : p[j] = g[j]
      BY ONLY <1>1, <2>1, <3>1, PlainPrefix, n \in 1 .. Len(g)
    <3>3. n \in 1 .. 4 /\ (n > 2 => Len(g) > 2) /\ (n > 3 => Len(g) > 3)
      <4>1. PICK m : m = Len(g)
        OBVIOUS
      <4>2. m \in 1 .. 4 /\ n \in 1 .. m
        BY ONLY <2>2, <4>1, n \in 1 .. Len(g)
      <4> QED
        BY ONLY <4>1, <4>2
    <3>4. p[1] = g[1] /\ (n > 2 => p[2] = g[2] /\ p[3] = g[3]) /\ (n > 3 => p[4] = g[4])
      BY ONLY <3>2, <3>3
    <3>5. p \in Strict
      BY ONLY <2>1, <3>2, <3>3, <3>4, InStrict
    <3> QED
      BY <3>1, <3>5
  <2> QED
    BY ONLY <2>2, <2>3, <2>4
<1> QED
  BY <1>2, <1>3, <1>4 DEF Language

-----------------------------------------------------------------------------
(* Values: which bytes hold the first value of each length, a surrogate, a *)
(* noncharacter, or more than 10FFFF.                                      *)

(* v is what n bytes f, a, b, d, e and k stand for.                        *)
StandFor(n, f, a, b, d, e, k, v) ==
  /\ n = 1 => v = f
  /\ n = 2 => v = (f - 192) * 64 + (a - 128)
  /\ n = 3 => v = ((f - 224) * 64 + (a - 128)) * 64 + (b - 128)
  /\ n = 4 => v = (((f - 240) * 64 + (a - 128)) * 64 + (b - 128)) * 64 + (d - 128)
  /\ n = 5 => v = ((((f - 248) * 64 + (a - 128)) * 64 + (b - 128)) * 64 + (d - 128)) * 64 + (e - 128)
  /\ n = 6 => v = (((((f - 252) * 64 + (a - 128)) * 64 + (b - 128)) * 64 + (d - 128)) * 64 + (e - 128)) * 64 + (k - 128)

(* The definition of UTF-8 in this form.                                   *)
LEMMA Values ==
  ASSUME NEW c
  PROVE  StandFor(Len(c), c[1], c[2], c[3], c[4], c[5], c[6], Value(c))
<1> DEFINE w == Len(c)
           d == [i \in 2 .. w |-> c[i] - 128]
<1>1. Value(c) = CASE w = 1 -> c[1]
       [] w = 2 -> (c[1] - 192) * 64 + d[2]
       [] w = 3 -> ((c[1] - 224) * 64 + d[2]) * 64 + d[3]
       [] w = 4 -> (((c[1] - 240) * 64 + d[2]) * 64 + d[3]) * 64 + d[4]
       [] w = 5 -> ((((c[1] - 248) * 64 + d[2]) * 64 + d[3]) * 64 + d[4]) * 64 + d[5]
       [] w = 6 -> (((((c[1] - 252) * 64 + d[2]) * 64 + d[3]) * 64 + d[4]) * 64 + d[5]) * 64 + d[6]
  BY SMT DEF Value
<1>2. /\ w > 1 /\ w \in Int => d[2] = c[2] - 128
      /\ w > 2 /\ w \in Int => d[3] = c[3] - 128
      /\ w > 3 /\ w \in Int => d[4] = c[4] - 128
      /\ w > 4 /\ w \in Int => d[5] = c[5] - 128
      /\ w > 5 /\ w \in Int => d[6] = c[6] - 128
  BY SMT
<1> HIDE DEF d, w
<1>3. ASSUME w = 1 PROVE Value(c) = c[1]
  BY ONLY <1>1, <1>3, SMT DEF w
<1>4. ASSUME w = 2 PROVE Value(c) = (c[1] - 192) * 64 + (c[2] - 128)
  <2>1. Value(c) = (c[1] - 192) * 64 + d[2]
    BY ONLY <1>1, <1>4, SMT
  <2>2. d[2] = c[2] - 128
    BY ONLY <1>2, <1>4, SMT
  <2> QED
    BY ONLY <2>1, <2>2, <1>4, SMT DEF w
<1>5. ASSUME w = 3 PROVE Value(c) = ((c[1] - 224) * 64 + (c[2] - 128)) * 64 + (c[3] - 128)
  <2>1. Value(c) = ((c[1] - 224) * 64 + d[2]) * 64 + d[3]
    BY ONLY <1>1, <1>5, SMT
  <2>2. d[2] = c[2] - 128 /\ d[3] = c[3] - 128
    BY ONLY <1>2, <1>5, SMT
  <2> QED
    BY ONLY <2>1, <2>2, <1>5, SMT DEF w
<1>6. ASSUME w = 4 PROVE Value(c) = (((c[1] - 240) * 64 + (c[2] - 128)) * 64 + (c[3] - 128)) * 64 + (c[4] - 128)
  <2>1. Value(c) = (((c[1] - 240) * 64 + d[2]) * 64 + d[3]) * 64 + d[4]
    BY ONLY <1>1, <1>6, SMT
  <2>2. d[2] = c[2] - 128 /\ d[3] = c[3] - 128 /\ d[4] = c[4] - 128
    BY ONLY <1>2, <1>6, SMT
  <2> QED
    BY ONLY <2>1, <2>2, <1>6, SMT DEF w
<1>7. ASSUME w = 5 PROVE Value(c) = ((((c[1] - 248) * 64 + (c[2] - 128)) * 64 + (c[3] - 128)) * 64 + (c[4] - 128)) * 64 + (c[5] - 128)
  <2>1. Value(c) = ((((c[1] - 248) * 64 + d[2]) * 64 + d[3]) * 64 + d[4]) * 64 + d[5]
    BY ONLY <1>1, <1>7, SMT
  <2>2. d[2] = c[2] - 128 /\ d[3] = c[3] - 128 /\ d[4] = c[4] - 128 /\ d[5] = c[5] - 128
    BY ONLY <1>2, <1>7, SMT
  <2> QED
    BY ONLY <2>1, <2>2, <1>7, SMT DEF w
<1>8. ASSUME w = 6 PROVE Value(c) = (((((c[1] - 252) * 64 + (c[2] - 128)) * 64 + (c[3] - 128)) * 64 + (c[4] - 128)) * 64 + (c[5] - 128)) * 64 + (c[6] - 128)
  <2>1. Value(c) = (((((c[1] - 252) * 64 + d[2]) * 64 + d[3]) * 64 + d[4]) * 64 + d[5]) * 64 + d[6]
    BY ONLY <1>1, <1>8, SMT
  <2>2. d[2] = c[2] - 128 /\ d[3] = c[3] - 128 /\ d[4] = c[4] - 128 /\ d[5] = c[5] - 128 /\ d[6] = c[6] - 128
    BY ONLY <1>2, <1>8, SMT
  <2> QED
    BY ONLY <2>1, <2>2, <1>8, SMT DEF w
<1> QED
  BY ONLY <1>3, <1>4, <1>5, <1>6, <1>7, <1>8, Zenon DEF w, StandFor

LEMMA Leasts ==
  /\ Least[1] = 0 /\ Least[2] = 128 /\ Least[3] = 2048 /\ Least[4] = 65536
  /\ Least[5] = 2097152 /\ Least[6] = 67108864
BY SMT DEF Least

(* The place of a code point in its plane.                                 *)
Low(v) == v % 65536

(* Which three bytes are an overlong form, a surrogate or a noncharacter.  *)
ValueOfThree(f, a, b, v) ==
  /\ v \in Nat /\ v <= 65535
  /\ v >= 2048 <=> (f = 224 => a >= 160)
  /\ v >= 55296 /\ v <= 57343 <=> f = 237 /\ a >= 160
  /\ v >= 64976 /\ v <= 65007 <=> f = 239 /\ a = 183 /\ b \in 144 .. 175
  /\ Low(v) < 65534 <=> ~(f = 239 /\ a = 191 /\ b >= 190)

(* These are facts of arithmetic, as are those for more bytes.             *)
LEMMA Three ==
  ASSUME NEW f \in 224 .. 239, NEW a \in 128 .. 191, NEW b \in 128 .. 191, NEW d, NEW e, NEW k,
         NEW v, StandFor(3, f, a, b, d, e, k, v)
  PROVE  ValueOfThree(f, a, b, v)
<1>v. v = ((f - 224) * 64 + (a - 128)) * 64 + (b - 128)
  BY SMT DEF StandFor
<1> USE <1>v
<1>1. v \in Nat /\ v <= 65535
  BY SMT
<1>2. v >= 2048 <=> (f = 224 => a >= 160)
  BY SMT
<1>3. v >= 55296 /\ v <= 57343 <=> f = 237 /\ a >= 160
  BY SMT
<1>4. v >= 64976 /\ v <= 65007 <=> f = 239 /\ a = 183 /\ b \in 144 .. 175
  BY SMT
<1>5. Low(v) = v
  BY <1>1, SMT DEF Low
<1>6. v < 65534 <=> ~(f = 239 /\ a = 191 /\ b >= 190)
  BY SMT
<1> QED
  BY ONLY <1>1, <1>2, <1>3, <1>4, <1>5, <1>6, SMT DEF ValueOfThree

(* For four bytes, the place in the plane is split off.                    *)
Placed(k, r, v) == r < 65536 /\ v = k * 65536 + r

LEMMA Remainder ==
  ASSUME NEW k \in Nat, NEW r \in Nat, NEW v, Placed(k, r, v)
  PROVE  Low(v) = r
<1>0. r < 65536 /\ v = k * 65536 + r
  BY SMT DEF Placed
<1>1. v \in Nat
  BY <1>0, SMT
<1>2. PICK d, m : d = v \div 65536 /\ m = v % 65536
  BY SMT
<1>3. d \in Int /\ m \in Int /\ 0 <= m /\ m < 65536 /\ v = 65536 * d + m
  BY ONLY <1>1, <1>2, SMT
<1>4. m = r
  BY ONLY <1>3, <1>0, k \in Nat, r \in Nat, SMT
<1> QED
  BY ONLY <1>2, <1>4, SMT DEF Low

LEMMA Sixteens ==
  ASSUME NEW a \in 128 .. 191
  PROVE  \E p \in 0 .. 3, q \in 0 .. 15 : a - 128 = p * 16 + q /\ (q = 15 <=> a \in LastOfPlane)
<1>1. CASE a \in 128 .. 143
  <2>1. a - 128 \in 0 .. 15 /\ a - 128 = 0 * 16 + (a - 128) /\ (a - 128 = 15 <=> a \in LastOfPlane)
    BY <1>1, SMT DEF LastOfPlane
  <2> QED
    BY <2>1, SMT
<1>2. CASE a \in 144 .. 159
  <2>1. a - 144 \in 0 .. 15 /\ a - 128 = 1 * 16 + (a - 144) /\ (a - 144 = 15 <=> a \in LastOfPlane)
    BY <1>2, SMT DEF LastOfPlane
  <2> QED
    BY <2>1, SMT
<1>3. CASE a \in 160 .. 175
  <2>1. a - 160 \in 0 .. 15 /\ a - 128 = 2 * 16 + (a - 160) /\ (a - 160 = 15 <=> a \in LastOfPlane)
    BY <1>3, SMT DEF LastOfPlane
  <2> QED
    BY <2>1, SMT
<1>4. CASE a \in 176 .. 191
  <2>1. a - 176 \in 0 .. 15 /\ a - 128 = 3 * 16 + (a - 176) /\ (a - 176 = 15 <=> a \in LastOfPlane)
    BY <1>4, SMT DEF LastOfPlane
  <2> QED
    BY <2>1, SMT
<1> QED
  BY <1>1, <1>2, <1>3, <1>4, SMT

(* Which four bytes are overlong, above 10FFFF or a noncharacter.          *)
ValueOfFour(f, a, b, c, v) ==
  /\ v \in Nat
  /\ v >= 65536 <=> (f = 240 => a >= 144)
  /\ v <= 1114111 <=> f < 244 \/ (f = 244 /\ a < 144)
  /\ Low(v) < 65534 <=> ~(a \in LastOfPlane /\ b = 191 /\ c >= 190)

LEMMA Four ==
  ASSUME NEW f \in 240 .. 247, NEW a \in 128 .. 191, NEW b \in 128 .. 191, NEW c \in 128 .. 191,
         NEW d, NEW e, NEW v, StandFor(4, f, a, b, c, d, e, v)
  PROVE  ValueOfFour(f, a, b, c, v)
<1>v. v = (((f - 240) * 64 + (a - 128)) * 64 + (b - 128)) * 64 + (c - 128)
  BY SMT DEF StandFor
<1>1. v \in Nat
  BY <1>v, SMT
<1>2. v >= 65536 <=> (f = 240 => a >= 144)
  BY <1>v, SMT
<1>3. v <= 1114111 <=> f < 244 \/ (f = 244 /\ a < 144)
  BY <1>v, SMT
<1>4. PICK p \in 0 .. 3, q \in 0 .. 15 : a - 128 = p * 16 + q /\ (q = 15 <=> a \in LastOfPlane)
  BY Sixteens, SMT
<1>5. PICK r, k : r = (q * 64 + (b - 128)) * 64 + (c - 128) /\ k = (f - 240) * 4 + p
  BY SMT
<1>6. r \in Nat /\ r < 65536 /\ (r < 65534 <=> ~(q = 15 /\ b = 191 /\ c >= 190))
  BY ONLY q \in 0 .. 15, b \in 128 .. 191, c \in 128 .. 191, <1>5, SMT
<1>7. k \in Nat
  BY ONLY <1>5, f \in 240 .. 247, p \in 0 .. 3, SMT
<1>8. v = k * 65536 + r
  BY ONLY <1>4, <1>5, <1>6, <1>7, <1>v,
     a \in 128 .. 191, p \in 0 .. 3, q \in 0 .. 15, f \in 240 .. 247, b \in 128 .. 191, c \in 128 .. 191, SMT
<1>9. Low(v) = r
  <2>1. r \in Nat /\ Placed(k, r, v)
    BY ONLY <1>6, <1>8, SMT DEF Placed
  <2> QED
    BY ONLY <1>7, <2>1, Remainder, Zenon
<1> QED
  BY ONLY <1>1, <1>2, <1>3, <1>4, <1>6, <1>9, SMT DEF ValueOfFour

(* Which five or six are overlong: all others are above 10FFFF.            *)
ValueOfFive(f, a, v) == v \in Nat /\ (v >= 2097152 <=> (f = 248 => a >= 136))

LEMMA Five ==
  ASSUME NEW f \in 248 .. 251, NEW a \in 128 .. 191, NEW b \in 128 .. 191,
         NEW c \in 128 .. 191, NEW d \in 128 .. 191,
         NEW k, NEW v, StandFor(5, f, a, b, c, d, k, v)
  PROVE  ValueOfFive(f, a, v)
<1>v. v = ((((f - 248) * 64 + (a - 128)) * 64 + (b - 128)) * 64 + (c - 128)) * 64 + (d - 128)
  BY SMT DEF StandFor
<1> QED
  BY <1>v, SMT DEF ValueOfFive

ValueOfSix(f, a, v) == v \in Nat /\ (v >= 67108864 <=> (f = 252 => a >= 132))

LEMMA Six ==
  ASSUME NEW f \in 252 .. 253, NEW a \in 128 .. 191, NEW b \in 128 .. 191,
         NEW c \in 128 .. 191, NEW d \in 128 .. 191,
         NEW e \in 128 .. 191, NEW v, StandFor(6, f, a, b, c, d, e, v)
  PROVE  ValueOfSix(f, a, v)
<1>v. v = (((((f - 252) * 64 + (a - 128)) * 64 + (b - 128)) * 64 + (c - 128)) * 64 + (d - 128)) * 64 + (e - 128)
  BY SMT DEF StandFor
<1> QED
  BY <1>v, SMT DEF ValueOfSix

-----------------------------------------------------------------------------
(* From the value of a character to its bytes.                             *)

(* The sets of code points in terms of these bounds.                       *)
LEMMA InSets ==
  ASSUME NEW v \in Nat
  PROVE  /\ v \in Extended
         /\ v \in C9 <=> v <= 1114111 /\ ~(v >= 55296 /\ v <= 57343)
         /\ v \in Interchange <=> v \in C9 /\ ~(v >= 64976 /\ v <= 65007) /\ Low(v) < 65534
<1>1. v \in C9 <=> v <= 1114111 /\ v \notin 55296 .. 57343
  BY SMT DEF C9
<1>2. v \in 55296 .. 57343 <=> v >= 55296 /\ v <= 57343
  BY SMT
<1>3. v \in 64976 .. 65007 <=> v >= 64976 /\ v <= 65007
  BY SMT
<1>4. v \in Interchange <=> v \in C9 /\ v \notin 64976 .. 65007 /\ Low(v) < 65534
  BY SMT DEF Interchange, Low
<1> QED
  BY ONLY <1>1, <1>2, <1>3, <1>4, v \in Nat, SMT DEF Extended

LEMMA ExtBytes ==
  ASSUME NEW f \in 0 .. 253
  PROVE  /\ f \in ExtStarts <=> f < 128 \/ f >= 194
         /\ f \in ExtStarts => ExtSecond[f] = CASE f = 224 -> 160 .. 191 [] f = 240 -> 144 .. 191 [] f = 248 -> 136 .. 191
                                                [] f = 252 -> 132 .. 191 [] OTHER -> 128 .. 191
BY SMT DEF ExtStarts, ExtSecond

LEMMA C9StartBytes ==
  ASSUME NEW f \in 0 .. 253
  PROVE  /\ f \in C9Starts <=> f < 128 \/ f \in 194 .. 244
         /\ f \in C9Starts => C9Second[f] = CASE f = 224 -> 160 .. 191 [] f = 237 -> 128 .. 159 [] f = 240 -> 144 .. 191
                                              [] f = 244 -> 128 .. 143 [] OTHER -> 128 .. 191
BY SMT DEF C9Starts, C9Second

(* What the value v of n bytes f, a, b, d, ... says of them.               *)
Judged(n, f, a, b, d, v) ==
  /\ v \in Nat
  /\ v >= Least[n] <=> f \in ExtStarts /\ (n > 1 => a \in ExtSecond[f])
  /\ v >= Least[n] /\ v \in C9 <=> f \in C9Starts /\ (n > 1 => a \in C9Second[f])
  /\ v >= Least[n] /\ v \in C9
       => (v \in Interchange <=> (n > 2 => ThirdAllowed(f, a, b)) /\ (n > 3 => FourthAllowed(a, b, d)))

(* Each length: the value says what the tables of bytes say.               *)
LEMMA Small ==
  ASSUME NEW v \in Nat, v < 2048
  PROVE  v \in C9 /\ v \in Interchange
<1>1. v <= 1114111 /\ ~(v >= 55296 /\ v <= 57343) /\ ~(v >= 64976 /\ v <= 65007)
  BY SMT
<1>2. Low(v) < 65534
  BY SMT DEF Low
<1> QED
  BY ONLY <1>1, <1>2, v \in Nat, InSets, SMT

LEMMA JudgedOne ==
  ASSUME NEW f \in 0 .. 127, NEW a, NEW b, NEW d
  PROVE  Judged(1, f, a, b, d, f)
<1>1. f \in Nat /\ f < 128 /\ f < 2048 /\ f \in 0 .. 253
  BY SMT
<1>2. f \in C9 /\ f \in Interchange
  BY ONLY <1>1, Small, SMTT(30)
<1>3. f \in ExtStarts /\ f \in C9Starts
  BY ONLY <1>1, ExtBytes, C9StartBytes, SMT
<1>4. f >= Least[1]
  BY ONLY <1>1, Leasts, SMT
<1> QED
  BY ONLY <1>1, <1>2, <1>3, <1>4, SMT DEF Judged

LEMMA JudgedTwo ==
  ASSUME NEW f \in 192 .. 223, NEW a \in 128 .. 191, NEW b, NEW d, NEW e, NEW k, NEW v,
         StandFor(2, f, a, b, d, e, k, v)
  PROVE  Judged(2, f, a, b, d, v)
<1>v. v = (f - 192) * 64 + (a - 128)
  BY SMT DEF StandFor
<1>1. v \in Nat /\ (v >= 128 <=> f >= 194) /\ v < 2048
  BY <1>v, SMT
<1>2. v \in C9 /\ v \in Interchange
  BY ONLY <1>1, Small, SMTT(30)
<1>3. f \in 0 .. 253
  BY SMT
<1>4. f \in ExtStarts /\ a \in ExtSecond[f] <=> f >= 194
  BY ONLY <1>3, f \in 192 .. 223, a \in 128 .. 191, ExtBytes, SMT
<1>5. f \in C9Starts /\ a \in C9Second[f] <=> f >= 194
  BY ONLY <1>3, f \in 192 .. 223, a \in 128 .. 191, C9StartBytes, SMT
<1>6. v >= Least[2] <=> f >= 194
  BY ONLY <1>1, Leasts, SMT
<1> QED
  BY ONLY <1>1, <1>2, <1>4, <1>5, <1>6, SMT DEF Judged

LEMMA JudgedThree ==
  ASSUME NEW f \in 224 .. 239, NEW a \in 128 .. 191, NEW b \in 128 .. 191, NEW d, NEW e, NEW k,
         NEW v, StandFor(3, f, a, b, d, e, k, v)
  PROVE  Judged(3, f, a, b, d, v)
<1>0. ValueOfThree(f, a, b, v)
  BY ONLY Three, StandFor(3, f, a, b, d, e, k, v), f \in 224 .. 239, a \in 128 .. 191, b \in 128 .. 191, ZenonT(40)
<1>1. /\ v \in Nat /\ v <= 65535
      /\ v >= 2048 <=> (f = 224 => a >= 160)
      /\ v >= 55296 /\ v <= 57343 <=> f = 237 /\ a >= 160
      /\ v >= 64976 /\ v <= 65007 <=> f = 239 /\ a = 183 /\ b \in 144 .. 175
      /\ Low(v) < 65534 <=> ~(f = 239 /\ a = 191 /\ b >= 190)
  BY ONLY <1>0, SMT DEF ValueOfThree
<1>2. v <= 1114111
  BY ONLY <1>1, SMT
<1>3. v \in C9 <=> ~(f = 237 /\ a >= 160)
  BY ONLY <1>1, <1>2, InSets, SMT
<1>4. v \in Interchange <=> v \in C9 /\ ~(f = 239 /\ a = 183 /\ b \in 144 .. 175) /\ ~(f = 239 /\ a = 191 /\ b >= 190)
  BY ONLY <1>1, <1>2, InSets, SMT
<1>5. f \in 0 .. 253
  BY SMT
<1>6. f \in ExtStarts /\ a \in ExtSecond[f] <=> (f = 224 => a >= 160)
  BY ONLY <1>5, f \in 224 .. 239, a \in 128 .. 191, ExtBytes, SMT
<1>7. f \in C9Starts /\ a \in C9Second[f] <=> (f = 224 => a >= 160) /\ (f = 237 => a < 160)
  BY ONLY <1>5, f \in 224 .. 239, a \in 128 .. 191, C9StartBytes, SMT
<1>8. ThirdAllowed(f, a, b) <=> ~(f = 239 /\ a = 183 /\ b \in 144 .. 175) /\ ~(f = 239 /\ a = 191 /\ b >= 190)
  BY ONLY b \in 128 .. 191, SMT DEF ThirdAllowed
<1>9. v >= Least[3] <=> (f = 224 => a >= 160)
  BY ONLY <1>1, Leasts, SMT
<1>10. v >= Least[3] /\ v \in C9 <=> f \in C9Starts /\ a \in C9Second[f]
  BY ONLY <1>3, <1>7, <1>9, a \in 128 .. 191, SMT
<1> QED
  <2>0. v \in Nat
    BY ONLY <1>1, SMT
  <2>1. v >= Least[3] <=> f \in ExtStarts /\ (3 > 1 => a \in ExtSecond[f])
    BY ONLY <1>6, <1>9, f \in 224 .. 239, a \in 128 .. 191, SMT
  <2>2. v >= Least[3] /\ v \in C9 <=> f \in C9Starts /\ (3 > 1 => a \in C9Second[f])
    BY ONLY <1>10, SMT
  <2>3. (3 > 2 => ThirdAllowed(f, a, b)) /\ (3 > 3 => FourthAllowed(a, b, d)) <=> ThirdAllowed(f, a, b)
    BY SMT
  <2>4. v \in C9 => (v \in Interchange <=> ThirdAllowed(f, a, b))
    BY ONLY <1>4, <1>8, SMT
  <2> QED
    BY ONLY <2>0, <2>1, <2>2, <2>3, <2>4, Zenon DEF Judged

LEMMA JudgedFour ==
  ASSUME NEW f \in 240 .. 247, NEW a \in 128 .. 191, NEW b \in 128 .. 191, NEW d \in 128 .. 191,
         NEW e, NEW k, NEW v, StandFor(4, f, a, b, d, e, k, v)
  PROVE  Judged(4, f, a, b, d, v)
<1>0. ValueOfFour(f, a, b, d, v)
  BY ONLY Four, StandFor(4, f, a, b, d, e, k, v), f \in 240 .. 247, a \in 128 .. 191, b \in 128 .. 191,
     d \in 128 .. 191, ZenonT(40)
<1>1. /\ v \in Nat
      /\ v >= 65536 <=> (f = 240 => a >= 144)
      /\ v <= 1114111 <=> f < 244 \/ (f = 244 /\ a < 144)
      /\ Low(v) < 65534 <=> ~(a \in LastOfPlane /\ b = 191 /\ d >= 190)
  BY ONLY <1>0, SMT DEF ValueOfFour
<1>2. v >= 65536 => ~(v >= 55296 /\ v <= 57343) /\ ~(v >= 64976 /\ v <= 65007)
  BY ONLY <1>1, SMT
<1>3. v >= 65536 => (v \in C9 <=> f < 244 \/ (f = 244 /\ a < 144))
  BY ONLY <1>1, <1>2, InSets, SMT
<1>4. v >= 65536 => (v \in Interchange <=> v \in C9 /\ ~(a \in LastOfPlane /\ b = 191 /\ d >= 190))
  BY ONLY <1>1, <1>2, InSets, SMT
<1>5. f \in 0 .. 253
  BY SMT
<1>6. f \in ExtStarts /\ a \in ExtSecond[f] <=> (f = 240 => a >= 144)
  BY ONLY <1>5, f \in 240 .. 247, a \in 128 .. 191, ExtBytes, SMT
<1>7. f \in C9Starts /\ a \in C9Second[f] <=> (f = 240 => a >= 144) /\ (f < 244 \/ (f = 244 /\ a < 144))
  BY ONLY <1>5, f \in 240 .. 247, a \in 128 .. 191, C9StartBytes, SMT
<1>8. ThirdAllowed(f, a, b) /\ (FourthAllowed(a, b, d) <=> ~(a \in LastOfPlane /\ b = 191 /\ d >= 190))
  BY ONLY f \in 240 .. 247, d \in 128 .. 191, SMT DEF ThirdAllowed, FourthAllowed
<1>9. v >= Least[4] <=> v >= 65536
  BY ONLY Leasts, SMT
<1>10. v >= Least[4] <=> f \in ExtStarts /\ a \in ExtSecond[f]
  BY ONLY <1>1, <1>6, <1>9, SMT
<1>11. v >= Least[4] /\ v \in C9 <=> f \in C9Starts /\ a \in C9Second[f]
  BY ONLY <1>1, <1>3, <1>7, <1>9, SMT
<1>12. v >= Least[4] => (v \in Interchange <=> v \in C9 /\ FourthAllowed(a, b, d))
  BY ONLY <1>4, <1>8, <1>9, SMT
<1> QED
  <2>0. v \in Nat
    BY ONLY <1>1, SMT
  <2>1. v >= Least[4] <=> f \in ExtStarts /\ (4 > 1 => a \in ExtSecond[f])
    BY ONLY <1>10, SMT
  <2>2. v >= Least[4] /\ v \in C9 <=> f \in C9Starts /\ (4 > 1 => a \in C9Second[f])
    BY ONLY <1>11, SMT
  <2>3. (4 > 2 => ThirdAllowed(f, a, b)) /\ (4 > 3 => FourthAllowed(a, b, d)) <=> FourthAllowed(a, b, d)
    BY ONLY <1>8, SMT
  <2> QED
    BY ONLY <2>0, <1>12, <2>1, <2>2, <2>3, Zenon DEF Judged

(* With five and six bytes only the first two matter.                      *)
FirstTwo(n, f, a, v) == v >= Least[n] <=> f \in ExtStarts /\ a \in ExtSecond[f]
Beyond(n) == Least[n] > 1114111

LEMMA JudgedMore ==
  ASSUME NEW n \in 5 .. 6, NEW f \in 248 .. 253, NEW a \in 128 .. 191, NEW b, NEW d, NEW v \in Nat,
         FirstTwo(n, f, a, v), Beyond(n)
  PROVE  Judged(n, f, a, b, d, v)
<1>1. f \in 0 .. 253
  BY SMT
<1>2. f \notin C9Starts
  BY ONLY <1>1, f \in 248 .. 253, C9StartBytes, SMT
<1>3. v \in C9 => v <= 1114111
  BY InSets, SMT
<1>4. Least[n] \in Nat
  BY Leasts, SMT
<1>5. ~(v >= Least[n] /\ v \in C9)
  BY ONLY <1>3, <1>4, v \in Nat, Beyond(n), SMT DEF Beyond
<1> QED
  BY ONLY <1>2, <1>5, n \in 5 .. 6, v \in Nat, FirstTwo(n, f, a, v), SMT DEF Judged, FirstTwo

LEMMA JudgedFive ==
  ASSUME NEW f \in 248 .. 251, NEW a \in 128 .. 191, NEW b \in 128 .. 191,
         NEW d \in 128 .. 191, NEW e \in 128 .. 191,
         NEW k, NEW v, StandFor(5, f, a, b, d, e, k, v)
  PROVE  Judged(5, f, a, b, d, v)
<1>1. v \in Nat /\ (v >= 2097152 <=> (f = 248 => a >= 136))
  <2>1. ValueOfFive(f, a, v)
    BY Five, ZenonT(40)
  <2> QED
    BY ONLY <2>1, SMT DEF ValueOfFive
<1>2. f \in 0 .. 253 /\ f \in 248 .. 253
  BY SMT
<1>3. f \in ExtStarts /\ a \in ExtSecond[f] <=> (f = 248 => a >= 136)
  BY ONLY <1>2, f \in 248 .. 251, a \in 128 .. 191, ExtBytes, SMT
<1>4. Beyond(5) /\ FirstTwo(5, f, a, v)
  BY ONLY <1>1, <1>3, Leasts, SMT DEF Beyond, FirstTwo
<1>5. 5 \in 5 .. 6
  BY SMT
<1>6. v \in Nat
  BY ONLY <1>1, SMT
<1> QED
  BY ONLY <1>2, <1>4, <1>5, <1>6, a \in 128 .. 191, JudgedMore, ZenonT(40)

LEMMA JudgedSix ==
  ASSUME NEW f \in 252 .. 253, NEW a \in 128 .. 191, NEW b \in 128 .. 191,
         NEW d \in 128 .. 191, NEW e \in 128 .. 191,
         NEW k \in 128 .. 191,
         NEW v, StandFor(6, f, a, b, d, e, k, v)
  PROVE  Judged(6, f, a, b, d, v)
<1>1. v \in Nat /\ (v >= 67108864 <=> (f = 252 => a >= 132))
  <2>1. ValueOfSix(f, a, v)
    BY Six, ZenonT(40)
  <2> QED
    BY ONLY <2>1, SMT DEF ValueOfSix
<1>2. f \in 0 .. 253 /\ f \in 248 .. 253
  BY SMT
<1>3. f \in ExtStarts /\ a \in ExtSecond[f] <=> (f = 252 => a >= 132)
  BY ONLY <1>2, f \in 252 .. 253, a \in 128 .. 191, ExtBytes, SMT
<1>4. Beyond(6) /\ FirstTwo(6, f, a, v)
  BY ONLY <1>1, <1>3, Leasts, SMT DEF Beyond, FirstTwo
<1>5. 6 \in 5 .. 6
  BY SMT
<1>6. v \in Nat
  BY ONLY <1>1, SMT
<1> QED
  BY ONLY <1>2, <1>4, <1>5, <1>6, a \in 128 .. 191, JudgedMore, ZenonT(40)

-----------------------------------------------------------------------------
(* The sets of code points, as sets of strings of bytes.                   *)

(* Bytes that have the shape of one character.                             *)
Shaped(c) == c \in Strings /\ Len(c) > 0 /\ Width(c[1]) = Len(c) /\ Continued(c, Len(c))

(* The value of a character of any length says what its bytes say.         *)
LEMMA CharacterJudged ==
  ASSUME NEW c, Shaped(c)
  PROVE  Judged(Len(c), c[1], c[2], c[3], c[4], Value(c))
<1>1. PICK n, f, a, b, d, e, k, v :
        n = Len(c) /\ f = c[1] /\ a = c[2] /\ b = c[3] /\ d = c[4] /\ e = c[5] /\ k = c[6] /\ v = Value(c)
  OBVIOUS
<1>2. n \in 1 .. 6 /\ f \in 0 .. 253 /\ Width(f) = n
  <2>1. Len(c) \in Nat /\ \A i \in 1 .. Len(c) : c[i] \in 0 .. 253
    BY StringFacts DEF Shaped
  <2>2. n > 0 /\ Width(f) = n
    BY <1>1 DEF Shaped
  <2>3. f \in 0 .. 253
    BY ONLY <1>1, <2>1, <2>2
  <2>4. Width(f) \in 0 .. 6
    BY ONLY <2>3, WidthFacts
  <2> QED
    BY ONLY <2>2, <2>3, <2>4
<1>3. /\ n > 1 => a \in 128 .. 191
      /\ n > 2 => b \in 128 .. 191
      /\ n > 3 => d \in 128 .. 191
      /\ n > 4 => e \in 128 .. 191
      /\ n > 5 => k \in 128 .. 191
  <2>1. \A i \in 2 .. n : c[i] \in 128 .. 191
    BY <1>1 DEF Shaped, Continued
  <2>2. ASSUME NEW i \in 2 .. 6, n >= i PROVE c[i] \in 128 .. 191
    BY ONLY <1>2, <2>1, <2>2
  <2> QED
    BY ONLY <1>1, <1>2, <2>2
<1>4. /\ n = 1 => f \in 0 .. 127
      /\ n = 2 => f \in 192 .. 223
      /\ n = 3 => f \in 224 .. 239
      /\ n = 4 => f \in 240 .. 247
      /\ n = 5 => f \in 248 .. 251
      /\ n = 6 => f \in 252 .. 253
  BY ONLY <1>2, WidthFacts
<1>5. StandFor(n, f, a, b, d, e, k, v)
  BY ONLY <1>1, Values
<1>6. Judged(n, f, a, b, d, v)
  <2>1. CASE n = 1
    <3>1. v = f /\ f \in 0 .. 127
      BY ONLY <1>4, <1>5, <2>1, SMT DEF StandFor
    <3> QED
      BY ONLY <2>1, <3>1, JudgedOne
  <2>2. CASE n = 2
    <3>1. f \in 192 .. 223 /\ a \in 128 .. 191
      BY ONLY <1>3, <1>4, <2>2
    <3> QED
      BY ONLY <1>5, <2>2, <3>1, JudgedTwo, Zenon
  <2>3. CASE n = 3
    <3>1. f \in 224 .. 239 /\ a \in 128 .. 191 /\ b \in 128 .. 191
      BY ONLY <1>3, <1>4, <2>3
    <3> QED
      BY ONLY <1>5, <2>3, <3>1, JudgedThree, ZenonT(40)
  <2>4. CASE n = 4
    <3>1. f \in 240 .. 247 /\ a \in 128 .. 191 /\ b \in 128 .. 191 /\ d \in 128 .. 191
      BY ONLY <1>3, <1>4, <2>4
    <3> QED
      BY ONLY <1>5, <2>4, <3>1, JudgedFour, ZenonT(40)
  <2>5. CASE n = 5
    <3>1. f \in 248 .. 251 /\ a \in 128 .. 191 /\ b \in 128 .. 191 /\ d \in 128 .. 191 /\ e \in 128 .. 191
      BY ONLY <1>3, <1>4, <2>5
    <3> QED
      BY ONLY <1>5, <2>5, <3>1, JudgedFive, ZenonT(40)
  <2>6. CASE n = 6
    <3>1. f \in 252 .. 253 /\ a \in 128 .. 191 /\ b \in 128 .. 191 /\ d \in 128 .. 191 /\ e \in 128 .. 191 /\ k \in 128 .. 191
      BY ONLY <1>3, <1>4, <2>6
    <3> QED
      BY ONLY <1>5, <2>6, <3>1, JudgedSix, ZenonT(40)
  <2> QED
    BY ONLY <1>2, <2>1, <2>2, <2>3, <2>4, <2>5, <2>6
<1> QED
  BY ONLY <1>1, <1>6

(* A beginning that is a whole character, and one the strict set leaves    *)
(* out.                                                                    *)
Full(c) == Len(c) = Width(c[1])
Noncharacter(c) == ~((Len(c) > 2 => ThirdAllowed(c[1], c[2], c[3])) /\ (Len(c) > 3 => FourthAllowed(c[2], c[3], c[4])))

(* The whole characters of a language.                                     *)
LEMMA PlainFull ==
  ASSUME NEW Starts, NEW Second, NEW c \in Strings
  PROVE  c \in Plain(Starts, Second) /\ Full(c) <=>
           Shaped(c) /\ c[1] \in Starts /\ (Len(c) > 1 => c[2] \in Second[c[1]])
<1>1. PICK n, w : n = Len(c) /\ w = Width(c[1])
  OBVIOUS
<1>2. n \in Nat
  BY ONLY <1>1, StringFacts, c \in Strings
<1>3. n <= w /\ n = w <=> w = n
  BY <1>2
<1> QED
  BY ONLY <1>1, <1>3, InPlain, c \in Strings DEF Full, Shaped

LEMMA CharacterShaped ==
  ASSUME NEW c \in Strings
  PROVE  IsCharacter(c) <=> Shaped(c) /\ Value(c) >= Least[Len(c)]
BY DEF IsCharacter, Shaped, Continued

(* The characters of each set of code points are the full members of a     *)
(* language.                                                               *)
LEMMA EncodesExtended ==
  ASSUME NEW c \in Strings
  PROVE  /\ Encodes(c, Extended) <=> c \in Plain(ExtStarts, ExtSecond) /\ Full(c)
         /\ IsCharacter(c) <=> Encodes(c, Extended)
<1>1. IsCharacter(c) <=> Shaped(c) /\ Value(c) >= Least[Len(c)]
  BY CharacterShaped
<1>2. Shaped(c) => /\ Value(c) \in Nat
                   /\ Value(c) >= Least[Len(c)] <=> c[1] \in ExtStarts /\ (Len(c) > 1 => c[2] \in ExtSecond[c[1]])
  BY CharacterJudged, Zenon DEF Judged
<1>3. c \in Plain(ExtStarts, ExtSecond) /\ Full(c) <=>
           Shaped(c) /\ c[1] \in ExtStarts /\ (Len(c) > 1 => c[2] \in ExtSecond[c[1]])
  BY PlainFull
<1> QED
  BY ONLY <1>1, <1>2, <1>3, Zenon DEF Encodes, Extended

LEMMA EncodesC9 ==
  ASSUME NEW c \in Strings
  PROVE  Encodes(c, C9) <=> c \in Plain(C9Starts, C9Second) /\ Full(c)
<1>1. IsCharacter(c) <=> Shaped(c) /\ Value(c) >= Least[Len(c)]
  BY CharacterShaped
<1>2. Shaped(c) => (Value(c) >= Least[Len(c)] /\ Value(c) \in C9 <=> c[1] \in C9Starts /\ (Len(c) > 1 => c[2] \in C9Second[c[1]]))
  BY CharacterJudged, Zenon DEF Judged
<1>3. c \in Plain(C9Starts, C9Second) /\ Full(c) <=>
           Shaped(c) /\ c[1] \in C9Starts /\ (Len(c) > 1 => c[2] \in C9Second[c[1]])
  BY PlainFull
<1> QED
  BY ONLY <1>1, <1>2, <1>3, Zenon DEF Encodes

LEMMA EncodesInterchange ==
  ASSUME NEW c \in Strings
  PROVE  Encodes(c, Interchange) <=> c \in Plain(C9Starts, C9Second) /\ Full(c) /\ ~Noncharacter(c)
<1>1. IsCharacter(c) <=> Shaped(c) /\ Value(c) >= Least[Len(c)]
  BY CharacterShaped
<1>2. Shaped(c) /\ Value(c) >= Least[Len(c)] /\ Value(c) \in C9 => (Value(c) \in Interchange <=> ~Noncharacter(c))
  BY CharacterJudged, Zenon DEF Judged, Noncharacter
<1>3. Encodes(c, C9) <=> c \in Plain(C9Starts, C9Second) /\ Full(c)
  BY EncodesC9
<1>4. Encodes(c, Interchange) => Encodes(c, C9)
  <2>1. Value(c) \in Interchange => Value(c) \in C9
    BY SMT DEF Interchange
  <2> QED
    BY <2>1 DEF Encodes
<1> QED
  BY ONLY <1>1, <1>2, <1>3, <1>4, Zenon DEF Encodes

IsHangul(c) == Len(c) = 3 /\ c[1] = 237 /\ c[2] \in 128 .. 159 /\ c[3] \in 128 .. 191

(* ED, which the strict automaton rejects, begins the Hangul that          *)
(* is_HANGUL_ED_utf8_safe then recognises, and otherwise surrogates.       *)
LEMMA EncodesStrict ==
  ASSUME NEW c \in Strings
  PROVE  Encodes(c, Interchange) <=> (c \in Strict /\ Full(c)) \/ IsHangul(c)
<1>1. Encodes(c, Interchange) <=> Shaped(c) /\ c[1] \in C9Starts /\ (Len(c) > 1 => c[2] \in C9Second[c[1]]) /\ ~Noncharacter(c)
  BY EncodesInterchange, PlainFull, Zenon
<1>2. c \in Strict /\ Full(c) <=>
        Shaped(c) /\ c[1] \in StrictStarts /\ (Len(c) > 1 => c[2] \in C9Second[c[1]]) /\ ~Noncharacter(c)
  BY InStrict, PlainFull, Zenon DEF Noncharacter
<1>3. c[1] \in C9Starts <=> c[1] \in StrictStarts \/ c[1] = 237
  BY DEF StrictStarts, C9Starts
<1>4. ASSUME c[1] = 237
      PROVE  Shaped(c) /\ (Len(c) > 1 => c[2] \in C9Second[c[1]]) /\ ~Noncharacter(c) <=> IsHangul(c)
  <2>1. PICK n, a, b : n = Len(c) /\ a = c[2] /\ b = c[3]
    OBVIOUS
  <2>2. Width(c[1]) = 3
    BY ONLY <1>4, WidthFacts
  <2>3. Shaped(c) <=> n = 3 /\ a \in 128 .. 191 /\ b \in 128 .. 191
    <3>1. Continued(c, 3) <=> a \in 128 .. 191 /\ b \in 128 .. 191
      <4>1. 2 .. 3 = {2, 3}
        OBVIOUS
      <4> QED
        BY ONLY <2>1, <4>1 DEF Continued
    <3>2. Shaped(c) <=> Width(c[1]) = Len(c) /\ Len(c) > 0 /\ Continued(c, Len(c))
      BY DEF Shaped
    <3> QED
      BY ONLY <2>1, <2>2, <3>1, <3>2
  <2>4. a \in C9Second[c[1]] <=> a \in 128 .. 159
    <3>1. C9Second[237] = 128 .. 159
      BY C9StartBytes
    <3> QED
      BY ONLY <1>4, <3>1
  <2>5. n = 3 => ~Noncharacter(c)
    BY ONLY <1>4, <2>1 DEF Noncharacter, ThirdAllowed
  <2>6. IsHangul(c) <=> n = 3 /\ a \in 128 .. 159 /\ b \in 128 .. 191
    BY ONLY <1>4, <2>1 DEF IsHangul
  <2>7. a \in 128 .. 159 => a \in 128 .. 191
    OBVIOUS
  <2>8. n = 3 => n > 1
    OBVIOUS
  <2> QED
    BY ONLY <2>1, <2>3, <2>4, <2>5, <2>6, <2>7, <2>8, Zenon
<1>5. IsHangul(c) => c[1] = 237
  BY DEF IsHangul
<1> QED
  BY ONLY <1>1, <1>2, <1>3, <1>4, <1>5, Zenon

-----------------------------------------------------------------------------
(* The functions that look for one character.                              *)

(* What an automaton finds in bytes.                                       *)
LEMMA Found ==
  ASSUME NEW dfa, NEW Good, NEW node, Language(dfa, Good, node), NEW bytes \in Strings,
         NEW at, at = PERL_IS_UTF8_CHAR_DFA(bytes, dfa)
  PROVE  /\ at.state \in R .. 11 /\ at.n \in 0 .. Len(bytes)
         /\ Accepted(at) => at.n \in 1 .. Len(bytes) /\ Prefix(bytes, at.n) \in Good /\ Full(Prefix(bytes, at.n))
         /\ ~Accepted(at) => \A n \in 1 .. Len(bytes) : ~(Prefix(bytes, n) \in Good /\ Full(Prefix(bytes, n)))
         /\ at.state \notin {0, R} <=> bytes \in Good /\ ~Full(bytes)
         /\ at.state = 0 /\ ~Accepted(at) => bytes = <<>>
<1>1. PICK G, q, w : /\ G = {i \in 1 .. Len(bytes) : Prefix(bytes, i) \in Good}
                     /\ q = [i \in 1 .. Len(bytes) |-> node[Prefix(bytes, i)]]
                     /\ w = IF bytes = <<>> THEN 0 ELSE Width(bytes[1])
  OBVIOUS
<1>2. Walks(dfa, bytes, G, q, w)
  BY ONLY <1>1, LanguageWalks, Language(dfa, Good, node), bytes \in Strings
<1>3. /\ at.state \in R .. 11 /\ at.n \in 0 .. Len(bytes)
      /\ Accepted(at) => at.n > 0 /\ at.n \in G /\ q[at.n] = 0
      /\ ~Accepted(at) => \A n \in G : q[n] # 0
      /\ at.state \notin {0, R} <=> Len(bytes) \in G /\ q[Len(bytes)] # 0
      /\ at.state = 0 /\ ~Accepted(at) => bytes = <<>>
  BY ONLY <1>2, Automaton, bytes \in Strings, at = PERL_IS_UTF8_CHAR_DFA(bytes, dfa)
<1>4. ASSUME NEW i \in 1 .. Len(bytes), Prefix(bytes, i) \in Good PROVE q[i] = 0 <=> Full(Prefix(bytes, i))
  <2>1. q[i] = node[Prefix(bytes, i)]
    BY ONLY <1>1, i \in 1 .. Len(bytes)
  <2>2. node[Prefix(bytes, i)] = 0 <=> Full(Prefix(bytes, i))
    BY ONLY <1>4, Language(dfa, Good, node) DEF Language, Beginnings, Full
  <2> QED
    BY ONLY <2>1, <2>2
<1>5. \A i : i \in G <=> i \in 1 .. Len(bytes) /\ Prefix(bytes, i) \in Good
  BY ONLY <1>1
<1>6. Prefix(bytes, Len(bytes)) = bytes
  BY WholePrefix
<1>7. Len(bytes) \in Nat /\ \A g \in Good : Len(g) > 0
  <2>1. \A g \in Good : Len(g) > 0
    BY DEF Language, Beginnings
  <2> QED
    BY <2>1, StringFacts
<1>8. bytes \in Good => Len(bytes) \in 1 .. Len(bytes)
  BY <1>7
<1>9. at.state \notin {0, R} <=> bytes \in Good /\ ~Full(bytes)
  BY ONLY <1>3, <1>4, <1>5, <1>6, <1>8
<1> QED
  BY ONLY <1>3, <1>4, <1>5, <1>9

LEMMA MinOne ==
  ASSUME NEW w \in Int, NEW S, S = {w}
  PROVE  Min(S) = w
BY DEF Min

(* Only as many bytes as the first says can be its character.              *)
LEMMA FirstIs ==
  ASSUME NEW bytes \in Strings, NEW Allowed
  PROVE  /\ \A n \in 1 .. Len(bytes) : Encodes(Prefix(bytes, n), Allowed) => FirstCharacter(bytes, Allowed) = n
         /\ FirstCharacter(bytes, Allowed) \in 0 .. Len(bytes)
         /\ FirstCharacter(bytes, Allowed) # 0 => Encodes(Prefix(bytes, FirstCharacter(bytes, Allowed)), Allowed)
<1> DEFINE lengths == {n \in 1 .. Len(bytes) : Encodes(Prefix(bytes, n), Allowed)}
<1>1. Len(bytes) \in Nat
  BY StringFacts
<1>2. FirstCharacter(bytes, Allowed) = IF lengths = {} THEN 0 ELSE Min(lengths)
  BY DEF FirstCharacter, Prefix
<1>3. ASSUME NEW n \in lengths PROVE n = Width(bytes[1])
  <2>1. n \in 1 .. Len(bytes) /\ n \in 0 .. Len(bytes) /\ Encodes(Prefix(bytes, n), Allowed)
    BY <1>1
  <2>2. PICK p : p = Prefix(bytes, n)
    OBVIOUS
  <2>3. Len(p) = n /\ p[1] = bytes[1]
    BY ONLY <2>1, <2>2, PrefixFacts, bytes \in Strings
  <2>4. Width(p[1]) = Len(p)
    BY ONLY <2>1, <2>2 DEF Encodes, IsCharacter
  <2> QED
    BY ONLY <2>3, <2>4
<1>4. ASSUME NEW n \in lengths PROVE FirstCharacter(bytes, Allowed) = n
  <2>1. lengths = {n}
    BY ONLY <1>3, n \in lengths
  <2>2. n \in Int
    BY <1>1
  <2>3. Min(lengths) = n
    BY ONLY <2>1, <2>2, MinOne
  <2> QED
    BY ONLY <1>2, <2>1, <2>3
<1>5. lengths \subseteq 1 .. Len(bytes) /\ \A n : n \in lengths <=> n \in 1 .. Len(bytes) /\ Encodes(Prefix(bytes, n), Allowed)
  OBVIOUS
<1> HIDE DEF lengths
<1>6. CASE lengths = {}
  BY ONLY <1>1, <1>2, <1>5, <1>6
<1>7. CASE lengths # {}
  <2>1. PICK n : n \in lengths
    BY <1>7
  <2> QED
    BY ONLY <1>1, <1>4, <1>5, <2>1
<1> QED
  BY <1>6, <1>7

(* So an automaton finds the first character of those it is for.           *)
LEMMA Accepts ==
  ASSUME NEW dfa, NEW Good, NEW node, Language(dfa, Good, node), NEW bytes \in Strings,
         NEW at, at = PERL_IS_UTF8_CHAR_DFA(bytes, dfa),
         NEW Allowed, \A g \in Strings : Encodes(g, Allowed) <=> g \in Good /\ Full(g)
  PROVE  (IF Accepted(at) THEN at.n ELSE 0) = FirstCharacter(bytes, Allowed)
<1>1. /\ Accepted(at) => at.n \in 1 .. Len(bytes) /\ Prefix(bytes, at.n) \in Good /\ Full(Prefix(bytes, at.n))
      /\ ~Accepted(at) => \A n \in 1 .. Len(bytes) : ~(Prefix(bytes, n) \in Good /\ Full(Prefix(bytes, n)))
  BY Found
<1>2. ASSUME NEW n \in 1 .. Len(bytes)
      PROVE  Encodes(Prefix(bytes, n), Allowed) <=> Prefix(bytes, n) \in Good /\ Full(Prefix(bytes, n))
  <2>1. n \in 0 .. Len(bytes)
    BY StringFacts
  <2>2. Prefix(bytes, n) \in Strings
    BY ONLY <2>1, PrefixFacts, bytes \in Strings
  <2> QED
    BY ONLY <2>2, \A g \in Strings : Encodes(g, Allowed) <=> g \in Good /\ Full(g)
<1>3. PICK n : n = FirstCharacter(bytes, Allowed)
  OBVIOUS
<1>4. /\ \A m \in 1 .. Len(bytes) : Encodes(Prefix(bytes, m), Allowed) => n = m
      /\ n \in 0 .. Len(bytes)
      /\ n # 0 => Encodes(Prefix(bytes, n), Allowed)
  BY ONLY <1>3, FirstIs, bytes \in Strings
<1>5. n # 0 => n \in 1 .. Len(bytes)
  BY <1>4
<1> QED
  BY ONLY <1>1, <1>2, <1>3, <1>4, <1>5

LEMMA ExtLanguage ==
  \E node : Language(Ext, Plain(ExtStarts, ExtSecond), node)
BY PlainLanguage, ExtTable

LEMMA C9Language ==
  \E node : Language(C9t, Plain(C9Starts, C9Second), node)
BY PlainLanguage, C9Table

(* Each of the three functions does, whatever the string.                  *)
LEMMA IsUTF8 ==
  ASSUME NEW bytes \in Strings
  PROVE  isUTF8_CHAR(bytes) = FirstCharacter(bytes, Extended)
<1>1. PICK Good, node, dfa, at : /\ Good = Plain(ExtStarts, ExtSecond) /\ Language(dfa, Good, node) /\ dfa = PL_extended_utf8_dfa_tab
                                /\ at = PERL_IS_UTF8_CHAR_DFA(bytes, dfa)
  BY ExtLanguage DEF Ext
<1>2. \A g \in Strings : Encodes(g, Extended) <=> g \in Good /\ Full(g)
  BY ONLY <1>1, EncodesExtended
<1>3. (IF Accepted(at) THEN at.n ELSE 0) = FirstCharacter(bytes, Extended)
  BY ONLY <1>1, <1>2, Accepts, bytes \in Strings
<1> QED
  BY ONLY <1>1, <1>3 DEF isUTF8_CHAR

LEMMA IsC9 ==
  ASSUME NEW bytes \in Strings
  PROVE  isC9_STRICT_UTF8_CHAR(bytes) = FirstCharacter(bytes, C9)
<1>1. PICK Good, node, dfa, at : /\ Good = Plain(C9Starts, C9Second) /\ Language(dfa, Good, node) /\ dfa = PL_c9_utf8_dfa_tab
                                /\ at = PERL_IS_UTF8_CHAR_DFA(bytes, dfa)
  BY C9Language DEF C9t
<1>2. \A g \in Strings : Encodes(g, C9) <=> g \in Good /\ Full(g)
  BY ONLY <1>1, EncodesC9
<1>3. (IF Accepted(at) THEN at.n ELSE 0) = FirstCharacter(bytes, C9)
  BY ONLY <1>1, <1>2, Accepts, bytes \in Strings
<1> QED
  BY ONLY <1>1, <1>3 DEF isC9_STRICT_UTF8_CHAR

LEMMA IsSTRICT ==
  ASSUME NEW bytes \in Strings
  PROVE  isSTRICT_UTF8_CHAR(bytes) = FirstCharacter(bytes, Interchange)
<1>1. PICK at : at = PERL_IS_UTF8_CHAR_DFA(bytes, PL_strict_utf8_dfa_tab)
  OBVIOUS
<1>2. isSTRICT_UTF8_CHAR(bytes) = IF Accepted(at) THEN at.n ELSE IF at.state = R THEN is_HANGUL_ED_utf8_safe(bytes) ELSE 0
  BY <1>1 DEF isSTRICT_UTF8_CHAR
<1>3. /\ at.state \in R .. 11 /\ at.n \in 0 .. Len(bytes)
      /\ Accepted(at) => at.n \in 1 .. Len(bytes) /\ Prefix(bytes, at.n) \in Strict /\ Full(Prefix(bytes, at.n))
      /\ ~Accepted(at) => \A n \in 1 .. Len(bytes) : ~(Prefix(bytes, n) \in Strict /\ Full(Prefix(bytes, n)))
      /\ at.state \notin {0, R} <=> bytes \in Strict /\ ~Full(bytes)
      /\ at.state = 0 /\ ~Accepted(at) => bytes = <<>>
  BY <1>1, Found, StrictLanguage DEF Str
<1>4. PICK n : n = FirstCharacter(bytes, Interchange)
  OBVIOUS
<1>5. /\ \A m \in 1 .. Len(bytes) : Encodes(Prefix(bytes, m), Interchange) => n = m
      /\ n \in 0 .. Len(bytes)
      /\ n # 0 => Encodes(Prefix(bytes, n), Interchange)
  BY ONLY <1>4, FirstIs, bytes \in Strings
<1>6. Len(bytes) \in Nat
  BY StringFacts
<1>7. n # 0 => n \in 1 .. Len(bytes)
  BY ONLY <1>5, <1>6
<1>8. ASSUME NEW m \in 1 .. Len(bytes)
      PROVE  /\ Encodes(Prefix(bytes, m), Interchange) <=>
                  (Prefix(bytes, m) \in Strict /\ Full(Prefix(bytes, m))) \/ IsHangul(Prefix(bytes, m))
             /\ Len(Prefix(bytes, m)) = m /\ \A j \in 1 .. m : Prefix(bytes, m)[j] = bytes[j]
  <2>1. m \in 0 .. Len(bytes)
    BY <1>6
  <2>2. Prefix(bytes, m) \in Strings /\ Len(Prefix(bytes, m)) = m /\ \A j \in 1 .. m : Prefix(bytes, m)[j] = bytes[j]
    BY ONLY <2>1, PrefixFacts, bytes \in Strings
  <2> QED
    BY ONLY <2>2, EncodesStrict
<1>9. ASSUME NEW m \in 1 .. Len(bytes) PROVE IsHangul(Prefix(bytes, m)) <=> m = 3 /\ is_HANGUL_ED_utf8_safe(bytes) = 3
  <2>1. PICK p : p = Prefix(bytes, m)
    OBVIOUS
  <2>2. Len(p) = m /\ \A j \in 1 .. m : p[j] = bytes[j]
    BY ONLY <1>8, <2>1, m \in 1 .. Len(bytes)
  <2>3. m = 3 => p[1] = bytes[1] /\ p[2] = bytes[2] /\ p[3] = bytes[3] /\ Len(bytes) >= 3
    BY ONLY <1>6, <2>2, m \in 1 .. Len(bytes)
  <2>4. IsHangul(p) <=> m = 3 /\ is_HANGUL_ED_utf8_safe(bytes) = 3
    BY ONLY <2>2, <2>3 DEF IsHangul, is_HANGUL_ED_utf8_safe
  <2> QED
    BY ONLY <2>1, <2>4
<1>10. /\ is_HANGUL_ED_utf8_safe(bytes) \in {0, 3}
       /\ is_HANGUL_ED_utf8_safe(bytes) = 3 => 3 \in 1 .. Len(bytes) /\ bytes[1] = 237 /\ bytes # <<>>
  BY ONLY <1>6, bytes \in Strings, StringFacts DEF is_HANGUL_ED_utf8_safe
<1>11. CASE Accepted(at)
  BY ONLY <1>2, <1>3, <1>4, <1>5, <1>8, <1>11
<1>12. CASE ~Accepted(at)
  <2>1. is_HANGUL_ED_utf8_safe(bytes) = 3 => n = 3
    BY ONLY <1>5, <1>8, <1>9, <1>10
  <2>2. n # 0 => n = 3 /\ is_HANGUL_ED_utf8_safe(bytes) = 3
    BY ONLY <1>3, <1>5, <1>7, <1>8, <1>9, <1>12
  <2>3. n = is_HANGUL_ED_utf8_safe(bytes)
    BY ONLY <1>10, <2>1, <2>2
  <2>4. is_HANGUL_ED_utf8_safe(bytes) = 3 => at.state = R
    <3>1. ASSUME bytes \in Strict PROVE bytes[1] # 237
      <4>1. bytes \in Plain(StrictStarts, C9Second)
        BY ONLY <3>1, InStrict
      <4>2. bytes[1] \in StrictStarts
        BY ONLY <4>1, InPlain
      <4> QED
        BY ONLY <4>2 DEF StrictStarts
    <3> QED
      BY ONLY <1>3, <1>10, <1>12, <3>1
  <2> QED
    BY ONLY <1>2, <1>4, <1>10, <1>12, <2>3, <2>4
<1> QED
  BY ONLY <1>11, <1>12

-----------------------------------------------------------------------------
(* Partial characters.                                                     *)

(* s, followed by the k bytes of rest.                                     *)
Followed(s, k, rest, c) ==
  /\ c \in Strings /\ Len(c) = Len(s) + k
  /\ \A i \in 1 .. Len(s) : c[i] = s[i]
  /\ \A i \in Len(s) + 1 .. Len(s) + k : c[i] = rest[i - Len(s)]

(* A completion, with its bytes.                                           *)
LEMMA Joined ==
  ASSUME NEW s \in Strings, NEW k \in Nat, NEW rest \in [1 .. k -> 0 .. 253]
  PROVE  Followed(s, k, rest, s \o rest)
<1>1. PICK n, c : n = Len(s) /\ c = s \o rest
  OBVIOUS
<1>2. n \in Nat
  BY <1>1, StringFacts
<1>3. rest \in Seq(0 .. 253) /\ Len(rest) = k
  <2>1. rest \in Seq(0 .. 253)
    BY SeqDef
  <2>2. DOMAIN rest = 1 .. k
    OBVIOUS
  <2> QED
    BY <2>1, <2>2, LenProperties
<1>4. /\ c \in Seq(0 .. 253) /\ Len(c) = n + k
      /\ \A i \in 1 .. n + k : c[i] = IF i <= n THEN s[i] ELSE rest[i - n]
  <2>1. s \in Seq(0 .. 253)
    BY DEF Strings
  <2>2. /\ s \o rest \in Seq(0 .. 253) /\ Len(s \o rest) = Len(s) + Len(rest)
        /\ \A i \in 1 .. Len(s) + Len(rest) : (s \o rest)[i] = IF i <= Len(s) THEN s[i] ELSE rest[i - Len(s)]
    <3>1. PICK B : B = 0 .. 253
      OBVIOUS
    <3>2. s \in Seq(B) /\ rest \in Seq(B)
      BY ONLY <1>3, <2>1, <3>1
    <3>3. /\ s \o rest \in Seq(B) /\ Len(s \o rest) = Len(s) + Len(rest)
          /\ \A i \in 1 .. Len(s) + Len(rest) : (s \o rest)[i] = IF i <= Len(s) THEN s[i] ELSE rest[i - Len(s)]
      BY ONLY <3>2, ConcatProperties, Zenon
    <3> QED
      BY ONLY <3>1, <3>3
  <2> QED
    BY ONLY <1>1, <1>3, <2>2
<1>5. (\A i \in 1 .. n : c[i] = s[i]) /\ \A i \in n + 1 .. n + k : c[i] = rest[i - n]
  BY ONLY <1>2, <1>4, k \in Nat
<1> QED
  BY ONLY <1>1, <1>4, <1>5 DEF Followed, Strings

LEMMA LastByte ==
  ASSUME NEW f \in ExtStarts, Width(f) > 1
  PROVE  191 \in ExtSecond[f] /\ f \in 0 .. 253
<1>1. f \in 0 .. 253
  BY DEF ExtStarts
<1> QED
  BY <1>1, ExtBytes

(* A string can be completed where the automaton is between two states.    *)
LEMMA PartialCharacter ==
  ASSUME NEW bytes \in Strings
  PROVE  is_utf8_valid_partial_char(bytes) <=> Completable(bytes)
<1>1. is_utf8_valid_partial_char(bytes) <=> bytes \in Plain(ExtStarts, ExtSecond) /\ ~Full(bytes)
  <2>1. PICK Good, node, dfa, at : /\ Good = Plain(ExtStarts, ExtSecond) /\ Language(dfa, Good, node) /\ dfa = PL_extended_utf8_dfa_tab
                                  /\ at = PERL_IS_UTF8_CHAR_DFA(bytes, dfa)
    BY ExtLanguage DEF Ext
  <2>2. at.state \notin {0, R} <=> bytes \in Good /\ ~Full(bytes)
    BY ONLY <2>1, Found, bytes \in Strings
  <2> QED
    BY ONLY <2>1, <2>2 DEF is_utf8_valid_partial_char
<1>2. PlainBytes(ExtStarts, ExtSecond)
  BY ExtTable DEF PlainTable
<1>3. PICK n : n = Len(bytes)
  OBVIOUS
<1>4. n \in Nat /\ \A i \in 1 .. n : bytes[i] \in 0 .. 253
  BY ONLY <1>3, StringFacts, bytes \in Strings
<1>5. ASSUME bytes \in Plain(ExtStarts, ExtSecond), ~Full(bytes) PROVE Completable(bytes)
  <2>1. PICK f, w : f = bytes[1] /\ w = Width(f)
    OBVIOUS
  <2>2. n \in 1 .. 6 /\ w \in 1 .. 6 /\ n <= w /\ f \in ExtStarts
    <3>1. Len(bytes) \in 1 .. 6 /\ Width(bytes[1]) \in 1 .. 6 /\ Len(bytes) <= Width(bytes[1]) /\ bytes[1] \in ExtStarts
      BY ONLY <1>2, <1>5, PlainLengths
    <3> QED
      BY ONLY <1>3, <2>1, <3>1
  <2>3. n < w
    BY <1>3, <1>5, <2>1, <2>2 DEF Full
  <2>4. PICK k, rest, c : k = w - n /\ rest = [i \in 1 .. k |-> 191] /\ c = bytes \o rest
    OBVIOUS
  <2>5. k \in 1 .. 5 /\ k \in Nat
    BY ONLY <2>2, <2>3, <2>4
  <2>6. rest \in [1 .. k -> {128, 191}] /\ rest \in [1 .. k -> 0 .. 253]
    BY ONLY <2>4
  <2>7. c \in Strings /\ Len(c) = n + k /\ (\A i \in 1 .. n : c[i] = bytes[i]) /\ \A i \in n + 1 .. n + k : c[i] = rest[i - n]
    <3>1. Followed(bytes, k, rest, bytes \o rest)
      BY ONLY <2>5, <2>6, Joined, bytes \in Strings
    <3>2. Followed(bytes, k, rest, c)
      BY ONLY <2>4, <3>1
    <3> QED
      BY ONLY <1>3, <3>2 DEF Followed
  <2>8. Len(c) = w /\ c[1] = f
    BY ONLY <2>1, <2>2, <2>3, <2>4, <2>7
  <2>9. \A i \in n + 1 .. w : c[i] = 191
    BY ONLY <2>2, <2>3, <2>4, <2>5, <2>7
  <2>10. bytes \in Strings /\ (n > 1 => bytes[2] \in ExtSecond[f]) /\ Continued(bytes, n)
    BY ONLY <1>3, <1>5, <2>1, InPlain
  <2>11. Continued(c, w)
    <3> SUFFICES ASSUME NEW i \in 2 .. w PROVE c[i] \in 128 .. 191
      BY DEF Continued
    <3>1. CASE i \in 2 .. n
      <4>1. i \in 1 .. n /\ bytes[i] \in 128 .. 191
        BY ONLY <3>1, <1>4, <2>10 DEF Continued
      <4> QED
        BY ONLY <2>7, <4>1
    <3>2. CASE i \notin 2 .. n
      BY ONLY <3>2, <1>4, <2>2, <2>9, i \in 2 .. w
    <3> QED
      BY <3>1, <3>2
  <2>12. w > 1 => c[2] \in ExtSecond[f]
    <3>1. CASE n > 1
      BY ONLY <1>4, <2>7, <2>10, <3>1
    <3>2. CASE n = 1
      BY ONLY <2>1, <2>2, <2>3, <2>9, <3>2, LastByte
    <3> QED
      BY <2>2, <3>1, <3>2
  <2>13. c \in Plain(ExtStarts, ExtSecond) /\ Full(c)
    <3>1. Len(c) > 0 /\ Len(c) <= Width(c[1]) /\ Full(c)
      BY ONLY <2>1, <2>2, <2>8 DEF Full
    <3> QED
      BY ONLY <2>2, <2>7, <2>8, <2>11, <2>12, <3>1, InPlain
  <2>14. IsCharacter(c)
    BY ONLY <2>7, <2>13, EncodesExtended
  <2> QED
    <3>1. IsCharacter(bytes \o rest)
      BY ONLY <2>4, <2>14
    <3> QED
      BY ONLY <2>5, <2>6, <3>1, Zenon DEF Completable
<1>6. ASSUME Completable(bytes) PROVE bytes \in Plain(ExtStarts, ExtSecond) /\ ~Full(bytes)
  <2>0. PICK k \in 1 .. 5 : \E rest \in [1 .. k -> {128, 191}] : IsCharacter(bytes \o rest)
    BY ONLY <1>6 DEF Completable
  <2>1. PICK rest, c : rest \in [1 .. k -> {128, 191}] /\ IsCharacter(c) /\ c = bytes \o rest
    BY ONLY <2>0
  <2>2. rest \in [1 .. k -> 0 .. 253] /\ k \in Nat
    BY ONLY <2>1, k \in 1 .. 5
  <2>3. c \in Strings /\ Len(c) = n + k /\ (\A i \in 1 .. n : c[i] = bytes[i]) /\ \A i \in n + 1 .. n + k : c[i] = rest[i - n]
    <3>1. Followed(bytes, k, rest, bytes \o rest)
      BY ONLY <2>2, Joined, bytes \in Strings
    <3> QED
      BY ONLY <1>3, <2>1, <3>1 DEF Followed
  <2>4. c \in Plain(ExtStarts, ExtSecond) /\ Full(c)
    BY ONLY <2>1, <2>3, EncodesExtended
  <2>5. n # 0
    <3> SUFFICES ASSUME n = 0 PROVE FALSE
      OBVIOUS
    <3>1. c[1] = rest[1] /\ rest[1] \in {128, 191}
      BY ONLY <2>1, <2>3, k \in 1 .. 5, n = 0
    <3>2. c[1] \in ExtStarts
      BY ONLY <2>4, InPlain
    <3> QED
      BY ONLY <3>1, <3>2 DEF ExtStarts
  <2>6. n \in 1 .. Len(c) /\ n \in 0 .. Len(c)
    BY ONLY <1>4, <2>3, <2>5, k \in 1 .. 5
  <2>7. bytes = Prefix(c, n)
    <3>1. PICK p : p = Prefix(c, n)
      OBVIOUS
    <3>2. p \in Strings /\ Len(p) = n /\ \A i \in 1 .. n : p[i] = c[i]
      BY ONLY <2>3, <2>6, <3>1, PrefixFacts
    <3>3. bytes = p
      BY ONLY <1>3, <2>3, <3>2, SameString, bytes \in Strings
    <3> QED
      BY <3>1, <3>3
  <2>8. bytes \in Plain(ExtStarts, ExtSecond)
    BY ONLY <1>2, <2>4, <2>6, <2>7, PlainPrefix
  <2>9. bytes[1] = c[1]
    BY ONLY <1>4, <2>3, <2>5
  <2>10. Len(bytes) # Len(c)
    BY ONLY <1>3, <1>4, <2>3, k \in 1 .. 5
  <2> QED
    BY ONLY <2>4, <2>8, <2>9, <2>10 DEF Full
<1> QED
  BY ONLY <1>1, <1>5, <1>6

-----------------------------------------------------------------------------
(* Decoding.                                                               *)

(* The loop that decodes, its turn, and all of its turns.                  *)
Accumulates(body, bytes, m) ==
  body = [j \in 1 .. m |-> [v \in Nat |-> UTF8_ACCUMULATE(v, bytes[j + 1])]]

LEMMA OneTurn ==
  ASSUME NEW b \in 128 .. 191, NEW f, f = [v \in Nat |-> UTF8_ACCUMULATE(v, b)], NEW x \in Nat
  PROVE  f[x] = x * 64 + (b - 128)
<1>1. f[x] = UTF8_ACCUMULATE(x, b)
  OBVIOUS
<1>2. b % 64 = b - 128
  <2>1. PICK q, r : q = b \div 64 /\ r = b % 64
    OBVIOUS
  <2>2. q \in Int /\ r \in 0 .. 63 /\ b = 64 * q + r
    BY <2>1
  <2> QED
    BY ONLY <2>1, <2>2, b \in 128 .. 191
<1> QED
  BY ONLY <1>1, <1>2 DEF UTF8_ACCUMULATE

(* What accumulating the bytes behind the first makes of u.                *)
AccumulatedValue(n, u, a, b, d, e, k, v) ==
  /\ n = 2 => v = u * 64 + (a - 128)
  /\ n = 3 => v = (u * 64 + (a - 128)) * 64 + (b - 128)
  /\ n = 4 => v = ((u * 64 + (a - 128)) * 64 + (b - 128)) * 64 + (d - 128)
  /\ n = 5 => v = (((u * 64 + (a - 128)) * 64 + (b - 128)) * 64 + (d - 128)) * 64 + (e - 128)
  /\ n = 6 => v = ((((u * 64 + (a - 128)) * 64 + (b - 128)) * 64 + (d - 128)) * 64 + (e - 128)) * 64 + (k - 128)

LEMMA AccumulatedBytes ==
  ASSUME NEW bytes, NEW n \in 2 .. 6, Continued(bytes, n), NEW u \in Nat
  PROVE  AccumulatedValue(n, u, bytes[2], bytes[3], bytes[4], bytes[5], bytes[6], Accumulated(u, bytes, n))
<1>1. PICK m, body : m = n - 1 /\ Accumulates(body, bytes, m)
  BY DEF Accumulates
<1>2. m \in Nat /\ n - 1 = m
  BY ONLY <1>1, n \in 2 .. 6
<1>3. Accumulated(u, bytes, n) = Loop(body, m, u)
  BY ONLY <1>1 DEF Accumulated, Accumulates
<1>4. PICK a, b, d, e, k : a = bytes[2] /\ b = bytes[3] /\ d = bytes[4] /\ e = bytes[5] /\ k = bytes[6]
  OBVIOUS
<1>5. ASSUME NEW i \in 2 .. 6, n >= i PROVE bytes[i] \in 128 .. 191
  BY ONLY Continued(bytes, n), n \in 2 .. 6, <1>5, i \in 2 .. 6 DEF Continued
<1>6. PICK x0, x1, x2, x3, x4, x5 :
         /\ x0 = Loop(body, 0, u) /\ x1 = Loop(body, 1, u) /\ x2 = Loop(body, 2, u) /\ x3 = Loop(body, 3, u)
         /\ x4 = Loop(body, 4, u) /\ x5 = Loop(body, 5, u)
  OBVIOUS
<1>7. x0 = u
  BY <1>6, LoopNone
<1>8. x1 = u * 64 + (a - 128) /\ x1 \in Nat
  <2>1. 1 \in 1 .. m /\ a \in 128 .. 191 /\ x0 \in Nat
    BY ONLY <1>1, <1>2, <1>4, <1>5, <1>6, <1>7, n \in 2 .. 6, u \in Nat
  <2>2. Loop(body, 1, u) = x0 * 64 + (a - 128)
    <3>1. Loop(body, 1, u) = body[1][x0]
      <4>1. Loop(body, 1, u) = body[1][Loop(body, 1 - 1, u)]
        BY ONLY LoopTurn
      <4>2. 1 - 1 = 0
        OBVIOUS
      <4> QED
        BY ONLY <1>6, <4>1, <4>2
    <3>2. PICK g : g = body[1]
      OBVIOUS
    <3>3. g = [v \in Nat |-> UTF8_ACCUMULATE(v, a)]
      BY ONLY <1>1, <1>4, <2>1, <3>2 DEF Accumulates
    <3>4. g[x0] = x0 * 64 + (a - 128)
      BY ONLY <2>1, <3>3, OneTurn
    <3> QED
      BY ONLY <3>1, <3>2, <3>4
  <2>3. x1 = x0 * 64 + (a - 128)
    BY ONLY <1>6, <2>2
  <2> QED
    BY ONLY <1>7, <2>1, <2>3
<1>9. n > 2 => x2 = x1 * 64 + (b - 128) /\ x2 \in Nat
  <2> SUFFICES ASSUME n > 2 PROVE x2 = x1 * 64 + (b - 128) /\ x2 \in Nat
    OBVIOUS
  <2>1. 2 \in 1 .. m /\ b \in 128 .. 191 /\ x1 \in Nat
    BY ONLY <1>1, <1>2, <1>4, <1>5, <1>6, <1>8, n \in 2 .. 6, n > 2
  <2>2. Loop(body, 2, u) = x1 * 64 + (b - 128)
    <3>1. Loop(body, 2, u) = body[2][x1]
      <4>1. Loop(body, 2, u) = body[2][Loop(body, 2 - 1, u)]
        BY ONLY LoopTurn
      <4>2. 2 - 1 = 1
        OBVIOUS
      <4> QED
        BY ONLY <1>6, <4>1, <4>2
    <3>2. PICK g : g = body[2]
      OBVIOUS
    <3>3. g = [v \in Nat |-> UTF8_ACCUMULATE(v, b)]
      BY ONLY <1>1, <1>4, <2>1, <3>2 DEF Accumulates
    <3>4. g[x1] = x1 * 64 + (b - 128)
      BY ONLY <2>1, <3>3, OneTurn
    <3> QED
      BY ONLY <3>1, <3>2, <3>4
  <2>3. x2 = x1 * 64 + (b - 128)
    BY ONLY <1>6, <2>2
  <2> QED
    BY ONLY <2>1, <2>3
<1>10. n > 3 => x3 = x2 * 64 + (d - 128) /\ x3 \in Nat
  <2> SUFFICES ASSUME n > 3 PROVE x3 = x2 * 64 + (d - 128) /\ x3 \in Nat
    OBVIOUS
  <2>1. 3 \in 1 .. m /\ d \in 128 .. 191 /\ x2 \in Nat
    BY ONLY <1>1, <1>2, <1>4, <1>5, <1>6, <1>9, n \in 2 .. 6, n > 3
  <2>2. Loop(body, 3, u) = x2 * 64 + (d - 128)
    <3>1. Loop(body, 3, u) = body[3][x2]
      <4>1. Loop(body, 3, u) = body[3][Loop(body, 3 - 1, u)]
        BY ONLY LoopTurn
      <4>2. 3 - 1 = 2
        OBVIOUS
      <4> QED
        BY ONLY <1>6, <4>1, <4>2
    <3>2. PICK g : g = body[3]
      OBVIOUS
    <3>3. g = [v \in Nat |-> UTF8_ACCUMULATE(v, d)]
      BY ONLY <1>1, <1>4, <2>1, <3>2 DEF Accumulates
    <3>4. g[x2] = x2 * 64 + (d - 128)
      BY ONLY <2>1, <3>3, OneTurn
    <3> QED
      BY ONLY <3>1, <3>2, <3>4
  <2>3. x3 = x2 * 64 + (d - 128)
    BY ONLY <1>6, <2>2
  <2> QED
    BY ONLY <2>1, <2>3
<1>11. n > 4 => x4 = x3 * 64 + (e - 128) /\ x4 \in Nat
  <2> SUFFICES ASSUME n > 4 PROVE x4 = x3 * 64 + (e - 128) /\ x4 \in Nat
    OBVIOUS
  <2>1. 4 \in 1 .. m /\ e \in 128 .. 191 /\ x3 \in Nat
    BY ONLY <1>1, <1>2, <1>4, <1>5, <1>6, <1>10, n \in 2 .. 6, n > 4
  <2>2. Loop(body, 4, u) = x3 * 64 + (e - 128)
    <3>1. Loop(body, 4, u) = body[4][x3]
      <4>1. Loop(body, 4, u) = body[4][Loop(body, 4 - 1, u)]
        BY ONLY LoopTurn
      <4>2. 4 - 1 = 3
        OBVIOUS
      <4> QED
        BY ONLY <1>6, <4>1, <4>2
    <3>2. PICK g : g = body[4]
      OBVIOUS
    <3>3. g = [v \in Nat |-> UTF8_ACCUMULATE(v, e)]
      BY ONLY <1>1, <1>4, <2>1, <3>2 DEF Accumulates
    <3>4. g[x3] = x3 * 64 + (e - 128)
      BY ONLY <2>1, <3>3, OneTurn
    <3> QED
      BY ONLY <3>1, <3>2, <3>4
  <2>3. x4 = x3 * 64 + (e - 128)
    BY ONLY <1>6, <2>2
  <2> QED
    BY ONLY <2>1, <2>3
<1>12. n > 5 => x5 = x4 * 64 + (k - 128) /\ x5 \in Nat
  <2> SUFFICES ASSUME n > 5 PROVE x5 = x4 * 64 + (k - 128) /\ x5 \in Nat
    OBVIOUS
  <2>1. 5 \in 1 .. m /\ k \in 128 .. 191 /\ x4 \in Nat
    BY ONLY <1>1, <1>2, <1>4, <1>5, <1>6, <1>11, n \in 2 .. 6, n > 5
  <2>2. Loop(body, 5, u) = x4 * 64 + (k - 128)
    <3>1. Loop(body, 5, u) = body[5][x4]
      <4>1. Loop(body, 5, u) = body[5][Loop(body, 5 - 1, u)]
        BY ONLY LoopTurn
      <4>2. 5 - 1 = 4
        OBVIOUS
      <4> QED
        BY ONLY <1>6, <4>1, <4>2
    <3>2. PICK g : g = body[5]
      OBVIOUS
    <3>3. g = [v \in Nat |-> UTF8_ACCUMULATE(v, k)]
      BY ONLY <1>1, <1>4, <2>1, <3>2 DEF Accumulates
    <3>4. g[x4] = x4 * 64 + (k - 128)
      BY ONLY <2>1, <3>3, OneTurn
    <3> QED
      BY ONLY <3>1, <3>2, <3>4
  <2>3. x5 = x4 * 64 + (k - 128)
    BY ONLY <1>6, <2>2
  <2> QED
    BY ONLY <2>1, <2>3
<1>13. PICK v : v = Accumulated(u, bytes, n)
  OBVIOUS
<1>14. /\ n = 2 => v = x1
       /\ n = 3 => v = x2
       /\ n = 4 => v = x3
       /\ n = 5 => v = x4
       /\ n = 6 => v = x5
  <2>1. v = Loop(body, n - 1, u)
    BY ONLY <1>2, <1>3, <1>13
  <2> QED
    BY ONLY <2>1, <1>6
<1>15. /\ n = 2 => v = u * 64 + (a - 128)
       /\ n = 3 => v = (u * 64 + (a - 128)) * 64 + (b - 128)
       /\ n = 4 => v = ((u * 64 + (a - 128)) * 64 + (b - 128)) * 64 + (d - 128)
       /\ n = 5 => v = (((u * 64 + (a - 128)) * 64 + (b - 128)) * 64 + (d - 128)) * 64 + (e - 128)
       /\ n = 6 => v = ((((u * 64 + (a - 128)) * 64 + (b - 128)) * 64 + (d - 128)) * 64 + (e - 128)) * 64 + (k - 128)
  <2>1. CASE n = 2
    BY ONLY <1>8, <1>14, <2>1
  <2>2. CASE n = 3
    <3>1. n > 2
      BY ONLY <2>2
    <3> QED
      BY ONLY <1>8, <1>9, <1>14, <2>2, <3>1
  <2>3. CASE n = 4
    <3>1. n > 2 /\ n > 3
      BY ONLY <2>3
    <3> QED
      BY ONLY <1>8, <1>9, <1>10, <1>14, <2>3, <3>1
  <2>4. CASE n = 5
    <3>1. n > 2 /\ n > 3 /\ n > 4
      BY ONLY <2>4
    <3> QED
      BY ONLY <1>8, <1>9, <1>10, <1>11, <1>14, <2>4, <3>1
  <2>5. CASE n = 6
    <3>1. n > 2 /\ n > 3 /\ n > 4 /\ n > 5
      BY ONLY <2>5
    <3> QED
      BY ONLY <1>8, <1>9, <1>10, <1>11, <1>12, <1>14, <2>5, <3>1
  <2> QED
    BY ONLY n \in 2 .. 6, <2>1, <2>2, <2>3, <2>4, <2>5
<1>16. AccumulatedValue(n, u, a, b, d, e, k, v)
  BY ONLY <1>15, Zenon DEF AccumulatedValue
<1> QED
  BY ONLY <1>4, <1>13, <1>16

(* u has the bits of f below the mark of a character of n bytes.           *)
Unmarked(n, f, u) ==
  /\ n = 2 => u = f - 192
  /\ n = 3 => u = f - 224
  /\ n = 4 => u = f - 240
  /\ n = 5 => u = f - 248
  /\ n = 6 => u = f - 252

(* Accumulating the bytes behind an unmarked first byte gives the value.   *)
LEMMA SameValue ==
  ASSUME NEW n \in 2 .. 6, NEW f, NEW u, NEW a, NEW b, NEW d, NEW e, NEW k, NEW v, NEW x,
         Unmarked(n, f, u), StandFor(n, f, a, b, d, e, k, v),
         AccumulatedValue(n, u, a, b, d, e, k, x)
  PROVE  x = v
<1>1. CASE n = 2
  BY ONLY <1>1, Unmarked(n, f, u), StandFor(n, f, a, b, d, e, k, v),
     AccumulatedValue(n, u, a, b, d, e, k, x)
  DEF Unmarked, StandFor, AccumulatedValue
<1>2. CASE n = 3
  BY ONLY <1>2, Unmarked(n, f, u), StandFor(n, f, a, b, d, e, k, v),
     AccumulatedValue(n, u, a, b, d, e, k, x)
  DEF Unmarked, StandFor, AccumulatedValue
<1>3. CASE n = 4
  BY ONLY <1>3, Unmarked(n, f, u), StandFor(n, f, a, b, d, e, k, v),
     AccumulatedValue(n, u, a, b, d, e, k, x)
  DEF Unmarked, StandFor, AccumulatedValue
<1>4. CASE n = 5
  BY ONLY <1>4, Unmarked(n, f, u), StandFor(n, f, a, b, d, e, k, v),
     AccumulatedValue(n, u, a, b, d, e, k, x)
  DEF Unmarked, StandFor, AccumulatedValue
<1>5. CASE n = 6
  BY ONLY <1>5, Unmarked(n, f, u), StandFor(n, f, a, b, d, e, k, v),
     AccumulatedValue(n, u, a, b, d, e, k, x)
  DEF Unmarked, StandFor, AccumulatedValue
<1> QED
  BY ONLY <1>1, <1>2, <1>3, <1>4, <1>5, n \in 2 .. 6

LEMMA AccumulatedCharacter ==
  ASSUME NEW bytes \in Strings, NEW n \in 2 .. Len(bytes), NEW c, c = Prefix(bytes, n), Shaped(c),
         NEW u \in Nat, Unmarked(n, bytes[1], u)
  PROVE  Accumulated(u, bytes, n) = Value(c)
<1>1. Len(bytes) \in Nat
  BY StringFacts
<1>2. n \in 0 .. Len(bytes) /\ n > 1 /\ n \in Nat
  BY ONLY <1>1, n \in 2 .. Len(bytes)
<1>3. Len(c) = n /\ \A j \in 1 .. n : c[j] = bytes[j]
  BY ONLY <1>2, PrefixFacts, bytes \in Strings, c = Prefix(bytes, n)
<1>4. n \in 2 .. 6
  <2>1. c \in Strings /\ Width(c[1]) = n /\ n = Len(c)
    BY ONLY <1>3, Shaped(c) DEF Shaped
  <2>2. Width(c[1]) \in 0 .. 6
    BY DEF Width
  <2> QED
    BY ONLY <1>2, <2>1, <2>2
<1>5. Continued(bytes, n)
  <2>1. Continued(c, n)
    BY ONLY <1>3, Shaped(c) DEF Shaped
  <2> QED
    BY ONLY <1>3, <2>1, <1>2 DEF Continued
<1>6. PICK f, a, b, d, e, k, v, x :
        /\ f = c[1] /\ a = c[2] /\ b = c[3] /\ d = c[4] /\ e = c[5] /\ k = c[6]
        /\ v = Value(c) /\ x = Accumulated(u, bytes, n)
  OBVIOUS
<1>7. StandFor(n, f, a, b, d, e, k, v)
  BY ONLY <1>3, <1>6, Values
<1>8. AccumulatedValue(n, u, a, b, d, e, k, x)
  <2>1. AccumulatedValue(n, u, bytes[2], bytes[3], bytes[4], bytes[5], bytes[6], x)
    BY ONLY <1>4, <1>5, <1>6, AccumulatedBytes, u \in Nat
  <2>2. /\ bytes[1] = f /\ bytes[2] = a
        /\ n > 2 => bytes[3] = b
        /\ n > 3 => bytes[4] = d
        /\ n > 4 => bytes[5] = e
        /\ n > 5 => bytes[6] = k
    BY ONLY <1>3, <1>4, <1>6
  <2>3. CASE n = 2
    BY ONLY <2>1, <2>2, <2>3 DEF AccumulatedValue
  <2>4. CASE n = 3
    BY ONLY <2>1, <2>2, <2>4 DEF AccumulatedValue
  <2>5. CASE n = 4
    BY ONLY <2>1, <2>2, <2>5 DEF AccumulatedValue
  <2>6. CASE n = 5
    BY ONLY <2>1, <2>2, <2>6 DEF AccumulatedValue
  <2>7. CASE n = 6
    BY ONLY <2>1, <2>2, <2>7 DEF AccumulatedValue
  <2> QED
    BY ONLY <1>4, <2>3, <2>4, <2>5, <2>6, <2>7
<1>9. f = bytes[1]
  BY ONLY <1>2, <1>3, <1>6
<1>10. x = v
  BY ONLY <1>4, <1>7, <1>8, <1>9, SameValue, Unmarked(n, bytes[1], u)
<1> QED
  BY ONLY <1>6, <1>10

(* The masks.                                                              *)
LEMMA Powers == 2 ^ 0 = 1 /\ 2 ^ 1 = 2 /\ 2 ^ 2 = 4 /\ 2 ^ 3 = 8 /\ 2 ^ 4 = 16 /\ 2 ^ 5 = 32 /\ 2 ^ 6 = 64
OBVIOUS

(* What a mask leaves of the first byte of a character.                    *)
LEMMA Masked ==
  ASSUME NEW f \in 0 .. 253
  PROVE  /\ f \in 192 .. 223 => f % 64 = f - 192
         /\ f \in 224 .. 239 => f % 32 = f - 224
         /\ f \in 240 .. 247 => f % 16 = f - 240
         /\ f \in 248 .. 251 => f % 8 = f - 248
         /\ f \in 252 .. 253 => f % 4 = f - 252
         /\ f = 224 => f % 2 = f - 224
         /\ f = 239 => f % 16 = f - 224
         /\ f = 240 => f % 1 = f - 240
         /\ f \in 241 .. 243 => f % 4 = f - 240
         /\ f = 244 => f % 8 = f - 240
<1>1. f \in 192 .. 223 => f % 64 = f - 192
  <2>1. PICK q, r : q = f \div 64 /\ r = f % 64
    OBVIOUS
  <2>2. q \in Int /\ r \in 0 .. 63 /\ f = 64 * q + r
    BY <2>1
  <2> QED
    BY ONLY <2>1, <2>2, f \in 0 .. 253
<1>2. f \in 224 .. 239 => f % 32 = f - 224
  <2>1. PICK q, r : q = f \div 32 /\ r = f % 32
    OBVIOUS
  <2>2. q \in Int /\ r \in 0 .. 31 /\ f = 32 * q + r
    BY <2>1
  <2> QED
    BY ONLY <2>1, <2>2, f \in 0 .. 253
<1>3. f \in 240 .. 247 => f % 16 = f - 240
  <2>1. PICK q, r : q = f \div 16 /\ r = f % 16
    OBVIOUS
  <2>2. q \in Int /\ r \in 0 .. 15 /\ f = 16 * q + r
    BY <2>1
  <2> QED
    BY ONLY <2>1, <2>2, f \in 0 .. 253
<1>4. f \in 248 .. 251 => f % 8 = f - 248
  <2>1. PICK q, r : q = f \div 8 /\ r = f % 8
    OBVIOUS
  <2>2. q \in Int /\ r \in 0 .. 7 /\ f = 8 * q + r
    BY <2>1
  <2> QED
    BY ONLY <2>1, <2>2, f \in 0 .. 253
<1>5. f \in 252 .. 253 => f % 4 = f - 252
  BY SMT
<1>6. f = 224 => f % 2 = f - 224
  BY SMT
<1>7. f = 239 => f % 16 = f - 224
  BY SMT
<1>8. f = 240 => f % 1 = f - 240
  BY SMT
<1>9. f \in 241 .. 243 => f % 4 = f - 240
  BY SMT
<1>10. f = 244 => f % 8 = f - 240
  BY SMT
<1> QED
  BY ONLY <1>1, <1>2, <1>3, <1>4, <1>5, <1>6, <1>7, <1>8, <1>9, <1>10

(* The first byte of a character, as valid_utf8_to_uvchr masks it.         *)
LEMMA SkipMask ==
  ASSUME NEW f \in 0 .. 253, Width(f) \in 1 .. 6
  PROVE  /\ UTF8SKIP(f) = Width(f)
         /\ Width(f) > 1 => Unmarked(Width(f), f, f % 2 ^ (8 - Width(f))) /\ f % 2 ^ (8 - Width(f)) \in Nat
<1>1. PICK w : w = Width(f)
  OBVIOUS
<1>2. /\ w \in 1 .. 6
      /\ w = 1 <=> f \in 0 .. 127
      /\ w = 2 <=> f \in 192 .. 223
      /\ w = 3 <=> f \in 224 .. 239
      /\ w = 4 <=> f \in 240 .. 247
      /\ w = 5 <=> f \in 248 .. 251
      /\ w = 6 <=> f \in 252 .. 253
  BY ONLY <1>1, WidthFacts, f \in 0 .. 253, Width(f) \in 1 .. 6
<1>3. UTF8SKIP(f) = w
  <2>1. UTF8SKIP(f) = CASE f \in 0 .. 191 -> 1 [] f \in 192 .. 223 -> 2 [] f \in 224 .. 239 -> 3
                        [] f \in 240 .. 247 -> 4 [] f \in 248 .. 251 -> 5 [] f \in 252 .. 253 -> 6
    BY ONLY f \in 0 .. 253 DEF UTF8SKIP, PL_utf8skip
  <2> QED
    BY ONLY <1>2, <2>1, f \in 0 .. 253
<1>4. w > 1 => Unmarked(w, f, f % 2 ^ (8 - w)) /\ f % 2 ^ (8 - w) \in Nat
  <2>1. CASE w = 2
    <3>1. 8 - w = 6
      BY <2>1
    <3>2. f % 2 ^ (8 - w) = f - 192 /\ f - 192 \in Nat
      BY ONLY <1>2, <2>1, <3>1, Powers, Masked, f \in 0 .. 253
    <3> QED
      BY ONLY <2>1, <3>2 DEF Unmarked
  <2>2. CASE w = 3
    <3>1. 8 - w = 5
      BY <2>2
    <3>2. f % 2 ^ (8 - w) = f - 224 /\ f - 224 \in Nat
      BY ONLY <1>2, <2>2, <3>1, Powers, Masked, f \in 0 .. 253
    <3> QED
      BY ONLY <2>2, <3>2 DEF Unmarked
  <2>3. CASE w = 4
    <3>1. 8 - w = 4
      BY <2>3
    <3>2. f % 2 ^ (8 - w) = f - 240 /\ f - 240 \in Nat
      BY ONLY <1>2, <2>3, <3>1, Powers, Masked, f \in 0 .. 253
    <3> QED
      BY ONLY <2>3, <3>2 DEF Unmarked
  <2>4. CASE w = 5
    <3>1. 8 - w = 3
      BY <2>4
    <3>2. f % 2 ^ (8 - w) = f - 248 /\ f - 248 \in Nat
      BY ONLY <1>2, <2>4, <3>1, Powers, Masked, f \in 0 .. 253
    <3> QED
      BY ONLY <2>4, <3>2 DEF Unmarked
  <2>5. CASE w = 6
    <3>1. 8 - w = 2
      BY <2>5
    <3>2. f % 2 ^ (8 - w) = f - 252 /\ f - 252 \in Nat
      BY ONLY <1>2, <2>5, <3>1, Powers, Masked, f \in 0 .. 253
    <3> QED
      BY ONLY <2>5, <3>2 DEF Unmarked
  <2> QED
    BY ONLY <1>2, <2>1, <2>2, <2>3, <2>4, <2>5
<1> QED
  BY ONLY <1>1, <1>3, <1>4

(* The first byte of a character, as utf8n_to_uvchr_msgs masks it.         *)
LEMMA ClassMask ==
  ASSUME NEW f \in StrictStarts, NEW type, type = Class(Str, f)
  PROVE  /\ type = 0 <=> Width(f) = 1
         /\ Width(f) > 1 => Unmarked(Width(f), f, f % 2 ^ (8 - type)) /\ f % 2 ^ (8 - type) \in Nat
<1>1. f \in 0 .. 253 /\ (f < 128 \/ f \in 194 .. 244) /\ f # 237
  BY DEF StrictStarts, C9Starts
<1>2. PICK w : w = Width(f)
  OBVIOUS
<1>3. /\ w = 1 <=> f \in 0 .. 127
      /\ w = 2 <=> f \in 192 .. 223
      /\ w = 3 <=> f \in 224 .. 239
      /\ w = 4 <=> f \in 240 .. 247
  BY ONLY <1>1, <1>2, WidthFacts
<1>4. /\ f < 128 <=> type = 0
      /\ f \in 194 .. 223 <=> type = 2
      /\ f = 224 <=> type = 7
      /\ f \in 225 .. 238 /\ f # 237 <=> type = 3
      /\ f = 239 <=> type = 4
      /\ f = 240 <=> type = 8
      /\ f \in 241 .. 243 <=> type = 6
      /\ f = 244 <=> type = 5
  BY ONLY <1>1, StrClassFacts, type = Class(Str, f)
<1>5. f >= 128 => Unmarked(w, f, f % 2 ^ (8 - type)) /\ f % 2 ^ (8 - type) \in Nat
  <2>1. CASE f \in 194 .. 223
    <3>1. w = 2 /\ type = 2 /\ f - 192 \in Nat
      BY ONLY <1>1, <1>3, <1>4, <2>1
    <3>2. 8 - type = 6
      BY ONLY <3>1
    <3>3. f % 2 ^ 6 = f - 192
      BY ONLY <1>1, <2>1, Powers, Masked
    <3> QED
      BY ONLY <3>1, <3>2, <3>3 DEF Unmarked
  <2>2. CASE f \in {224}
    <3>1. w = 3 /\ type = 7 /\ f - 224 \in Nat
      BY ONLY <1>1, <1>3, <1>4, <2>2
    <3>2. 8 - type = 1
      BY ONLY <3>1
    <3>3. f % 2 ^ 1 = f - 224
      BY ONLY <1>1, <2>2, Powers, Masked
    <3> QED
      BY ONLY <3>1, <3>2, <3>3 DEF Unmarked
  <2>3. CASE f \in 225 .. 238
    <3>1. w = 3 /\ type = 3 /\ f - 224 \in Nat
      BY ONLY <1>1, <1>3, <1>4, <2>3
    <3>2. 8 - type = 5
      BY ONLY <3>1
    <3>3. f % 2 ^ 5 = f - 224
      BY ONLY <1>1, <2>3, Powers, Masked
    <3> QED
      BY ONLY <3>1, <3>2, <3>3 DEF Unmarked
  <2>4. CASE f \in {239}
    <3>1. w = 3 /\ type = 4 /\ f - 224 \in Nat
      BY ONLY <1>1, <1>3, <1>4, <2>4
    <3>2. 8 - type = 4
      BY ONLY <3>1
    <3>3. f % 2 ^ 4 = f - 224
      BY ONLY <1>1, <2>4, Powers, Masked
    <3> QED
      BY ONLY <3>1, <3>2, <3>3 DEF Unmarked
  <2>5. CASE f \in {240}
    <3>1. w = 4 /\ type = 8 /\ f - 240 \in Nat
      BY ONLY <1>1, <1>3, <1>4, <2>5
    <3>2. 8 - type = 0
      BY ONLY <3>1
    <3>3. f % 2 ^ 0 = f - 240
      BY ONLY <1>1, <2>5, Powers, Masked
    <3> QED
      BY ONLY <3>1, <3>2, <3>3 DEF Unmarked
  <2>6. CASE f \in 241 .. 243
    <3>1. w = 4 /\ type = 6 /\ f - 240 \in Nat
      BY ONLY <1>1, <1>3, <1>4, <2>6
    <3>2. 8 - type = 2
      BY ONLY <3>1
    <3>3. f % 2 ^ 2 = f - 240
      BY ONLY <1>1, <2>6, Powers, Masked
    <3> QED
      BY ONLY <3>1, <3>2, <3>3 DEF Unmarked
  <2>7. CASE f \in {244}
    <3>1. w = 4 /\ type = 5 /\ f - 240 \in Nat
      BY ONLY <1>1, <1>3, <1>4, <2>7
    <3>2. 8 - type = 3
      BY ONLY <3>1
    <3>3. f % 2 ^ 3 = f - 240
      BY ONLY <1>1, <2>7, Powers, Masked
    <3> QED
      BY ONLY <3>1, <3>2, <3>3 DEF Unmarked
  <2> QED
    BY ONLY <1>1, <2>1, <2>2, <2>3, <2>4, <2>5, <2>6, <2>7
<1>6. (type = 0 <=> w = 1) /\ (w > 1 => f >= 128)
  <2>1. w \in Nat
    BY ONLY <1>1, <1>2, WidthFacts
  <2> QED
    BY ONLY <1>1, <1>3, <1>4, <2>1
<1> QED
  BY ONLY <1>2, <1>5, <1>6

(* What is decoded is the value of the character.                          *)
LEMMA DecodesValid ==
  ASSUME NEW bytes \in Strings, NEW n, n = FirstCharacter(bytes, Extended), n # 0
  PROVE  valid_utf8_to_uvchr(bytes) = Value(Prefix(bytes, n))
<1>1. Len(bytes) \in Nat /\ n \in 0 .. Len(bytes) /\ Encodes(Prefix(bytes, n), Extended)
  BY ONLY bytes \in Strings, n = FirstCharacter(bytes, Extended), n # 0, FirstIs, StringFacts
<1>2. n \in 1 .. Len(bytes)
  BY ONLY <1>1, n # 0
<1>3. PICK c : c = Prefix(bytes, n)
  OBVIOUS
<1>4. c \in Strings /\ Len(c) = n /\ \A j \in 1 .. n : c[j] = bytes[j]
  BY ONLY <1>1, <1>3, PrefixFacts, bytes \in Strings
<1>5. Shaped(c)
  <2>1. IsCharacter(c)
    BY ONLY <1>1, <1>3 DEF Encodes
  <2> QED
    BY ONLY <1>4, <2>1, CharacterShaped
<1>6. PICK f : f = bytes[1] /\ f = c[1] /\ f \in 0 .. 253 /\ Width(f) = n
  <2>1. bytes[1] = c[1] /\ bytes[1] \in 0 .. 253
    BY ONLY <1>1, <1>2, <1>4, StringFacts, bytes \in Strings
  <2>2. Width(c[1]) = n
    BY ONLY <1>4, <1>5 DEF Shaped
  <2> QED
    BY ONLY <2>1, <2>2
<1>7. n \in 1 .. 6
  <2>1. Width(f) \in 0 .. 6
    BY ONLY <1>6, WidthFacts
  <2>2. n \in 0 .. 6
    BY ONLY <1>6, <2>1
  <2> QED
    BY ONLY <2>2, n # 0
<1>8. /\ UTF8SKIP(f) = n
      /\ n > 1 => Unmarked(n, f, f % 2 ^ (8 - n)) /\ f % 2 ^ (8 - n) \in Nat
  BY ONLY <1>6, <1>7, SkipMask
<1>9. CASE n = 1
  <2>1. valid_utf8_to_uvchr(bytes) = f
    BY ONLY <1>6, <1>8, <1>9 DEF valid_utf8_to_uvchr
  <2>2. Value(c) = f
    <3>1. StandFor(Len(c), c[1], c[2], c[3], c[4], c[5], c[6], Value(c))
      BY ONLY Values
    <3> QED
      BY ONLY <1>4, <1>6, <1>9, <3>1 DEF StandFor
  <2> QED
    BY ONLY <1>3, <2>1, <2>2
<1>10. CASE n > 1
  <2>1. PICK u : u = f % 2 ^ (8 - n)
    OBVIOUS
  <2>2. valid_utf8_to_uvchr(bytes) = Accumulated(u, bytes, n)
    BY ONLY <1>6, <1>7, <1>8, <1>10, <2>1 DEF valid_utf8_to_uvchr
  <2>3. n \in 2 .. Len(bytes) /\ u \in Nat /\ Unmarked(n, bytes[1], u)
    BY ONLY <1>1, <1>2, <1>6, <1>8, <1>10, <2>1
  <2>4. Accumulated(u, bytes, n) = Value(c)
    BY ONLY <1>3, <1>5, <2>3, AccumulatedCharacter, bytes \in Strings
  <2> QED
    BY ONLY <1>3, <2>2, <2>4
<1> QED
  BY ONLY <1>7, <1>9, <1>10

LEMMA DecodesInline ==
  ASSUME NEW bytes \in Strings, bytes # <<>>, NEW n, n = FirstCharacter(bytes, Interchange),
         utf8n_to_uvchr_msgs(bytes) # -1
  PROVE  n # 0 /\ utf8n_to_uvchr_msgs(bytes) = Value(Prefix(bytes, n))
<1>1. PICK f, type, at : f = bytes[1] /\ type = Class(Str, f) /\ at = PERL_IS_UTF8_CHAR_DFA(bytes, Str)
  OBVIOUS
<1>2. Len(bytes) \in Nat /\ Len(bytes) # 0 /\ f \in 0 .. 253 /\ 1 \in 1 .. Len(bytes)
  BY <1>1, StringFacts
<1>3. utf8n_to_uvchr_msgs(bytes) =
        CASE type = 0 -> f
          [] type # 0 /\ at.state = 0 -> Accumulated(f % 2 ^ (8 - type), bytes, at.n)
          [] OTHER -> -1
  BY <1>1 DEF utf8n_to_uvchr_msgs, Str
<1>4. ASSUME NEW m \in 1 .. Len(bytes), NEW c, c = Prefix(bytes, m), c \in Strict, Full(c)
      PROVE  /\ n = m /\ Shaped(c) /\ c[1] = f /\ f \in StrictStarts /\ Width(f) = m
             /\ m = 1 => Value(c) = f
  <2>1. m \in 0 .. Len(bytes) /\ 1 \in 1 .. m
    BY ONLY <1>2, m \in 1 .. Len(bytes)
  <2>2. c \in Strings /\ Len(c) = m /\ \A j \in 1 .. m : c[j] = bytes[j]
    BY ONLY <1>4, <2>1, PrefixFacts, bytes \in Strings
  <2>3. Encodes(c, Interchange)
    BY ONLY <1>4, <2>2, EncodesStrict
  <2>4. n = m
    BY ONLY <1>4, <2>3, FirstIs, bytes \in Strings, n = FirstCharacter(bytes, Interchange),
       m \in 1 .. Len(bytes)
  <2>5. Shaped(c)
    BY ONLY <2>2, <2>3, CharacterShaped DEF Encodes
  <2>6. c[1] = f
    BY ONLY <1>1, <2>1, <2>2
  <2>7. f \in StrictStarts
    BY ONLY <1>4, <2>6, InStrict, InPlain
  <2>8. Width(f) = m
    BY ONLY <2>2, <2>5, <2>6 DEF Shaped
  <2>9. m = 1 => Value(c) = f
    <3>1. StandFor(Len(c), c[1], c[2], c[3], c[4], c[5], c[6], Value(c))
      BY ONLY Values
    <3> QED
      BY ONLY <2>2, <2>6, <3>1 DEF StandFor
  <2> QED
    BY ONLY <2>4, <2>5, <2>6, <2>7, <2>8, <2>9
<1>5. CASE type = 0
  <2>1. f < 128
    <3>1. f \in 0 .. 253 /\ type = Class(Str, f)
      BY ONLY <1>1, <1>2
    <3> QED
      BY ONLY <1>5, <3>1, StrClassFacts
  <2>2. PICK c : c = Prefix(bytes, 1)
    OBVIOUS
  <2>3. c = <<f>>
    BY ONLY <1>1, <1>2, <2>2, FirstPrefix, bytes \in Strings
  <2>4. c \in Strict /\ Full(c)
    <3>1. PlainBytes(StrictStarts, C9Second)
      <4>1. PlainBytes(C9Starts, C9Second)
        BY C9Table DEF PlainTable
      <4> QED
        BY ONLY <4>1 DEF PlainBytes, StrictStarts
    <3>2. Len(c) = 1 /\ c[1] = f /\ (c \in Plain(StrictStarts, C9Second) <=> f \in StrictStarts)
      BY ONLY <1>2, <2>3, <3>1, PlainOne
    <3>3. f \in StrictStarts
      BY ONLY <1>2, <2>1 DEF StrictStarts, C9Starts
    <3>4. Width(f) = 1
      <4>1. f \in 0 .. 253 /\ f \in 0 .. 127
        BY ONLY <1>2, <2>1
      <4> QED
        BY ONLY <4>1, WidthFacts
    <3>5. c \in Strict
      BY ONLY <3>2, <3>3, InStrict
    <3> QED
      BY ONLY <3>2, <3>4, <3>5 DEF Full
  <2>5. n = 1 /\ Value(c) = f
    BY ONLY <1>2, <1>4, <2>2, <2>4
  <2> QED
    BY ONLY <1>3, <1>5, <2>2, <2>5
<1>6. CASE type # 0 /\ at.state = 0
  <2>1. PICK m : m = at.n
    OBVIOUS
  <2>2. m \in 1 .. Len(bytes) /\ Prefix(bytes, m) \in Strict /\ Full(Prefix(bytes, m))
    <3>1. /\ Accepted(at) => at.n \in 1 .. Len(bytes) /\ Prefix(bytes, at.n) \in Strict /\ Full(Prefix(bytes, at.n))
          /\ at.state = 0 /\ ~Accepted(at) => bytes = <<>>
      BY ONLY <1>1, Found, StrictLanguage, bytes \in Strings
    <3> QED
      BY ONLY <1>6, <2>1, <3>1, bytes # <<>>
  <2>3. PICK c : c = Prefix(bytes, m)
    OBVIOUS
  <2>4. n = m /\ Shaped(c) /\ c[1] = f /\ f \in StrictStarts /\ Width(f) = m
    BY ONLY <1>4, <2>2, <2>3
  <2>5. PICK u : u = f % 2 ^ (8 - type)
    OBVIOUS
  <2>6. m # 1 /\ m \in Nat /\ m > 1
    BY ONLY <1>1, <1>2, <1>6, <2>2, <2>4, ClassMask
  <2>7. u \in Nat /\ Unmarked(m, f, u)
    BY ONLY <1>1, <2>4, <2>5, <2>6, ClassMask
  <2>8. Accumulated(u, bytes, m) = Value(c)
    <3>1. m \in 2 .. Len(bytes)
      BY ONLY <1>2, <2>2, <2>6
    <3> QED
      BY ONLY <1>1, <2>3, <2>4, <2>7, <3>1, AccumulatedCharacter, bytes \in Strings
  <2>9. utf8n_to_uvchr_msgs(bytes) = Accumulated(u, bytes, m)
    BY ONLY <1>3, <1>6, <2>1, <2>5
  <2> QED
    BY ONLY <1>2, <2>2, <2>3, <2>4, <2>6, <2>8, <2>9
<1> QED
  BY ONLY <1>3, <1>5, <1>6, utf8n_to_uvchr_msgs(bytes) # -1

-----------------------------------------------------------------------------
(* Slices of a string, and cuts of one into characters.                    *)

(* What s has between a and b.                                             *)
Slice(s, a, b) == SubSeq(s, a + 1, b)

LEMMA SliceFacts ==
  ASSUME NEW s \in Strings, NEW a \in Nat, NEW b \in Nat, a <= b, b <= Len(s)
  PROVE  /\ Slice(s, a, b) \in Strings /\ Len(Slice(s, a, b)) = b - a
         /\ \A i \in 1 .. b - a : Slice(s, a, b)[i] = s[a + i]
<1>1. Len(s) \in Nat
  BY StringFacts
<1>2. b \in a .. Len(s)
  BY <1>1
<1> QED
  BY ONLY <1>2, Slices, s \in Strings, a \in Nat DEF Slice

LEMMA SliceOfSlice ==
  ASSUME NEW s \in Strings, NEW p \in Nat, NEW q \in Nat, p <= q, q <= Len(s), NEW a \in Nat,
         NEW b \in Nat, a <= b, b <= q - p
  PROVE  Slice(Slice(s, p, q), a, b) = Slice(s, p + a, p + b)
<1>1. Len(s) \in Nat
  BY StringFacts
<1>2. PICK t : t = Slice(s, p, q)
  OBVIOUS
<1>3. t \in Strings /\ Len(t) = q - p /\ \A i \in 1 .. q - p : t[i] = s[p + i]
  BY ONLY <1>2, SliceFacts, s \in Strings, p \in Nat, q \in Nat, p <= q, q <= Len(s)
<1>4. PICK u : u = Slice(t, a, b)
  OBVIOUS
<1>5. u \in Strings /\ Len(u) = b - a /\ \A i \in 1 .. b - a : u[i] = t[a + i]
  BY ONLY <1>3, <1>4, SliceFacts, a \in Nat, b \in Nat, a <= b, b <= q - p
<1>6. PICK x, y, v : x = p + a /\ y = p + b /\ v = Slice(s, x, y)
  OBVIOUS
<1>7. x \in Nat /\ y \in Nat /\ x <= y /\ y <= Len(s) /\ y - x = b - a
  BY ONLY <1>1, <1>6, p \in Nat, q \in Nat, p <= q, q <= Len(s), a \in Nat, b \in Nat, a <= b,
     b <= q - p
<1>8. v \in Strings /\ Len(v) = y - x /\ \A i \in 1 .. y - x : v[i] = s[x + i]
  <2>1. x \in Nat /\ y \in Nat /\ x <= y /\ y <= Len(s)
    BY ONLY <1>7
  <2>2. /\ Slice(s, x, y) \in Strings /\ Len(Slice(s, x, y)) = y - x
        /\ \A i \in 1 .. y - x : Slice(s, x, y)[i] = s[x + i]
    BY ONLY <2>1, SliceFacts, s \in Strings
  <2> QED
    BY ONLY <1>6, <2>2
<1>9. ASSUME NEW i \in 1 .. b - a PROVE u[i] = v[i]
  <2>1. a + i \in 1 .. q - p /\ p + (a + i) = x + i
    BY ONLY <1>6, p \in Nat, q \in Nat, a \in Nat, b \in Nat, b <= q - p, i \in 1 .. b - a
  <2>2. u[i] = s[p + (a + i)]
    BY ONLY <1>3, <1>5, <2>1, i \in 1 .. b - a
  <2>3. v[i] = s[x + i]
    BY ONLY <1>7, <1>8, i \in 1 .. b - a
  <2> QED
    BY ONLY <2>1, <2>2, <2>3
<1>10. u = v
  BY ONLY <1>5, <1>7, <1>8, <1>9, SameString
<1> QED
  BY ONLY <1>2, <1>4, <1>6, <1>10

(* B cuts what s has between lo and hi into characters.                    *)
Cut(s, lo, hi, B, Allowed) ==
  /\ B \subseteq lo .. hi /\ lo \in B /\ hi \in B
  /\ \A a, b \in B : Neighbours(B, a, b) => Encodes(Slice(s, a, b), Allowed)

(* The cuts of a string, of its prefixes and of its slices.                *)
LEMMA CutsAreCut ==
  ASSUME NEW s \in Strings, NEW Allowed, NEW B
  PROVE  B \in Cuts(s, Allowed) <=> Cut(s, 0, Len(s), B, Allowed)
BY DEF Cuts, Cut, Slice

LEMMA CutsOfPrefix ==
  ASSUME NEW s \in Strings, NEW Allowed, NEW B, NEW p \in Nat, p <= Len(s)
  PROVE  B \in Cuts(Prefix(s, p), Allowed) <=> Cut(s, 0, p, B, Allowed)
<1>1. PICK t : t = Slice(s, 0, p) /\ t = Prefix(s, p)
  <2>1. 0 + 1 = 1
    OBVIOUS
  <2> QED
    BY ONLY <2>1 DEF Slice, Prefix
<1>2. t \in Strings /\ Len(t) = p
  <2>1. 0 \in Nat /\ 0 <= p /\ p - 0 = p
    OBVIOUS
  <2> QED
    BY ONLY <1>1, <2>1, SliceFacts, s \in Strings, p \in Nat, p <= Len(s)
<1>3. B \in Cuts(t, Allowed) <=> Cut(t, 0, p, B, Allowed)
  BY ONLY <1>2, CutsAreCut
<1>4. ASSUME NEW a \in 0 .. p, NEW b \in 0 .. p, a < b PROVE Slice(t, a, b) = Slice(s, a, b)
  <2>1. 0 \in Nat /\ 0 <= p /\ p - 0 = p /\ a \in Nat /\ b \in Nat /\ a <= b /\ b <= p - 0 /\ 0 + a = a /\ 0 + b = b
    BY ONLY <1>4, p \in Nat, a \in 0 .. p, b \in 0 .. p
  <2>2. Slice(Slice(s, 0, p), a, b) = Slice(s, 0 + a, 0 + b)
    BY ONLY <2>1, SliceOfSlice, s \in Strings, p \in Nat, p <= Len(s)
  <2> QED
    BY ONLY <1>1, <2>1, <2>2
<1>5. Cut(t, 0, p, B, Allowed) <=> Cut(s, 0, p, B, Allowed)
  BY ONLY <1>4 DEF Cut, Neighbours
<1> QED
  BY ONLY <1>1, <1>3, <1>5

Shifted(p, B) == {p + b : b \in B}

LEMMA CutsOfSlice ==
  ASSUME NEW s \in Strings, NEW Allowed, NEW p \in Nat, NEW q \in Nat, p <= q, q <= Len(s),
         NEW B \in Cuts(Slice(s, p, q), Allowed)
  PROVE  /\ Cut(s, p, q, Shifted(p, B), Allowed)
         /\ IsFiniteSet(B) /\ IsFiniteSet(Shifted(p, B)) /\ Cardinality(Shifted(p, B)) = Cardinality(B)
<1>1. PICK t, n : t = Slice(s, p, q) /\ n = q - p
  OBVIOUS
<1>2. t \in Strings /\ Len(t) = n /\ n \in Nat
  <2>1. Slice(s, p, q) \in Strings /\ Len(Slice(s, p, q)) = q - p
    BY ONLY SliceFacts, s \in Strings, p \in Nat, q \in Nat, p <= q, q <= Len(s)
  <2>2. q - p \in Nat
    BY ONLY p \in Nat, q \in Nat, p <= q
  <2> QED
    BY ONLY <1>1, <2>1, <2>2
<1>3. Cut(t, 0, n, B, Allowed)
  BY ONLY <1>1, <1>2, CutsAreCut, B \in Cuts(Slice(s, p, q), Allowed)
<1>4. B \subseteq 0 .. n /\ 0 \in B /\ n \in B
  BY ONLY <1>3 DEF Cut
<1>5. PICK T : T = Shifted(p, B)
  OBVIOUS
<1>6. T \subseteq p .. q /\ p \in T /\ q \in T
  <2>1. p + 0 = p /\ p + n = q
    BY ONLY <1>1, <1>2, p \in Nat, q \in Nat
  <2>2. p \in T /\ q \in T
    BY ONLY <1>4, <1>5, <2>1 DEF Shifted
  <2>3. T \subseteq p .. q
    BY ONLY <1>1, <1>2, <1>4, <1>5, p \in Nat, q \in Nat DEF Shifted
  <2> QED
    BY ONLY <2>2, <2>3
<1>7. ASSUME NEW x \in T, NEW y \in T, Neighbours(T, x, y) PROVE Encodes(Slice(s, x, y), Allowed)
  <2>1. PICK a \in B, b \in B : x = p + a /\ y = p + b
    BY ONLY <1>5, x \in T, y \in T DEF Shifted
  <2>2. a \in 0 .. n /\ b \in 0 .. n
    BY ONLY <1>4, a \in B, b \in B
  <2>3. a < b
    BY ONLY <1>2, <1>7, <2>1, <2>2, p \in Nat DEF Neighbours
  <2>4. ASSUME NEW z \in B PROVE z <= a \/ b <= z
    <3>1. p + z \in T /\ z \in 0 .. n
      BY ONLY <1>4, <1>5, z \in B DEF Shifted
    <3>2. p + z <= p + a \/ p + b <= p + z
      BY ONLY <1>7, <2>1, <3>1 DEF Neighbours
    <3> QED
      BY ONLY <1>2, <2>2, <3>1, <3>2, p \in Nat
  <2>5. Encodes(Slice(t, a, b), Allowed)
    BY ONLY <1>3, <2>3, <2>4, a \in B, b \in B DEF Cut, Neighbours
  <2>6. Slice(t, a, b) = Slice(s, x, y)
    <3>1. a \in Nat /\ b \in Nat /\ a <= b /\ b <= q - p
      BY ONLY <1>1, <1>2, <2>2, <2>3
    <3>2. Slice(Slice(s, p, q), a, b) = Slice(s, p + a, p + b)
      BY ONLY <3>1, SliceOfSlice, s \in Strings, p \in Nat, q \in Nat, p <= q, q <= Len(s)
    <3> QED
      BY ONLY <1>1, <2>1, <3>2
  <2> QED
    BY ONLY <2>5, <2>6
<1>8. IsFiniteSet(B)
  <2>1. IsFiniteSet(0 .. n)
    BY ONLY <1>2, FS_Interval
  <2> QED
    BY ONLY <1>4, <2>1, FS_Subset
<1>9. ExistsBijection(B, T)
  <2> DEFINE f == [b \in B |-> p + b]
  <2>1. f \in Bijection(B, T)
    <3>1. \A b \in B : b \in Nat
      BY ONLY <1>2, <1>4
    <3>2. f \in [B -> T] /\ (\A a, b \in B : f[a] = f[b] => a = b) /\ \A y \in T : \E b \in B : f[b] = y
      BY ONLY <1>5, <3>1, p \in Nat DEF Shifted
    <3> HIDE DEF f
    <3> QED
      BY ONLY <3>2, Fun_IsBij
  <2> QED
    BY ONLY <2>1, Fun_ExistsBij
<1>10. IsFiniteSet(T) /\ Cardinality(T) = Cardinality(B)
  BY ONLY <1>8, <1>9, FS_Bijection
<1>11. Cut(s, p, q, T, Allowed)
  BY ONLY <1>6, <1>7 DEF Cut
<1> QED
  BY ONLY <1>5, <1>8, <1>10, <1>11

(* Cuts are finite, can be joined, and a character is a cut of its own.    *)
LEMMA CutIsFinite ==
  ASSUME NEW s, NEW lo \in Nat, NEW hi \in Nat, NEW B, NEW Allowed, Cut(s, lo, hi, B, Allowed)
  PROVE  IsFiniteSet(B) /\ Cardinality(B) \in Nat
<1>1. IsFiniteSet(lo .. hi)
  BY FS_Interval
<1>2. IsFiniteSet(B)
  BY ONLY <1>1, FS_Subset, Cut(s, lo, hi, B, Allowed) DEF Cut
<1> QED
  BY ONLY <1>2, FS_CardinalityType

LEMMA CutJoin ==
  ASSUME NEW s, NEW lo \in Nat, NEW mid \in Nat, NEW hi \in Nat, NEW B, NEW C, NEW Allowed,
         Cut(s, lo, mid, B, Allowed), Cut(s, mid, hi, C, Allowed)
  PROVE  /\ Cut(s, lo, hi, B \cup C, Allowed)
         /\ Cardinality(B \cup C) = Cardinality(B) + Cardinality(C) - 1
<1>1. B \subseteq lo .. mid /\ C \subseteq mid .. hi /\ lo \in B /\ mid \in B /\ mid \in C /\ hi \in C
  BY DEF Cut
<1>2. B \cap C = {mid}
  <2>1. ASSUME NEW x \in B, x \in C PROVE x = mid
    <3>1. x \in lo .. mid /\ x \in mid .. hi
      BY ONLY <1>1, <2>1
    <3> QED
      BY ONLY <3>1, lo \in Nat, mid \in Nat, hi \in Nat
  <2> QED
    BY ONLY <1>1, <2>1
<1>3. Cardinality(B \cup C) = Cardinality(B) + Cardinality(C) - 1
  <2>1. IsFiniteSet(B) /\ IsFiniteSet(C)
    BY CutIsFinite
  <2>2. Cardinality(B \cup C) = Cardinality(B) + Cardinality(C) - Cardinality(B \cap C)
    BY ONLY <2>1, FS_Union
  <2>3. Cardinality(B \cap C) = 1
    BY ONLY <1>2, FS_Singleton
  <2> QED
    BY ONLY <2>2, <2>3
<1>4. B \cup C \subseteq lo .. hi
  <2>1. lo <= mid /\ mid <= hi
    BY ONLY <1>1, lo \in Nat, mid \in Nat, hi \in Nat
  <2> QED
    BY ONLY <1>1, <2>1, lo \in Nat, mid \in Nat, hi \in Nat
<1>5. ASSUME NEW a \in B \cup C, NEW b \in B \cup C, Neighbours(B \cup C, a, b)
      PROVE  Encodes(Slice(s, a, b), Allowed)
  <2>1. a < b /\ \A x \in B \cup C : x <= a \/ b <= x
    BY ONLY <1>5 DEF Neighbours
  <2>2. a \in lo .. hi /\ b \in lo .. hi
    BY ONLY <1>4, a \in B \cup C, b \in B \cup C
  <2>3. (a \in B /\ b \in B) \/ (a \in C /\ b \in C)
    <3>1. mid <= a \/ b <= mid
      BY ONLY <1>1, <2>1
    <3>2. (a \in B => a <= mid) /\ (a \in C => mid <= a) /\ (b \in B => b <= mid) /\ (b \in C => mid <= b)
      BY ONLY <1>1
    <3>3. a = mid => a \in B /\ a \in C
      BY ONLY <1>1
    <3>4. b = mid => b \in B /\ b \in C
      BY ONLY <1>1
    <3> QED
      BY ONLY <2>1, <2>2, <3>1, <3>2, <3>3, <3>4, mid \in Nat, lo \in Nat, hi \in Nat,
         a \in B \cup C, b \in B \cup C
  <2>4. CASE a \in B /\ b \in B
    BY ONLY <2>1, <2>4, Cut(s, lo, mid, B, Allowed) DEF Cut, Neighbours
  <2>5. CASE a \in C /\ b \in C
    BY ONLY <2>1, <2>5, Cut(s, mid, hi, C, Allowed) DEF Cut, Neighbours
  <2> QED
    BY ONLY <2>3, <2>4, <2>5
<1> QED
  BY ONLY <1>1, <1>3, <1>4, <1>5 DEF Cut

LEMMA CutOne ==
  ASSUME NEW s, NEW lo \in Nat, NEW hi \in Nat, lo < hi, NEW Allowed,
         Encodes(Slice(s, lo, hi), Allowed)
  PROVE  Cut(s, lo, hi, {lo, hi}, Allowed) /\ Cardinality({lo, hi}) = 2
<1>1. {lo, hi} \subseteq lo .. hi
  OBVIOUS
<1>2. ASSUME NEW a \in {lo, hi}, NEW b \in {lo, hi}, Neighbours({lo, hi}, a, b) PROVE Encodes(Slice(s, a, b), Allowed)
  <2>1. a = lo /\ b = hi
    BY <1>2 DEF Neighbours
  <2> QED
    BY <2>1
<1>3. Cut(s, lo, hi, {lo, hi}, Allowed)
  BY ONLY <1>1, <1>2 DEF Cut
<1>4. IsFiniteSet({lo}) /\ Cardinality({lo}) = 1
  BY ONLY FS_Singleton
<1>5. Cardinality({lo} \cup {hi}) = Cardinality({lo}) + 1
  <2>1. hi \notin {lo}
    BY ONLY lo < hi, lo \in Nat, hi \in Nat
  <2>2. PICK S : S = {lo}
    OBVIOUS
  <2> QED
    BY ONLY <1>4, <2>1, <2>2, FS_AddElement
<1>6. {lo} \cup {hi} = {lo, hi}
  OBVIOUS
<1> QED
  BY ONLY <1>3, <1>4, <1>5, <1>6

-----------------------------------------------------------------------------
(* Validating a string.                                                    *)

(* Validation skips the ASCII characters that a string begins with.        *)
LEMMA LeastOf ==
  ASSUME NEW S \in SUBSET Nat, S # {}
  PROVE  Min(S) \in S /\ \A y \in S : Min(S) <= y
<1>1. PICK k \in S : \A j \in S : ~(<<j, k>> \in OpToRel(<, Nat))
  BY ONLY S \in SUBSET Nat, S # {}, NatLessThanWellFounded, WFMin
<1>2. \A j \in S : ~(j < k)
  BY <1>1 DEF OpToRel
<1>3. \A j \in S : k <= j
  BY ONLY <1>2, k \in S, S \in SUBSET Nat
<1> QED
  BY ONLY <1>3, k \in S DEF Min

LEMMA FirstVariant ==
  ASSUME NEW bytes \in Strings, NEW x, x = first_variant(bytes)
  PROVE  x \in 0 .. Len(bytes) /\ \A i \in 1 .. x : bytes[i] < 128
<1> DEFINE variants == {i \in DOMAIN bytes : ~UTF8_IS_INVARIANT(bytes[i])}
<1>1. PICK n : n = Len(bytes) /\ n \in Nat
  BY StringFacts
<1>2. DOMAIN bytes = 1 .. n
  BY ONLY <1>1, bytes \in Strings, LenProperties DEF Strings
<1>3. \A i \in 1 .. n : i \notin variants => bytes[i] < 128
  BY ONLY <1>2 DEF UTF8_IS_INVARIANT
<1>4. variants \subseteq 1 .. n
  BY <1>2
<1>5. x = IF variants = {} THEN n ELSE Min(variants) - 1
  BY ONLY <1>1, x = first_variant(bytes) DEF first_variant
<1> HIDE DEF variants
<1>6. CASE variants = {}
  BY ONLY <1>1, <1>3, <1>5, <1>6
<1>7. CASE variants # {}
  <2>1. variants \in SUBSET Nat
    BY ONLY <1>1, <1>4
  <2>2. PICK m : m = Min(variants)
    OBVIOUS
  <2>3. m \in variants /\ \A y \in variants : m <= y
    BY ONLY <1>7, <2>1, <2>2, LeastOf
  <2>4. m \in 1 .. n /\ x = m - 1
    BY ONLY <1>4, <1>5, <1>7, <2>2, <2>3
  <2>5. ASSUME NEW i \in 1 .. x PROVE bytes[i] < 128
    <3>1. i \in 1 .. n /\ ~(m <= i)
      BY ONLY <1>1, <2>4, i \in 1 .. x
    <3> QED
      BY ONLY <1>3, <2>3, <3>1
  <2> QED
    BY ONLY <1>1, <2>4, <2>5
<1> QED
  BY <1>6, <1>7

(* All sets of code points have these.                                     *)
AllowsAscii(Allowed) == 0 .. 127 \subseteq Allowed

LEMMA SetsAllowAscii == AllowsAscii(Extended) /\ AllowsAscii(C9) /\ AllowsAscii(Interchange)
<1> SUFFICES ASSUME NEW v \in 0 .. 127 PROVE v \in Extended /\ v \in C9 /\ v \in Interchange
  BY DEF AllowsAscii
<1>1. v \in Nat /\ v < 2048
  BY SMT
<1>2. v \in C9 /\ v \in Interchange
  BY ONLY <1>1, Small, SMTT(30)
<1> QED
  BY <1>1, <1>2 DEF Extended

(* They are characters, one byte each.                                     *)
LEMMA AsciiEncodes ==
  ASSUME NEW c, Len(c) = 1, c[1] \in 0 .. 127, NEW Allowed, AllowsAscii(Allowed)
  PROVE  Encodes(c, Allowed)
<1>1. Value(c) = c[1]
  <2>1. StandFor(Len(c), c[1], c[2], c[3], c[4], c[5], c[6], Value(c))
    BY ONLY Values
  <2> QED
    BY ONLY <2>1, Len(c) = 1 DEF StandFor
<1>2. PICK b : b = c[1] /\ b \in 0 .. 127
  OBVIOUS
<1>3. Width(b) = 1 /\ Least[1] = 0 /\ b \in Allowed /\ b >= 0
  <2>1. b \in 0 .. 253
    BY ONLY <1>2
  <2>2. Width(b) = 1
    BY ONLY <1>2, <2>1, WidthFacts
  <2>3. Least[1] = 0
    BY Leasts
  <2> QED
    BY ONLY <1>2, <2>2, <2>3, AllowsAscii(Allowed) DEF AllowsAscii
<1>4. \A i \in 2 .. 1 : c[i] \in 128 .. 191
  OBVIOUS
<1>5. IsCharacter(c)
  BY ONLY <1>1, <1>2, <1>3, <1>4, Len(c) = 1 DEF IsCharacter
<1> QED
  BY ONLY <1>1, <1>2, <1>3, <1>5 DEF Encodes

LEMMA AsciiCut ==
  ASSUME NEW s \in Strings, NEW x \in Nat, x <= Len(s), \A i \in 1 .. x : s[i] < 128, NEW Allowed, AllowsAscii(Allowed)
  PROVE  Cut(s, 0, x, 0 .. x, Allowed) /\ Cardinality(0 .. x) = x + 1
<1>1. Len(s) \in Nat /\ \A i \in 1 .. Len(s) : s[i] \in 0 .. 253
  BY StringFacts
<1>2. ASSUME NEW a \in 0 .. x, NEW b \in 0 .. x, Neighbours(0 .. x, a, b) PROVE Encodes(Slice(s, a, b), Allowed)
  <2>1. b = a + 1
    <3>1. a < b /\ (a + 1 \in 0 .. x => a + 1 <= a \/ b <= a + 1)
      BY ONLY <1>2 DEF Neighbours
    <3> QED
      BY ONLY <3>1, x \in Nat, a \in 0 .. x, b \in 0 .. x
  <2>2. PICK c : c = Slice(s, a, b)
    OBVIOUS
  <2>3. Len(c) = 1 /\ c[1] = s[a + 1]
    <3>1. a \in Nat /\ b \in Nat /\ a <= b /\ b <= Len(s) /\ b - a = 1
      BY ONLY <1>1, <2>1, x \in Nat, x <= Len(s), a \in 0 .. x, b \in 0 .. x
    <3>2. Len(Slice(s, a, b)) = b - a /\ \A i \in 1 .. b - a : Slice(s, a, b)[i] = s[a + i]
      BY ONLY <3>1, SliceFacts, s \in Strings
    <3> QED
      BY ONLY <2>2, <3>1, <3>2
  <2>4. s[a + 1] \in 0 .. 127
    <3>1. a + 1 \in 1 .. x /\ a + 1 \in 1 .. Len(s)
      BY ONLY <1>1, <2>1, x \in Nat, x <= Len(s), a \in 0 .. x, b \in 0 .. x
    <3>2. s[a + 1] < 128 /\ s[a + 1] \in 0 .. 253
      BY ONLY <1>1, <3>1, \A i \in 1 .. x : s[i] < 128
    <3> QED
      BY ONLY <3>2
  <2>5. Encodes(c, Allowed)
    BY ONLY <2>3, <2>4, AsciiEncodes, AllowsAscii(Allowed)
  <2> QED
    BY ONLY <2>2, <2>5
<1>3. Cut(s, 0, x, 0 .. x, Allowed)
  <2>1. 0 .. x \subseteq 0 .. x /\ 0 \in 0 .. x /\ x \in 0 .. x
    OBVIOUS
  <2> QED
    BY ONLY <1>2, <2>1 DEF Cut
<1>4. Cardinality(0 .. x) = x + 1
  BY FS_Interval
<1> QED
  BY ONLY <1>3, <1>4

(* The bytes up to p are n characters.                                     *)
Counted(s, p, n, Allowed) == \E B : Cut(s, 0, p, B, Allowed) /\ Cardinality(B) = n + 1

(* One more character.                                                     *)
LEMMA CountedMore ==
  ASSUME NEW s \in Strings, NEW Allowed, NEW p \in Nat, NEW q \in Nat, p < q, q <= Len(s),
         NEW n \in Nat,
         Counted(s, p, n, Allowed), Encodes(Slice(s, p, q), Allowed)
  PROVE  Counted(s, q, n + 1, Allowed)
<1>1. PICK B : Cut(s, 0, p, B, Allowed) /\ Cardinality(B) = n + 1
  BY DEF Counted
<1>2. PICK C : Cut(s, p, q, C, Allowed) /\ Cardinality(C) = 2
  BY CutOne
<1>3. 0 \in Nat
  OBVIOUS
<1>4. Cut(s, 0, q, B \cup C, Allowed) /\ Cardinality(B \cup C) = Cardinality(B) + Cardinality(C) - 1
  <2>1. Cut(s, 0, p, B, Allowed) /\ Cut(s, p, q, C, Allowed)
    BY ONLY <1>1, <1>2
  <2>2. PICK lo \in Nat : lo = 0
    BY <1>3
  <2>3. Cut(s, lo, p, B, Allowed)
    BY ONLY <2>1, <2>2
  <2>4. Cut(s, lo, q, B \cup C, Allowed) /\ Cardinality(B \cup C) = Cardinality(B) + Cardinality(C) - 1
    BY ONLY <2>1, <2>3, CutJoin, p \in Nat, q \in Nat, lo \in Nat
  <2> QED
    BY ONLY <2>2, <2>4
<1>5. Cardinality(B \cup C) = (n + 1) + 1
  BY ONLY <1>1, <1>2, <1>4, n \in Nat
<1> QED
  BY ONLY <1>4, <1>5 DEF Counted

LEMMA RestFacts ==
  ASSUME NEW bytes \in Strings, NEW p \in Nat, p <= Len(bytes), NEW rest, rest = RestOf(bytes, p)
  PROVE  /\ rest = Slice(bytes, p, Len(bytes)) /\ rest \in Strings /\ Len(rest) = Len(bytes) - p
         /\ \A k \in 0 .. Len(bytes) - p : Prefix(rest, k) = Slice(bytes, p, p + k)
<1>1. PICK n : n = Len(bytes) /\ n \in Nat
  BY StringFacts
<1>2. rest = Slice(bytes, p, n)
  BY ONLY <1>1, rest = RestOf(bytes, p) DEF RestOf, Slice
<1>3. rest \in Strings /\ Len(rest) = n - p
  <2>1. p <= n /\ n <= Len(bytes)
    BY ONLY <1>1, p <= Len(bytes)
  <2>2. Slice(bytes, p, n) \in Strings /\ Len(Slice(bytes, p, n)) = n - p
    BY ONLY <1>1, <2>1, SliceFacts, bytes \in Strings, p \in Nat
  <2> QED
    BY ONLY <1>2, <2>2
<1>4. ASSUME NEW k \in 0 .. n - p PROVE Prefix(rest, k) = Slice(bytes, p, p + k)
  <2>1. 0 \in Nat /\ k \in Nat /\ 0 <= k /\ k <= n - p /\ p <= n /\ n <= Len(bytes) /\ p + 0 = p /\ 0 + 1 = 1
    BY ONLY <1>1, p \in Nat, p <= Len(bytes), k \in 0 .. n - p
  <2>2. Slice(Slice(bytes, p, n), 0, k) = Slice(bytes, p + 0, p + k)
    BY ONLY <1>1, <2>1, SliceOfSlice, bytes \in Strings, p \in Nat
  <2>3. Prefix(rest, k) = Slice(rest, 0, k)
    BY ONLY <2>1 DEF Prefix, Slice
  <2> QED
    BY ONLY <1>2, <2>1, <2>2, <2>3
<1> QED
  BY ONLY <1>1, <1>2, <1>3, <1>4

(* The loop stops at the end of the longest well-formed beginning, having  *)
(* counted its characters.                                                 *)
LEMMA LocatesEnd ==
  ASSUME NEW bytes \in Strings, NEW Allowed, AllowsAscii(Allowed), NEW cur_len,
         cur_len = [x \in 0 .. Len(bytes) |-> FirstCharacter(RestOf(bytes, x), Allowed)],
         NEW r, r = string_loclen(bytes, cur_len)
  PROVE  r \in [ep : 0 .. Len(bytes), el : Nat] /\ Locates(r, bytes, Allowed)
<1>1. PICK n, x : n = Len(bytes) /\ n \in Nat /\ x = first_variant(bytes)
  BY StringFacts
<1> DEFINE Ends == [ep : 0 .. n, el : Nat]
           Stuck(v) == v.ep = n \/ cur_len[v.ep] = 0
           turn == [i \in 1 .. n |-> [v \in Ends |->
                     IF Stuck(v) THEN v ELSE [ep |-> v.ep + cur_len[v.ep], el |-> v.el + 1]]]
           begin == [ep |-> x, el |-> x]
           S == [i \in 0 .. n |-> {v \in Ends : Counted(bytes, v.ep, v.el, Allowed) /\ (Stuck(v) \/ v.ep >= i)}]
<1>2. r = Loop(turn, n, begin)
  BY ONLY <1>1, r = string_loclen(bytes, cur_len) DEF string_loclen
<1>3. ASSUME NEW p \in 0 .. n
      PROVE  /\ cur_len[p] \in 0 .. n - p
             /\ cur_len[p] # 0 => Encodes(Slice(bytes, p, p + cur_len[p]), Allowed)
             /\ cur_len[p] = FirstCharacter(RestOf(bytes, p), Allowed)
  <2>1. PICK k, rest : k = cur_len[p] /\ rest = RestOf(bytes, p)
    OBVIOUS
  <2>2. k = FirstCharacter(rest, Allowed)
    BY ONLY <1>1, <2>1, p \in 0 .. n,
       cur_len = [y \in 0 .. Len(bytes) |-> FirstCharacter(RestOf(bytes, y), Allowed)]
  <2>3. rest \in Strings /\ Len(rest) = n - p /\ \A j \in 0 .. n - p : Prefix(rest, j) = Slice(bytes, p, p + j)
    <3>1. p \in Nat /\ p <= Len(bytes)
      BY ONLY <1>1, p \in 0 .. n
    <3> QED
      BY ONLY <1>1, <2>1, <3>1, RestFacts, bytes \in Strings
  <2>4. k \in 0 .. Len(rest) /\ (k # 0 => Encodes(Prefix(rest, k), Allowed))
    BY ONLY <2>2, <2>3, FirstIs
  <2> QED
    BY ONLY <2>1, <2>2, <2>3, <2>4
<1>4. x \in 0 .. n /\ \A i \in 1 .. x : bytes[i] < 128
  BY ONLY <1>1, FirstVariant, bytes \in Strings
<1>5. begin \in S[0]
  <2>1. Counted(bytes, x, x, Allowed)
    <3>1. x \in Nat /\ x <= Len(bytes)
      BY ONLY <1>1, <1>4
    <3>2. Cut(bytes, 0, x, 0 .. x, Allowed) /\ Cardinality(0 .. x) = x + 1
      BY ONLY <1>4, <3>1, AsciiCut, bytes \in Strings, AllowsAscii(Allowed)
    <3> QED
      BY ONLY <3>2 DEF Counted
  <2>2. begin \in Ends /\ begin.ep = x /\ begin.el = x /\ x >= 0
    BY <1>1, <1>4
  <2> HIDE DEF begin
  <2> QED
    BY <1>1, <2>1, <2>2
<1>6. ASSUME NEW i \in 1 .. n, NEW v \in S[i - 1] PROVE turn[i][v] \in S[i]
  <2>1. v \in Ends /\ Counted(bytes, v.ep, v.el, Allowed) /\ (Stuck(v) \/ v.ep >= i - 1)
    BY <1>1
  <2>2. turn[i][v] = IF Stuck(v) THEN v ELSE [ep |-> v.ep + cur_len[v.ep], el |-> v.el + 1]
    BY <2>1
  <2>3. CASE Stuck(v)
    BY <1>1, <2>1, <2>2, <2>3
  <2>4. CASE ~Stuck(v)
    <3>1. PICK p, c, k, q : p = v.ep /\ c = v.el /\ k = cur_len[p] /\ q = p + k
      OBVIOUS
    <3>2. p \in 0 .. n /\ c \in Nat /\ p # n /\ k # 0 /\ p >= i - 1
      BY <2>1, <2>4, <3>1
    <3>3. k \in 0 .. n - p /\ Encodes(Slice(bytes, p, q), Allowed)
      BY ONLY <1>3, <3>1, <3>2
    <3>4. p \in Nat /\ q \in Nat /\ p < q /\ q <= n /\ q \in 0 .. n /\ q >= i /\ c + 1 \in Nat
      <4>1. n \in Nat /\ q = p + k /\ k \in 0 .. n - p
        BY ONLY <1>1, <3>1, <3>3
      <4> QED
        BY ONLY <3>2, <4>1, i \in 1 .. n
    <3>5. Counted(bytes, q, c + 1, Allowed)
      BY ONLY <1>1, <2>1, <3>1, <3>2, <3>3, <3>4, CountedMore, bytes \in Strings
    <3>6. PICK w : w = turn[i][v] /\ w = [ep |-> q, el |-> c + 1]
      BY <2>2, <2>4, <3>1
    <3>7. w \in Ends /\ w.ep = q /\ w.el = c + 1
      BY ONLY <3>4, <3>6
    <3>8. w \in S[i]
      BY ONLY <1>1, <3>4, <3>5, <3>7, i \in 1 .. n
    <3> QED
      BY <3>6, <3>8
  <2> QED
    BY <2>3, <2>4
<1>7. r \in S[n]
  <2> HIDE DEF turn, begin, S
  <2> QED
    BY ONLY <1>1, <1>2, <1>5, <1>6, LoopInvariant
<1>8. r \in Ends /\ Counted(bytes, r.ep, r.el, Allowed) /\ (Stuck(r) \/ r.ep >= n)
  BY ONLY <1>1, <1>7
<1>9. PICK p : p = r.ep /\ p \in 0 .. n /\ r.el \in Nat
  BY ONLY <1>8
<1>10. FirstCharacter(RestOf(bytes, p), Allowed) = 0
  <2>1. p = n => cur_len[p] = 0
    BY ONLY <1>1, <1>3, <1>9
  <2>2. cur_len[p] = 0
    BY ONLY <1>1, <1>8, <1>9, <2>1
  <2> QED
    BY ONLY <1>3, <1>9, <2>2
<1>11. \E B \in Cuts(SubSeq(bytes, 1, p), Allowed) : Cardinality(B) = r.el + 1
  <2>1. PICK B : Cut(bytes, 0, p, B, Allowed) /\ Cardinality(B) = r.el + 1
    BY ONLY <1>8, <1>9 DEF Counted
  <2>2. p \in Nat /\ p <= Len(bytes)
    BY ONLY <1>1, <1>9
  <2>3. B \in Cuts(Prefix(bytes, p), Allowed)
    BY ONLY <2>1, <2>2, CutsOfPrefix, bytes \in Strings
  <2> QED
    BY ONLY <2>1, <2>3 DEF Prefix
<1>12. Locates(r, bytes, Allowed)
  BY ONLY <1>9, <1>10, <1>11 DEF Locates, RestOf
<1> QED
  BY ONLY <1>1, <1>8, <1>12

(* So do the three functions, for the characters they are for.             *)
LEMMA LocatesUTF8 ==
  ASSUME NEW bytes \in Strings, NEW r, r = is_utf8_string_loclen(bytes)
  PROVE  r \in [ep : 0 .. Len(bytes), el : Nat] /\ Locates(r, bytes, Extended)
<1>1. ASSUME NEW x \in 0 .. Len(bytes)
      PROVE  isUTF8_CHAR(RestOf(bytes, x)) = FirstCharacter(RestOf(bytes, x), Extended)
  <2>1. x \in Nat /\ x <= Len(bytes)
    BY StringFacts
  <2>2. PICK rest : rest = RestOf(bytes, x)
    OBVIOUS
  <2>3. rest \in Strings
    BY ONLY <2>1, <2>2, RestFacts, bytes \in Strings
  <2> QED
    BY ONLY <2>2, <2>3, IsUTF8
<1>2. PICK cur_len : cur_len = [x \in 0 .. Len(bytes) |-> isUTF8_CHAR(RestOf(bytes, x))]
  OBVIOUS
<1>3. cur_len = [x \in 0 .. Len(bytes) |-> FirstCharacter(RestOf(bytes, x), Extended)]
  BY ONLY <1>1, <1>2
<1>4. r = string_loclen(bytes, cur_len)
  BY ONLY <1>2, r = is_utf8_string_loclen(bytes) DEF is_utf8_string_loclen
<1> QED
  BY ONLY <1>3, <1>4, LocatesEnd, SetsAllowAscii, bytes \in Strings

LEMMA LocatesSTRICT ==
  ASSUME NEW bytes \in Strings, NEW r, r = is_strict_utf8_string_loclen(bytes)
  PROVE  Locates(r, bytes, Interchange)
<1>1. ASSUME NEW x \in 0 .. Len(bytes)
      PROVE  isSTRICT_UTF8_CHAR(RestOf(bytes, x)) = FirstCharacter(RestOf(bytes, x), Interchange)
  <2>1. x \in Nat /\ x <= Len(bytes)
    BY StringFacts
  <2>2. PICK rest : rest = RestOf(bytes, x)
    OBVIOUS
  <2>3. rest \in Strings
    BY ONLY <2>1, <2>2, RestFacts, bytes \in Strings
  <2> QED
    BY ONLY <2>2, <2>3, IsSTRICT
<1>2. PICK cur_len : cur_len = [x \in 0 .. Len(bytes) |-> isSTRICT_UTF8_CHAR(RestOf(bytes, x))]
  OBVIOUS
<1>3. cur_len = [x \in 0 .. Len(bytes) |-> FirstCharacter(RestOf(bytes, x), Interchange)]
  BY ONLY <1>1, <1>2
<1>4. r = string_loclen(bytes, cur_len)
  BY ONLY <1>2, r = is_strict_utf8_string_loclen(bytes) DEF is_strict_utf8_string_loclen
<1> QED
  BY ONLY <1>3, <1>4, LocatesEnd, SetsAllowAscii, bytes \in Strings

LEMMA LocatesC9 ==
  ASSUME NEW bytes \in Strings, NEW r, r = is_c9strict_utf8_string_loclen(bytes)
  PROVE  Locates(r, bytes, C9)
<1>1. ASSUME NEW x \in 0 .. Len(bytes)
      PROVE  isC9_STRICT_UTF8_CHAR(RestOf(bytes, x)) = FirstCharacter(RestOf(bytes, x), C9)
  <2>1. x \in Nat /\ x <= Len(bytes)
    BY StringFacts
  <2>2. PICK rest : rest = RestOf(bytes, x)
    OBVIOUS
  <2>3. rest \in Strings
    BY ONLY <2>1, <2>2, RestFacts, bytes \in Strings
  <2> QED
    BY ONLY <2>2, <2>3, IsC9
<1>2. PICK cur_len : cur_len = [x \in 0 .. Len(bytes) |-> isC9_STRICT_UTF8_CHAR(RestOf(bytes, x))]
  OBVIOUS
<1>3. cur_len = [x \in 0 .. Len(bytes) |-> FirstCharacter(RestOf(bytes, x), C9)]
  BY ONLY <1>1, <1>2
<1>4. r = string_loclen(bytes, cur_len)
  BY ONLY <1>2, r = is_c9strict_utf8_string_loclen(bytes) DEF is_c9strict_utf8_string_loclen
<1> QED
  BY ONLY <1>3, <1>4, LocatesEnd, SetsAllowAscii, bytes \in Strings

(* All that RecognisesCharacters says, of any string in the buffer.        *)
LEMMA Recognised ==
  ASSUME mem \in Strings
  PROVE  RecognisesCharacters
<1>1. PICK n, strict, inline : /\ n = FirstCharacter(mem, Extended) /\ strict = FirstCharacter(mem, Interchange)
                               /\ inline = utf8n_to_uvchr_msgs(mem)
  OBVIOUS
<1>2. isUTF8_CHAR(mem) = n /\ isSTRICT_UTF8_CHAR(mem) = strict /\ isC9_STRICT_UTF8_CHAR(mem) = FirstCharacter(mem, C9)
  BY <1>1, IsUTF8, IsSTRICT, IsC9
<1>3. n # 0 => valid_utf8_to_uvchr(mem) = Value(SubSeq(mem, 1, n))
  BY <1>1, DecodesValid DEF Prefix
<1>4. mem # <<>> => (inline # -1 => strict # 0 /\ inline = Value(SubSeq(mem, 1, strict)))
  BY <1>1, DecodesInline DEF Prefix
<1>5. /\ Locates(is_utf8_string_loclen(mem), mem, Extended)
      /\ Locates(is_strict_utf8_string_loclen(mem), mem, Interchange)
      /\ Locates(is_c9strict_utf8_string_loclen(mem), mem, C9)
  BY ONLY LocatesUTF8, LocatesSTRICT, LocatesC9, mem \in Strings
<1> QED
  BY ONLY <1>1, <1>2, <1>3, <1>4, <1>5 DEF RecognisesCharacters

-----------------------------------------------------------------------------
(* A stream that comes in chunks.                                          *)

(* s is well formed up to e, with l characters, and up to m has no more.   *)
Located(s, m, e, l) == Counted(s, e, l, Extended) /\ FirstCharacter(Slice(s, e, m), Extended) = 0

LEMMA LocatedIs ==
  ASSUME NEW s \in Strings, NEW m \in Nat, NEW e \in Nat, e <= m, m <= Len(s), NEW l
  PROVE  Locates([ep |-> e, el |-> l], SubSeq(s, 1, m), Extended) <=> Located(s, m, e, l)
<1>1. Len(s) \in Nat
  BY StringFacts
<1>2. PICK t : t = Prefix(s, m)
  OBVIOUS
<1>3. t \in Strings /\ Len(t) = m
  <2>1. m \in 0 .. Len(s)
    BY ONLY <1>1, m \in Nat, m <= Len(s)
  <2> QED
    BY ONLY <1>2, <2>1, PrefixFacts, s \in Strings
<1>4. Prefix(t, e) = Prefix(s, e)
  <2>1. m \in 0 .. Len(s) /\ e \in 0 .. m
    BY ONLY <1>1, m \in Nat, m <= Len(s), e \in Nat, e <= m
  <2> QED
    BY ONLY <1>2, <2>1, PrefixOfPrefix, s \in Strings
<1>5. SubSeq(t, e + 1, m) = Slice(s, e, m)
  <2>1. 0 \in Nat /\ 0 <= m /\ m - 0 = m /\ 0 + e = e /\ 0 + m = m /\ 0 + 1 = 1
    BY ONLY m \in Nat, e \in Nat
  <2>2. e <= m /\ m <= m - 0
    BY ONLY m \in Nat, e <= m
  <2>3. Slice(Slice(s, 0, m), e, m) = Slice(s, 0 + e, 0 + m)
    BY ONLY <2>1, <2>2, SliceOfSlice, s \in Strings, e \in Nat, m \in Nat, m <= Len(s)
  <2>4. t = Slice(s, 0, m)
    BY ONLY <1>2, <2>1 DEF Prefix, Slice
  <2>5. Slice(t, e, m) = Slice(s, e, m)
    BY ONLY <2>1, <2>3, <2>4
  <2> QED
    BY ONLY <2>5 DEF Slice
<1>6. (\E B \in Cuts(Prefix(s, e), Extended) : Cardinality(B) = l + 1) <=> Counted(s, e, l, Extended)
  <2>1. e <= Len(s)
    BY ONLY <1>1, e \in Nat, m \in Nat, e <= m, m <= Len(s)
  <2>2. \A B : B \in Cuts(Prefix(s, e), Extended) <=> Cut(s, 0, e, B, Extended)
    BY ONLY <2>1, CutsOfPrefix, s \in Strings, e \in Nat
  <2> QED
    BY ONLY <2>2 DEF Counted
<1>7. Locates([ep |-> e, el |-> l], t, Extended)
        <=> /\ \E B \in Cuts(Prefix(t, e), Extended) : Cardinality(B) = l + 1
            /\ FirstCharacter(SubSeq(t, e + 1, Len(t)), Extended) = 0
  BY ONLY DEF Locates, Prefix
<1>8. Locates([ep |-> e, el |-> l], t, Extended) <=> Located(s, m, e, l)
  BY ONLY <1>3, <1>4, <1>5, <1>6, <1>7 DEF Located
<1> QED
  BY ONLY <1>2, <1>8 DEF Prefix

(* What was counted before adds up with what is counted now.               *)
LEMMA CountedOn ==
  ASSUME NEW s \in Strings, NEW Allowed, NEW p \in Nat, NEW q \in Nat, p <= q, q <= Len(s),
         NEW n \in Nat, NEW m \in Nat,
         Counted(s, p, n, Allowed), NEW B \in Cuts(Slice(s, p, q), Allowed), Cardinality(B) = m + 1
  PROVE  Counted(s, q, n + m, Allowed)
<1>1. PICK C : Cut(s, 0, p, C, Allowed) /\ Cardinality(C) = n + 1
  BY DEF Counted
<1>2. PICK T : T = Shifted(p, B)
  OBVIOUS
<1>3. Cut(s, p, q, T, Allowed) /\ Cardinality(T) = m + 1
  BY ONLY <1>2, CutsOfSlice, s \in Strings, p \in Nat, q \in Nat, p <= q, q <= Len(s),
          B \in Cuts(Slice(s, p, q), Allowed), Cardinality(B) = m + 1
<1>4. PICK lo \in Nat : lo = 0
  OBVIOUS
<1>5. Cut(s, lo, p, C, Allowed) /\ Cut(s, p, q, T, Allowed)
  BY ONLY <1>1, <1>3, <1>4
<1>6. Cut(s, lo, q, C \cup T, Allowed) /\ Cardinality(C \cup T) = Cardinality(C) + Cardinality(T) - 1
  BY ONLY <1>5, CutJoin, p \in Nat, q \in Nat, lo \in Nat
<1>7. Cardinality(C \cup T) = (n + m) + 1
  BY ONLY <1>1, <1>3, <1>6, n \in Nat, m \in Nat
<1> QED
  BY ONLY <1>4, <1>6, <1>7 DEF Counted

(* Validating what a buffer holds goes on where the last call stopped.     *)
LEMMA ValidatesMore ==
  ASSUME NEW s \in Strings, NEW e \in Nat, e <= Len(s), NEW l \in Nat, Counted(s, e, l, Extended),
         NEW r, r = is_utf8_fixed_width_buf_loclen(SubSeq(s, e + 1, Len(s))),
         NEW p, p = e + r.ep, NEW c, c = l + r.el
  PROVE  /\ p \in Nat /\ p <= Len(s) /\ c \in Nat /\ Located(s, Len(s), p, c)
         /\ r.ok \in BOOLEAN /\ (r.ok <=> p = Len(s) \/ Completable(SubSeq(s, p + 1, Len(s))))
<1>1. PICK n : n = Len(s) /\ n \in Nat
  BY StringFacts
<1>2. PICK t : t = Slice(s, e, n)
  OBVIOUS
<1>3. t \in Strings /\ Len(t) = n - e
  <2>1. n <= Len(s) /\ e <= n
    BY ONLY <1>1, e <= Len(s)
  <2>2. Slice(s, e, n) \in Strings /\ Len(Slice(s, e, n)) = n - e
    BY ONLY <1>1, <2>1, SliceFacts, s \in Strings, e \in Nat
  <2> QED
    BY ONLY <1>2, <2>2
<1>4. PICK u : u = is_utf8_string_loclen(t)
  OBVIOUS
<1>5. u \in [ep : 0 .. Len(t), el : Nat] /\ Locates(u, t, Extended)
  BY ONLY <1>3, <1>4, LocatesUTF8
<1>6. PICK k, m : k = u.ep /\ m = u.el /\ k \in 0 .. n - e /\ m \in Nat
  BY ONLY <1>3, <1>5
<1>7. r.ep = k /\ r.el = m /\ r.ok \in BOOLEAN /\ (r.ok <=> k = Len(t) \/ is_utf8_valid_partial_char(RestOf(t, k)))
  <2>1. r = is_utf8_fixed_width_buf_loclen(t)
    BY ONLY <1>1, <1>2, r = is_utf8_fixed_width_buf_loclen(SubSeq(s, e + 1, Len(s))) DEF Slice
  <2>2. r = [ep |-> k, el |-> m, ok |-> k = Len(t) \/ is_utf8_valid_partial_char(RestOf(t, k))]
    BY ONLY <1>4, <1>6, <2>1 DEF is_utf8_fixed_width_buf_loclen
  <2>3. r.ep = k /\ r.el = m /\ r.ok = (k = Len(t) \/ is_utf8_valid_partial_char(RestOf(t, k)))
    BY ONLY <2>2
  <2>4. (k = Len(t) \/ is_utf8_valid_partial_char(RestOf(t, k))) \in BOOLEAN
    OBVIOUS
  <2> QED
    BY ONLY <2>3, <2>4
<1>8. p = e + k /\ c = l + m /\ p \in Nat /\ e <= p /\ p <= n /\ c \in Nat /\ (k = Len(t) <=> p = n)
  <2>1. p = e + k /\ c = l + m
    BY ONLY <1>7, p = e + r.ep, c = l + r.el
  <2>2. e <= n /\ k \in 0 .. n - e
    BY ONLY <1>1, <1>6, e <= Len(s)
  <2>3. n \in Nat /\ m \in Nat /\ Len(t) = n - e
    BY ONLY <1>1, <1>3, <1>6
  <2>4. p \in Nat /\ e <= p /\ p <= n /\ c \in Nat
    BY ONLY <2>1, <2>2, <2>3, e \in Nat, l \in Nat
  <2>5. k = Len(t) <=> p = n
    BY ONLY <2>1, <2>2, <2>3, e \in Nat
  <2> QED
    BY ONLY <2>1, <2>4, <2>5
<1>9. RestOf(t, k) = Slice(s, p, n) /\ Prefix(t, k) = Slice(s, e, p)
  <2>1. PICK w : w = n - e
    OBVIOUS
  <2>2. w \in Nat /\ k \in Nat /\ k <= w /\ e <= n /\ n <= Len(s) /\ e + w = n /\ w <= n - e /\ k <= n - e
    BY ONLY <1>1, <1>6, <2>1, e \in Nat, e <= Len(s)
  <2>3. Slice(Slice(s, e, n), k, w) = Slice(s, e + k, e + w)
    <3>1. w \in Nat /\ k \in Nat /\ n \in Nat /\ k <= w /\ e <= n /\ n <= Len(s) /\ w <= n - e
      BY ONLY <1>1, <2>2
    <3> QED
      BY ONLY <3>1, SliceOfSlice, s \in Strings, e \in Nat
  <2>4. 0 \in Nat /\ 0 <= k /\ e + 0 = e /\ 0 + 1 = 1
    BY ONLY <2>2, e \in Nat
  <2>5. Slice(Slice(s, e, n), 0, k) = Slice(s, e + 0, e + k)
    BY ONLY <1>1, <2>2, <2>4, SliceOfSlice, s \in Strings, e \in Nat
  <2>6. RestOf(t, k) = Slice(t, k, w)
    BY ONLY <1>3, <2>1 DEF RestOf, Slice
  <2>7. Prefix(t, k) = Slice(t, 0, k)
    BY ONLY <2>4 DEF Prefix, Slice
  <2> QED
    BY ONLY <1>2, <1>8, <2>2, <2>3, <2>4, <2>5, <2>6, <2>7
<1>10. Counted(s, p, c, Extended)
  <2>1. PICK B \in Cuts(Prefix(t, k), Extended) : Cardinality(B) = m + 1
    BY ONLY <1>5, <1>6 DEF Locates, Prefix
  <2>2. B \in Cuts(Slice(s, e, p), Extended) /\ p <= Len(s)
    BY ONLY <1>1, <1>8, <1>9, <2>1
  <2>3. Counted(s, p, l + m, Extended)
    BY ONLY <1>6, <1>8, <2>1, <2>2, CountedOn, s \in Strings, e \in Nat, l \in Nat,
       Counted(s, e, l, Extended)
  <2> QED
    BY ONLY <1>8, <2>3
<1>11. FirstCharacter(Slice(s, p, n), Extended) = 0
  <2>1. FirstCharacter(RestOf(t, k), Extended) = 0
    BY ONLY <1>5, <1>6 DEF Locates, RestOf
  <2> QED
    BY ONLY <1>9, <2>1
<1>12. is_utf8_valid_partial_char(RestOf(t, k)) <=> Completable(SubSeq(s, p + 1, n))
  <2>1. PICK v : v = Slice(s, p, n)
    OBVIOUS
  <2>2. v \in Strings
    <3>1. n <= Len(s)
      BY ONLY <1>1
    <3> QED
      BY ONLY <1>1, <1>8, <2>1, <3>1, SliceFacts, s \in Strings
  <2>3. is_utf8_valid_partial_char(v) <=> Completable(v)
    BY ONLY <2>2, PartialCharacter
  <2>4. v = SubSeq(s, p + 1, n)
    BY ONLY <2>1 DEF Slice
  <2> QED
    BY ONLY <1>9, <2>1, <2>3, <2>4
<1> QED
  BY ONLY <1>1, <1>7, <1>8, <1>10, <1>11, <1>12 DEF Located

(* Where it begins, and that reading changes nothing of what was           *)
(* validated.                                                              *)
LEMMA NoneCounted == Counted(<<>>, 0, 0, Extended) /\ FirstCharacter(<<>>, Extended) = 0
<1>1. <<>> \in Strings /\ Len(<<>>) = 0
  BY DEF Strings
<1>2. FirstCharacter(<<>>, Extended) = 0
  <2>1. FirstCharacter(<<>>, Extended) \in 0 .. Len(<<>>)
    BY <1>1, FirstIs
  <2> QED
    BY ONLY <1>1, <2>1
<1>3. Cut(<<>>, 0, 0, {0}, Extended) /\ Cardinality({0}) = 0 + 1
  <2>1. Cardinality({0}) = 1
    BY FS_Singleton
  <2>2. \A a, b \in {0} : ~Neighbours({0}, a, b)
    BY DEF Neighbours
  <2>3. {0} \subseteq 0 .. 0
    OBVIOUS
  <2> QED
    BY ONLY <2>1, <2>2, <2>3 DEF Cut
<1> QED
  BY ONLY <1>2, <1>3 DEF Counted

LEMMA SameSlices ==
  ASSUME NEW s \in Strings, NEW b \in 0 .. 253, NEW a \in Nat, NEW m \in Nat, a <= m, m <= Len(s)
  PROVE  SubSeq(Append(s, b), a + 1, m) = SubSeq(s, a + 1, m)
<1>1. PICK n, t : n = Len(s) /\ n \in Nat /\ t = Append(s, b)
  BY StringFacts
<1>2. t \in Strings /\ Len(t) = n + 1 /\ \A i \in 1 .. n : t[i] = s[i]
  BY ONLY <1>1, Longer, s \in Strings, b \in 0 .. 253
<1>3. Slice(s, a, m) \in Strings /\ Len(Slice(s, a, m)) = m - a /\ \A i \in 1 .. m - a : Slice(s, a, m)[i] = s[a + i]
  BY ONLY SliceFacts, s \in Strings, a \in Nat, m \in Nat, a <= m, m <= Len(s)
<1>4. Slice(t, a, m) \in Strings /\ Len(Slice(t, a, m)) = m - a /\ \A i \in 1 .. m - a : Slice(t, a, m)[i] = t[a + i]
  <2>1. m <= Len(t)
    BY ONLY <1>1, <1>2, m \in Nat, m <= Len(s)
  <2> QED
    BY ONLY <1>2, <2>1, SliceFacts, a \in Nat, m \in Nat, a <= m
<1>5. ASSUME NEW i \in 1 .. m - a PROVE Slice(t, a, m)[i] = Slice(s, a, m)[i]
  <2>1. a + i \in 1 .. n
    BY ONLY <1>1, a \in Nat, m \in Nat, a <= m, m <= Len(s), i \in 1 .. m - a
  <2> QED
    BY ONLY <1>2, <1>3, <1>4, <2>1, i \in 1 .. m - a
<1>6. Slice(t, a, m) = Slice(s, a, m)
  BY ONLY <1>3, <1>4, <1>5, SameString
<1> QED
  BY ONLY <1>1, <1>6 DEF Slice

(* The inductive invariant: ChunksAgree, and that seen and ep lie in order *)
(* within the bytes read.                                                  *)
Utf8Inv ==
  /\ mem \in Strings /\ seen \in 0 .. Len(mem) /\ ep \in 0 .. seen /\ el \in Nat
  /\ Located(mem, seen, ep, el)
  /\ ok \in BOOLEAN /\ (ok <=> ep = seen \/ Completable(SubSeq(mem, ep + 1, seen)))

LEMMA InvAgrees == Utf8Inv => ChunksAgree
<1> SUFFICES ASSUME Utf8Inv PROVE ChunksAgree
  OBVIOUS
<1>1. mem \in Strings /\ seen \in Nat /\ ep \in Nat /\ ep <= seen /\ seen <= Len(mem) /\ Located(mem, seen, ep, el)
  BY StringFacts DEF Utf8Inv
<1>2. Locates([ep |-> ep, el |-> el], SubSeq(mem, 1, seen), Extended)
  BY ONLY <1>1, LocatedIs
<1> QED
  BY ONLY <1>2, Utf8Inv DEF Utf8Inv, ChunksAgree

LEMMA ReadKeeps ==
  ASSUME Utf8Inv, NEW b \in Bytes \cup FewBytes, Read(b)
  PROVE  Utf8Inv'
<1>1. b \in 0 .. 253
  BY BytesAssumption
<1>2. mem' = Append(mem, b) /\ seen' = seen /\ ep' = ep /\ el' = el /\ ok' = ok
  BY DEF Read
<1>3. PICK n, q, e : n = Len(mem) /\ q = seen /\ e = ep /\ n \in Nat /\ q \in Nat /\ e \in Nat /\ e <= q /\ q <= n
  BY StringFacts DEF Utf8Inv
<1>4. mem \in Strings
  BY DEF Utf8Inv
<1>5. PICK t : t = Append(mem, b)
  OBVIOUS
<1>6. t \in Strings /\ Len(t) = n + 1
  BY ONLY <1>1, <1>3, <1>4, <1>5, Longer
<1>7. 0 \in Nat /\ 0 <= q /\ q <= Len(mem) /\ e <= q /\ q <= Len(t) /\ 0 + 1 = 1
  BY ONLY <1>3, <1>6
<1>8. SubSeq(t, e + 1, q) = SubSeq(mem, e + 1, q)
  BY ONLY <1>1, <1>3, <1>4, <1>5, <1>7, SameSlices
<1>9. SubSeq(t, 0 + 1, q) = SubSeq(mem, 0 + 1, q)
  BY ONLY <1>1, <1>3, <1>4, <1>5, <1>7, SameSlices
<1>10. Located(t, q, e, el) <=> Located(mem, q, e, el)
  <2>1. Locates([ep |-> e, el |-> el], SubSeq(t, 1, q), Extended) <=> Located(t, q, e, el)
    BY ONLY <1>3, <1>6, <1>7, LocatedIs
  <2>2. Locates([ep |-> e, el |-> el], SubSeq(mem, 1, q), Extended) <=> Located(mem, q, e, el)
    BY ONLY <1>3, <1>4, <1>7, LocatedIs
  <2> QED
    BY ONLY <1>7, <1>9, <2>1, <2>2
<1>11. Located(mem, q, e, el) /\ el \in Nat /\ ok \in BOOLEAN /\ (ok <=> e = q \/ Completable(SubSeq(mem, e + 1, q)))
  BY ONLY <1>3, Utf8Inv DEF Utf8Inv
<1>12. q \in 0 .. Len(t) /\ e \in 0 .. q
  BY ONLY <1>3, <1>6
<1>13. mem' = t /\ seen' = q /\ ep' = e
  BY ONLY <1>2, <1>3, <1>5
<1> QED
  BY ONLY <1>2, <1>6, <1>8, <1>10, <1>11, <1>12, <1>13 DEF Utf8Inv

LEMMA ValidateKeeps ==
  ASSUME Utf8Inv, Validate
  PROVE  Utf8Inv'
<1>1. PICK s, n, e, l : s = mem /\ n = Len(mem) /\ e = ep /\ l = el
  OBVIOUS
<1>2. s \in Strings /\ n \in Nat /\ n = Len(s) /\ e \in Nat /\ e <= Len(s) /\ l \in Nat /\ Counted(s, e, l, Extended)
  BY <1>1, StringFacts DEF Utf8Inv, Located
<1>3. PICK r : r = is_utf8_fixed_width_buf_loclen(SubSeq(s, e + 1, Len(s)))
  OBVIOUS
<1>4. mem' = s /\ seen' = n /\ ep' = e + r.ep /\ el' = l + r.el /\ ok' = r.ok
  BY ONLY <1>1, <1>3, Validate DEF Validate
<1>5. PICK p, c : p = e + r.ep /\ c = l + r.el
  OBVIOUS
<1>6. /\ p \in Nat /\ p <= Len(s) /\ c \in Nat /\ Located(s, Len(s), p, c)
      /\ r.ok \in BOOLEAN /\ (r.ok <=> p = Len(s) \/ Completable(SubSeq(s, p + 1, Len(s))))
  BY ONLY <1>2, <1>3, <1>5, ValidatesMore
<1>7. n \in 0 .. Len(s) /\ p \in 0 .. n
  BY ONLY <1>2, <1>6
<1> QED
  BY ONLY <1>2, <1>4, <1>5, <1>6, <1>7 DEF Utf8Inv

-----------------------------------------------------------------------------
(* Hops: the bounds of the characters of a string.                         *)

(* Least and greatest elements.                                            *)
LEMMA LeastIs ==
  ASSUME NEW S \in SUBSET Nat, NEW p \in S, \A y \in S : p <= y
  PROVE  Min(S) = p
<1>1. PICK m : m = Min(S)
  OBVIOUS
<1>2. m \in S /\ \A y \in S : m <= y
  BY <1>1, LeastOf
<1>3. m <= p /\ p <= m /\ m \in Nat /\ p \in Nat
  BY ONLY <1>2, S \in SUBSET Nat, p \in S, \A y \in S : p <= y
<1> QED
  BY ONLY <1>1, <1>3

LEMMA GreatestOf ==
  ASSUME NEW n \in Nat, NEW S \in SUBSET (0 .. n), S # {}
  PROVE  Max(S) \in S /\ \A y \in S : y <= Max(S)
<1>1. PICK T : T = {n - x : x \in S}
  OBVIOUS
<1>2. T \in SUBSET Nat /\ T # {}
  <2>1. PICK x : x \in S
    BY ONLY S # {}
  <2>2. n - x \in T
    BY ONLY <1>1, <2>1
  <2>3. ASSUME NEW y \in T PROVE y \in Nat
    <3>1. PICK v \in S : y = n - v
      BY ONLY <1>1, y \in T
    <3>2. v \in 0 .. n
      BY ONLY v \in S, S \in SUBSET (0 .. n)
    <3> QED
      BY ONLY <3>1, <3>2, n \in Nat
  <2> QED
    BY ONLY <2>2, <2>3
<1>3. PICK k : k = Min(T)
  OBVIOUS
<1>4. k \in T /\ \A y \in T : k <= y
  BY ONLY <1>2, <1>3, LeastOf
<1>5. PICK m \in S : k = n - m
  BY ONLY <1>1, <1>4
<1>6. ASSUME NEW y \in S PROVE m >= y
  <2>1. n - y \in T
    BY ONLY <1>1, y \in S
  <2>2. n - m <= n - y
    BY ONLY <1>4, <1>5, <2>1
  <2>3. m \in 0 .. n /\ y \in 0 .. n
    BY ONLY S \in SUBSET (0 .. n), m \in S, y \in S
  <2> QED
    BY ONLY <2>2, <2>3, n \in Nat
<1>7. Max(S) \in S /\ \A y \in S : Max(S) >= y
  BY ONLY <1>6, m \in S DEF Max
<1>8. ASSUME NEW y \in S PROVE y <= Max(S)
  <2>1. PICK g : g = Max(S)
    OBVIOUS
  <2>2. g >= y /\ g \in 0 .. n /\ y \in 0 .. n
    BY ONLY <1>7, <2>1, S \in SUBSET (0 .. n), y \in S
  <2> QED
    BY ONLY <2>1, <2>2
<1> QED
  BY ONLY <1>7, <1>8

LEMMA GreatestIs ==
  ASSUME NEW n \in Nat, NEW S \in SUBSET (0 .. n), NEW p \in S, \A y \in S : y <= p
  PROVE  Max(S) = p
<1>1. PICK m : m = Max(S)
  OBVIOUS
<1>2. m \in S /\ \A y \in S : y <= m
  BY <1>1, GreatestOf
<1>3. m <= p /\ p <= m /\ m \in Nat /\ p \in Nat
  BY ONLY <1>2, S \in SUBSET (0 .. n), p \in S, \A y \in S : y <= p
<1> QED
  BY ONLY <1>1, <1>3

(* y is the element of B after x.                                          *)
Follows(B, x, y) == y \in B /\ Neighbours(B, x, y)

(* What stands between two neighbours in a cut of mem is a character.      *)
LEMMA CutStep ==
  ASSUME mem \in Strings, NEW n, n = Len(mem), NEW B, Cut(mem, 0, n, B, Extended),
         NEW x \in B, NEW y, Follows(B, x, y)
  PROVE  /\ UTF8SKIP(At(x)) \in Nat /\ y = x + UTF8SKIP(At(x)) /\ ~UTF8_IS_CONTINUATION(At(x))
         /\ \A z \in x + 1 .. y - 1 : UTF8_IS_CONTINUATION(At(z))
<1>1. n \in Nat /\ \A i \in 1 .. n : mem[i] \in 0 .. 253
  BY StringFacts
<1>2. x \in 0 .. n /\ y \in 0 .. n /\ x < y /\ Encodes(Slice(mem, x, y), Extended)
  BY DEF Cut, Follows, Neighbours
<1>3. PICK c : c = Slice(mem, x, y)
  OBVIOUS
<1>4. c \in Strings /\ Len(c) = y - x /\ \A i \in 1 .. y - x : c[i] = mem[x + i]
  <2>1. x \in Nat /\ y \in Nat /\ x <= y /\ y <= Len(mem)
    BY ONLY <1>1, <1>2, n = Len(mem)
  <2> QED
    BY ONLY <1>3, <2>1, SliceFacts, mem \in Strings
<1>5. Width(c[1]) = y - x /\ \A i \in 2 .. y - x : c[i] \in 128 .. 191
  BY ONLY <1>2, <1>3, <1>4 DEF Encodes, IsCharacter
<1>6. ASSUME NEW z \in 0 .. n - 1 PROVE At(z) = mem[z + 1]
  BY ONLY <1>1, n = Len(mem), z \in 0 .. n - 1 DEF At
<1>7. PICK f : f = At(x) /\ f = c[1] /\ f \in 0 .. 253
  <2>1. x \in 0 .. n - 1 /\ x + 1 \in 1 .. n /\ 1 \in 1 .. y - x
    BY ONLY <1>1, <1>2
  <2>2. At(x) = mem[x + 1] /\ c[1] = mem[x + 1]
    BY ONLY <1>4, <1>6, <2>1
  <2> QED
    BY ONLY <1>1, <2>1, <2>2
<1>8. PICK w : w = Width(f) /\ w = y - x /\ w > 0
  <2>1. y - x > 0
    BY ONLY <1>1, <1>2
  <2> QED
    BY ONLY <1>5, <1>7, <2>1
<1>9. w \in 1 .. 6 /\ f \notin 128 .. 191
  <2>1. Width(f) \in 0 .. 6 /\ (f \in 128 .. 191 => Width(f) = 0)
    <3>1. f \in 0 .. 253
      BY ONLY <1>7
    <3> QED
      BY ONLY <3>1, WidthFacts
  <2>2. w \in 0 .. 6 /\ w # 0
    BY ONLY <1>8, <2>1
  <2>3. w \in 1 .. 6
    BY ONLY <2>2
  <2> QED
    BY ONLY <1>8, <2>1, <2>2, <2>3
<1>10. UTF8SKIP(f) = w
  <2>1. f \in 0 .. 253 /\ Width(f) \in 1 .. 6
    BY ONLY <1>7, <1>8, <1>9
  <2>2. UTF8SKIP(f) = Width(f)
    BY ONLY <2>1, SkipMask
  <2> QED
    BY ONLY <1>8, <2>2
<1>11. y = x + w
  BY ONLY <1>1, <1>2, <1>8
<1>12. ASSUME NEW z \in x + 1 .. y - 1 PROVE UTF8_IS_CONTINUATION(At(z))
  <2>1. PICK i : i = z - x + 1
    OBVIOUS
  <2>2. i \in 2 .. y - x /\ i \in 1 .. y - x /\ z \in 0 .. n - 1 /\ x + i = z + 1
    BY ONLY <1>1, <1>2, <2>1, z \in x + 1 .. y - 1
  <2>3. At(z) = mem[z + 1] /\ c[i] = mem[x + i] /\ c[i] \in 128 .. 191
    BY ONLY <1>4, <1>5, <1>6, <2>2
  <2> QED
    BY ONLY <2>2, <2>3 DEF UTF8_IS_CONTINUATION
<1> QED
  BY ONLY <1>7, <1>9, <1>10, <1>11, <1>12 DEF UTF8_IS_CONTINUATION

(* Each bound but the last has one that follows, and so back.              *)
LEMMA HasNext ==
  ASSUME NEW n \in Nat, NEW B \in SUBSET (0 .. n), n \in B, NEW x \in 0 .. n, x # n
  PROVE  \E y : Follows(B, x, y)
<1>1. PICK S : S = {b \in B : x < b}
  OBVIOUS
<1>2. S \in SUBSET Nat /\ S # {}
  <2>1. B \in SUBSET Nat /\ x < n
    BY ONLY n \in Nat, B \in SUBSET (0 .. n), x \in 0 .. n, x # n
  <2> QED
    BY ONLY <1>1, <2>1, n \in B
<1>3. PICK y : y = Min(S)
  OBVIOUS
<1>4. y \in S /\ \A z \in S : y <= z
  BY ONLY <1>2, <1>3, LeastOf
<1>5. ASSUME NEW z \in B PROVE z <= x \/ y <= z
  BY ONLY <1>1, <1>4, z \in B, B \in SUBSET (0 .. n), x \in 0 .. n, n \in Nat
<1> QED
  BY ONLY <1>1, <1>4, <1>5 DEF Follows, Neighbours

(* y is the element of B before x.                                         *)
Precedes(B, x, y) == y \in B /\ y < x /\ \A z \in B : z <= y \/ x <= z

LEMMA HasLast ==
  ASSUME NEW n \in Nat, NEW B \in SUBSET (0 .. n), NEW x \in 0 .. n, NEW o \in B, o < x
  PROVE  \E y : Precedes(B, x, y)
<1>1. PICK S : S = {b \in B : b < x}
  OBVIOUS
<1>2. S \in SUBSET (0 .. n) /\ S # {}
  BY ONLY <1>1, o \in B, o < x, B \in SUBSET (0 .. n)
<1>3. PICK y : y = Max(S)
  OBVIOUS
<1>4. y \in S /\ \A z \in S : z <= y
  BY ONLY <1>2, <1>3, GreatestOf, n \in Nat
<1>5. ASSUME NEW z \in B PROVE z <= y \/ x <= z
  BY ONLY <1>1, <1>4, z \in B, B \in SUBSET (0 .. n), x \in 0 .. n, n \in Nat
<1> QED
  BY ONLY <1>1, <1>4, <1>5 DEF Precedes

(* The bounds of the characters in mem.                                    *)
Bounds(B, n) ==
  /\ n \in Nat /\ B \in SUBSET (0 .. n) /\ 0 \in B /\ n \in B
  /\ \A x \in 0 .. n : x \in B <=> ~UTF8_IS_CONTINUATION(At(x))
  /\ \A x \in B : x # n => UTF8SKIP(At(x)) \in Nat /\ Follows(B, x, x + UTF8SKIP(At(x)))
  /\ UTF8SKIP(At(n)) = 1

(* In a well-formed string, any cut is the set of the positions without a  *)
(* continuation byte: so there is one cut only.                            *)
LEMMA CutsAreBounds ==
  ASSUME mem \in Strings, NEW B \in Cuts(mem, Extended)
  PROVE  Bounds(B, Len(mem))
<1>1. PICK n : n = Len(mem) /\ n \in Nat
  BY StringFacts
<1>2. Cut(mem, 0, n, B, Extended)
  BY <1>1, CutsAreCut
<1>3. B \in SUBSET (0 .. n) /\ 0 \in B /\ n \in B
  BY ONLY <1>2 DEF Cut
<1>4. At(n) = 0
  BY ONLY <1>1 DEF At
<1>5. UTF8SKIP(At(n)) = 1 /\ ~UTF8_IS_CONTINUATION(At(n))
  <2>1. UTF8SKIP(0) = 1
    <3>1. PICK z : z = 0
      OBVIOUS
    <3>2. z \in 0 .. 253 /\ Width(z) = 1
      BY ONLY <3>1, WidthFacts
    <3>3. UTF8SKIP(z) = Width(z)
      BY ONLY <3>2, SkipMask
    <3> QED
      BY ONLY <3>1, <3>2, <3>3
  <2> QED
    BY ONLY <1>4, <2>1 DEF UTF8_IS_CONTINUATION
<1>6. ASSUME NEW x \in B, x # n
      PROVE  UTF8SKIP(At(x)) \in Nat /\ Follows(B, x, x + UTF8SKIP(At(x))) /\ ~UTF8_IS_CONTINUATION(At(x))
  <2>1. x \in 0 .. n
    BY ONLY <1>3, x \in B
  <2>2. PICK y : Follows(B, x, y)
    BY ONLY <1>1, <1>3, <1>6, <2>1, HasNext
  <2>3. UTF8SKIP(At(x)) \in Nat /\ y = x + UTF8SKIP(At(x)) /\ ~UTF8_IS_CONTINUATION(At(x))
    BY ONLY <1>1, <1>2, <2>2, CutStep, mem \in Strings, x \in B
  <2> QED
    BY ONLY <2>2, <2>3
<1>7. ASSUME NEW x \in 0 .. n, x \notin B PROVE UTF8_IS_CONTINUATION(At(x))
  <2>1. x # 0 /\ x # n
    BY ONLY <1>3, <1>7
  <2>2. PICK a \in B : a < x /\ \A z \in B : z <= a \/ x <= z
    <3>1. PICK o \in B : o < x
      BY ONLY <1>1, <1>3, <2>1, x \in 0 .. n
    <3>2. PICK a : Precedes(B, x, a)
      BY ONLY <1>1, <1>3, <3>1, HasLast, x \in 0 .. n
    <3> QED
      BY ONLY <3>2 DEF Precedes
  <2>3. PICK b : Follows(B, x, b)
    BY ONLY <1>1, <1>3, <2>1, HasNext, x \in 0 .. n
  <2>4. b \in B /\ x < b /\ \A z \in B : z <= x \/ b <= z
    BY ONLY <2>3 DEF Follows, Neighbours
  <2>5. a \in 0 .. n /\ b \in 0 .. n
    BY ONLY <1>3, <2>4, a \in B
  <2>6. ASSUME NEW z \in B PROVE z <= a \/ b <= z
    <3>1. z \in 0 .. n /\ z # x
      BY ONLY <1>3, <1>7, z \in B
    <3>2. z <= a \/ x <= z
      BY ONLY <2>2, z \in B
    <3>3. z <= x \/ b <= z
      BY ONLY <2>4, z \in B
    <3> QED
      BY ONLY <1>1, <2>5, <3>1, <3>2, <3>3, x \in 0 .. n
  <2>7. Follows(B, a, b)
    <3>1. a < b
      BY ONLY <1>1, <2>2, <2>4, <2>5, x \in 0 .. n
    <3> QED
      BY ONLY <2>4, <2>6, <3>1 DEF Follows, Neighbours
  <2>8. \A z \in a + 1 .. b - 1 : UTF8_IS_CONTINUATION(At(z))
    BY ONLY <1>1, <1>2, <2>7, CutStep, mem \in Strings, a \in B
  <2>9. x \in a + 1 .. b - 1
    BY ONLY <1>1, <2>2, <2>4, <2>5, x \in 0 .. n
  <2> QED
    BY ONLY <2>8, <2>9
<1> QED
  BY ONLY <1>1, <1>3, <1>5, <1>6, <1>7 DEF Bounds

-----------------------------------------------------------------------------
(* Counting the bounds that a hop has passed.                              *)

(* How counts grow with a set.                                             *)
LEMMA CardFacts ==
  ASSUME NEW n \in Nat, NEW S \in SUBSET (0 .. n), NEW T \in SUBSET S
  PROVE  /\ Cardinality(T) \in Nat /\ Cardinality(S) \in Nat /\ Cardinality(T) <= Cardinality(S)
         /\ \A x \in S : x \notin T => Cardinality(T) < Cardinality(S)
         /\ \A x : x \notin T /\ S = T \cup {x} => Cardinality(S) = Cardinality(T) + 1
<1>1. IsFiniteSet(0 .. n)
  BY FS_Interval
<1>2. IsFiniteSet(S)
  BY ONLY <1>1, S \in SUBSET (0 .. n), FS_Subset
<1>3. IsFiniteSet(T) /\ Cardinality(T) <= Cardinality(S) /\ (Cardinality(S) = Cardinality(T) => S = T)
  BY ONLY <1>2, T \in SUBSET S, FS_Subset
<1>4. Cardinality(T) \in Nat /\ Cardinality(S) \in Nat
  BY ONLY <1>2, <1>3, FS_CardinalityType
<1>5. ASSUME NEW x, x \notin T, S = T \cup {x} PROVE Cardinality(S) = Cardinality(T) + 1
  BY ONLY <1>3, <1>5, FS_AddElement
<1> QED
  BY ONLY <1>3, <1>4, <1>5

(* The bounds between s and p, on either side of s.                        *)
Passed(B, s, p) == {a \in B : s < a /\ a <= p}
Returned(B, s, p) == {a \in B : p <= a /\ a < s}

(* The number of bounds passed: none at first, one more with each bound.   *)
LEMMA PassedNone ==
  ASSUME NEW n \in Nat, NEW B \in SUBSET (0 .. n), NEW s \in 0 .. n
  PROVE  Cardinality(Passed(B, s, s)) = 0 /\ Cardinality(Returned(B, s, s)) = 0
<1>1. Passed(B, s, s) = {} /\ Returned(B, s, s) = {}
  <2>1. ASSUME NEW a \in B PROVE ~(s < a /\ a <= s) /\ ~(s <= a /\ a < s)
    <3>1. a \in 0 .. n
      BY ONLY a \in B, B \in SUBSET (0 .. n)
    <3> QED
      BY ONLY <3>1, n \in Nat, s \in 0 .. n
  <2> QED
    BY ONLY <2>1 DEF Passed, Returned
<1> QED
  BY ONLY <1>1, FS_EmptySet

LEMMA PassedMore ==
  ASSUME NEW n \in Nat, NEW B \in SUBSET (0 .. n), NEW s \in 0 .. n, NEW p \in 0 .. n,
         NEW q \in 0 .. n, p <= q
  PROVE  /\ Cardinality(Passed(B, s, p)) \in Nat /\ Cardinality(Passed(B, s, q)) \in Nat
         /\ Cardinality(Passed(B, s, p)) <= Cardinality(Passed(B, s, q))
         /\ p < q /\ s < q /\ q \in B => Cardinality(Passed(B, s, p)) < Cardinality(Passed(B, s, q))
         /\ s <= p /\ Follows(B, p, q) => Cardinality(Passed(B, s, q)) = Cardinality(Passed(B, s, p)) + 1
<1>1. PICK S, T : S = Passed(B, s, q) /\ T = Passed(B, s, p)
  OBVIOUS
<1>2. S \in SUBSET (0 .. n) /\ T \in SUBSET S
  <2>1. ASSUME NEW a \in B PROVE a \in 0 .. n /\ (a <= p => a <= q)
    <3>1. a \in 0 .. n
      BY ONLY a \in B, B \in SUBSET (0 .. n)
    <3> QED
      BY ONLY <3>1, n \in Nat, p \in 0 .. n, q \in 0 .. n, p <= q
  <2> QED
    BY ONLY <1>1, <2>1 DEF Passed
<1>3. p < q /\ s < q /\ q \in B => q \in S /\ q \notin T
  BY ONLY <1>1, p \in 0 .. n, q \in 0 .. n DEF Passed
<1>4. ASSUME s <= p, Follows(B, p, q) PROVE q \notin T /\ S = T \cup {q}
  <2>1. q \in B /\ p < q /\ \A z \in B : z <= p \/ q <= z
    BY ONLY <1>4 DEF Follows, Neighbours
  <2>2. ASSUME NEW z \in B PROVE s < z /\ z <= q <=> (s < z /\ z <= p) \/ z = q
    BY ONLY <1>4, <2>1, z \in B, B \in SUBSET (0 .. n), s \in 0 .. n, p \in 0 .. n, q \in 0 .. n
  <2>3. q \notin T
    BY ONLY <1>1, <2>1, p \in 0 .. n, q \in 0 .. n DEF Passed
  <2> QED
    BY ONLY <1>1, <2>1, <2>2, <2>3 DEF Passed
<1>5. /\ Cardinality(T) \in Nat /\ Cardinality(S) \in Nat /\ Cardinality(T) <= Cardinality(S)
      /\ \A x \in S : x \notin T => Cardinality(T) < Cardinality(S)
      /\ \A x : x \notin T /\ S = T \cup {x} => Cardinality(S) = Cardinality(T) + 1
  BY ONLY <1>2, CardFacts, n \in Nat
<1> QED
  BY ONLY <1>1, <1>3, <1>4, <1>5

LEMMA ReturnedMore ==
  ASSUME NEW n \in Nat, NEW B \in SUBSET (0 .. n), NEW s \in 0 .. n, NEW p \in 0 .. n,
         NEW q \in 0 .. n, q <= p
  PROVE  /\ Cardinality(Returned(B, s, p)) \in Nat /\ Cardinality(Returned(B, s, q)) \in Nat
         /\ Cardinality(Returned(B, s, p)) <= Cardinality(Returned(B, s, q))
         /\ q < p /\ q < s /\ q \in B => Cardinality(Returned(B, s, p)) < Cardinality(Returned(B, s, q))
         /\ p <= s /\ Precedes(B, p, q) => Cardinality(Returned(B, s, q)) = Cardinality(Returned(B, s, p)) + 1
<1>1. PICK S, T : S = Returned(B, s, q) /\ T = Returned(B, s, p)
  OBVIOUS
<1>2. S \in SUBSET (0 .. n) /\ T \in SUBSET S
  <2>1. ASSUME NEW a \in B PROVE a \in 0 .. n /\ (p <= a => q <= a)
    <3>1. a \in 0 .. n
      BY ONLY a \in B, B \in SUBSET (0 .. n)
    <3> QED
      BY ONLY <3>1, n \in Nat, p \in 0 .. n, q \in 0 .. n, q <= p
  <2> QED
    BY ONLY <1>1, <2>1 DEF Returned
<1>3. q < p /\ q < s /\ q \in B => q \in S /\ q \notin T
  BY ONLY <1>1, p \in 0 .. n, q \in 0 .. n DEF Returned
<1>4. ASSUME p <= s, Precedes(B, p, q) PROVE q \notin T /\ S = T \cup {q}
  <2>1. q \in B /\ q < p /\ \A z \in B : z <= q \/ p <= z
    BY ONLY <1>4 DEF Precedes
  <2>2. ASSUME NEW z \in B PROVE q <= z /\ z < s <=> (p <= z /\ z < s) \/ z = q
    BY ONLY <1>4, <2>1, z \in B, B \in SUBSET (0 .. n), s \in 0 .. n, p \in 0 .. n, q \in 0 .. n
  <2>3. q \notin T
    BY ONLY <1>1, <2>1, p \in 0 .. n, q \in 0 .. n DEF Returned
  <2> QED
    BY ONLY <1>1, <2>1, <2>2, <2>3 DEF Returned
<1>5. /\ Cardinality(T) \in Nat /\ Cardinality(S) \in Nat /\ Cardinality(T) <= Cardinality(S)
      /\ \A x \in S : x \notin T => Cardinality(T) < Cardinality(S)
      /\ \A x : x \notin T /\ S = T \cup {x} => Cardinality(S) = Cardinality(T) + 1
  BY ONLY <1>2, CardFacts, n \in Nat
<1> QED
  BY ONLY <1>1, <1>3, <1>4, <1>5

(* After i characters a hop from s is at p, or at the end before that.     *)
Forth(B, n, s, i, p) ==
  /\ p \in B /\ s <= p
  /\ \/ Cardinality(Passed(B, s, p)) = i
     \/ p = n /\ Cardinality(Passed(B, s, p)) <= i
Back(B, s, i, p) ==
  /\ p <= s /\ (p \in B \/ p = s)
  /\ \/ Cardinality(Returned(B, s, p)) = i
     \/ p = 0 /\ Cardinality(Returned(B, s, p)) <= i

(* A turn of each loop keeps that, and it determines where a hop ends.     *)
LEMMA ForthStep ==
  ASSUME NEW n, NEW B, Bounds(B, n), NEW s \in 0 .. n, NEW i \in Nat, NEW p, Forth(B, n, s, i, p),
         NEW j, j = i + 1,
         NEW q, q = IF n - p \in 0 .. UTF8SKIP(At(p)) THEN n ELSE p + UTF8SKIP(At(p))
  PROVE  Forth(B, n, s, j, q)
<1>1. n \in Nat /\ B \in SUBSET (0 .. n) /\ n \in B /\ p \in B /\ s <= p /\ p \in 0 .. n
  BY DEF Bounds, Forth
<1>2. CASE p = n
  <2>1. UTF8SKIP(At(p)) = 1
    BY <1>2 DEF Bounds
  <2>2. q = n
    BY ONLY <1>1, <1>2, <2>1, q = IF n - p \in 0 .. UTF8SKIP(At(p)) THEN n ELSE p + UTF8SKIP(At(p))
  <2>3. Cardinality(Passed(B, s, p)) \in Nat
    BY ONLY <1>1, PassedMore, s \in 0 .. n
  <2>4. Cardinality(Passed(B, s, p)) <= j
    BY ONLY <2>3, j = i + 1, i \in Nat, <1>2, Forth(B, n, s, i, p) DEF Forth
  <2> QED
    BY ONLY <1>1, <1>2, <2>2, <2>4 DEF Forth
<1>3. CASE p # n
  <2>1. PICK y : UTF8SKIP(At(p)) \in Nat /\ y = p + UTF8SKIP(At(p)) /\ Follows(B, p, y)
    BY <1>1, <1>3 DEF Bounds
  <2>2. y \in B /\ y \in 0 .. n /\ p < y
    BY ONLY <1>1, <2>1 DEF Follows, Neighbours
  <2>3. q = y
    <3>1. UTF8SKIP(At(p)) \in Nat /\ (n - p <= UTF8SKIP(At(p)) => y = n)
      <4>1. UTF8SKIP(At(p)) = y - p
        BY ONLY <1>1, <2>1, <2>2
      <4> QED
        BY ONLY <1>1, <2>2, <4>1
    <3>2. n - p \in 0 .. UTF8SKIP(At(p)) => y = n
      BY ONLY <3>1
    <3> QED
      BY ONLY <2>1, <3>2, q = IF n - p \in 0 .. UTF8SKIP(At(p)) THEN n ELSE p + UTF8SKIP(At(p))
  <2>4. Cardinality(Passed(B, s, y)) = Cardinality(Passed(B, s, p)) + 1
    <3>1. p <= y
      BY ONLY <1>1, <2>2
    <3> QED
      BY ONLY <1>1, <2>1, <2>2, <3>1, PassedMore, s \in 0 .. n
  <2>5. Cardinality(Passed(B, s, y)) = j
    BY ONLY <1>3, <2>4, j = i + 1, Forth(B, n, s, i, p) DEF Forth
  <2>6. s <= y
    BY ONLY <1>1, <2>2, s \in 0 .. n
  <2> QED
    BY ONLY <2>2, <2>3, <2>5, <2>6 DEF Forth
<1> QED
  BY <1>2, <1>3

LEMMA ForthEnd ==
  ASSUME NEW n, NEW B, Bounds(B, n), NEW s \in 0 .. n, NEW k \in Nat, k > 0, NEW p,
         Forth(B, n, s, k, p),
         NEW S, S = {n} \cup {b \in B : s < b /\ Cardinality(Passed(B, s, b)) = k}
  PROVE  Min(S) = p
<1>1. n \in Nat /\ B \in SUBSET (0 .. n) /\ n \in B /\ p \in B /\ s <= p /\ p \in 0 .. n
  BY DEF Bounds, Forth
<1>2. S \in SUBSET Nat
  <2>1. B \in SUBSET Nat
    BY ONLY <1>1
  <2> QED
    BY ONLY <1>1, <2>1, S = {n} \cup {b \in B : s < b /\ Cardinality(Passed(B, s, b)) = k}
<1>3. p \in S
  <2>1. p = s => Cardinality(Passed(B, s, p)) = 0
    BY ONLY <1>1, PassedNone, s \in 0 .. n
  <2>2. p # n => Cardinality(Passed(B, s, p)) = k
    BY ONLY Forth(B, n, s, k, p) DEF Forth
  <2>3. p # n => s < p
    BY ONLY <1>1, <2>1, <2>2, s \in 0 .. n, k \in Nat, k > 0
  <2> QED
    BY ONLY <1>1, <2>2, <2>3, S = {n} \cup {b \in B : s < b /\ Cardinality(Passed(B, s, b)) = k}
<1>4. ASSUME NEW y \in S PROVE p <= y
  <2>1. y \in B /\ (y # n => s < y /\ Cardinality(Passed(B, s, y)) = k)
    BY ONLY <1>1, y \in S, S = {n} \cup {b \in B : s < b /\ Cardinality(Passed(B, s, b)) = k}
  <2>2. y \in 0 .. n
    BY ONLY <1>1, <2>1
  <2>3. ASSUME y < p PROVE FALSE
    <3>1. y # n /\ y <= p /\ s < p
      BY ONLY <1>1, <2>1, <2>2, <2>3, s \in 0 .. n
    <3>2. Cardinality(Passed(B, s, y)) < Cardinality(Passed(B, s, p)) /\ Cardinality(Passed(B, s, p)) \in Nat
      BY ONLY <1>1, <2>2, <2>3, <3>1, PassedMore, s \in 0 .. n
    <3>3. Cardinality(Passed(B, s, p)) <= k
      BY ONLY <3>2, k \in Nat, Forth(B, n, s, k, p) DEF Forth
    <3> QED
      BY ONLY <2>1, <3>1, <3>2, <3>3, k \in Nat
  <2> QED
    BY ONLY <1>1, <2>2, <2>3
<1> QED
  BY ONLY <1>2, <1>3, <1>4, LeastIs

LEMMA BackStep ==
  ASSUME NEW n, NEW B, Bounds(B, n), NEW s \in 0 .. n, NEW i \in Nat, NEW p \in 0 .. n,
         Back(B, s, i, p),
         NEW j, j = i + 1, NEW q, IF p = 0 THEN q = p ELSE Precedes(B, p, q)
  PROVE  q \in 0 .. n /\ Back(B, s, j, q)
<1>1. n \in Nat /\ B \in SUBSET (0 .. n) /\ 0 \in B /\ p <= s
  BY DEF Bounds, Back
<1>2. CASE p = 0
  <2>1. Cardinality(Returned(B, s, p)) \in Nat
    BY ONLY <1>1, ReturnedMore, s \in 0 .. n, p \in 0 .. n
  <2>2. Cardinality(Returned(B, s, p)) <= j
    BY ONLY <2>1, j = i + 1, i \in Nat, Back(B, s, i, p) DEF Back
  <2>3. q = p
    BY ONLY <1>2, IF p = 0 THEN q = p ELSE Precedes(B, p, q)
  <2> QED
    BY ONLY <1>1, <1>2, <2>2, <2>3, p \in 0 .. n DEF Back
<1>3. CASE p # 0
  <2>1. Precedes(B, p, q)
    BY ONLY <1>3, IF p = 0 THEN q = p ELSE Precedes(B, p, q)
  <2>2. q \in B /\ q \in 0 .. n /\ q < p
    BY ONLY <1>1, <2>1 DEF Precedes
  <2>3. q <= p /\ q <= s
    BY ONLY <1>1, <2>2, s \in 0 .. n, p \in 0 .. n
  <2>4. Cardinality(Returned(B, s, q)) = Cardinality(Returned(B, s, p)) + 1
    BY ONLY <1>1, <2>1, <2>2, <2>3, ReturnedMore, s \in 0 .. n, p \in 0 .. n
  <2>5. Cardinality(Returned(B, s, q)) = j
    BY ONLY <1>3, <2>4, j = i + 1, Back(B, s, i, p) DEF Back
  <2> QED
    BY ONLY <2>2, <2>3, <2>5 DEF Back
<1> QED
  BY <1>2, <1>3

LEMMA BackEnd ==
  ASSUME NEW n, NEW B, Bounds(B, n), NEW s \in 0 .. n, NEW k \in Nat, k > 0, NEW p \in 0 .. n,
         Back(B, s, k, p),
         NEW S, S = {0} \cup {b \in B : b < s /\ Cardinality(Returned(B, s, b)) = k}
  PROVE  Max(S) = p
<1>1. n \in Nat /\ B \in SUBSET (0 .. n) /\ 0 \in B /\ p <= s
  BY DEF Bounds, Back
<1>2. S \in SUBSET (0 .. n)
  BY ONLY <1>1, S = {0} \cup {b \in B : b < s /\ Cardinality(Returned(B, s, b)) = k}
<1>3. p # 0 => p \in B /\ p < s /\ Cardinality(Returned(B, s, p)) = k
  <2>1. p = s => Cardinality(Returned(B, s, p)) = 0
    BY ONLY <1>1, PassedNone, s \in 0 .. n
  <2>2. p # 0 => Cardinality(Returned(B, s, p)) = k
    BY ONLY Back(B, s, k, p) DEF Back
  <2>3. p # 0 => p < s
    BY ONLY <1>1, <2>1, <2>2, s \in 0 .. n, p \in 0 .. n, k \in Nat, k > 0
  <2>4. p # 0 => p \in B
    BY ONLY <1>1, <2>3, s \in 0 .. n, Back(B, s, k, p) DEF Back
  <2> QED
    BY ONLY <2>2, <2>3, <2>4
<1>4. p \in S
  BY ONLY <1>3, S = {0} \cup {b \in B : b < s /\ Cardinality(Returned(B, s, b)) = k}
<1>5. ASSUME NEW y \in S PROVE y <= p
  <2>1. y \in B /\ (y # 0 => y < s /\ Cardinality(Returned(B, s, y)) = k)
    BY ONLY <1>1, y \in S, S = {0} \cup {b \in B : b < s /\ Cardinality(Returned(B, s, b)) = k}
  <2>2. y \in 0 .. n
    BY ONLY <1>1, <2>1
  <2>3. ASSUME p < y PROVE FALSE
    <3>1. y # 0 /\ p <= y /\ p < s
      BY ONLY <1>1, <2>1, <2>2, <2>3, s \in 0 .. n, p \in 0 .. n
    <3>2. p \in B
      BY ONLY <1>1, <1>3
    <3>3. Cardinality(Returned(B, s, y)) < Cardinality(Returned(B, s, p)) /\ Cardinality(Returned(B, s, p)) \in Nat
      BY ONLY <1>1, <2>2, <2>3, <3>1, <3>2, ReturnedMore, s \in 0 .. n, p \in 0 .. n
    <3>4. Cardinality(Returned(B, s, p)) <= k
      BY ONLY <3>3, k \in Nat, Back(B, s, k, p) DEF Back
    <3> QED
      BY ONLY <2>1, <3>1, <3>3, <3>4, k \in Nat
  <2> QED
    BY ONLY <1>1, <2>2, <2>3, p \in 0 .. n
<1> QED
  BY ONLY <1>1, <1>2, <1>4, <1>5, GreatestIs

-----------------------------------------------------------------------------
(* The loops of the hop functions.                                         *)

(* Looking for a byte that is no continuation byte finds the next bound.   *)
LEMMA StartsAre ==
  ASSUME NEW n, n = Len(mem), NEW B, Bounds(B, n), NEW p \in 0 .. n, p # 0
  PROVE  /\ Precedes(B, p, Max(StartsBefore(p)))
         /\ Max({0} \cup StartsBefore(p)) = Max(StartsBefore(p))
<1>1. n \in Nat /\ B \in SUBSET (0 .. n) /\ 0 \in B /\ \A x \in 0 .. n : x \in B <=> ~UTF8_IS_CONTINUATION(At(x))
  BY DEF Bounds
<1>2. PICK S : S = StartsBefore(p)
  OBVIOUS
<1>3. ASSUME NEW x PROVE x \in S <=> x \in B /\ x < p
  <2>1. x \in S <=> x \in 0 .. p - 1 /\ ~UTF8_IS_CONTINUATION(At(x))
    BY ONLY <1>2 DEF StartsBefore
  <2>2. x \in 0 .. p - 1 <=> x \in 0 .. n /\ x < p
    BY ONLY <1>1, p \in 0 .. n
  <2> QED
    BY ONLY <1>1, <2>1, <2>2
<1>4. S \in SUBSET (0 .. n) /\ 0 \in S
  <2>1. \A x \in S : x \in B
    BY ONLY <1>3
  <2>2. 0 < p
    BY ONLY <1>1, p \in 0 .. n, p # 0
  <2> QED
    BY ONLY <1>1, <1>3, <2>1, <2>2
<1>5. PICK m : m = Max(S)
  OBVIOUS
<1>6. m \in S /\ \A y \in S : y <= m
  BY ONLY <1>1, <1>4, <1>5, GreatestOf
<1>7. ASSUME NEW z \in B PROVE z <= m \/ p <= z
  <2>1. z \in 0 .. n
    BY ONLY <1>1, z \in B
  <2>2. z < p => z <= m
    BY ONLY <1>3, <1>6, z \in B
  <2> QED
    BY ONLY <1>1, <2>1, <2>2, p \in 0 .. n
<1>8. Precedes(B, p, m)
  BY ONLY <1>3, <1>6, <1>7 DEF Precedes
<1>9. {0} \cup S = S
  BY ONLY <1>4
<1> QED
  BY ONLY <1>2, <1>5, <1>8, <1>9

LEMMA NextStartIs ==
  ASSUME NEW n, n = Len(mem), NEW B, Bounds(B, n), NEW s \in 0 .. n, UTF8_IS_CONTINUATION(At(s)),
         NEW y, y = NextStart(s)
  PROVE  y \in B /\ s < y /\ Cardinality(Passed(B, s, y)) = 1
<1>1. n \in Nat /\ B \in SUBSET (0 .. n) /\ n \in B /\ \A x \in 0 .. n : x \in B <=> ~UTF8_IS_CONTINUATION(At(x))
  BY DEF Bounds
<1>2. s \notin B /\ s # n
  BY ONLY <1>1, s \in 0 .. n, UTF8_IS_CONTINUATION(At(s))
<1>3. PICK S : S = {i \in s + 1 .. n : ~UTF8_IS_CONTINUATION(At(i))}
  OBVIOUS
<1>4. y = Min(S)
  BY ONLY <1>3, n = Len(mem), y = NextStart(s) DEF NextStart
<1>5. ASSUME NEW x PROVE x \in S <=> x \in B /\ s < x
  <2>1. x \in s + 1 .. n <=> x \in 0 .. n /\ s < x
    BY ONLY <1>1, s \in 0 .. n
  <2> QED
    BY ONLY <1>1, <1>3, <2>1
<1>6. S \in SUBSET Nat
  <2>1. B \in SUBSET Nat
    BY ONLY <1>1
  <2> QED
    BY ONLY <1>5, <2>1
<1>7. n \in S
  BY ONLY <1>1, <1>2, <1>5, s \in 0 .. n
<1>8. y \in S /\ \A z \in S : y <= z
  BY ONLY <1>4, <1>6, <1>7, LeastOf
<1>9. y \in B /\ s < y /\ y \in 0 .. n
  BY ONLY <1>1, <1>5, <1>8
<1>10. Passed(B, s, y) = {y}
  <2>1. ASSUME NEW z \in B PROVE s < z /\ z <= y <=> z = y
    <3>1. z \in 0 .. n
      BY ONLY <1>1, z \in B
    <3>2. s < z => y <= z
      BY ONLY <1>5, <1>8, z \in B
    <3> QED
      BY ONLY <1>1, <1>9, <3>1, <3>2
  <2> QED
    BY ONLY <1>9, <2>1 DEF Passed
<1> QED
  BY ONLY <1>9, <1>10, FS_Singleton

(* By induction over the turns.                                            *)
LEMMA ForthLoop ==
  ASSUME NEW n, NEW B, Bounds(B, n), NEW s \in 0 .. n, NEW m \in Nat, NEW d \in Nat, NEW turn,
         \A i \in 1 .. m : \A p \in Nat :
           turn[i][p] = IF n - p \in 0 .. UTF8SKIP(At(p)) THEN n ELSE p + UTF8SKIP(At(p)),
         NEW x, Forth(B, n, s, d, x)
  PROVE  Forth(B, n, s, d + m, Loop(turn, m, x))
<1>1. B \in SUBSET (0 .. n) /\ n \in Nat
  BY DEF Bounds
<1>2. PICK S : S = [i \in 0 .. m |-> {p \in Nat : Forth(B, n, s, d + i, p)}]
  OBVIOUS
<1>3. ASSUME NEW i \in 0 .. m, NEW p PROVE p \in S[i] <=> Forth(B, n, s, d + i, p)
  <2>1. Forth(B, n, s, d + i, p) => p \in Nat
    BY ONLY <1>1 DEF Forth
  <2> QED
    BY ONLY <1>2, <2>1, i \in 0 .. m
<1>4. x \in S[0]
  <2>1. d + 0 = d /\ 0 \in 0 .. m
    BY ONLY d \in Nat, m \in Nat
  <2> QED
    BY ONLY <1>3, <2>1, Forth(B, n, s, d, x)
<1>5. ASSUME NEW i \in 1 .. m, NEW v \in S[i - 1] PROVE turn[i][v] \in S[i]
  <2>1. PICK k, j : k = d + (i - 1) /\ j = d + i
    OBVIOUS
  <2>2. k \in Nat /\ j = k + 1 /\ i - 1 \in 0 .. m /\ i \in 0 .. m
    BY ONLY <2>1, d \in Nat, m \in Nat, i \in 1 .. m
  <2>3. Forth(B, n, s, k, v)
    BY ONLY <1>3, <2>1, <2>2, v \in S[i - 1]
  <2>4. v \in Nat
    BY ONLY <1>1, <2>3 DEF Forth
  <2>5. PICK q : q = turn[i][v] /\ q = IF n - v \in 0 .. UTF8SKIP(At(v)) THEN n ELSE v + UTF8SKIP(At(v))
    BY <2>4
  <2>6. Forth(B, n, s, j, q)
    BY ONLY <2>2, <2>3, <2>5, ForthStep, Bounds(B, n), s \in 0 .. n
  <2> QED
    BY ONLY <1>3, <2>1, <2>2, <2>5, <2>6
<1>6. Loop(turn, m, x) \in S[m]
  BY ONLY <1>4, <1>5, LoopInvariant, m \in Nat
<1>7. m \in 0 .. m
  BY ONLY m \in Nat
<1> QED
  BY ONLY <1>3, <1>6, <1>7

(* Exactly i characters.                                                   *)
On(B, s, i, p) == p \in B /\ s <= p /\ Cardinality(Passed(B, s, p)) = i

LEMMA OnLoop ==
  ASSUME NEW n, NEW B, Bounds(B, n), NEW s \in 0 .. n, NEW m \in Nat, NEW d \in Nat, NEW turn,
         \A i \in 1 .. m : \A p \in Nat : turn[i][p] = p + UTF8SKIP(At(p)),
         NEW x, On(B, s, d, x), d + m <= Cardinality(Passed(B, s, n))
  PROVE  On(B, s, d + m, Loop(turn, m, x))
<1>1. B \in SUBSET (0 .. n) /\ n \in Nat
  BY DEF Bounds
<1>2. PICK S : S = [i \in 0 .. m |-> {p \in Nat : On(B, s, d + i, p)}]
  OBVIOUS
<1>3. ASSUME NEW i \in 0 .. m, NEW p PROVE p \in S[i] <=> On(B, s, d + i, p)
  <2>1. On(B, s, d + i, p) => p \in Nat
    BY ONLY <1>1 DEF On
  <2> QED
    BY ONLY <1>2, <2>1, i \in 0 .. m
<1>4. x \in S[0]
  <2>1. d + 0 = d /\ 0 \in 0 .. m
    BY ONLY d \in Nat, m \in Nat
  <2> QED
    BY ONLY <1>3, <2>1, On(B, s, d, x)
<1>5. ASSUME NEW i \in 1 .. m, NEW v \in S[i - 1] PROVE turn[i][v] \in S[i]
  <2>1. PICK k, j : k = d + (i - 1) /\ j = d + i
    OBVIOUS
  <2>2. k \in Nat /\ j = k + 1 /\ i - 1 \in 0 .. m /\ i \in 0 .. m /\ k < d + m
    BY ONLY <2>1, d \in Nat, m \in Nat, i \in 1 .. m
  <2>3. On(B, s, k, v)
    BY ONLY <1>3, <2>1, <2>2, v \in S[i - 1]
  <2>4. v \in B /\ v \in 0 .. n /\ s <= v /\ v \in Nat /\ Cardinality(Passed(B, s, v)) = k
    <3>1. v \in B /\ s <= v /\ Cardinality(Passed(B, s, v)) = k
      BY ONLY <2>3 DEF On
    <3>2. v \in 0 .. n
      BY ONLY <1>1, <3>1
    <3>3. v \in Nat
      BY ONLY <3>2
    <3> QED
      BY ONLY <3>1, <3>2, <3>3
  <2>5. v # n
    <3>1. n \in 0 .. n /\ n <= n
      BY ONLY <1>1
    <3>2. Cardinality(Passed(B, s, n)) \in Nat
      BY ONLY <1>1, <3>1, PassedMore, s \in 0 .. n
    <3>3. k < Cardinality(Passed(B, s, n))
      BY ONLY <2>2, <3>2, d \in Nat, m \in Nat, d + m <= Cardinality(Passed(B, s, n))
    <3> QED
      BY ONLY <2>2, <2>4, <3>3
  <2>6. PICK y : y = v + UTF8SKIP(At(v)) /\ Follows(B, v, y)
    BY <2>4, <2>5 DEF Bounds
  <2>7. y \in B /\ y \in 0 .. n /\ v <= y /\ s <= y
    <3>1. y \in B /\ v < y
      BY ONLY <2>6 DEF Follows, Neighbours
    <3> QED
      BY ONLY <1>1, <2>4, <3>1, s \in 0 .. n
  <2>8. Cardinality(Passed(B, s, y)) = Cardinality(Passed(B, s, v)) + 1
    BY ONLY <1>1, <2>4, <2>6, <2>7, PassedMore, s \in 0 .. n
  <2>9. On(B, s, j, y)
    BY ONLY <2>2, <2>4, <2>7, <2>8 DEF On
  <2>10. turn[i][v] = y
    BY <2>4, <2>6
  <2> QED
    BY ONLY <1>3, <2>1, <2>2, <2>9, <2>10
<1>6. Loop(turn, m, x) \in S[m]
  BY ONLY <1>4, <1>5, LoopInvariant, m \in Nat
<1>7. m \in 0 .. m
  BY ONLY m \in Nat
<1> QED
  BY ONLY <1>3, <1>6, <1>7

LEMMA BackLoop ==
  ASSUME NEW n, NEW B, Bounds(B, n), NEW s \in 0 .. n, NEW m \in Nat, NEW turn,
         \A i \in 1 .. m : \A p \in 0 .. n : IF p = 0 THEN turn[i][p] = p ELSE Precedes(B, p, turn[i][p])
  PROVE  Loop(turn, m, s) \in 0 .. n /\ Back(B, s, m, Loop(turn, m, s))
<1>1. B \in SUBSET (0 .. n) /\ n \in Nat
  BY DEF Bounds
<1>2. PICK S : S = [i \in 0 .. m |-> {p \in 0 .. n : Back(B, s, i, p)}]
  OBVIOUS
<1>3. s \in S[0]
  <2>1. Cardinality(Returned(B, s, s)) = 0
    BY ONLY <1>1, PassedNone, s \in 0 .. n
  <2>2. Back(B, s, 0, s)
    BY ONLY <1>1, <2>1, s \in 0 .. n DEF Back
  <2>3. 0 \in 0 .. m
    BY ONLY m \in Nat
  <2> QED
    BY ONLY <1>2, <2>2, <2>3, s \in 0 .. n
<1>4. ASSUME NEW i \in 1 .. m, NEW v \in S[i - 1] PROVE turn[i][v] \in S[i]
  <2>1. PICK k, q : k = i - 1 /\ q = turn[i][v]
    OBVIOUS
  <2>2. k \in Nat /\ i = k + 1 /\ k \in 0 .. m /\ i \in 0 .. m
    BY ONLY <2>1, m \in Nat, i \in 1 .. m
  <2>3. v \in 0 .. n /\ Back(B, s, k, v)
    BY ONLY <1>2, <2>1, <2>2, v \in S[i - 1]
  <2>4. IF v = 0 THEN q = v ELSE Precedes(B, v, q)
    BY <2>1, <2>3
  <2>5. q \in 0 .. n /\ Back(B, s, i, q)
    BY ONLY <2>2, <2>3, <2>4, BackStep, Bounds(B, n), s \in 0 .. n
  <2> QED
    BY ONLY <1>2, <2>1, <2>2, <2>5
<1>5. Loop(turn, m, s) \in S[m]
  BY ONLY <1>3, <1>4, LoopInvariant, m \in Nat
<1>6. m \in 0 .. m
  BY ONLY m \in Nat
<1> QED
  BY ONLY <1>2, <1>5, <1>6

(* Without limits: each turn finds a bound as long as there is one.        *)
LEMMA ReturnLoop ==
  ASSUME NEW n, NEW B, Bounds(B, n), NEW s \in 0 .. n, NEW m \in Nat, NEW turn,
         \A i \in 1 .. m : \A p \in 0 .. n : p # 0 => Precedes(B, p, turn[i][p]),
         m <= Cardinality(Returned(B, s, 0))
  PROVE  Loop(turn, m, s) \in 0 .. n /\ Back(B, s, m, Loop(turn, m, s))
<1>1. B \in SUBSET (0 .. n) /\ n \in Nat /\ 0 \in B
  BY DEF Bounds
<1> DEFINE Exact(i, p) == Cardinality(Returned(B, s, p)) = i /\ p <= s /\ (p \in B \/ p = s)
<1>2. PICK S : S = [i \in 0 .. m |-> {p \in 0 .. n : Exact(i, p)}]
  OBVIOUS
<1>3. s \in S[0]
  <2>1. Cardinality(Returned(B, s, s)) = 0
    BY ONLY <1>1, PassedNone, s \in 0 .. n
  <2>2. Exact(0, s)
    BY ONLY <1>1, <2>1, s \in 0 .. n
  <2>3. 0 \in 0 .. m
    BY ONLY m \in Nat
  <2> QED
    BY ONLY <1>2, <2>2, <2>3, s \in 0 .. n
<1>4. ASSUME NEW i \in 1 .. m, NEW v \in S[i - 1] PROVE turn[i][v] \in S[i]
  <2>1. PICK k, q : k = i - 1 /\ q = turn[i][v]
    OBVIOUS
  <2>2. k \in Nat /\ i = k + 1 /\ k \in 0 .. m /\ i \in 0 .. m /\ k < m
    BY ONLY <2>1, m \in Nat, i \in 1 .. m
  <2>3. v \in 0 .. n /\ Exact(k, v)
    BY ONLY <1>2, <2>1, <2>2, v \in S[i - 1]
  <2>4. v # 0
    <3>1. Cardinality(Returned(B, s, v)) = k
      BY ONLY <2>3
    <3>2. Cardinality(Returned(B, s, 0)) \in Nat
      <4>1. 0 \in 0 .. n /\ 0 <= n /\ n \in 0 .. n
        BY ONLY <1>1
      <4> QED
        BY ONLY <1>1, <4>1, ReturnedMore, s \in 0 .. n
    <3> QED
      BY ONLY <2>2, <3>1, <3>2, m \in Nat, m <= Cardinality(Returned(B, s, 0))
  <2>5. Precedes(B, v, q)
    BY <2>1, <2>3, <2>4
  <2>6. q \in B /\ q \in 0 .. n /\ q <= v /\ q <= s /\ v <= s
    <3>1. q \in B /\ q < v
      BY ONLY <2>5 DEF Precedes
    <3>2. v <= s
      BY ONLY <2>3
    <3> QED
      BY ONLY <1>1, <2>3, <3>1, <3>2, s \in 0 .. n
  <2>7. Cardinality(Returned(B, s, q)) = Cardinality(Returned(B, s, v)) + 1
    BY ONLY <1>1, <2>3, <2>5, <2>6, ReturnedMore, s \in 0 .. n
  <2>8. Exact(i, q)
    BY ONLY <2>2, <2>3, <2>6, <2>7
  <2> QED
    BY ONLY <1>2, <2>1, <2>2, <2>6, <2>8
<1>5. Loop(turn, m, s) \in S[m]
  <2> HIDE DEF Exact
  <2> QED
    BY ONLY <1>3, <1>4, LoopInvariant, m \in Nat
<1>6. m \in 0 .. m
  BY ONLY m \in Nat
<1> QED
  BY ONLY <1>2, <1>5, <1>6 DEF Back

-----------------------------------------------------------------------------
(* The hop functions.                                                      *)

(* The first bound of a hop forward: the rest of a character counts as     *)
(* one.                                                                    *)
LEMMA Starts ==
  ASSUME NEW n, n = Len(mem), NEW B, Bounds(B, n), NEW s \in 0 .. n
  PROVE  /\ UTF8_IS_CONTINUATION(At(s)) => On(B, s, 1, NextStart(s)) /\ Forth(B, n, s, 1, NextStart(s))
         /\ ~UTF8_IS_CONTINUATION(At(s)) => On(B, s, 0, s) /\ Forth(B, n, s, 0, s)
<1>1. n \in Nat /\ B \in SUBSET (0 .. n) /\ \A x \in 0 .. n : x \in B <=> ~UTF8_IS_CONTINUATION(At(x))
  BY DEF Bounds
<1>2. CASE UTF8_IS_CONTINUATION(At(s))
  <2>1. PICK y : y = NextStart(s)
    OBVIOUS
  <2>2. y \in B /\ s < y /\ Cardinality(Passed(B, s, y)) = 1
    BY ONLY <1>2, <2>1, NextStartIs, n = Len(mem), Bounds(B, n), s \in 0 .. n
  <2>3. s <= y
    <3>1. y \in 0 .. n
      BY ONLY <1>1, <2>2
    <3> QED
      BY ONLY <2>2, <3>1, s \in 0 .. n
  <2> QED
    BY ONLY <1>2, <2>1, <2>2, <2>3 DEF On, Forth
<1>3. CASE ~UTF8_IS_CONTINUATION(At(s))
  <2>1. s \in B /\ Cardinality(Passed(B, s, s)) = 0
    BY ONLY <1>1, <1>3, PassedNone, s \in 0 .. n
  <2>2. s <= s
    BY ONLY s \in 0 .. n
  <2> QED
    BY ONLY <1>3, <2>1, <2>2 DEF On, Forth
<1> QED
  BY ONLY <1>2, <1>3

(* Where each of the functions ends.                                       *)
LEMMA HopForward ==
  ASSUME NEW n, n = Len(mem), NEW B, Bounds(B, n), NEW s \in 0 .. n, NEW k \in Nat, k > 0
  PROVE  Forth(B, n, s, k, utf8_hop_forward(s, k, n))
<1>1. PICK turn : turn = [i \in 1 .. k |-> [p \in Nat |->
                           IF n - p \in 0 .. UTF8SKIP(At(p)) THEN n ELSE p + UTF8SKIP(At(p))]]
  OBVIOUS
<1>2. \A i \in 1 .. k : \A p \in Nat :
        turn[i][p] = IF n - p \in 0 .. UTF8SKIP(At(p)) THEN n ELSE p + UTF8SKIP(At(p))
  BY ONLY <1>1
<1>3. utf8_hop_forward(s, k, n) = IF UTF8_IS_CONTINUATION(At(s)) THEN Loop(turn, k - 1, NextStart(s)) ELSE Loop(turn, k, s)
  BY ONLY <1>1, k > 0 DEF utf8_hop_forward
<1>4. CASE UTF8_IS_CONTINUATION(At(s))
  <2>1. PICK m, x, d : m = k - 1 /\ x = NextStart(s) /\ d = 1
    OBVIOUS
  <2>2. m \in Nat /\ d \in Nat /\ d + m = k /\ \A i \in 1 .. m : i \in 1 .. k
    BY ONLY <2>1, k \in Nat, k > 0
  <2>3. Forth(B, n, s, d, x)
    BY ONLY <1>4, <2>1, Starts, n = Len(mem), Bounds(B, n), s \in 0 .. n
  <2>4. \A i \in 1 .. m : \A p \in Nat :
          turn[i][p] = IF n - p \in 0 .. UTF8SKIP(At(p)) THEN n ELSE p + UTF8SKIP(At(p))
    BY ONLY <1>2, <2>2
  <2>5. Forth(B, n, s, d + m, Loop(turn, m, x))
    BY ONLY <2>2, <2>3, <2>4, ForthLoop, Bounds(B, n), s \in 0 .. n
  <2> QED
    BY ONLY <1>3, <1>4, <2>1, <2>2, <2>5
<1>5. CASE ~UTF8_IS_CONTINUATION(At(s))
  <2>1. PICK d : d = 0 /\ d \in Nat /\ d + k = k
    BY ONLY k \in Nat
  <2>2. Forth(B, n, s, d, s)
    BY ONLY <1>5, <2>1, Starts, n = Len(mem), Bounds(B, n), s \in 0 .. n
  <2>3. Forth(B, n, s, d + k, Loop(turn, k, s))
    BY ONLY <1>2, <2>1, <2>2, ForthLoop, Bounds(B, n), s \in 0 .. n, k \in Nat
  <2> QED
    BY ONLY <1>3, <1>5, <2>1, <2>3
<1> QED
  BY ONLY <1>4, <1>5

LEMMA HopOn ==
  ASSUME NEW n, n = Len(mem), NEW B, Bounds(B, n), NEW s \in 0 .. n, NEW k \in Nat, k > 0,
         k <= Cardinality(Passed(B, s, n))
  PROVE  Forth(B, n, s, k, utf8_hop(s, k))
<1>1. PICK turn : turn = [i \in 1 .. k |-> [p \in Nat |-> p + UTF8SKIP(At(p))]]
  OBVIOUS
<1>2. \A i \in 1 .. k : \A p \in Nat : turn[i][p] = p + UTF8SKIP(At(p))
  BY ONLY <1>1
<1>3. utf8_hop(s, k) = IF UTF8_IS_CONTINUATION(At(s)) THEN Loop(turn, k - 1, NextStart(s)) ELSE Loop(turn, k, s)
  BY ONLY <1>1, k > 0 DEF utf8_hop
<1>4. On(B, s, k, utf8_hop(s, k))
  <2>1. CASE UTF8_IS_CONTINUATION(At(s))
    <3>1. PICK m, x, d : m = k - 1 /\ x = NextStart(s) /\ d = 1
      OBVIOUS
    <3>2. m \in Nat /\ d \in Nat /\ d + m = k /\ \A i \in 1 .. m : i \in 1 .. k
      BY ONLY <3>1, k \in Nat, k > 0
    <3>3. On(B, s, d, x)
      BY ONLY <2>1, <3>1, Starts, n = Len(mem), Bounds(B, n), s \in 0 .. n
    <3>4. \A i \in 1 .. m : \A p \in Nat : turn[i][p] = p + UTF8SKIP(At(p))
      BY ONLY <1>2, <3>2
    <3>5. d + m <= Cardinality(Passed(B, s, n))
      BY ONLY <3>2, k <= Cardinality(Passed(B, s, n))
    <3>6. On(B, s, d + m, Loop(turn, m, x))
      BY ONLY <3>2, <3>3, <3>4, <3>5, OnLoop, Bounds(B, n), s \in 0 .. n
    <3> QED
      BY ONLY <1>3, <2>1, <3>1, <3>2, <3>6
  <2>2. CASE ~UTF8_IS_CONTINUATION(At(s))
    <3>1. PICK d : d = 0 /\ d \in Nat /\ d + k = k
      BY ONLY k \in Nat
    <3>2. On(B, s, d, s)
      BY ONLY <2>2, <3>1, Starts, n = Len(mem), Bounds(B, n), s \in 0 .. n
    <3>3. d + k <= Cardinality(Passed(B, s, n))
      BY ONLY <3>1, k <= Cardinality(Passed(B, s, n))
    <3>4. On(B, s, d + k, Loop(turn, k, s))
      BY ONLY <1>2, <3>1, <3>2, <3>3, OnLoop, Bounds(B, n), s \in 0 .. n, k \in Nat
    <3> QED
      BY ONLY <1>3, <2>2, <3>1, <3>4
  <2> QED
    BY ONLY <2>1, <2>2
<1> QED
  BY ONLY <1>4 DEF On, Forth

LEMMA HopBack ==
  ASSUME NEW n, n = Len(mem), NEW B, Bounds(B, n), NEW s \in 0 .. n, NEW k \in Nat, k > 0,
         NEW off, off = -k
  PROVE  /\ utf8_hop_back(s, off) \in 0 .. n /\ Back(B, s, k, utf8_hop_back(s, off))
         /\ k <= Cardinality(Returned(B, s, 0)) => utf8_hop(s, off) \in 0 .. n /\ Back(B, s, k, utf8_hop(s, off))
<1>1. off < 0 /\ ~(off > 0) /\ -off = k
  BY k > 0
<1>2. n \in Nat /\ \A p \in 0 .. n : p \in Nat
  BY DEF Bounds
<1>3. ASSUME NEW p \in 0 .. n, p # 0
      PROVE  Precedes(B, p, Max(StartsBefore(p))) /\ Precedes(B, p, Max({0} \cup StartsBefore(p)))
  BY ONLY <1>3, StartsAre, n = Len(mem), Bounds(B, n)
<1>4. utf8_hop_back(s, off) \in 0 .. n /\ Back(B, s, k, utf8_hop_back(s, off))
  <2>1. PICK turn : turn = [i \in 1 .. k |-> [p \in Nat |-> IF p = 0 THEN p ELSE Max({0} \cup StartsBefore(p))]]
    OBVIOUS
  <2>2. utf8_hop_back(s, off) = Loop(turn, k, s)
    BY ONLY <1>1, <2>1 DEF utf8_hop_back
  <2>3. \A i \in 1 .. k : \A p \in 0 .. n : IF p = 0 THEN turn[i][p] = p ELSE Precedes(B, p, turn[i][p])
    BY ONLY <1>2, <1>3, <2>1
  <2> QED
    BY ONLY <2>2, <2>3, BackLoop, Bounds(B, n), s \in 0 .. n, k \in Nat
<1>5. ASSUME k <= Cardinality(Returned(B, s, 0))
      PROVE  utf8_hop(s, off) \in 0 .. n /\ Back(B, s, k, utf8_hop(s, off))
  <2>1. PICK turn : turn = [i \in 1 .. k |-> [p \in Nat |-> Max(StartsBefore(p))]]
    OBVIOUS
  <2>2. utf8_hop(s, off) = Loop(turn, k, s)
    BY ONLY <1>1, <2>1 DEF utf8_hop
  <2>3. \A i \in 1 .. k : \A p \in 0 .. n : p # 0 => Precedes(B, p, turn[i][p])
    BY ONLY <1>2, <1>3, <2>1
  <2> QED
    BY ONLY <1>5, <2>2, <2>3, ReturnLoop, Bounds(B, n), s \in 0 .. n, k \in Nat
<1> QED
  BY ONLY <1>4, <1>5

LEMMA HopNone ==
  ASSUME NEW n, NEW s, NEW off \in Int, off = 0
  PROVE  utf8_hop_safe(s, off, n) = s /\ utf8_hop(s, off) = s
<1>1. PICK m : m = -off /\ m = 0 /\ ~(off > 0) /\ off >= 0
  OBVIOUS
<1>2. \A turn : Loop(turn, 0, s) = s
  BY LoopNone
<1>3. utf8_hop_safe(s, off, n) = s
  BY ONLY <1>1, <1>2, off = 0 DEF utf8_hop_safe, utf8_hop_forward
<1>4. utf8_hop(s, off) = s
  BY ONLY <1>1, <1>2 DEF utf8_hop
<1> QED
  BY ONLY <1>3, <1>4

(* The bounds ahead of a hop on and of a hop back, and those off of them   *)
(* further on, with the limit.                                             *)
IsAhead(B, s, A) == A = {b \in B : b > s}
IsBehind(B, s, A) == A = {b \in B : b < s}
AreOn(end, A, k, T) == T = {end} \cup {b \in A : Cardinality({a \in A : a <= b}) = k}
AreBack(A, k, T) == T = {0} \cup {b \in A : Cardinality({a \in A : a >= b}) = k}

(* A hop on and a hop back, each with and without limit.                   *)
LEMMA HopAhead ==
  ASSUME NEW n, n = Len(mem), NEW B, Bounds(B, n), NEW s \in 0 .. n, NEW off \in Int, off > 0,
         NEW Ahead, IsAhead(B, s, Ahead), NEW T, AreOn(n, Ahead, off, T)
  PROVE  /\ utf8_hop_safe(s, off, n) = Min(T)
         /\ Cardinality(Ahead) >= off => utf8_hop(s, off) = Min(T)
<1>1. n \in Nat /\ B \in SUBSET (0 .. n) /\ off \in Nat
  BY DEF Bounds
<1>2. ASSUME NEW b PROVE {a \in Ahead : a <= b} = Passed(B, s, b)
  <2>1. \A a \in B : a > s <=> s < a
    BY ONLY <1>1, s \in 0 .. n
  <2> QED
    BY ONLY <2>1, IsAhead(B, s, Ahead) DEF IsAhead, Passed
<1>3. Ahead = Passed(B, s, n)
  <2>1. \A a \in B : (a > s <=> s < a) /\ a <= n
    BY ONLY <1>1, s \in 0 .. n
  <2> QED
    BY ONLY <2>1, IsAhead(B, s, Ahead) DEF IsAhead, Passed
<1>4. T = {n} \cup {b \in B : s < b /\ Cardinality(Passed(B, s, b)) = off}
  <2>1. \A b : b \in Ahead <=> b \in B /\ s < b
    <3>1. \A a \in B : a > s <=> s < a
      BY ONLY <1>1, s \in 0 .. n
    <3> QED
      BY ONLY <3>1, IsAhead(B, s, Ahead) DEF IsAhead
  <2> QED
    BY ONLY <1>2, <2>1, AreOn(n, Ahead, off, T) DEF AreOn
<1>5. ASSUME NEW p, Forth(B, n, s, off, p) PROVE p = Min(T)
  BY ONLY <1>1, <1>4, <1>5, ForthEnd, Bounds(B, n), s \in 0 .. n, off > 0
<1>6. utf8_hop_safe(s, off, n) = Min(T)
  <2>1. Forth(B, n, s, off, utf8_hop_forward(s, off, n))
    BY ONLY <1>1, HopForward, n = Len(mem), Bounds(B, n), s \in 0 .. n, off > 0
  <2>2. utf8_hop_safe(s, off, n) = utf8_hop_forward(s, off, n)
    <3>1. off >= 0
      BY ONLY <1>1
    <3> QED
      BY ONLY <3>1 DEF utf8_hop_safe
  <2> QED
    BY ONLY <1>5, <2>1, <2>2
<1>7. ASSUME Cardinality(Ahead) >= off PROVE utf8_hop(s, off) = Min(T)
  <2>1. off <= Cardinality(Passed(B, s, n))
    <3>1. n \in 0 .. n /\ n <= n
      BY ONLY <1>1
    <3>2. Cardinality(Passed(B, s, n)) \in Nat
      BY ONLY <1>1, <3>1, PassedMore, s \in 0 .. n
    <3> QED
      BY ONLY <1>1, <1>3, <1>7, <3>2
  <2>2. Forth(B, n, s, off, utf8_hop(s, off))
    BY ONLY <1>1, <2>1, HopOn, n = Len(mem), Bounds(B, n), s \in 0 .. n, off > 0
  <2> QED
    BY ONLY <1>5, <2>2
<1> QED
  BY ONLY <1>6, <1>7

LEMMA HopBehind ==
  ASSUME NEW n, n = Len(mem), NEW B, Bounds(B, n), NEW s \in 0 .. n, NEW off \in Int, off < 0,
         NEW Ahead, IsBehind(B, s, Ahead), NEW k, k = -off, NEW T, AreBack(Ahead, k, T)
  PROVE  /\ utf8_hop_safe(s, off, n) = Max(T)
         /\ Cardinality(Ahead) >= k => utf8_hop(s, off) = Max(T)
<1>1. n \in Nat /\ B \in SUBSET (0 .. n) /\ 0 \in B
  BY DEF Bounds
<1>2. k \in Nat /\ k > 0 /\ off = -k
  BY ONLY off \in Int, off < 0, k = -off
<1>3. \A b : b \in Ahead <=> b \in B /\ b < s
  BY ONLY IsBehind(B, s, Ahead) DEF IsBehind
<1>4. ASSUME NEW b \in B PROVE {a \in Ahead : a >= b} = Returned(B, s, b)
  <2>1. \A a \in B : a >= b <=> b <= a
    BY ONLY <1>1, b \in B
  <2> QED
    BY ONLY <1>3, <2>1 DEF Returned
<1>5. Ahead = Returned(B, s, 0)
  <2>1. \A a \in B : 0 <= a
    BY ONLY <1>1
  <2> QED
    BY ONLY <1>3, <2>1 DEF Returned
<1>6. T = {0} \cup {b \in B : b < s /\ Cardinality(Returned(B, s, b)) = k}
  <2>1. \A b : b \in T <=> b = 0 \/ (b \in Ahead /\ Cardinality({a \in Ahead : a >= b}) = k)
    BY ONLY AreBack(Ahead, k, T) DEF AreBack
  <2>2. ASSUME NEW b \in B PROVE Cardinality({a \in Ahead : a >= b}) = k <=> Cardinality(Returned(B, s, b)) = k
    BY ONLY <1>4, b \in B
  <2> QED
    BY ONLY <1>3, <2>1, <2>2
<1>7. ASSUME NEW p \in 0 .. n, Back(B, s, k, p) PROVE p = Max(T)
  BY ONLY <1>2, <1>6, <1>7, BackEnd, Bounds(B, n), s \in 0 .. n
<1>8. /\ utf8_hop_back(s, off) \in 0 .. n /\ Back(B, s, k, utf8_hop_back(s, off))
      /\ k <= Cardinality(Returned(B, s, 0)) => utf8_hop(s, off) \in 0 .. n /\ Back(B, s, k, utf8_hop(s, off))
  BY ONLY <1>2, HopBack, n = Len(mem), Bounds(B, n), s \in 0 .. n
<1>9. utf8_hop_safe(s, off, n) = Max(T)
  <2>1. ~(off >= 0)
    BY ONLY off \in Int, off < 0
  <2>2. utf8_hop_safe(s, off, n) = utf8_hop_back(s, off)
    BY ONLY <2>1 DEF utf8_hop_safe
  <2> QED
    BY ONLY <1>7, <1>8, <2>2
<1>10. ASSUME Cardinality(Ahead) >= k PROVE utf8_hop(s, off) = Max(T)
  <2>1. k <= Cardinality(Returned(B, s, 0))
    <3>1. Cardinality(Returned(B, s, 0)) \in Nat
      <4>1. 0 \in 0 .. n /\ 0 <= n /\ n \in 0 .. n
        BY ONLY <1>1
      <4> QED
        BY ONLY <1>1, <4>1, ReturnedMore, s \in 0 .. n
    <3> QED
      BY ONLY <1>2, <1>5, <1>10, <3>1
  <2> QED
    BY ONLY <1>7, <1>8, <2>1
<1> QED
  BY ONLY <1>9, <1>10

(* Both in the form of the property.                                       *)
Sides(B, s, off, k, A) == k = (IF off > 0 THEN off ELSE -off) /\ IF off > 0 THEN IsAhead(B, s, A) ELSE IsBehind(B, s, A)
Aims(off, s, F, G, t) == t = IF off = 0 THEN s ELSE IF off > 0 THEN Min(F) ELSE Max(G)

(* A hop of off characters from s.                                         *)
LEMMA HopCounts ==
  ASSUME mem \in Strings, NEW B \in Cuts(mem, Extended), NEW n, n = Len(mem), NEW s \in 0 .. n,
         NEW off \in Int,
         NEW k, NEW Ahead, Sides(B, s, off, k, Ahead),
         NEW F, AreOn(n, Ahead, k, F), NEW G, AreBack(Ahead, k, G),
         NEW target, Aims(off, s, F, G, target)
  PROVE  /\ utf8_hop_safe(s, off, n) = target
         /\ Cardinality(Ahead) >= k => utf8_hop(s, off) = target
<1>1. Bounds(B, n)
  BY CutsAreBounds
<1>2. CASE off = 0
  <2>1. utf8_hop_safe(s, off, n) = s /\ utf8_hop(s, off) = s
    BY ONLY <1>2, HopNone, off \in Int
  <2> QED
    BY ONLY <1>2, <2>1, Aims(off, s, F, G, target) DEF Aims
<1>3. CASE off > 0
  <2>1. off # 0 /\ k = off
    BY ONLY <1>3, off \in Int, Sides(B, s, off, k, Ahead) DEF Sides
  <2>2. target = Min(F) /\ IsAhead(B, s, Ahead) /\ AreOn(n, Ahead, off, F)
    BY ONLY <1>3, <2>1, Aims(off, s, F, G, target), Sides(B, s, off, k, Ahead),
       AreOn(n, Ahead, k, F) DEF Aims, Sides
  <2>3. /\ utf8_hop_safe(s, off, n) = Min(F)
        /\ Cardinality(Ahead) >= off => utf8_hop(s, off) = Min(F)
    BY ONLY <1>1, <1>3, <2>2, HopAhead, n = Len(mem), s \in 0 .. n, off \in Int
  <2> QED
    BY ONLY <2>1, <2>2, <2>3
<1>4. CASE off < 0
  <2>1. off # 0 /\ ~(off > 0) /\ k = -off
    BY ONLY <1>4, off \in Int, Sides(B, s, off, k, Ahead) DEF Sides
  <2>2. target = Max(G) /\ IsBehind(B, s, Ahead)
    BY ONLY <2>1, Aims(off, s, F, G, target), Sides(B, s, off, k, Ahead) DEF Aims, Sides
  <2>3. /\ utf8_hop_safe(s, off, n) = Max(G)
        /\ Cardinality(Ahead) >= k => utf8_hop(s, off) = Max(G)
    BY ONLY <1>1, <1>4, <2>1, <2>2, HopBehind, n = Len(mem), s \in 0 .. n, off \in Int,
       AreBack(Ahead, k, G)
  <2> QED
    BY ONLY <2>2, <2>3
<1> QED
  BY ONLY <1>2, <1>3, <1>4, off \in Int

(* All that HopsCount says, of any string in the buffer.                   *)
LEMMA HopsCounted ==
  ASSUME mem \in Strings
  PROVE  HopsCount
<1> DEFINE Ahead(B, s, off) == {b \in B : IF off > 0 THEN b > s ELSE b < s}
           Target(B, s, off) ==
             IF off = 0 THEN s
             ELSE IF off > 0
             THEN Min({Len(mem)} \cup {b \in Ahead(B, s, off) :
                                         Cardinality({a \in Ahead(B, s, off) : a <= b}) = off})
             ELSE Max({0} \cup {b \in Ahead(B, s, off) :
                                  Cardinality({a \in Ahead(B, s, off) : a >= b}) = -off})
           Good(B, s, off) ==
             /\ utf8_hop_safe(s, off, Len(mem)) = Target(B, s, off)
             /\ Cardinality(Ahead(B, s, off)) >= (IF off > 0 THEN off ELSE -off)
                  => utf8_hop(s, off) = Target(B, s, off)
<1>1. ASSUME NEW B \in Cuts(mem, Extended), NEW s \in 0 .. Len(mem), NEW off \in Int PROVE Good(B, s, off)
  <2>1. PICK n, A, k, f, g, t :
          /\ n = Len(mem) /\ A = Ahead(B, s, off) /\ k = (IF off > 0 THEN off ELSE -off)
          /\ AreOn(n, A, k, f) /\ AreBack(A, k, g) /\ Aims(off, s, f, g, t)
    BY DEF AreOn, AreBack, Aims
  <2>2. Sides(B, s, off, k, A)
    BY ONLY <2>1 DEF IsAhead, IsBehind, Sides
  <2>3. t = Target(B, s, off)
    BY ONLY <2>1 DEF AreOn, AreBack, Aims
  <2>4. utf8_hop_safe(s, off, n) = t /\ (Cardinality(A) >= k => utf8_hop(s, off) = t)
    <3>1. s \in 0 .. n /\ n = Len(mem) /\ AreOn(n, A, k, f) /\ AreBack(A, k, g) /\ Aims(off, s, f, g, t)
      BY ONLY <2>1, s \in 0 .. Len(mem)
    <3> QED
      BY ONLY <2>2, <3>1, HopCounts, mem \in Strings, B \in Cuts(mem, Extended), off \in Int
  <2> QED
    BY ONLY <2>1, <2>3, <2>4
<1>2. -MaxHop .. MaxHop \subseteq Int
  BY BoundsAssumption
<1>3. \A B \in Cuts(mem, Extended) : \A s \in 0 .. Len(mem), off \in -MaxHop .. MaxHop : Good(B, s, off)
  <2> HIDE DEF Good
  <2> QED
    BY ONLY <1>1, <1>2
<1> QED
  BY ONLY <1>3 DEF HopsCount

-----------------------------------------------------------------------------
(* Where a hop ends in a string of any bytes.                              *)

LEMMA SkipIsLength ==
  ASSUME mem \in Strings, NEW p \in Nat
  PROVE  UTF8SKIP(At(p)) \in Nat
<1>1. PICK b : b = At(p)
  OBVIOUS
<1>2. b \in 0 .. 253
  <2>1. CASE p < Len(mem)
    <3>1. p + 1 \in 1 .. Len(mem)
      BY <2>1, StringFacts
    <3> QED
      BY <1>1, <2>1, <3>1, StringFacts DEF At
  <2>2. CASE ~(p < Len(mem))
    BY <1>1, <2>2 DEF At
  <2> QED
    BY <2>1, <2>2
<1>3. UTF8SKIP(b) \in Nat
  BY ONLY <1>2 DEF UTF8SKIP, PL_utf8skip
<1> QED
  BY ONLY <1>1, <1>3

(* The NUL behind what was read ends the search for the next start.        *)
LEMMA NextStartAfter ==
  ASSUME mem \in Strings, NEW s \in 0 .. Len(mem), UTF8_IS_CONTINUATION(At(s))
  PROVE  NextStart(s) \in Nat /\ s < NextStart(s)
<1>1. PICK n, S : n = Len(mem) /\ S = {i \in s + 1 .. n : ~UTF8_IS_CONTINUATION(At(i))}
  OBVIOUS
<1>2. n \in Nat /\ s \in 0 .. n
  BY <1>1, StringFacts
<1>3. ~UTF8_IS_CONTINUATION(At(n))
  <2>1. At(n) = 0
    BY ONLY <1>1, <1>2 DEF At
  <2> QED
    BY ONLY <2>1 DEF UTF8_IS_CONTINUATION
<1>4. s # n
  BY ONLY <1>3, UTF8_IS_CONTINUATION(At(s))
<1>5. n \in S /\ S \in SUBSET Nat /\ \A i \in S : s < i
  BY ONLY <1>1, <1>2, <1>3, <1>4
<1>6. Min(S) \in S
  BY ONLY <1>5, LeastOf
<1>7. NextStart(s) = Min(S)
  BY ONLY <1>1 DEF NextStart
<1> QED
  BY ONLY <1>5, <1>6, <1>7

(* The loop stays on the side of the end on which it starts.               *)
LEMMA LoopSide ==
  ASSUME mem \in Strings, NEW end \in Nat, NEW m \in Nat, NEW turn,
         \A i \in 1 .. m : \A p \in Nat :
           turn[i][p] = IF end - p \in 0 .. UTF8SKIP(At(p)) THEN end ELSE p + UTF8SKIP(At(p)),
         NEW x \in Nat
  PROVE  Loop(turn, m, x) \in 0 .. end <=> x <= end
<1>1. PICK side : side = IF x <= end THEN 0 .. end ELSE {p \in Nat : p > end}
  OBVIOUS
<1>2. PICK S : S = [i \in 0 .. m |-> side]
  OBVIOUS
<1>3. x \in S[0] /\ m \in 0 .. m
  BY ONLY <1>1, <1>2, x \in Nat, end \in Nat, m \in Nat
<1>4. ASSUME NEW i \in 1 .. m, NEW v \in S[i - 1] PROVE turn[i][v] \in S[i]
  <2>1. i - 1 \in 0 .. m /\ i \in 0 .. m
    BY ONLY m \in Nat, i \in 1 .. m
  <2>2. v \in side /\ S[i] = side
    BY ONLY <1>2, <2>1, v \in S[i - 1]
  <2>3. v \in Nat
    BY ONLY <1>1, <2>2
  <2>4. PICK k, q : k = UTF8SKIP(At(v)) /\ q = turn[i][v]
    OBVIOUS
  <2>5. k \in Nat
    BY ONLY <2>3, <2>4, SkipIsLength, mem \in Strings
  <2>6. q = IF end - v \in 0 .. k THEN end ELSE v + k
    BY <2>3, <2>4
  <2>7. q \in side
    BY ONLY <1>1, <2>2, <2>3, <2>5, <2>6, end \in Nat
  <2> QED
    BY ONLY <2>2, <2>4, <2>7
<1>5. Loop(turn, m, x) \in S[m]
  BY ONLY <1>3, <1>4, LoopInvariant, m \in Nat
<1>6. Loop(turn, m, x) \in side
  BY ONLY <1>2, <1>3, <1>5
<1> QED
  BY ONLY <1>1, <1>6, end \in Nat

LEMMA ForwardSide ==
  ASSUME mem \in Strings, NEW end \in 0 .. Len(mem), NEW s \in 0 .. end, NEW off \in Nat
  PROVE  utf8_hop_forward(s, off, end) \in 0 .. end
           <=> (off > 0 /\ UTF8_IS_CONTINUATION(At(s)) => NextStart(s) <= end)
<1>1. end \in Nat /\ s \in Nat /\ s <= end /\ s \in 0 .. Len(mem)
  BY StringFacts
<1>2. PICK turn : turn = [i \in 1 .. off |-> [p \in Nat |->
                 IF end - p \in 0 .. UTF8SKIP(At(p)) THEN end ELSE p + UTF8SKIP(At(p))]]
  OBVIOUS
<1>3. ASSUME NEW m \in Nat, m <= off, NEW x \in Nat PROVE Loop(turn, m, x) \in 0 .. end <=> x <= end
  <2>1. \A i \in 1 .. m : i \in 1 .. off
    BY ONLY m \in Nat, off \in Nat, m <= off
  <2>2. \A i \in 1 .. m : \A p \in Nat :
          turn[i][p] = IF end - p \in 0 .. UTF8SKIP(At(p)) THEN end ELSE p + UTF8SKIP(At(p))
    BY ONLY <1>2, <2>1
  <2> QED
    BY ONLY <1>1, <2>2, LoopSide, mem \in Strings, m \in Nat, x \in Nat
<1>4. CASE off > 0 /\ UTF8_IS_CONTINUATION(At(s))
  <2>1. PICK m, x : m = off - 1 /\ x = NextStart(s)
    OBVIOUS
  <2>2. m \in Nat /\ m <= off
    BY ONLY <1>4, <2>1, off \in Nat
  <2>3. x \in Nat
    BY ONLY <1>1, <1>4, <2>1, NextStartAfter, mem \in Strings
  <2>4. utf8_hop_forward(s, off, end) = Loop(turn, m, x)
    BY ONLY <1>2, <1>4, <2>1 DEF utf8_hop_forward
  <2> QED
    BY ONLY <1>3, <1>4, <2>1, <2>2, <2>3, <2>4
<1>5. CASE ~(off > 0 /\ UTF8_IS_CONTINUATION(At(s)))
  <2>1. utf8_hop_forward(s, off, end) = Loop(turn, off, s)
    BY ONLY <1>2, <1>5 DEF utf8_hop_forward
  <2>2. off <= off
    BY ONLY off \in Nat
  <2> QED
    BY ONLY <1>1, <1>3, <1>5, <2>1, <2>2, off \in Nat
<1> QED
  BY ONLY <1>4, <1>5

LEMMA BackInside ==
  ASSUME NEW s \in Nat, NEW off \in Int, off < 0
  PROVE  utf8_hop_back(s, off) \in 0 .. s
<1>1. PICK k, turn : k = -off /\ turn = [i \in 1 .. k |-> [p \in Nat |-> IF p = 0 THEN p ELSE Max({0} \cup StartsBefore(p))]]
  OBVIOUS
<1>2. k \in Nat
  BY <1>1
<1>3. utf8_hop_back(s, off) = Loop(turn, k, s)
  BY ONLY <1>1 DEF utf8_hop_back
<1>4. PICK S : S = [i \in 0 .. k |-> 0 .. s]
  OBVIOUS
<1>5. s \in S[0] /\ k \in 0 .. k
  BY ONLY <1>2, <1>4, s \in Nat
<1>6. ASSUME NEW i \in 1 .. k, NEW v \in S[i - 1] PROVE turn[i][v] \in S[i]
  <2>1. i - 1 \in 0 .. k /\ i \in 0 .. k
    BY ONLY <1>2, i \in 1 .. k
  <2>2. v \in 0 .. s /\ S[i] = 0 .. s /\ v \in Nat
    BY ONLY <1>4, <2>1, v \in S[i - 1], s \in Nat
  <2>3. PICK T : T = {0} \cup StartsBefore(v)
    OBVIOUS
  <2>4. turn[i][v] = IF v = 0 THEN v ELSE Max(T)
    BY ONLY <1>1, <2>2, <2>3, i \in 1 .. k
  <2>5. T \in SUBSET (0 .. s) /\ T # {}
    BY ONLY <2>2, <2>3, s \in Nat DEF StartsBefore
  <2>6. Max(T) \in T
    BY ONLY <2>5, GreatestOf, s \in Nat
  <2> QED
    BY ONLY <2>2, <2>4, <2>5, <2>6
<1>7. Loop(turn, k, s) \in S[k]
  BY ONLY <1>2, <1>5, <1>6, LoopInvariant
<1> QED
  BY ONLY <1>3, <1>4, <1>5, <1>7

(* A hop with limits ends outside of them in one case only: it goes on     *)
(* from a continuation byte, and the next start is behind the end.         *)
HopLimit ==
  \A end \in 0 .. Len(mem) : \A s \in 0 .. end, off \in Int :
    utf8_hop_safe(s, off, end) \in 0 .. end
      <=> (off > 0 /\ UTF8_IS_CONTINUATION(At(s)) => NextStart(s) <= end)

LEMMA HopsLimited ==
  ASSUME mem \in Strings
  PROVE  HopLimit
<1> SUFFICES ASSUME NEW end \in 0 .. Len(mem), NEW s \in 0 .. end, NEW off \in Int
             PROVE  utf8_hop_safe(s, off, end) \in 0 .. end
                      <=> (off > 0 /\ UTF8_IS_CONTINUATION(At(s)) => NextStart(s) <= end)
  BY DEF HopLimit
<1>1. CASE off >= 0
  <2>1. off \in Nat
    BY <1>1
  <2>2. utf8_hop_safe(s, off, end) = utf8_hop_forward(s, off, end)
    BY ONLY <1>1 DEF utf8_hop_safe
  <2> QED
    BY ONLY <2>1, <2>2, ForwardSide, mem \in Strings, end \in 0 .. Len(mem), s \in 0 .. end
<1>2. CASE ~(off >= 0)
  <2>1. off < 0 /\ ~(off > 0) /\ s \in Nat /\ 0 .. s \subseteq 0 .. end
    BY <1>2, StringFacts
  <2>2. utf8_hop_safe(s, off, end) = utf8_hop_back(s, off)
    BY ONLY <1>2 DEF utf8_hop_safe
  <2>3. utf8_hop_back(s, off) \in 0 .. s
    BY ONLY <2>1, BackInside, off \in Int
  <2> QED
    BY ONLY <2>1, <2>2, <2>3
<1> QED
  BY ONLY <1>1, <1>2

-----------------------------------------------------------------------------
(* The theorems.                                                           *)

(* The invariant holds of every stream, read and validated in any pieces.  *)
THEOREM Utf8Invariant == Spec => []Utf8Inv
<1>1. Init => Utf8Inv
  <2> SUFFICES ASSUME Init PROVE Utf8Inv
    OBVIOUS
  <2>1. mem = <<>> /\ seen = 0 /\ ep = 0 /\ el = 0 /\ ok = TRUE
    BY DEF Init
  <2>2. <<>> \in Strings /\ Len(<<>>) = 0 /\ 0 \in 0 .. 0
    BY DEF Strings
  <2>3. Slice(<<>>, 0, 0) = <<>>
    BY DEF Slice
  <2>4. Located(<<>>, 0, 0, 0)
    BY ONLY <2>3, NoneCounted DEF Located
  <2> QED
    BY ONLY <2>1, <2>2, <2>4 DEF Utf8Inv
<1>2. Utf8Inv /\ [Next]_vars => Utf8Inv'
  <2> SUFFICES ASSUME Utf8Inv, [Next]_vars PROVE Utf8Inv'
    OBVIOUS
  <2>1. CASE \E b \in Bytes \cup FewBytes : Read(b)
    BY <2>1, ReadKeeps
  <2>2. CASE Validate
    BY <2>2, ValidateKeeps
  <2>3. CASE UNCHANGED vars
    BY <2>3 DEF vars, Utf8Inv
  <2> QED
    BY <2>1, <2>2, <2>3 DEF Next
<1> QED
  BY <1>1, <1>2, PTL DEF Spec

(* The functions recognise, locate and decode exactly what the definition  *)
(* of UTF-8 says, for strings of any length.                               *)
THEOREM Utf8RecognisesCharacters == Spec => []RecognisesCharacters
<1>1. Utf8Inv => RecognisesCharacters
  BY Recognised DEF Utf8Inv
<1> QED
  BY <1>1, Utf8Invariant, PTL

(* Validating a stream in pieces, cut wherever it may be, gives the same   *)
(* result as validating all of it, counts each character once, and refuses *)
(* at once what can never become right.                                    *)
THEOREM Utf8ChunksAgree == Spec => []ChunksAgree
BY Utf8Invariant, InvAgrees, PTL

(* In a well-formed string of any length every hop counts characters.      *)
THEOREM Utf8HopsCount == Spec => []HopsCount
<1>1. Utf8Inv => HopsCount
  BY HopsCounted DEF Utf8Inv
<1> QED
  BY <1>1, Utf8Invariant, PTL

(* In a string of any bytes a hop that has limits keeps them, unless it    *)
(* goes on from within a character whose next start is behind the end: the *)
(* case in which HopStaysInside fails is the only one.                     *)
THEOREM Utf8HopLimit == Spec => []HopLimit
<1>1. Utf8Inv => HopLimit
  BY HopsLimited DEF Utf8Inv
<1> QED
  BY <1>1, Utf8Invariant, PTL

=============================================================================
