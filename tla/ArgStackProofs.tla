--------------------------- MODULE ArgStackProofs ---------------------------
(***************************************************************************)
(* Theorems about ArgStack for any SVs and any bounds.                     *)
(***************************************************************************)
EXTENDS ArgStack, SequenceTheorems, FiniteSetTheorems, WellFoundedInduction, TLAPS

-----------------------------------------------------------------------------
(* Counting in sequences.                                                  *)

Places(seq, s) == {i \in DOMAIN seq : seq[i] = s}

(* The number of places is a natural number, and 0 when there is none.     *)
LEMMA CountedNat ==
  ASSUME NEW T, NEW seq \in Seq(T), NEW s
  PROVE  /\ IsFiniteSet(Places(seq, s))
         /\ Counted(seq, s) = Cardinality(Places(seq, s))
         /\ Counted(seq, s) \in Nat
         /\ Counted(seq, s) = 0 <=> \A i \in 1 .. Len(seq) : seq[i] # s
<1>1. Len(seq) \in Nat /\ DOMAIN seq = 1 .. Len(seq)
  BY LenProperties
<1>2. Places(seq, s) \in SUBSET (1 .. Len(seq))
  BY <1>1 DEF Places
<1>3. IsFiniteSet(Places(seq, s))
  <2>1. 1 \in Int /\ Len(seq) \in Int
    BY <1>1
  <2>2. IsFiniteSet(1 .. Len(seq))
    BY ONLY <2>1, FS_Interval
  <2> QED
    BY ONLY <1>2, <2>2, FS_Subset
<1>4. Counted(seq, s) = Cardinality(Places(seq, s))
  BY DEF Counted, Places
<1>5. Counted(seq, s) \in Nat
  BY <1>3, <1>4, FS_CardinalityType
<1>6. Places(seq, s) = {} <=> \A i \in 1 .. Len(seq) : seq[i] # s
  BY <1>1 DEF Places
<1> QED
  BY <1>3, <1>4, <1>5, <1>6, FS_EmptySet

(* The places of two sequences add up.                                     *)
LEMMA CountedConcat ==
  ASSUME NEW T, NEW a \in Seq(T), NEW b \in Seq(T), NEW s
  PROVE  Counted(a \o b, s) = Counted(a, s) + Counted(b, s)
<1> DEFINE n == Len(a)
           B == {i \in n + 1 .. n + Len(b) : b[i - n] = s}
           shift == [i \in Places(b, s) |-> i + n]
<1>1. /\ n \in Nat /\ DOMAIN a = 1 .. n /\ Len(b) \in Nat /\ DOMAIN b = 1 .. Len(b)
      /\ a \o b \in Seq(T) /\ DOMAIN (a \o b) = 1 .. n + Len(b)
      /\ \A i \in 1 .. n + Len(b) : (a \o b)[i] = IF i <= n THEN a[i] ELSE b[i - n]
  BY LenProperties, ConcatProperties
<1>2. Places(a \o b, s) = Places(a, s) \cup B
  BY <1>1 DEF Places
<1>3. Places(a, s) \cap B = {}
  BY <1>1 DEF Places
<1>4. Places(b, s) = {i \in 1 .. Len(b) : b[i] = s}
  BY <1>1 DEF Places
<1>5. ExistsBijection(Places(b, s), B)
  <2>1. shift \in [Places(b, s) -> B]
    <3> SUFFICES ASSUME NEW i \in Places(b, s) PROVE i + n \in B
      OBVIOUS
    <3>1. i \in 1 .. Len(b) /\ b[i] = s
      BY <1>4
    <3>2. i + n \in n + 1 .. n + Len(b) /\ (i + n) - n = i
      BY <1>1, <3>1
    <3> QED
      BY <3>1, <3>2
  <2>2. \A i, j \in Places(b, s) : shift[i] = shift[j] => i = j
    BY <1>1, <1>4
  <2>3. \A k \in B : \E i \in Places(b, s) : shift[i] = k
    <3> TAKE k \in B
    <3>1. k - n \in 1 .. Len(b) /\ b[k - n] = s /\ (k - n) + n = k
      BY <1>1
    <3> QED
      BY <1>4, <3>1
  <2> HIDE DEF shift, B
  <2>4. shift \in Injection(Places(b, s), B)
    BY <2>1, <2>2 DEF Injection, IsInjective
  <2>5. shift \in Surjection(Places(b, s), B)
    BY <2>1, <2>3 DEF Surjection
  <2> QED
    BY <2>4, <2>5 DEF ExistsBijection, Bijection
<1> HIDE DEF B
<1>6. IsFiniteSet(B) /\ Cardinality(B) = Cardinality(Places(b, s))
  BY <1>5, CountedNat, FS_Bijection
<1>7. Cardinality(Places(a, s) \cup B) = Cardinality(Places(a, s)) + Cardinality(B)
  <2>1. IsFiniteSet(Places(a, s)) /\ Cardinality(Places(a, s)) \in Nat
    BY CountedNat
  <2>2. Cardinality(Places(b, s)) \in Nat
    BY CountedNat
  <2>3. Cardinality(Places(a, s) \cap B) = 0
    BY <1>3, FS_EmptySet
  <2>4. Cardinality(Places(a, s) \cup B) = Cardinality(Places(a, s)) + Cardinality(B) - Cardinality(Places(a, s) \cap B)
    BY ONLY <1>6, <2>1, FS_Union
  <2> QED
    BY ONLY <1>6, <2>1, <2>2, <2>3, <2>4
<1>8. /\ Counted(a \o b, s) = Cardinality(Places(a \o b, s))
      /\ Counted(a, s) = Cardinality(Places(a, s)) /\ Counted(b, s) = Cardinality(Places(b, s))
  BY <1>1, CountedNat
<1> QED
  BY ONLY <1>2, <1>6, <1>7, <1>8

One(x, s) == IF x = s THEN 1 ELSE 0

LEMMA CountedOne ==
  ASSUME NEW x, NEW s
  PROVE  Counted(<<x>>, s) = One(x, s) /\ Counted(<<>>, s) = 0
<1>0. Counted(<<>>, s) = 0
  <2>1. {i \in DOMAIN <<>> : <<>>[i] = s} = {}
    OBVIOUS
  <2> QED
    BY ONLY <2>1, FS_EmptySet DEF Counted
<1>1. CASE x = s
  <2>1. {i \in DOMAIN <<x>> : <<x>>[i] = s} = {1}
    BY <1>1
  <2>2. Counted(<<x>>, s) = 1
    BY ONLY <2>1, FS_Singleton DEF Counted
  <2> QED
    BY <1>1, <2>2, <1>0 DEF One
<1>2. CASE x # s
  <2>1. {i \in DOMAIN <<x>> : <<x>>[i] = s} = {}
    BY <1>2
  <2> QED
    BY <1>0, <1>2, <2>1, FS_EmptySet DEF Counted, One
<1> QED
  BY <1>1, <1>2

(* One entry replaced by another.                                          *)
LEMMA CountedReplace ==
  ASSUME NEW T, NEW seq \in Seq(T), NEW i \in 1 .. Len(seq), NEW x \in T, NEW s
  PROVE  Counted([seq EXCEPT ![i] = x], s) = Counted(seq, s) - One(seq[i], s) + One(x, s)
<1> DEFINE new == [seq EXCEPT ![i] = x]
<1>1. /\ new \in Seq(T) /\ Len(new) = Len(seq)
      /\ \A j \in 1 .. Len(seq) : new[j] = IF j = i THEN x ELSE seq[j]
  BY ExceptSeq
<1>2. DOMAIN seq = 1 .. Len(seq) /\ DOMAIN new = 1 .. Len(seq)
  BY <1>1, LenProperties
<1> HIDE DEF new
<1> DEFINE P == Places(seq, s)
           Q == Places(seq, s) \ {i}
<1>3. IsFiniteSet(P) /\ Cardinality(P) \in Nat
  BY CountedNat
<1>4. IsFiniteSet(Q) /\ Cardinality(Q) = Cardinality(P) - One(seq[i], s)
  <2>1. i \in P <=> seq[i] = s
    BY <1>2 DEF Places
  <2> QED
    BY <1>3, <2>1, FS_RemoveElement DEF One
<1>5. Cardinality(Places(new, s)) = Cardinality(Q) + One(x, s)
  <2>1. CASE x = s
    <3>1. Places(new, s) = Q \cup {i}
      BY <1>1, <1>2, <2>1 DEF Places
    <3> QED
      BY <1>4, <2>1, <3>1, FS_AddElement DEF One
  <2>2. CASE x # s
    <3>1. Places(new, s) = Q
      BY <1>1, <1>2, <2>2 DEF Places
    <3>2. Cardinality(Q) \in Nat
      BY <1>4, FS_CardinalityType
    <3> QED
      BY <2>2, <3>1, <3>2 DEF One
  <2> QED
    BY <2>1, <2>2
<1>6. Counted(new, s) = Cardinality(Places(new, s)) /\ Counted(seq, s) = Cardinality(P)
  BY <1>1, CountedNat
<1> QED
  BY <1>4, <1>5, <1>6 DEF new

(* A sequence cut in two, or without its first or last entry.              *)
LEMMA CountedCut ==
  ASSUME NEW T, NEW seq \in Seq(T), NEW n \in 0 .. Len(seq), NEW s
  PROVE  Counted(seq, s) = Counted(SubSeq(seq, 1, n), s) + Counted(SubSeq(seq, n + 1, Len(seq)), s)
<1>1. Len(seq) \in Nat /\ \A i \in 1 .. Len(seq) : seq[i] \in T
  BY LenProperties, ElementOfSeq
<1>2. SubSeq(seq, 1, n) \in Seq(T) /\ SubSeq(seq, n + 1, Len(seq)) \in Seq(T)
  <2>1. \A i \in 1 .. n : seq[i] \in T
    BY <1>1
  <2>2. \A i \in n + 1 .. Len(seq) : seq[i] \in T
    BY <1>1
  <2> QED
    BY <1>1, <2>1, <2>2, SubSeqProperties
<1>3. SubSeq(seq, 1, n) \o SubSeq(seq, n + 1, Len(seq)) = SubSeq(seq, 1, Len(seq))
  <2>1. 1 \in 1 .. Len(seq) + 1 /\ n \in 1 - 1 .. Len(seq) /\ Len(seq) \in n .. Len(seq)
    BY <1>1
  <2> QED
    BY ONLY seq \in Seq(T), <2>1, ConcatAdjacentSubSeq
<1>4. SubSeq(seq, 1, Len(seq)) = seq
  BY SubSeqFull
<1>5. Counted(SubSeq(seq, 1, n) \o SubSeq(seq, n + 1, Len(seq)), s)
        = Counted(SubSeq(seq, 1, n), s) + Counted(SubSeq(seq, n + 1, Len(seq)), s)
  BY ONLY <1>2, CountedConcat
<1> QED
  BY ONLY <1>3, <1>4, <1>5, Zenon

LEMMA CountedHead ==
  ASSUME NEW T, NEW seq \in Seq(T), seq # <<>>, NEW s
  PROVE  Counted(seq, s) = One(Head(seq), s) + Counted(Tail(seq), s)
<1>1. /\ Head(seq) \in T /\ Tail(seq) \in Seq(T) /\ Len(Tail(seq)) = Len(seq) - 1
      /\ \A i \in 1 .. Len(Tail(seq)) : Tail(seq)[i] = seq[i + 1]
  BY HeadTailProperties
<1>2. <<Head(seq)>> \in Seq(T) /\ Len(<<Head(seq)>>) = 1 /\ <<Head(seq)>>[1] = seq[1]
  BY <1>1
<1>3. Len(seq) \in Nat /\ Len(seq) >= 1
  BY EmptySeq, LenProperties
<1>4. /\ <<Head(seq)>> \o Tail(seq) \in Seq(T)
      /\ Len(<<Head(seq)>> \o Tail(seq)) = Len(seq)
      /\ \A i \in 1 .. Len(seq) : (<<Head(seq)>> \o Tail(seq))[i] = IF i <= 1 THEN <<Head(seq)>>[i] ELSE Tail(seq)[i - 1]
  BY <1>1, <1>2, <1>3, ConcatProperties
<1>5. \A i \in 1 .. Len(seq) : (<<Head(seq)>> \o Tail(seq))[i] = seq[i]
  <2> TAKE i \in 1 .. Len(seq)
  <2>1. CASE i = 1
    BY <1>2, <1>3, <1>4, <2>1
  <2>2. CASE i # 1
    <3>1. i - 1 \in 1 .. Len(Tail(seq)) /\ (i - 1) + 1 = i
      BY <1>1, <1>3, <2>2
    <3> QED
      BY <1>1, <1>4, <2>2, <3>1
  <2> QED
    BY <2>1, <2>2
<1>6. <<Head(seq)>> \o Tail(seq) = seq
  BY <1>4, <1>5, SeqEqual
<1>7. Counted(<<Head(seq)>> \o Tail(seq), s) = Counted(<<Head(seq)>>, s) + Counted(Tail(seq), s)
  <2> DEFINE head == <<Head(seq)>>
             tail == Tail(seq)
  <2>1. head \in Seq(T) /\ tail \in Seq(T)
    BY <1>1, <1>2
  <2> HIDE DEF head, tail
  <2>2. Counted(head \o tail, s) = Counted(head, s) + Counted(tail, s)
    BY ONLY <2>1, CountedConcat
  <2> QED
    BY <2>2 DEF head, tail
<1> QED
  BY ONLY <1>6, <1>7, CountedOne

LEMMA CountedAppend ==
  ASSUME NEW T, NEW seq \in Seq(T), NEW x \in T, NEW s
  PROVE  Counted(Append(seq, x), s) = Counted(seq, s) + One(x, s)
<1>1. Append(seq, x) = seq \o <<x>> /\ <<x>> \in Seq(T)
  BY AppendIsConcat
<1>2. Counted(seq \o <<x>>, s) = Counted(seq, s) + Counted(<<x>>, s)
  BY ONLY seq \in Seq(T), <1>1, CountedConcat
<1> QED
  BY ONLY <1>1, <1>2, CountedOne

LEMMA CountedLast ==
  ASSUME NEW T, NEW seq \in Seq(T), Len(seq) > 0, NEW s
  PROVE  Counted(seq, s) = Counted(SubSeq(seq, 1, Len(seq) - 1), s) + One(seq[Len(seq)], s)
<1>1. Len(seq) \in Nat
  BY LenProperties
<1>2. Len(seq) - 1 \in 0 .. Len(seq) /\ (Len(seq) - 1) + 1 = Len(seq) /\ Len(seq) \in 1 .. Len(seq)
  BY <1>1
<1>3. SubSeq(seq, Len(seq), Len(seq)) = <<seq[Len(seq)]>>
  <2>1. SubSeq(seq, Len(seq), Len(seq)) = <<seq[Len(seq)]>> \o SubSeq(seq, Len(seq) + 1, Len(seq))
    BY <1>2, SubSeqRecursiveFirst
  <2>2. SubSeq(seq, Len(seq) + 1, Len(seq)) = <<>>
    BY <1>1, SubSeqEmpty
  <2>3. <<seq[Len(seq)]>> \in Seq(T)
    BY <1>2, ElementOfSeq
  <2> QED
    BY <2>1, <2>2, <2>3, ConcatEmptySeq
<1>4. Counted(seq, s) = Counted(SubSeq(seq, 1, Len(seq) - 1), s)
                          + Counted(SubSeq(seq, (Len(seq) - 1) + 1, Len(seq)), s)
  BY ONLY seq \in Seq(T), <1>2, CountedCut
<1> QED
  BY ONLY <1>2, <1>3, <1>4, CountedOne

-----------------------------------------------------------------------------
(* The invariant.                                                          *)

(* Entries of work that lower the stack, and to which height.              *)
Lowers(e) == e.do \in {"popto", "destroy"}
Height(e) == IF e.do = "popto" THEN e.n ELSE e.base

(* The stack of each destructor stands on those of the functions behind    *)
(* it, and no function pops below its own.                                 *)
Heights ==
  /\ \A i \in 1 .. Len(work) : Lowers(work[i]) => Height(work[i]) <= Len(stack)
  /\ \A i, k \in 1 .. Len(work) :
       i < k /\ Lowers(work[i]) /\ Lowers(work[k]) => Height(work[k]) <= Height(work[i])

(* A slot that is still to be dropped is the topmost one of its stack:     *)
(* what has started since stands on it.                                    *)
Behind(i, p) == \A k \in i + 1 .. Len(work) : Lowers(work[k]) => Height(work[k]) < p

InFront(i, p) ==
  \/ p = Len(stack) /\ \A k \in 1 .. i - 1 : work[k].do = "dec"
  \/ \E j \in 1 .. i - 1 : /\ work[j].do = "destroy" /\ work[j].base = p
                           /\ \A k \in j + 1 .. i - 1 : work[k].do = "dec"

IsSlot(i, p) ==
  p \in 1 .. Len(stack) /\ stack[p] = work[i].sv /\ Behind(i, p) /\ InFront(i, p)

Drops == \A i \in 1 .. Len(work) : work[i].do = "drop" => \E p \in 1 .. Len(stack) : IsSlot(i, p)

(* Without PERL_RC_STACK nothing is done to stacks after a helper; what    *)
(* is not one of the _NN helpers gives up one reference at a time.         *)
Simple ==
  /\ ~rc => \A i \in 1 .. Len(work) : work[i].do \in {"dec", "freetmps", "destroy", "exit"}
  /\ \A i \in 2 .. Len(work) : work[i].do = "dec" => work[i].fast

(* A mortal is on the temps stack.                                         *)
Mortals == \A s \in temp : \E i \in 1 .. Len(tmps) : tmps[i] = s

(* What the program's own function, the last entries of work, has still to *)
(* do to the program's stack makes it what is documented: d is the number  *)
(* of entries in front of these, n the number of items that stay.          *)
LastDestroy(d) ==
  /\ d > 0 => work[d].do = "destroy"
  /\ \A k \in d + 1 .. Len(work) : work[k].do # "destroy"

BottomOf(d) == IF d = 0 THEN Len(stack) ELSE work[d].base

Leads(d, n) ==
  /\ \A k \in d + 1 .. Len(work) :
       /\ work[k].do = "popto" => work[k].n = n
       /\ work[k].do = "drop" => k = Len(work) /\ n = BottomOf(d) - 1
       /\ work[k].do = "push_undef" => k = Len(work)
  /\ (\A k \in d + 1 .. Len(work) : work[k].do \notin {"popto", "drop"}) => n = BottomOf(d)
  /\ result = IF \E k \in d + 1 .. Len(work) : work[k].do = "push_undef"
              THEN Append(Upto(n), Undef) ELSE Upto(n)

Outcome == \E d \in 0 .. Len(work) : LastDestroy(d) /\ \E n \in 0 .. BottomOf(d) : Leads(d, n)

Plans == Heights /\ Drops /\ Simple /\ Outcome

IInv == TypeOK /\ CountsAgree /\ Mortals /\ Plans

-----------------------------------------------------------------------------
(* Entries of work, and the references they hold.                          *)

LEMMA EntryKinds ==
  ASSUME NEW e \in Entry
  PROVE  /\ e.do \in {"dec", "drop", "popto", "freetmps", "push_undef", "clear", "exit", "destroy"}
         /\ e.do = "dec" => e.sv \in SV /\ (e = Dec(e.sv) \/ e = FastDec(e.sv))
         /\ e.do = "drop" => e.sv \in SV /\ e = Drop(e.sv)
         /\ e.do \in {"popto", "freetmps"} => e.n \in Nat
         /\ e.do = "destroy" => e.sv \in SVs /\ e.base \in Nat /\ e.floor \in Nat
<1>1. CASE e \in [do : {"dec"}, sv : SV, fast : BOOLEAN]
  <2>1. e.do = "dec" /\ e.sv \in SV /\ e.fast \in BOOLEAN /\ e = [do |-> "dec", sv |-> e.sv, fast |-> e.fast]
    BY <1>1
  <2>2. CASE e.fast = TRUE
    BY <2>1, <2>2 DEF FastDec
  <2>3. CASE e.fast = FALSE
    BY <2>1, <2>3 DEF Dec
  <2> QED
    BY <2>1, <2>2, <2>3
<1>2. CASE e \in [do : {"drop"}, sv : SV]
  BY <1>2 DEF Drop
<1>3. CASE e \in [do : {"popto", "freetmps"}, n : Nat]
  BY <1>3
<1>4. CASE e \in [do : {"push_undef", "clear", "exit"}]
  BY <1>4
<1>5. CASE e \in [do : {"destroy"}, sv : SVs, base : Nat, floor : Nat]
  BY <1>5
<1> QED
  BY <1>1, <1>2, <1>3, <1>4, <1>5 DEF Entry

LEMMA EntriesMade ==
  /\ \A s \in SV : /\ Dec(s) \in Entry /\ Dec(s).do = "dec" /\ Dec(s).sv = s
                   /\ FastDec(s) \in Entry /\ FastDec(s).do = "dec" /\ FastDec(s).sv = s /\ FastDec(s).fast
                   /\ Drop(s) \in Entry /\ Drop(s).do = "drop" /\ Drop(s).sv = s
  /\ \A n \in Nat : /\ PopTo(n) \in Entry /\ PopTo(n).do = "popto" /\ PopTo(n).n = n
                    /\ FreeTmps(n) \in Entry /\ FreeTmps(n).do = "freetmps" /\ FreeTmps(n).n = n
  /\ PushUndef \in Entry /\ PushUndef.do = "push_undef"
  /\ ClearArgs \in Entry /\ ClearArgs.do = "clear"
  /\ Exit \in Entry /\ Exit.do = "exit"
<1>1. \A s \in SV : /\ Dec(s) \in Entry /\ Dec(s).do = "dec" /\ Dec(s).sv = s
                    /\ FastDec(s) \in Entry /\ FastDec(s).do = "dec" /\ FastDec(s).sv = s /\ FastDec(s).fast
  BY DEF Dec, FastDec, Entry
<1>2. \A s \in SV : Drop(s) \in Entry /\ Drop(s).do = "drop" /\ Drop(s).sv = s
  BY DEF Drop, Entry
<1>3. \A n \in Nat : /\ PopTo(n) \in Entry /\ PopTo(n).do = "popto" /\ PopTo(n).n = n
                     /\ FreeTmps(n) \in Entry /\ FreeTmps(n).do = "freetmps" /\ FreeTmps(n).n = n
  BY DEF PopTo, FreeTmps, Entry
<1>4. /\ PushUndef \in Entry /\ PushUndef.do = "push_undef"
      /\ ClearArgs \in Entry /\ ClearArgs.do = "clear"
      /\ Exit \in Entry /\ Exit.do = "exit"
  BY DEF PushUndef, ClearArgs, Exit, Entry
<1> QED
  BY <1>1, <1>2, <1>3, <1>4

(* The references to s that the entries of w, or one entry, stand for.     *)
HeldIn(w, s) == Counted(w, Dec(s)) + Counted(w, FastDec(s)) - Counted(w, Drop(s))
Gives(e, s) == (IF e.do = "dec" THEN One(e.sv, s) ELSE 0) - (IF e.do = "drop" THEN One(e.sv, s) ELSE 0)

LEMMA GivesOne ==
  ASSUME NEW e \in Entry, NEW s
  PROVE  /\ One(e, Dec(s)) + One(e, FastDec(s)) - One(e, Drop(s)) = Gives(e, s)
         /\ Gives(e, s) \in Int
<1>1. CASE e.do = "dec"
  <2>1. One(e, Drop(s)) = 0
    BY <1>1 DEF One, Drop
  <2>2. One(e, Dec(s)) + One(e, FastDec(s)) = One(e.sv, s)
    <3>1. Dec(s).sv = s /\ FastDec(s).sv = s /\ Dec(s) # FastDec(s)
      BY DEF Dec, FastDec
    <3>2. e = Dec(e.sv) \/ e = FastDec(e.sv)
      BY <1>1, EntryKinds
    <3> QED
      BY <3>1, <3>2 DEF One
  <2> QED
    BY <1>1, <2>1, <2>2 DEF Gives, One
<1>2. CASE e.do = "drop"
  <2>1. One(e, Dec(s)) = 0 /\ One(e, FastDec(s)) = 0
    BY <1>2 DEF One, Dec, FastDec
  <2>2. One(e, Drop(s)) = One(e.sv, s)
    <3>1. Drop(s).sv = s /\ e = Drop(e.sv)
      BY <1>2, EntryKinds DEF Drop
    <3> QED
      BY <3>1 DEF One
  <2> QED
    BY <1>2, <2>1, <2>2 DEF Gives, One
<1>3. CASE e.do # "dec" /\ e.do # "drop"
  <2>1. e # Dec(s) /\ e # FastDec(s) /\ e # Drop(s)
    BY <1>3 DEF Dec, FastDec, Drop
  <2> QED
    BY <1>3, <2>1 DEF Gives, One
<1> QED
  BY <1>1, <1>2, <1>3

LEMMA HeldConcat ==
  ASSUME NEW a \in Seq(Entry), NEW b \in Seq(Entry), NEW s
  PROVE  HeldIn(a \o b, s) = HeldIn(a, s) + HeldIn(b, s) /\ HeldIn(a, s) \in Int
<1> DEFINE Adds(x) == /\ Counted(a, x) \in Nat /\ Counted(b, x) \in Nat
                      /\ Counted(a \o b, x) = Counted(a, x) + Counted(b, x)
<1>1. ASSUME NEW x PROVE Adds(x)
  BY CountedNat, CountedConcat
<1>2. Adds(Dec(s)) /\ Adds(FastDec(s)) /\ Adds(Drop(s))
  BY ONLY <1>1
<1> DEFINE a1 == Counted(a, Dec(s))
           a2 == Counted(a, FastDec(s))
           a3 == Counted(a, Drop(s))
           b1 == Counted(b, Dec(s))
           b2 == Counted(b, FastDec(s))
           b3 == Counted(b, Drop(s))
           c1 == Counted(a \o b, Dec(s))
           c2 == Counted(a \o b, FastDec(s))
           c3 == Counted(a \o b, Drop(s))
<1>3. /\ a1 \in Nat /\ a2 \in Nat /\ a3 \in Nat /\ b1 \in Nat /\ b2 \in Nat /\ b3 \in Nat
      /\ c1 = a1 + b1 /\ c2 = a2 + b2 /\ c3 = a3 + b3
  BY <1>2
<1> HIDE DEF Adds, a1, a2, a3, b1, b2, b3, c1, c2, c3
<1>4. c1 + c2 - c3 = (a1 + a2 - a3) + (b1 + b2 - b3) /\ a1 + a2 - a3 \in Int
  BY ONLY <1>3
<1> QED
  BY <1>4 DEF HeldIn, a1, a2, a3, b1, b2, b3, c1, c2, c3

LEMMA HeldOne ==
  ASSUME NEW e \in Entry, NEW s
  PROVE  HeldIn(<<e>>, s) = Gives(e, s) /\ HeldIn(<<>>, s) = 0
BY CountedOne, GivesOne DEF HeldIn

LEMMA HeldTwo ==
  ASSUME NEW e \in Entry, NEW f \in Entry, NEW s
  PROVE  HeldIn(<<e, f>>, s) = Gives(e, s) + Gives(f, s)
<1>1. <<e>> \in Seq(Entry) /\ <<f>> \in Seq(Entry) /\ <<e, f>> = <<e>> \o <<f>>
  <2>1. /\ <<e>> \in Seq(Entry) /\ <<f>> \in Seq(Entry) /\ <<e, f>> \in Seq(Entry)
        /\ Len(<<e>>) = 1 /\ Len(<<f>>) = 1 /\ Len(<<e, f>>) = 2
        /\ <<e>>[1] = e /\ <<f>>[1] = f /\ <<e, f>>[1] = e /\ <<e, f>>[2] = f
    OBVIOUS
  <2> DEFINE both == <<e>> \o <<f>>
  <2>2. /\ both \in Seq(Entry) /\ Len(both) = 1 + 1
        /\ \A i \in 1 .. 1 + 1 : both[i] = IF i <= 1 THEN <<e>>[i] ELSE <<f>>[i - 1]
    BY ONLY <2>1, ConcatProperties
  <2>3. both[1] = e /\ both[2] = f
    BY ONLY <2>1, <2>2
  <2> HIDE DEF both
  <2>4. both = <<e, f>>
    BY ONLY <2>1, <2>2, <2>3, SeqEqual
  <2> QED
    BY <2>1, <2>4 DEF both
<1>2. HeldIn(<<e>> \o <<f>>, s) = HeldIn(<<e>>, s) + HeldIn(<<f>>, s)
  BY ONLY <1>1, HeldConcat
<1> QED
  BY ONLY <1>1, <1>2, HeldOne, e \in Entry, f \in Entry

LEMMA JoinThree ==
  ASSUME NEW e \in Entry, NEW f \in Entry, NEW g \in Entry
  PROVE  <<e, f>> \in Seq(Entry) /\ <<g>> \in Seq(Entry) /\ <<e, f>> \o <<g>> = <<e, f, g>>
<1>1. <<e, f>> \in Seq(Entry) /\ <<g>> \in Seq(Entry) /\ <<e, f, g>> \in Seq(Entry)
  OBVIOUS
<1>2. /\ Len(<<e, f>>) = 2 /\ Len(<<g>>) = 1 /\ Len(<<e, f, g>>) = 3
      /\ <<e, f>>[1] = e /\ <<e, f>>[2] = f /\ <<g>>[1] = g
      /\ <<e, f, g>>[1] = e /\ <<e, f, g>>[2] = f /\ <<e, f, g>>[3] = g
  OBVIOUS
<1> DEFINE both == <<e, f>> \o <<g>>
<1>3. /\ both \in Seq(Entry) /\ Len(both) = 2 + 1
      /\ \A i \in 1 .. 2 + 1 : both[i] = IF i <= 2 THEN <<e, f>>[i] ELSE <<g>>[i - 2]
  BY ONLY <1>1, <1>2, ConcatProperties
<1>4. both[1] = e /\ both[2] = f /\ both[3] = g
  BY ONLY <1>2, <1>3
<1> HIDE DEF both
<1>5. both = <<e, f, g>>
  BY ONLY <1>1, <1>2, <1>3, <1>4, SeqEqual
<1> QED
  BY <1>1, <1>5 DEF both

LEMMA HeldThree ==
  ASSUME NEW e \in Entry, NEW f \in Entry, NEW g \in Entry, NEW s
  PROVE  HeldIn(<<e, f, g>>, s) = Gives(e, s) + Gives(f, s) + Gives(g, s)
<1>1. <<e, f>> \in Seq(Entry) /\ <<g>> \in Seq(Entry) /\ <<e, f, g>> = <<e, f>> \o <<g>>
  BY JoinThree
<1>2. HeldIn(<<e, f>> \o <<g>>, s) = HeldIn(<<e, f>>, s) + HeldIn(<<g>>, s)
  BY ONLY <1>1, HeldConcat
<1> QED
  BY ONLY <1>1, <1>2, HeldOne, HeldTwo, e \in Entry, f \in Entry, g \in Entry

LEMMA HeldHead ==
  ASSUME NEW w \in Seq(Entry), w # <<>>, NEW s
  PROVE  HeldIn(w, s) = Gives(Head(w), s) + HeldIn(Tail(w), s)
<1>1. Head(w) \in Entry /\ Tail(w) \in Seq(Entry)
  BY HeadTailProperties
<1> DEFINE Adds(x) == /\ Counted(Tail(w), x) \in Nat /\ One(Head(w), x) \in Nat
                      /\ Counted(w, x) = One(Head(w), x) + Counted(Tail(w), x)
<1>2. ASSUME NEW x PROVE Adds(x)
  BY <1>1, CountedNat, CountedHead DEF One
<1>3. Adds(Dec(s)) /\ Adds(FastDec(s)) /\ Adds(Drop(s))
  BY ONLY <1>2
<1>4. Gives(Head(w), s) = One(Head(w), Dec(s)) + One(Head(w), FastDec(s)) - One(Head(w), Drop(s))
  BY ONLY <1>1, GivesOne
<1> QED
  BY ONLY <1>3, <1>4 DEF HeldIn

-----------------------------------------------------------------------------
(* A step of running code: rest is put in front of work.                   *)

(* What the functions that wait rely on: the items they left on the stack. *)
Above(st) == Len(st) >= Base /\ \A p \in 1 .. Base : st[p] = stack[p]

(* The entries of rest fit the stack that the helper has left.             *)
Fits(rest, st) ==
  \A i \in 1 .. Len(rest) :
    /\ rest[i].do # "destroy"
    /\ rest[i].do = "popto" => rest[i].n \in Base .. Len(st) /\ \A j \in 1 .. i - 1 : rest[j].do # "popto"
    /\ rest[i].do = "drop" => /\ i = Len(rest) /\ Len(st) > Base /\ st[Len(st)] = rest[i].sv
                              /\ \A j \in 1 .. i - 1 : rest[j].do = "dec"
    /\ i >= 2 /\ rest[i].do = "dec" => rest[i].fast

(* Once they are done, n items of it stay and the stack is as documented.  *)
Leaves(rest, st, n, documented) ==
  /\ \A k \in 1 .. Len(rest) :
       /\ rest[k].do = "popto" => rest[k].n = n
       /\ rest[k].do = "drop" => k = Len(rest) /\ n = Len(st) - 1
       /\ rest[k].do = "push_undef" => k = Len(rest)
  /\ (\A k \in 1 .. Len(rest) : rest[k].do \notin {"popto", "drop"}) => n = Len(st)
  /\ documented = IF \E k \in 1 .. Len(rest) : rest[k].do = "push_undef"
                  THEN Append(SubSeq(st, 1, n), Undef) ELSE SubSeq(st, 1, n)

RunStep(rest) ==
  /\ Running /\ rc' = rc
  /\ rest \in Seq(Entry) /\ work' = rest \o work
  /\ Above(stack') /\ Fits(rest, stack')
  /\ ~rc => \A i \in 1 .. Len(rest) : rest[i].do \in {"dec", "freetmps"}
  /\ IF work = <<>> THEN \E n \in 0 .. Len(stack') : Leaves(rest, stack', n, result')
                    ELSE result' = result

(* The entries of work are entries, for the provers.                       *)
LEMMA WorkFacts ==
  ASSUME TypeOK
  PROVE  /\ Len(work) \in Nat /\ Len(stack) \in Nat
         /\ \A i \in 1 .. Len(work) :
              /\ work[i] \in Entry
              /\ work[i].do = "popto" => work[i].n \in Nat
              /\ work[i].do = "destroy" => work[i].base \in Nat
              /\ Lowers(work[i]) => Height(work[i]) \in Nat
         /\ work # <<>> => 1 <= Len(work) /\ Head(work) = work[1]
<1>1. work \in Seq(Entry) /\ stack \in Seq(SV)
  BY DEF TypeOK
<1>2. Len(work) \in Nat /\ Len(stack) \in Nat
  BY <1>1, LenProperties
<1>3. \A i \in 1 .. Len(work) : work[i] \in Entry
  BY <1>1, ElementOfSeq
<1>4. \A i \in 1 .. Len(work) : /\ work[i].do = "popto" => work[i].n \in Nat
                                /\ work[i].do = "destroy" => work[i].base \in Nat
  BY <1>3, EntryKinds
<1>5. work # <<>> => 1 <= Len(work) /\ Head(work) = work[1]
  BY <1>1, <1>2, EmptySeq
<1> QED
  BY <1>2, <1>3, <1>4, <1>5 DEF Lowers, Height

(* All that waits has left its items below Base.                           *)
LEMMA BaseFacts ==
  ASSUME TypeOK, Heights, Running
  PROVE  /\ Base \in 0 .. Len(stack)
         /\ work # <<>> => work[1].do = "destroy" /\ work[1].base = Base
         /\ \A i \in 1 .. Len(work) : Lowers(work[i]) => Height(work[i]) <= Base
<1>1. CASE work = <<>>
  <2>1. Len(work) = 0
    BY <1>1
  <2> QED
    BY <1>1, <2>1, WorkFacts DEF Base
<1>2. CASE work # <<>>
  <2>1. work[1].do = "destroy" /\ work[1].base = Base /\ 1 <= Len(work)
    BY <1>2, WorkFacts DEF Running, Base
  <2>2. Lowers(work[1]) /\ Height(work[1]) = Base
    BY <2>1 DEF Lowers, Height
  <2>3. Base <= Len(stack) /\ Base \in Nat
    BY <2>1, <2>2, WorkFacts DEF Heights
  <2>4. \A i \in 1 .. Len(work) : Lowers(work[i]) => Height(work[i]) <= Base
    <3> TAKE i \in 1 .. Len(work)
    <3>1. i = 1 \/ 1 < i
      OBVIOUS
    <3> QED
      BY <2>1, <2>2, <2>3, <3>1, WorkFacts DEF Heights
  <2> QED
    BY <2>1, <2>3, <2>4, WorkFacts
<1> QED
  BY <1>1, <1>2

(* Where a drop is when code is running: below Base, under a destructor.   *)
LEMMA SlotBelow ==
  ASSUME TypeOK, Heights, Running, NEW i \in 1 .. Len(work), work[i].do = "drop",
         NEW p, IsSlot(i, p)
  PROVE  /\ p \in 1 .. Base
         /\ \E j \in 1 .. i - 1 : /\ work[j].do = "destroy" /\ work[j].base = p
                                  /\ \A k \in j + 1 .. i - 1 : work[k].do = "dec"
<1>1. Len(work) \in Nat /\ work # <<>>
  BY WorkFacts
<1>2. work[1].do = "destroy" /\ work[1].base = Base /\ Base \in Nat
  BY <1>1, BaseFacts
<1>3. p \in 1 .. Len(stack) /\ Len(stack) \in Nat
  BY WorkFacts DEF IsSlot
<1>4. CASE p = Len(stack) /\ \A k \in 1 .. i - 1 : work[k].do = "dec"
  <2>1. 1 \in 1 .. i - 1
    BY <1>1, <1>2
  <2> QED
    BY <1>2, <1>4, <2>1
<1>5. CASE \E j \in 1 .. i - 1 : /\ work[j].do = "destroy" /\ work[j].base = p
                                 /\ \A k \in j + 1 .. i - 1 : work[k].do = "dec"
  <2>1. PICK j \in 1 .. i - 1 : work[j].do = "destroy" /\ work[j].base = p
    BY <1>5
  <2>2. j \in 1 .. Len(work) /\ Lowers(work[j]) /\ Height(work[j]) = p
    BY <1>1, <2>1 DEF Lowers, Height
  <2>3. p <= Base
    BY <2>2, BaseFacts
  <2> QED
    BY <1>2, <1>3, <1>5, <2>3
<1> QED
  BY <1>4, <1>5 DEF IsSlot, InFront

LEMMA RunIndices ==
  ASSUME TypeOK, NEW rest \in Seq(Entry), work' = rest \o work
  PROVE  /\ work' \in Seq(Entry)
         /\ Len(rest) \in Nat /\ Len(work) \in Nat /\ Len(work') = Len(rest) + Len(work)
         /\ \A i \in 1 .. Len(rest) : i \in 1 .. Len(work') /\ work'[i] = rest[i] /\ rest[i] \in Entry
         /\ \A i \in 1 .. Len(work) : /\ i + Len(rest) \in 1 .. Len(work')
                                      /\ work'[i + Len(rest)] = work[i]
         /\ \A i \in Len(rest) + 1 .. Len(work') : /\ i - Len(rest) \in 1 .. Len(work)
                                                   /\ work'[i] = work[i - Len(rest)]
         /\ \A i \in 1 .. Len(work') : i \in 1 .. Len(rest) \/ i \in Len(rest) + 1 .. Len(work')
<1>1. work \in Seq(Entry)
  BY DEF TypeOK
<1>2. Len(rest) \in Nat /\ Len(work) \in Nat
  BY <1>1, LenProperties
<1>3. /\ work' \in Seq(Entry) /\ Len(work') = Len(rest) + Len(work)
      /\ \A i \in 1 .. Len(rest) + Len(work) : work'[i] = IF i <= Len(rest) THEN rest[i] ELSE work[i - Len(rest)]
  BY <1>1, ConcatProperties
<1>4. \A i \in 1 .. Len(rest) : rest[i] \in Entry
  BY ElementOfSeq
<1>5. \A i \in 1 .. Len(work) : /\ i + Len(rest) \in 1 .. Len(work')
                                /\ work'[i + Len(rest)] = work[i]
  <2> TAKE i \in 1 .. Len(work)
  <2>1. i + Len(rest) \in 1 .. Len(rest) + Len(work) /\ ~(i + Len(rest) <= Len(rest)) /\ (i + Len(rest)) - Len(rest) = i
    BY <1>2
  <2> QED
    BY <1>3, <2>1
<1>6. \A i \in Len(rest) + 1 .. Len(work') : /\ i - Len(rest) \in 1 .. Len(work)
                                             /\ work'[i] = work[i - Len(rest)]
  BY <1>2, <1>3
<1>7. \A i \in 1 .. Len(rest) : i \in 1 .. Len(work') /\ work'[i] = rest[i]
  BY <1>2, <1>3
<1>8. \A i \in 1 .. Len(work') : i \in 1 .. Len(rest) \/ i \in Len(rest) + 1 .. Len(work')
  BY <1>2, <1>3
<1> QED
  BY <1>2, <1>3, <1>4, <1>5, <1>6, <1>7, <1>8

(* The new entries lower the stack no further than to Base.                *)
LEMMA RunHeights ==
  ASSUME TypeOK, TypeOK', Heights, NEW rest, RunStep(rest)
  PROVE  Heights'
<1> DEFINE m == Len(rest)
           top == Len(stack')
<1>1. /\ rest \in Seq(Entry) /\ work' = rest \o work /\ Running
      /\ Above(stack') /\ Fits(rest, stack')
  BY DEF RunStep
<1>2. Base \in Nat /\ Base <= top /\ top \in Nat /\ m \in Nat /\ Len(work) \in Nat
  BY <1>1, BaseFacts, WorkFacts, LenProperties DEF TypeOK, Above
<1>3. \A i \in 1 .. m : Lowers(rest[i]) =>
        /\ Height(rest[i]) \in Base .. top
        /\ \A j \in 1 .. i - 1 : ~Lowers(rest[j])
  <2> TAKE i \in 1 .. m
  <2> HAVE Lowers(rest[i])
  <2>1. rest[i].do = "popto"
    BY <1>1 DEF Lowers, Fits
  <2>2. rest[i].n \in Base .. top /\ \A j \in 1 .. i - 1 : rest[j].do # "popto"
    BY <1>1, <2>1 DEF Fits
  <2>3. \A j \in 1 .. i - 1 : j \in 1 .. m /\ rest[j].do # "destroy"
    <3> TAKE j \in 1 .. i - 1
    <3>1. j \in 1 .. m
      BY <1>2
    <3> QED
      BY <1>1, <3>1 DEF Fits
  <2> QED
    BY <2>1, <2>2, <2>3 DEF Lowers, Height
<1>4. \A i \in 1 .. Len(work) : Lowers(work[i]) => Height(work[i]) <= Base /\ Height(work[i]) \in Nat
  BY <1>1, BaseFacts, WorkFacts
<1>5. ASSUME NEW i \in 1 .. Len(work'), Lowers(work'[i]) PROVE Height(work'[i]) <= top
  <2>1. CASE i \in 1 .. m
    BY <1>1, <1>2, <1>3, <1>5, <2>1, RunIndices
  <2>2. CASE i \in m + 1 .. Len(work')
    <3>1. i - m \in 1 .. Len(work) /\ work'[i] = work[i - m]
      BY <1>1, <2>2, RunIndices
    <3> QED
      BY <1>2, <1>4, <1>5, <3>1
  <2> QED
    BY <1>1, <2>1, <2>2, RunIndices
<1>6. ASSUME NEW i \in 1 .. Len(work'), NEW k \in 1 .. Len(work'), i < k, Lowers(work'[i]), Lowers(work'[k])
      PROVE  Height(work'[k]) <= Height(work'[i])
  <2>1. CASE i \in 1 .. m /\ k \in 1 .. m
    <3>1. work'[i] = rest[i] /\ work'[k] = rest[k] /\ i \in 1 .. k - 1
      BY <1>1, <1>6, <2>1, RunIndices
    <3> QED
      BY <1>3, <1>6, <2>1, <3>1
  <2>2. CASE i \in 1 .. m /\ k \in m + 1 .. Len(work')
    <3>1. work'[i] = rest[i] /\ k - m \in 1 .. Len(work) /\ work'[k] = work[k - m]
      BY <1>1, <2>2, RunIndices
    <3>2. Lowers(rest[i]) /\ Lowers(work[k - m])
      BY ONLY <1>6, <3>1
    <3>3. Height(rest[i]) \in Base .. top
      BY <1>3, <2>2, <3>2
    <3>4. Height(work[k - m]) <= Base /\ Height(work[k - m]) \in Nat
      BY <1>4, <3>1, <3>2
    <3>5. Height(work[k - m]) <= Height(rest[i])
      BY ONLY <1>2, <3>3, <3>4
    <3> QED
      BY ONLY <3>1, <3>5
  <2>3. CASE i \in m + 1 .. Len(work') /\ k \in m + 1 .. Len(work')
    <3>1. /\ i - m \in 1 .. Len(work) /\ work'[i] = work[i - m]
          /\ k - m \in 1 .. Len(work) /\ work'[k] = work[k - m] /\ i - m < k - m
      BY <1>1, <1>2, <1>6, <2>3, RunIndices
    <3> QED
      BY <1>6, <3>1 DEF Heights
  <2>4. ~(i \in m + 1 .. Len(work') /\ k \in 1 .. m)
    BY <1>2, <1>6
  <2> QED
    BY <1>1, <2>1, <2>2, <2>3, <2>4, RunIndices
<1> QED
  BY <1>5, <1>6 DEF Heights, Lowers, Height

(* The slots that are to be dropped stay, and a new one is topmost.        *)
LEMMA RunDrops ==
  ASSUME TypeOK, TypeOK', Heights, Drops, NEW rest, RunStep(rest)
  PROVE  Drops'
<1> DEFINE m == Len(rest)
           top == Len(stack')
<1>1. /\ rest \in Seq(Entry) /\ work' = rest \o work /\ Running
      /\ Above(stack') /\ Fits(rest, stack')
  BY DEF RunStep
<1>2. Base \in Nat /\ Base <= top /\ top \in Nat /\ m \in Nat /\ Len(work) \in Nat
  BY <1>1, BaseFacts, WorkFacts, LenProperties DEF TypeOK, Above
<1>3. \A i \in 1 .. Len(work) : Lowers(work[i]) => Height(work[i]) <= Base /\ Height(work[i]) \in Nat
  BY <1>1, BaseFacts, WorkFacts
<1>4. ASSUME NEW i \in 1 .. m, rest[i].do = "drop", NEW p, p = top
      PROVE  IsSlot(i, p)'
  <2>1. /\ i = m /\ top > Base /\ stack'[top] = rest[i].sv
        /\ \A j \in 1 .. i - 1 : rest[j].do = "dec"
    BY <1>1, <1>4 DEF Fits
  <2>2. p \in 1 .. top /\ stack'[p] = work'[i].sv
    BY <1>1, <1>2, <1>4, <2>1, RunIndices
  <2>3. Behind(i, p)'
    <3> SUFFICES ASSUME NEW k \in i + 1 .. Len(work'), Lowers(work'[k])
                 PROVE  Height(work'[k]) < p
      BY DEF Behind, Lowers, Height
    <3>1. k - m \in 1 .. Len(work) /\ work'[k] = work[k - m]
      BY <1>1, <2>1, RunIndices
    <3>2. Height(work[k - m]) <= Base /\ Height(work[k - m]) \in Nat
      BY <1>3, <3>1
    <3>3. Height(work[k - m]) < top
      BY ONLY <1>2, <2>1, <3>2
    <3> QED
      BY ONLY <1>4, <3>1, <3>3
  <2>4. InFront(i, p)'
    <3>1. \A j \in 1 .. i - 1 : work'[j].do = "dec"
      <4> TAKE j \in 1 .. i - 1
      <4>1. j \in 1 .. m
        BY <1>2
      <4> QED
        BY <1>1, <2>1, <4>1, RunIndices
    <3> QED
      BY <1>4, <3>1 DEF InFront
  <2> QED
    BY <2>2, <2>3, <2>4 DEF IsSlot
<1>5. ASSUME NEW i \in 1 .. Len(work), work[i].do = "drop"
      PROVE  \E p \in 1 .. top : IsSlot(i + m, p)'
  <2>1. PICK p \in 1 .. Len(stack) : IsSlot(i, p)
    BY <1>5 DEF Drops
  <2>2. p \in 1 .. Base
    BY <1>1, <1>5, <2>1, SlotBelow
  <2>3. PICK j \in 1 .. i - 1 : /\ work[j].do = "destroy" /\ work[j].base = p
                                /\ \A k \in j + 1 .. i - 1 : work[k].do = "dec"
    BY <1>1, <1>5, <2>1, SlotBelow
  <2>4. p \in 1 .. top /\ stack'[p] = stack[p] /\ stack[p] = work[i].sv
    BY <1>1, <1>2, <2>1, <2>2 DEF Above, IsSlot
  <2>5. work'[i + m] = work[i]
    BY <1>1, RunIndices
  <2>6. Behind(i + m, p)'
    <3> SUFFICES ASSUME NEW k \in (i + m) + 1 .. Len(work'), Lowers(work'[k])
                 PROVE  Height(work'[k]) < p
      BY DEF Behind, Lowers, Height
    <3>1. k \in m + 1 .. Len(work') /\ k - m \in i + 1 .. Len(work)
      <4>1. k \in m + 1 .. Len(work')
        BY <1>2
      <4>2. k - m \in 1 .. Len(work)
        BY <1>1, <4>1, RunIndices
      <4> QED
        BY <1>2, <4>1, <4>2
    <3>2. work'[k] = work[k - m]
      BY <1>1, <3>1, RunIndices
    <3> QED
      BY <2>1, <3>1, <3>2 DEF IsSlot, Behind
  <2>7. InFront(i + m, p)'
    <3>1. j + m \in 1 .. (i + m) - 1 /\ j \in 1 .. Len(work)
      BY <1>2
    <3>2. work'[j + m] = work[j]
      BY <1>1, <3>1, RunIndices
    <3>3. \A k \in (j + m) + 1 .. (i + m) - 1 : work'[k].do = "dec"
      <4> TAKE k \in (j + m) + 1 .. (i + m) - 1
      <4>1. k - m \in j + 1 .. i - 1 /\ k - m \in 1 .. Len(work) /\ (k - m) + m = k
        BY <1>2
      <4>2. work'[k] = work[k - m]
        BY <1>1, <4>1, RunIndices
      <4> QED
        BY <2>3, <4>1, <4>2
    <3> QED
      BY <2>3, <3>1, <3>2, <3>3 DEF InFront
  <2>8. IsSlot(i + m, p)'
    BY <2>4, <2>5, <2>6, <2>7 DEF IsSlot
  <2> QED
    BY <2>4, <2>8
<1>6. ASSUME NEW i \in 1 .. Len(work'), work'[i].do = "drop"
      PROVE  \E p \in 1 .. top : IsSlot(i, p)'
  <2>1. CASE i \in 1 .. m
    <3>1. rest[i].do = "drop" /\ top \in 1 .. top
      <4>1. rest[i].do = "drop"
        BY <1>1, <1>6, <2>1, RunIndices
      <4>2. top > Base
        BY <1>1, <2>1, <4>1 DEF Fits
      <4> QED
        BY <1>2, <4>1, <4>2
    <3> QED
      BY <1>4, <2>1, <3>1
  <2>2. CASE i \in m + 1 .. Len(work')
    <3>1. i - m \in 1 .. Len(work) /\ work'[i] = work[i - m] /\ (i - m) + m = i
      BY <1>1, <1>2, <2>2, RunIndices
    <3>2. work[i - m].do = "drop"
      BY <1>6, <3>1
    <3>3. \E p \in 1 .. top : IsSlot((i - m) + m, p)'
      BY <1>5, <3>1, <3>2
    <3> QED
      BY <3>1, <3>3
  <2> QED
    BY <1>1, <2>1, <2>2, RunIndices
<1> QED
  BY <1>6 DEF Drops

LEMMA RunSimple ==
  ASSUME TypeOK, TypeOK', Simple, NEW rest, RunStep(rest)
  PROVE  Simple'
<1> DEFINE m == Len(rest)
<1>1. rest \in Seq(Entry) /\ work' = rest \o work /\ Fits(rest, stack') /\ Running /\ rc' = rc
  BY DEF RunStep
<1>2. m \in Nat /\ Len(work) \in Nat /\ Len(work') \in Nat
  BY <1>1, RunIndices
<1>3. ASSUME ~rc', NEW i \in 1 .. Len(work')
      PROVE  work'[i].do \in {"dec", "freetmps", "destroy", "exit"}
  <2>1. CASE i \in 1 .. m
    BY <1>1, <1>3, <2>1, RunIndices DEF RunStep
  <2>2. CASE i \in m + 1 .. Len(work')
    <3>1. i - m \in 1 .. Len(work) /\ work'[i] = work[i - m]
      BY <1>1, <2>2, RunIndices
    <3> QED
      BY <1>1, <1>3, <3>1 DEF Simple
  <2> QED
    BY <1>1, <2>1, <2>2, RunIndices
<1>4. ASSUME NEW i \in 2 .. Len(work'), work'[i].do = "dec"
      PROVE  work'[i].fast
  <2>1. CASE i \in 1 .. m
    <3>1. work'[i] = rest[i] /\ i >= 2
      BY <1>1, <2>1, RunIndices
    <3> QED
      BY <1>1, <1>4, <2>1, <3>1 DEF Fits
  <2>2. CASE i \in m + 1 .. Len(work')
    <3>1. i - m \in 1 .. Len(work) /\ work'[i] = work[i - m]
      BY <1>1, <2>2, RunIndices
    <3>2. work[i - m].do = "dec"
      BY <1>4, <3>1
    <3>3. work # <<>> /\ Head(work) = work[1] /\ work[1].do = "destroy"
      BY <1>1, <1>2, <3>1, WorkFacts DEF Running
    <3>4. i - m \in 2 .. Len(work)
      BY <3>1, <3>2, <3>3
    <3> QED
      BY <3>1, <3>2, <3>4 DEF Simple
  <2> QED
    BY <1>1, <1>2, <2>1, <2>2, RunIndices
<1> QED
  BY <1>3, <1>4 DEF Simple

LEMMA SamePrefix ==
  ASSUME NEW a \in Seq(SV), NEW b \in Seq(SV), NEW n \in Nat, n <= Len(a), n <= Len(b),
         \A p \in 1 .. n : a[p] = b[p]
  PROVE  SubSeq(a, 1, n) = SubSeq(b, 1, n)
<1>1. Len(a) \in Nat /\ Len(b) \in Nat /\ (\A i \in 1 .. n : a[i] \in SV) /\ (\A i \in 1 .. n : b[i] \in SV)
  <2>1. Len(a) \in Nat /\ Len(b) \in Nat
    BY LenProperties
  <2>2. \A i \in 1 .. n : i \in 1 .. Len(a) /\ i \in 1 .. Len(b)
    BY <2>1
  <2> QED
    BY <2>1, <2>2, ElementOfSeq
<1>2. /\ SubSeq(a, 1, n) \in Seq(SV) /\ Len(SubSeq(a, 1, n)) = (IF 1 <= n THEN n - 1 + 1 ELSE 0)
      /\ \A i \in 1 .. n - 1 + 1 : SubSeq(a, 1, n)[i] = a[1 + i - 1]
  BY <1>1, SubSeqProperties
<1>3. /\ SubSeq(b, 1, n) \in Seq(SV) /\ Len(SubSeq(b, 1, n)) = (IF 1 <= n THEN n - 1 + 1 ELSE 0)
      /\ \A i \in 1 .. n - 1 + 1 : SubSeq(b, 1, n)[i] = b[1 + i - 1]
  BY <1>1, SubSeqProperties
<1>4. \A i \in 1 .. Len(SubSeq(a, 1, n)) : SubSeq(a, 1, n)[i] = SubSeq(b, 1, n)[i]
  <2> TAKE i \in 1 .. Len(SubSeq(a, 1, n))
  <2>1. i \in 1 .. n - 1 + 1 /\ 1 + i - 1 = i /\ i \in 1 .. n
    BY <1>2
  <2> QED
    BY <1>2, <1>3, <2>1
<1> QED
  BY <1>2, <1>3, <1>4, SeqEqual

(* The plan of a suspended program is the same; that of a helper called by *)
(* the program begins.                                                     *)
LEMMA RunOutcome ==
  ASSUME TypeOK, TypeOK', Heights, Outcome, NEW rest, RunStep(rest)
  PROVE  Outcome'
<1> DEFINE m == Len(rest)
<1>1. /\ rest \in Seq(Entry) /\ work' = rest \o work /\ Fits(rest, stack') /\ Running /\ Above(stack')
  BY DEF RunStep
<1>2. m \in Nat /\ Len(work) \in Nat /\ Len(work') \in Nat /\ Len(work') = m + Len(work)
  BY <1>1, RunIndices
<1>3. CASE work = <<>>
  <2>1. Len(work) = 0
    BY <1>3
  <2>2. PICK n \in 0 .. Len(stack') : Leaves(rest, stack', n, result')
    BY <1>3 DEF RunStep
  <2>3. Len(work') = m /\ \A i \in 1 .. Len(work') : i \in 1 .. m /\ work'[i] = rest[i]
    BY <1>1, <1>2, <2>1, RunIndices
  <2>4. LastDestroy(0)'
    BY <1>1, <2>3 DEF LastDestroy, Fits
  <2>5. BottomOf(0)' = Len(stack')
    BY DEF BottomOf
  <2>6. Leads(0, n)'
    <3>1. \A k \in 0 + 1 .. Len(work') :
            /\ work'[k].do = "popto" => work'[k].n = n
            /\ work'[k].do = "drop" => k = Len(work') /\ n = BottomOf(0)' - 1
            /\ work'[k].do = "push_undef" => k = Len(work')
      <4> TAKE k \in 0 + 1 .. Len(work')
      <4>1. k \in 1 .. Len(rest) /\ work'[k] = rest[k]
        BY <2>3
      <4> QED
        BY <2>2, <2>3, <2>5, <4>1 DEF Leaves
    <3>2. (\A k \in 0 + 1 .. Len(work') : work'[k].do \notin {"popto", "drop"}) => n = BottomOf(0)'
      <4> HAVE \A k \in 0 + 1 .. Len(work') : work'[k].do \notin {"popto", "drop"}
      <4>1. \A k \in 1 .. Len(rest) : k \in 0 + 1 .. Len(work') /\ work'[k] = rest[k]
        BY <2>3
      <4>2. \A k \in 1 .. Len(rest) : rest[k].do \notin {"popto", "drop"}
        BY <4>1
      <4> QED
        BY <2>2, <2>5, <4>2 DEF Leaves
    <3>3. (\E k \in 0 + 1 .. Len(work') : work'[k].do = "push_undef")
            <=> (\E k \in 1 .. Len(rest) : rest[k].do = "push_undef")
      BY <2>3
    <3>4. result' = IF \E k \in 0 + 1 .. Len(work') : work'[k].do = "push_undef"
                    THEN Append(SubSeq(stack', 1, n), Undef) ELSE SubSeq(stack', 1, n)
      BY <2>2, <3>3 DEF Leaves
    <3> QED
      BY <3>1, <3>2, <3>4 DEF Leads, Upto
  <2>7. 0 \in 0 .. Len(work') /\ n \in 0 .. BottomOf(0)'
    BY <1>2, <2>5
  <2> QED
    BY <2>4, <2>6, <2>7 DEF Outcome
<1>4. CASE work # <<>>
  <2>1. PICK d \in 0 .. Len(work) : LastDestroy(d) /\ \E n \in 0 .. BottomOf(d) : Leads(d, n)
    BY DEF Outcome
  <2>2. PICK n \in 0 .. BottomOf(d) : Leads(d, n)
    BY <2>1
  <2>3. work[1].do = "destroy" /\ 1 \in 1 .. Len(work)
    BY <1>1, <1>4, BaseFacts, WorkFacts
  <2>4. d \in 1 .. Len(work) /\ work[d].do = "destroy"
    BY <2>1, <2>3 DEF LastDestroy
  <2>5. BottomOf(d) = work[d].base /\ BottomOf(d) \in Nat /\ BottomOf(d) <= Base /\ Base \in Nat
    <3>1. Lowers(work[d]) /\ Height(work[d]) = work[d].base /\ BottomOf(d) = work[d].base
      BY <2>4 DEF Lowers, Height, BottomOf
    <3> QED
      BY <1>1, <2>4, <3>1, BaseFacts, WorkFacts
  <2>6. d + m \in 1 .. Len(work') /\ work'[d + m] = work[d]
    BY <1>1, <1>2, <2>4, RunIndices
  <2>7. BottomOf(d + m)' = BottomOf(d)
    BY <1>2, <2>4, <2>5, <2>6 DEF BottomOf
  <2>8. \A k \in (d + m) + 1 .. Len(work') : k - m \in d + 1 .. Len(work) /\ work'[k] = work[k - m]
    <3> TAKE k \in (d + m) + 1 .. Len(work')
    <3>1. k \in m + 1 .. Len(work') /\ k - m \in d + 1 .. Len(work)
      BY <1>2, <2>4
    <3> QED
      BY <1>1, <3>1, RunIndices
  <2>9. \A k \in d + 1 .. Len(work) : k + m \in (d + m) + 1 .. Len(work') /\ work'[k + m] = work[k]
    <3> TAKE k \in d + 1 .. Len(work)
    <3>1. k \in 1 .. Len(work) /\ k + m \in (d + m) + 1 .. Len(work')
      BY <1>2, <2>4
    <3> QED
      BY <1>1, <3>1, RunIndices
  <2>10. LastDestroy(d + m)'
    BY <2>1, <2>4, <2>6, <2>8 DEF LastDestroy
  <2>11. SubSeq(stack', 1, n) = SubSeq(stack, 1, n)
    <3>1. n \in Nat /\ n <= Base /\ Base <= Len(stack) /\ Base <= Len(stack')
      BY <1>1, <2>5, BaseFacts DEF Above
    <3>2. stack \in Seq(SV) /\ stack' \in Seq(SV) /\ Len(stack) \in Nat /\ Len(stack') \in Nat
      BY LenProperties DEF TypeOK
    <3>3. n <= Len(stack) /\ n <= Len(stack') /\ \A p \in 1 .. n : stack'[p] = stack[p]
      BY <1>1, <2>5, <3>1, <3>2 DEF Above
    <3> QED
      BY <3>1, <3>2, <3>3, SamePrefix
  <2>12. Leads(d + m, n)'
    <3>1. \A k \in (d + m) + 1 .. Len(work') :
            /\ work'[k].do = "popto" => work'[k].n = n
            /\ work'[k].do = "drop" => k = Len(work') /\ n = BottomOf(d + m)' - 1
            /\ work'[k].do = "push_undef" => k = Len(work')
      <4> TAKE k \in (d + m) + 1 .. Len(work')
      <4>1. k - m \in d + 1 .. Len(work) /\ work'[k] = work[k - m] /\ (k - m = Len(work) => k = Len(work'))
        BY <1>2, <2>4, <2>8
      <4> QED
        BY <2>2, <2>7, <4>1 DEF Leads
    <3>2. (\A k \in (d + m) + 1 .. Len(work') : work'[k].do \notin {"popto", "drop"}) => n = BottomOf(d + m)'
      BY <2>2, <2>7, <2>9 DEF Leads
    <3>3. (\E k \in (d + m) + 1 .. Len(work') : work'[k].do = "push_undef")
            <=> (\E k \in d + 1 .. Len(work) : work[k].do = "push_undef")
      <4>1. ASSUME NEW k \in (d + m) + 1 .. Len(work'), work'[k].do = "push_undef"
            PROVE  \E h \in d + 1 .. Len(work) : work[h].do = "push_undef"
        BY <2>8, <4>1
      <4>2. ASSUME NEW h \in d + 1 .. Len(work), work[h].do = "push_undef"
            PROVE  \E k \in (d + m) + 1 .. Len(work') : work'[k].do = "push_undef"
        BY <2>9, <4>2
      <4> QED
        BY <4>1, <4>2
    <3>4. result' = IF \E k \in (d + m) + 1 .. Len(work') : work'[k].do = "push_undef"
                    THEN Append(SubSeq(stack', 1, n), Undef) ELSE SubSeq(stack', 1, n)
      <4>1. result' = result
        BY <1>4 DEF RunStep
      <4> QED
        BY <2>2, <2>11, <3>3, <4>1 DEF Leads, Upto
    <3> QED
      BY <3>1, <3>2, <3>4 DEF Leads, Upto
  <2>13. d + m \in 0 .. Len(work') /\ n \in 0 .. BottomOf(d + m)'
    BY <2>6, <2>7
  <2> QED
    BY <2>10, <2>12, <2>13 DEF Outcome
<1> QED
  BY <1>3, <1>4

LEMMA RunPlans ==
  ASSUME TypeOK, TypeOK', Plans, NEW rest, RunStep(rest)
  PROVE  Plans'
<1>1. Heights /\ Drops /\ Simple /\ Outcome
  BY DEF Plans
<1>2. Heights'
  BY <1>1, RunHeights
<1>3. Drops'
  BY <1>1, RunDrops
<1>4. Simple'
  BY <1>1, RunSimple
<1>5. Outcome'
  BY <1>1, RunOutcome
<1> QED
  BY <1>2, <1>3, <1>4, <1>5 DEF Plans

-----------------------------------------------------------------------------
(* The counts.                                                             *)

Agrees(s) ==
  refcnt[s] = own[s] + Counted(tmps, s) + HeldIn(work, s)
                + (IF rc THEN Counted(stack, s) + Counted(args, s) ELSE 0) + off[s]

LEMMA CountTypes ==
  TypeOK => \A s \in SVs : /\ refcnt[s] \in Nat /\ own[s] \in Nat /\ off[s] \in Int
                           /\ Counted(tmps, s) \in Nat /\ Counted(stack, s) \in Nat
                           /\ Counted(args, s) \in Nat /\ HeldIn(work, s) \in Int
<1> SUFFICES ASSUME TypeOK, NEW s \in SVs
             PROVE  /\ refcnt[s] \in Nat /\ own[s] \in Nat /\ off[s] \in Int
                    /\ Counted(tmps, s) \in Nat /\ Counted(stack, s) \in Nat
                    /\ Counted(args, s) \in Nat /\ HeldIn(work, s) \in Int
  OBVIOUS
<1>1. tmps \in Seq(SVs) /\ stack \in Seq(SV) /\ args \in Seq(SV) /\ work \in Seq(Entry)
  BY DEF TypeOK
<1>2. Counted(tmps, s) \in Nat /\ Counted(stack, s) \in Nat /\ Counted(args, s) \in Nat
  BY ONLY <1>1, CountedNat
<1>3. HeldIn(work, s) \in Int
  BY ONLY <1>1, HeldConcat
<1> QED
  BY <1>2, <1>3 DEF TypeOK

LEMMA AgreesEverywhere ==
  TypeOK => (CountsAgree <=> \A s \in SVs : Agrees(s))
<1> SUFFICES ASSUME TypeOK, NEW s \in SVs
             PROVE  refcnt[s] = Holders(s) + off[s] <=> Agrees(s)
  BY DEF CountsAgree
<1>1. Counted(work, Dec(s)) \in Nat /\ Counted(work, FastDec(s)) \in Nat /\ Counted(work, Drop(s)) \in Nat
  BY ONLY TypeOK, CountedNat DEF TypeOK
<1>2. Held(s) = HeldIn(work, s)
  BY ONLY <1>1 DEF Held, HeldFast, HeldIn
<1>3. /\ Counted(tmps, s) \in Nat /\ Counted(stack, s) \in Nat /\ Counted(args, s) \in Nat
      /\ HeldIn(work, s) \in Int /\ own[s] \in Nat /\ off[s] \in Int
  BY CountTypes
<1> QED
  BY ONLY <1>2, <1>3 DEF Holders, Agrees

(* What changes: the references of variables and temps by a, those of      *)
(* suspended functions by h, those of stacks and @_ by k, the count by m.  *)
Moves(s, a, h, k, m) ==
  /\ own'[s] + Counted(tmps', s) = own[s] + Counted(tmps, s) + a
  /\ HeldIn(work', s) = HeldIn(work, s) + h
  /\ rc => Counted(stack', s) + Counted(args', s) = Counted(stack, s) + Counted(args, s) + k
  /\ refcnt'[s] - off'[s] = refcnt[s] - off[s] + m
  /\ m = a + h + (IF rc THEN k ELSE 0)

(* A step keeps the counts if each changes by as much as its references.   *)
LEMMA CountsKept ==
  ASSUME TypeOK, TypeOK', CountsAgree, rc' = rc,
         \A s \in SVs : \E a, h, k, m \in Int : Moves(s, a, h, k, m)
  PROVE  CountsAgree'
<1>1. \A s \in SVs : Agrees(s)
  BY AgreesEverywhere
<1>2. (TypeOK => (CountsAgree <=> \A s \in SVs : Agrees(s)))'
  BY AgreesEverywhere, PTL
<1>3. (TypeOK => \A s \in SVs : /\ refcnt[s] \in Nat /\ own[s] \in Nat /\ off[s] \in Int
                                /\ Counted(tmps, s) \in Nat /\ Counted(stack, s) \in Nat
                                /\ Counted(args, s) \in Nat /\ HeldIn(work, s) \in Int)'
  BY CountTypes, PTL
<1>4. ASSUME NEW s \in SVs PROVE Agrees(s)'
  <2> DEFINE O  == own[s] + Counted(tmps, s)
             Op == own'[s] + Counted(tmps', s)
             H  == HeldIn(work, s)
             Hp == HeldIn(work', s)
             K  == Counted(stack, s) + Counted(args, s)
             Kp == Counted(stack', s) + Counted(args', s)
  <2>1. refcnt[s] \in Int /\ off[s] \in Int /\ O \in Int /\ H \in Int /\ K \in Int
    BY CountTypes
  <2>2. refcnt'[s] \in Int /\ off'[s] \in Int /\ Op \in Int /\ Hp \in Int /\ Kp \in Int
    <3>1. /\ refcnt'[s] \in Nat /\ own'[s] \in Nat /\ off'[s] \in Int
          /\ Counted(tmps', s) \in Nat /\ Counted(stack', s) \in Nat
          /\ Counted(args', s) \in Nat /\ HeldIn(work', s) \in Int
      BY <1>3 DEF Counted, HeldIn
    <3> QED
      BY ONLY <3>1
  <2>3. refcnt[s] = O + H + (IF rc THEN K ELSE 0) + off[s]
    BY <1>1 DEF Agrees
  <2>4. PICK a \in Int, h \in Int, k \in Int, m \in Int : Moves(s, a, h, k, m)
    OBVIOUS
  <2>5. /\ Op = O + a /\ Hp = H + h /\ (rc => Kp = K + k)
        /\ refcnt'[s] - off'[s] = refcnt[s] - off[s] + m /\ m = a + h + (IF rc THEN k ELSE 0)
    BY <2>4 DEF Moves
  <2>6. refcnt'[s] = Op + Hp + (IF rc THEN Kp ELSE 0) + off'[s]
    <3> HIDE DEF O, Op, H, Hp, K, Kp
    <3>1. CASE rc
      BY ONLY <2>1, <2>2, <2>3, <2>4, <2>5, <3>1
    <3>2. CASE ~rc
      BY ONLY <2>1, <2>2, <2>3, <2>4, <2>5, <3>2
    <3> QED
      BY <3>1, <3>2
  <2> QED
    BY <2>6 DEF Agrees, Counted, HeldIn
<1> QED
  BY <1>2, <1>4

-----------------------------------------------------------------------------
(* The helpers.                                                            *)

Planned(now, rest, documented) ==
  /\ now \in Seq(SV) /\ documented \in Seq(SV) /\ rest \in Seq(Entry)
  /\ Above(now) /\ Above(documented) /\ Fits(rest, now)
  /\ \E n \in 0 .. Len(now) : Leaves(rest, now, n, documented)

LEMMA AddedCounts ==
  ASSUME TypeOK, NEW incs \in Seq(SV)
  PROVE  /\ Added(incs) \in [SVs -> Nat]
         /\ \A s \in SVs : Added(incs)[s] = refcnt[s] + Counted(incs, s) /\ Counted(incs, s) \in Nat
<1>1. \A s \in SVs : refcnt[s] \in Nat
  BY DEF TypeOK
<1>2. ASSUME NEW s \in SVs PROVE Counted(incs, s) \in Nat
  BY CountedNat
<1>3. \A s \in SVs : Added(incs)[s] = refcnt[s] + Counted(incs, s)
  BY DEF Added
<1>4. \A s \in SVs : refcnt[s] + Counted(incs, s) \in Nat
  BY <1>1, <1>2
<1>5. Added(incs) \in [SVs -> Nat]
  BY <1>4 DEF Added
<1> QED
  BY <1>2, <1>3, <1>5

LEMMA AddedNone ==
  ASSUME TypeOK
  PROVE  Added(<<>>) = refcnt
<1>1. \A s \in SVs : Counted(<<>>, s) = 0
  BY CountedOne
<1>2. refcnt \in [SVs -> Nat]
  BY DEF TypeOK
<1>3. \A s \in SVs : refcnt[s] + Counted(<<>>, s) = refcnt[s]
  BY <1>1, <1>2
<1> QED
  BY <1>2, <1>3 DEF Added

(* Without reference counts, the documented stack is there at once.        *)
LEMMA AtOnce ==
  ASSUME TypeOK, Running, rc' = rc, NEW documented \in Seq(SV), Above(documented),
         stack' = documented, work' = work, result' = IF work = <<>> THEN documented ELSE result
  PROVE  RunStep(<<>>)
<1>1. <<>> \in Seq(Entry) /\ Len(<<>>) = 0 /\ work \in Seq(Entry)
  BY DEF TypeOK
<1>2. work' = <<>> \o work
  BY ONLY work' = work, <1>1, ConcatEmptySeq
<1>3. Fits(<<>>, stack') /\ \A i \in 1 .. Len(<<>>) : <<>>[i].do \in {"dec", "freetmps"}
  BY <1>1 DEF Fits
<1>4. work = <<>> => Leaves(<<>>, stack', Len(documented), result')
  <2> SUFFICES ASSUME work = <<>> PROVE Leaves(<<>>, stack', Len(documented), result')
    OBVIOUS
  <2>1. SubSeq(documented, 1, Len(documented)) = documented
    BY SubSeqFull
  <2>2. result' = SubSeq(stack', 1, Len(documented))
    BY <2>1
  <2> QED
    BY <1>1, <2>2 DEF Leaves
<1>5. Len(documented) \in 0 .. Len(stack')
  BY LenProperties
<1> QED
  BY <1>1, <1>2, <1>3, <1>4, <1>5 DEF RunStep

LEMMA HelperRuns ==
  ASSUME TypeOK, Running, rc' = rc, NEW now, NEW incs \in Seq(SV), NEW rest, NEW documented,
         Planned(now, rest, documented), Helper(now, incs, rest, documented)
  PROVE  /\ \E r : RunStep(r)
         /\ stack' \in Seq(SV) /\ result' \in Seq(SV) /\ work' \in Seq(Entry) /\ refcnt' \in [SVs -> Nat]
         /\ rc => stack' = now /\ refcnt' = Added(incs) /\ work' = rest \o work
         /\ ~rc => UNCHANGED <<refcnt, work>>
<1>1. /\ now \in Seq(SV) /\ documented \in Seq(SV) /\ rest \in Seq(Entry)
      /\ Above(now) /\ Above(documented) /\ Fits(rest, now)
      /\ \E n \in 0 .. Len(now) : Leaves(rest, now, n, documented)
  BY DEF Planned
<1>2. work \in Seq(Entry) /\ result \in Seq(SV) /\ refcnt \in [SVs -> Nat]
  BY DEF TypeOK
<1>3. result' = (IF work = <<>> THEN documented ELSE result) /\ result' \in Seq(SV)
  BY <1>1, <1>2 DEF Helper
<1>4. CASE rc
  <2>1. stack' = now /\ refcnt' = Added(incs) /\ work' = rest \o work
    BY <1>4 DEF Helper
  <2>2. work' \in Seq(Entry)
    BY ONLY <1>1, <1>2, <2>1, ConcatProperties
  <2>3. RunStep(rest)
    BY <1>1, <1>3, <1>4, <2>1 DEF RunStep
  <2> QED
    BY <1>1, <1>3, <1>4, <2>1, <2>2, <2>3, AddedCounts
<1>5. CASE ~rc
  <2>1. stack' = documented /\ refcnt' = refcnt /\ work' = work
    BY <1>5 DEF Helper
  <2>2. RunStep(<<>>)
    BY <1>1, <1>3, <2>1, AtOnce
  <2> QED
    BY <1>1, <1>2, <1>3, <1>5, <2>1, <2>2
<1> QED
  BY <1>4, <1>5

(* The stack gains what the helper has counted, less what it gives up.     *)
Balanced(now, incs, rest) ==
  \A s \in SVs : Counted(now, s) + HeldIn(rest, s) = Counted(stack, s) + Counted(incs, s)

(* Helpers that give up what they take off the stack, and count what they  *)
(* put on it.                                                              *)
LEMMA HelperKeeps ==
  ASSUME IInv, Running, NEW now, NEW incs \in Seq(SV), NEW rest, NEW documented,
         Planned(now, rest, documented), Helper(now, incs, rest, documented), Others,
         Balanced(now, incs, rest)
  PROVE  IInv'
<1>1. TypeOK /\ CountsAgree /\ Mortals /\ Plans
  BY DEF IInv
<1>2. rc' = rc /\ tmps' = tmps /\ temp' = temp /\ own' = own /\ args' = args /\ off' = off
  BY DEF Others
<1>3. /\ \E r : RunStep(r)
      /\ stack' \in Seq(SV) /\ result' \in Seq(SV) /\ work' \in Seq(Entry) /\ refcnt' \in [SVs -> Nat]
      /\ rc => stack' = now /\ refcnt' = Added(incs) /\ work' = rest \o work
      /\ ~rc => UNCHANGED <<refcnt, work>>
  BY <1>1, <1>2, HelperRuns
<1>4. TypeOK'
  BY <1>1, <1>2, <1>3 DEF TypeOK
<1>5. Plans'
  BY <1>1, <1>3, <1>4, RunPlans
<1>6. Mortals'
  BY <1>1, <1>2 DEF Mortals
<1>7. CountsAgree'
  <2>1. now \in Seq(SV) /\ rest \in Seq(Entry) /\ work \in Seq(Entry)
    BY <1>1 DEF Planned, TypeOK
  <2>2. ASSUME NEW s \in SVs
        PROVE  \E a, h, k, m \in Int : Moves(s, a, h, k, m)
    <3>1. /\ refcnt[s] \in Nat /\ own[s] \in Nat /\ off[s] \in Int
          /\ Counted(tmps, s) \in Nat /\ Counted(stack, s) \in Nat
          /\ Counted(args, s) \in Nat /\ HeldIn(work, s) \in Int
      BY <1>1, CountTypes
    <3>2. own'[s] = own[s] /\ Counted(tmps', s) = Counted(tmps, s) /\ off'[s] = off[s] /\ Counted(args', s) = Counted(args, s)
      BY ONLY <1>2
    <3>3. CASE rc
      <4>1. stack' = now /\ refcnt' = Added(incs) /\ work' = rest \o work
        BY <1>3, <3>3
      <4>2. refcnt'[s] = refcnt[s] + Counted(incs, s) /\ Counted(incs, s) \in Nat
        BY <1>1, <4>1, AddedCounts
      <4>3. HeldIn(work', s) = HeldIn(rest, s) + HeldIn(work, s) /\ HeldIn(rest, s) \in Int
        BY ONLY <2>1, <4>1, HeldConcat
      <4>4. Counted(now, s) + HeldIn(rest, s) = Counted(stack, s) + Counted(incs, s) /\ Counted(now, s) \in Nat
        BY <2>1, CountedNat DEF Balanced
      <4> DEFINE k == Counted(now, s) - Counted(stack, s)
      <4>5. k \in Int /\ Counted(incs, s) = 0 + HeldIn(rest, s) + k
        <5>1. \A n, h, o, i \in Int : n + h = o + i => i = 0 + h + (n - o)
          OBVIOUS
        <5>2. /\ Counted(now, s) \in Int /\ HeldIn(rest, s) \in Int
              /\ Counted(stack, s) \in Int /\ Counted(incs, s) \in Int
          BY ONLY <3>1, <4>2, <4>3, <4>4
        <5> QED
          BY ONLY <4>4, <5>1, <5>2
      <4>6. Counted(stack', s) + Counted(args', s) = Counted(stack, s) + Counted(args, s) + k
        <5>1. Counted(stack', s) = Counted(now, s)
          BY ONLY <4>1
        <5> QED
          BY ONLY <3>1, <3>2, <4>4, <5>1
      <4>7. refcnt'[s] - off'[s] = refcnt[s] - off[s] + Counted(incs, s)
        BY ONLY <3>1, <3>2, <4>2
      <4>8. own'[s] + Counted(tmps', s) = own[s] + Counted(tmps, s) + 0 /\ HeldIn(work', s) = HeldIn(work, s) + HeldIn(rest, s)
        BY ONLY <3>1, <3>2, <4>3
      <4>9. Moves(s, 0, HeldIn(rest, s), k, Counted(incs, s))
        <5> HIDE DEF k
        <5> QED
          BY ONLY <3>3, <4>5, <4>6, <4>7, <4>8 DEF Moves
      <4> QED
        BY ONLY <4>2, <4>3, <4>5, <4>9
    <3>4. CASE ~rc
      <4>1. refcnt' = refcnt /\ work' = work
        BY <1>3, <3>4
      <4>2. Moves(s, 0, 0, 0, 0)
        BY ONLY <3>1, <3>2, <3>4, <4>1 DEF Moves
      <4> QED
        BY ONLY <4>2
    <3> QED
      BY <3>3, <3>4
  <2> QED
    BY <1>1, <1>2, <1>4, <2>2, CountsKept
<1> QED
  BY <1>4, <1>5, <1>6, <1>7 DEF IInv

(* What the helpers leave to be done, and where it leads.                  *)
LEMMA UptoFacts ==
  ASSUME NEW st \in Seq(SV), NEW n \in 0 .. Len(st)
  PROVE  /\ SubSeq(st, 1, n) \in Seq(SV) /\ Len(SubSeq(st, 1, n)) = n
         /\ \A p \in 1 .. n : SubSeq(st, 1, n)[p] = st[p]
<1>1. Len(st) \in Nat /\ n \in Nat
  BY LenProperties
<1>2. \A p \in 1 .. n : p \in 1 .. Len(st)
  BY <1>1
<1>3. \A p \in 1 .. n : st[p] \in SV
  BY <1>2, ElementOfSeq
<1>4. /\ SubSeq(st, 1, n) \in Seq(SV) /\ Len(SubSeq(st, 1, n)) = (IF 1 <= n THEN n - 1 + 1 ELSE 0)
      /\ \A p \in 1 .. n - 1 + 1 : SubSeq(st, 1, n)[p] = st[1 + p - 1]
  BY <1>1, <1>3, SubSeqProperties
<1>5. \A p \in 1 .. n : p \in 1 .. n - 1 + 1 /\ 1 + p - 1 = p
  BY <1>1
<1> QED
  BY <1>1, <1>4, <1>5

LEMMA AboveUpto ==
  ASSUME NEW st \in Seq(SV), Above(st), Base \in Nat, NEW n \in Base .. Len(st)
  PROVE  Above(SubSeq(st, 1, n))
<1>1. n \in 0 .. Len(st) /\ \A p \in 1 .. Base : p \in 1 .. n
  BY LenProperties
<1> QED
  BY <1>1, UptoFacts DEF Above

LEMMA AboveAppend ==
  ASSUME NEW st \in Seq(SV), Above(st), Base \in Nat, NEW x \in SV
  PROVE  Append(st, x) \in Seq(SV) /\ Above(Append(st, x)) /\ Len(Append(st, x)) = Len(st) + 1
<1>1. Len(st) \in Nat /\ Len(st) >= Base
  BY LenProperties DEF Above
<1>2. \A p \in 1 .. Base : p \in 1 .. Len(st)
  BY <1>1
<1> QED
  BY <1>1, <1>2, AppendProperties DEF Above

LEMMA AboveReplace ==
  ASSUME NEW st \in Seq(SV), Above(st), Base \in Nat, NEW i \in Base + 1 .. Len(st), NEW x \in SV
  PROVE  /\ [st EXCEPT ![i] = x] \in Seq(SV) /\ Above([st EXCEPT ![i] = x])
         /\ Len([st EXCEPT ![i] = x]) = Len(st)
<1>1. Len(st) \in Nat /\ Len(st) >= Base
  BY LenProperties DEF Above
<1>2. i \in 1 .. Len(st) /\ \A p \in 1 .. Base : p \in 1 .. Len(st) /\ p # i
  BY <1>1
<1> QED
  BY <1>1, <1>2, ExceptSeq DEF Above

LEMMA PlannedNothing ==
  ASSUME NEW now \in Seq(SV), Above(now)
  PROVE  Planned(now, <<>>, now)
<1>1. <<>> \in Seq(Entry) /\ Len(<<>>) = 0 /\ Len(now) \in 0 .. Len(now)
  BY LenProperties
<1>2. Leaves(<<>>, now, Len(now), now)
  BY <1>1, SubSeqFull DEF Leaves
<1> QED
  BY <1>1, <1>2 DEF Planned, Fits

LEMMA PlannedDec ==
  ASSUME NEW now \in Seq(SV), Above(now), NEW x \in SV
  PROVE  Planned(now, <<Dec(x)>>, now)
<1>1. Dec(x) \in Entry /\ Dec(x).do = "dec"
  BY EntriesMade
<1> DEFINE rest == <<Dec(x)>>
<1>2. rest \in Seq(Entry) /\ Len(rest) = 1 /\ rest[1].do = "dec"
  BY <1>1
<1> HIDE DEF rest
<1>3. Len(now) \in 0 .. Len(now)
  BY LenProperties
<1>4. Fits(rest, now)
  BY <1>2 DEF Fits
<1>5. Leaves(rest, now, Len(now), now)
  BY <1>2, SubSeqFull DEF Leaves
<1>6. Planned(now, rest, now)
  BY <1>2, <1>3, <1>4, <1>5 DEF Planned
<1> QED
  BY <1>6 DEF rest

LEMMA PlannedPop ==
  ASSUME NEW now \in Seq(SV), Above(now), Base \in Nat, NEW n \in Base .. Len(now)
  PROVE  Planned(now, <<PopTo(n)>>, SubSeq(now, 1, n))
<1>1. n \in Nat /\ n \in 0 .. Len(now)
  BY LenProperties
<1>2. PopTo(n) \in Entry /\ PopTo(n).do = "popto" /\ PopTo(n).n = n
  BY <1>1, EntriesMade
<1> DEFINE rest == <<PopTo(n)>>
<1>3. rest \in Seq(Entry) /\ Len(rest) = 1 /\ rest[1].do = "popto" /\ rest[1].n = n
  BY <1>2
<1> HIDE DEF rest
<1>4. Fits(rest, now)
  BY <1>3 DEF Fits
<1>5. Leaves(rest, now, n, SubSeq(now, 1, n))
  BY <1>3 DEF Leaves
<1>6. Planned(now, rest, SubSeq(now, 1, n))
  BY <1>1, <1>3, <1>4, <1>5, UptoFacts, AboveUpto DEF Planned
<1> QED
  BY <1>6 DEF rest

LEMMA PlannedDecPop ==
  ASSUME NEW now \in Seq(SV), Above(now), Base \in Nat, NEW n \in Base .. Len(now), NEW x \in SV
  PROVE  Planned(now, <<Dec(x), PopTo(n)>>, SubSeq(now, 1, n))
<1>1. n \in Nat /\ n \in 0 .. Len(now)
  BY LenProperties
<1>2. /\ Dec(x) \in Entry /\ Dec(x).do = "dec"
      /\ PopTo(n) \in Entry /\ PopTo(n).do = "popto" /\ PopTo(n).n = n
  BY <1>1, EntriesMade
<1> DEFINE rest == <<Dec(x), PopTo(n)>>
<1>3. rest \in Seq(Entry) /\ Len(rest) = 2 /\ rest[1].do = "dec" /\ rest[2].do = "popto" /\ rest[2].n = n
  BY <1>2
<1> HIDE DEF rest
<1>4. Fits(rest, now)
  BY <1>3 DEF Fits
<1>5. Leaves(rest, now, n, SubSeq(now, 1, n))
  BY <1>3 DEF Leaves
<1>6. Planned(now, rest, SubSeq(now, 1, n))
  BY <1>1, <1>3, <1>4, <1>5, UptoFacts, AboveUpto DEF Planned
<1> QED
  BY <1>6 DEF rest

LEMMA PlannedPopPush ==
  ASSUME NEW now \in Seq(SV), Above(now), Base \in Nat, NEW n \in Base .. Len(now)
  PROVE  Planned(now, <<PopTo(n), PushUndef>>, Append(SubSeq(now, 1, n), Undef))
<1>1. n \in Nat /\ n \in 0 .. Len(now) /\ Undef \in SV
  BY LenProperties DEF SV
<1>2. /\ PopTo(n) \in Entry /\ PopTo(n).do = "popto" /\ PopTo(n).n = n
      /\ PushUndef \in Entry /\ PushUndef.do = "push_undef"
  BY <1>1, EntriesMade
<1> DEFINE rest == <<PopTo(n), PushUndef>>
<1>3. rest \in Seq(Entry) /\ Len(rest) = 2 /\ rest[1].do = "popto" /\ rest[1].n = n /\ rest[2].do = "push_undef"
  BY <1>2
<1> HIDE DEF rest
<1>4. Fits(rest, now)
  BY <1>3 DEF Fits
<1>5. Leaves(rest, now, n, Append(SubSeq(now, 1, n), Undef))
  BY <1>3 DEF Leaves
<1>6. SubSeq(now, 1, n) \in Seq(SV) /\ Above(SubSeq(now, 1, n))
  BY <1>1, UptoFacts, AboveUpto
<1>7. Append(SubSeq(now, 1, n), Undef) \in Seq(SV) /\ Above(Append(SubSeq(now, 1, n), Undef))
  BY ONLY <1>1, <1>6, Base \in Nat, AboveAppend
<1>8. Planned(now, rest, Append(SubSeq(now, 1, n), Undef))
  BY <1>1, <1>3, <1>4, <1>5, <1>7 DEF Planned
<1> QED
  BY <1>8 DEF rest

LEMMA PlannedFast ==
  ASSUME NEW now \in Seq(SV), Above(now), NEW x \in SV, NEW y \in SV
  PROVE  Planned(now, <<FastDec(x), FastDec(y)>>, now)
<1>1. /\ FastDec(x) \in Entry /\ FastDec(x).do = "dec" /\ FastDec(x).fast
      /\ FastDec(y) \in Entry /\ FastDec(y).do = "dec" /\ FastDec(y).fast
  BY EntriesMade
<1> DEFINE rest == <<FastDec(x), FastDec(y)>>
<1>2. rest \in Seq(Entry) /\ Len(rest) = 2 /\ rest[1].do = "dec" /\ rest[2].do = "dec" /\ rest[2].fast
  BY <1>1
<1> HIDE DEF rest
<1>3. Len(now) \in 0 .. Len(now)
  BY LenProperties
<1>4. Fits(rest, now)
  BY <1>2 DEF Fits
<1>5. Leaves(rest, now, Len(now), now)
  BY <1>2, SubSeqFull DEF Leaves
<1>6. Planned(now, rest, now)
  BY <1>2, <1>3, <1>4, <1>5 DEF Planned
<1> QED
  BY <1>6 DEF rest

LEMMA PlannedFastDrop ==
  ASSUME NEW now \in Seq(SV), Above(now), Base \in Nat, Len(now) > Base, NEW x \in SV, NEW y \in SV,
         now[Len(now)] = x
  PROVE  Planned(now, <<FastDec(x), FastDec(y), Drop(x)>>, SubSeq(now, 1, Len(now) - 1))
<1>1. /\ FastDec(x) \in Entry /\ FastDec(x).do = "dec" /\ FastDec(x).fast
      /\ FastDec(y) \in Entry /\ FastDec(y).do = "dec" /\ FastDec(y).fast
      /\ Drop(x) \in Entry /\ Drop(x).do = "drop" /\ Drop(x).sv = x
  BY EntriesMade
<1> DEFINE rest == <<FastDec(x), FastDec(y), Drop(x)>>
<1>2. /\ rest \in Seq(Entry) /\ Len(rest) = 3 /\ rest[1].do = "dec" /\ rest[2].do = "dec" /\ rest[2].fast
      /\ rest[3].do = "drop" /\ rest[3].sv = x
  BY <1>1
<1> HIDE DEF rest
<1>3. Len(now) - 1 \in Base .. Len(now) /\ Len(now) - 1 \in 0 .. Len(now)
  BY LenProperties
<1>4. Fits(rest, now)
  BY <1>2 DEF Fits
<1>5. Leaves(rest, now, Len(now) - 1, SubSeq(now, 1, Len(now) - 1))
  BY <1>2 DEF Leaves
<1>6. Planned(now, rest, SubSeq(now, 1, Len(now) - 1))
  BY <1>2, <1>3, <1>4, <1>5, UptoFacts, AboveUpto DEF Planned
<1> QED
  BY <1>6 DEF rest

(* A new mortal is on the temps stack.                                     *)
LEMMA Mortalised ==
  ASSUME TypeOK, Mortals, NEW g \in SVs, sv_2mortal(g)
  PROVE  /\ tmps' \in Seq(SVs) /\ temp' \subseteq SVs /\ Mortals'
         /\ \A s \in SVs : Counted(tmps', s) = Counted(tmps, s) + One(g, s)
<1>1. tmps' = Append(tmps, g) /\ temp' = temp \cup {g} /\ tmps \in Seq(SVs) /\ temp \subseteq SVs
  BY DEF sv_2mortal, TypeOK
<1>2. /\ Append(tmps, g) \in Seq(SVs) /\ Len(Append(tmps, g)) = Len(tmps) + 1 /\ Len(tmps) \in Nat
      /\ \A i \in 1 .. Len(tmps) : Append(tmps, g)[i] = tmps[i]
      /\ Append(tmps, g)[Len(tmps) + 1] = g
  BY <1>1, AppendProperties, LenProperties
<1>3. ASSUME NEW s \in temp' PROVE \E i \in 1 .. Len(tmps') : tmps'[i] = s
  <2>1. CASE s = g
    <3>1. Len(tmps) + 1 \in 1 .. Len(tmps') /\ tmps'[Len(tmps) + 1] = s
      BY <1>1, <1>2, <2>1
    <3> QED
      BY <3>1
  <2>2. CASE s \in temp
    <3>1. PICK i \in 1 .. Len(tmps) : tmps[i] = s
      BY <2>2 DEF Mortals
    <3>2. i \in 1 .. Len(tmps') /\ tmps'[i] = s
      BY <1>1, <1>2, <3>1
    <3> QED
      BY <3>2
  <2> QED
    BY <1>1, <1>3, <2>1, <2>2
<1>4. ASSUME NEW s \in SVs PROVE Counted(tmps', s) = Counted(tmps, s) + One(g, s)
  <2>1. Counted(Append(tmps, g), s) = Counted(tmps, s) + One(g, s)
    BY ONLY <1>1, g \in SVs, CountedAppend
  <2> QED
    BY ONLY <1>1, <2>1
<1> QED
  BY <1>1, <1>2, <1>3, <1>4 DEF Mortals

(* A reference is given away.                                              *)
LEMMA GivenAway ==
  ASSUME TypeOK, NEW g \in SVs, own[g] > 0, own' = [own EXCEPT ![g] = @ - 1]
  PROVE  own' \in [SVs -> Nat] /\ \A s \in SVs : own'[s] = own[s] - One(g, s)
<1>1. own \in [SVs -> Nat]
  BY DEF TypeOK
<1>2. ASSUME NEW s \in SVs PROVE own'[s] = own[s] - One(g, s) /\ own'[s] \in Nat
  BY <1>1 DEF One
<1> QED
  BY <1>1, <1>2

LEMMA GivenFacts ==
  ASSUME NEW x, NEW s
  PROVE  One(x, s) \in Nat
BY DEF One

(* Helpers that put on the stack a reference that the caller had.          *)
LEMMA NorcKeeps ==
  ASSUME IInv, Running, NEW now, NEW rest, NEW documented, NEW g \in SVs,
         Planned(now, rest, documented), Helper(now, <<>>, rest, documented), TakeOver(g),
         \A s \in SVs : Counted(now, s) + HeldIn(rest, s) = Counted(stack, s) + One(g, s)
  PROVE  IInv'
<1>1. TypeOK /\ CountsAgree /\ Mortals /\ Plans /\ <<>> \in Seq(SV)
  BY DEF IInv
<1>2. /\ rc' = rc /\ args' = args /\ off' = off /\ own[g] > 0 /\ own' = [own EXCEPT ![g] = @ - 1]
      /\ rc => UNCHANGED <<tmps, temp>>
      /\ ~rc => sv_2mortal(g)
  BY DEF TakeOver
<1>3. /\ \E r : RunStep(r)
      /\ stack' \in Seq(SV) /\ result' \in Seq(SV) /\ work' \in Seq(Entry) /\ refcnt' \in [SVs -> Nat]
      /\ rc => stack' = now /\ refcnt' = refcnt /\ work' = rest \o work
      /\ ~rc => UNCHANGED <<refcnt, work>>
  BY <1>1, <1>2, HelperRuns, AddedNone
<1>4. own' \in [SVs -> Nat] /\ \A s \in SVs : own'[s] = own[s] - One(g, s)
  BY <1>1, <1>2, GivenAway
<1>5. tmps' \in Seq(SVs) /\ temp' \subseteq SVs /\ Mortals'
  <2>1. CASE rc
    BY <1>1, <1>2, <2>1 DEF TypeOK, Mortals
  <2>2. CASE ~rc
    BY <1>1, <1>2, <2>2, Mortalised
  <2> QED
    BY <2>1, <2>2
<1>6. TypeOK'
  BY <1>1, <1>2, <1>3, <1>4, <1>5 DEF TypeOK
<1>7. Plans'
  BY <1>1, <1>3, <1>6, RunPlans
<1>8. CountsAgree'
  <2>1. now \in Seq(SV) /\ rest \in Seq(Entry) /\ work \in Seq(Entry)
    BY <1>1 DEF Planned, TypeOK
  <2>2. ASSUME NEW s \in SVs
        PROVE  \E a, h, k, m \in Int : Moves(s, a, h, k, m)
    <3>1. /\ refcnt[s] \in Nat /\ own[s] \in Nat /\ off[s] \in Int
          /\ Counted(tmps, s) \in Nat /\ Counted(stack, s) \in Nat
          /\ Counted(args, s) \in Nat /\ HeldIn(work, s) \in Int /\ One(g, s) \in Nat
      BY <1>1, CountTypes, GivenFacts
    <3>2. own'[s] = own[s] - One(g, s) /\ off'[s] = off[s] /\ Counted(args', s) = Counted(args, s)
      BY <1>2, <1>4
    <3>3. CASE rc
      <4>1. stack' = now /\ refcnt' = refcnt /\ work' = rest \o work /\ tmps' = tmps
        BY <1>2, <1>3, <3>3
      <4>2. HeldIn(work', s) = HeldIn(rest, s) + HeldIn(work, s) /\ HeldIn(rest, s) \in Int
        BY ONLY <2>1, <4>1, HeldConcat
      <4>3. Counted(now, s) + HeldIn(rest, s) = Counted(stack, s) + One(g, s) /\ Counted(now, s) \in Nat
        BY <2>1, CountedNat
      <4> DEFINE k == Counted(now, s) - Counted(stack, s)
                 a == 0 - One(g, s)
      <4>4. k \in Int /\ a \in Int /\ 0 = a + HeldIn(rest, s) + k
        <5>1. \A n, h, o, i \in Int : n + h = o + i => 0 = (0 - i) + h + (n - o)
          OBVIOUS
        <5>2. /\ Counted(now, s) \in Int /\ HeldIn(rest, s) \in Int
              /\ Counted(stack, s) \in Int /\ One(g, s) \in Int
          BY ONLY <3>1, <4>2, <4>3
        <5> QED
          BY ONLY <4>3, <5>1, <5>2
      <4>5. Counted(stack', s) + Counted(args', s) = Counted(stack, s) + Counted(args, s) + k
        <5>1. Counted(stack', s) = Counted(now, s)
          BY ONLY <4>1
        <5> DEFINE n == Counted(now, s)
                   o == Counted(stack, s)
                   i == Counted(args, s)
        <5>2. n \in Nat /\ o \in Nat /\ i \in Nat
          BY ONLY <3>1, <4>3
        <5> HIDE DEF n, o, i
        <5>3. n + i = o + i + (n - o)
          BY ONLY <5>2
        <5> QED
          BY <3>2, <5>1, <5>3 DEF n, o, i
      <4>6. refcnt'[s] - off'[s] = refcnt[s] - off[s] + 0 /\ HeldIn(work', s) = HeldIn(work, s) + HeldIn(rest, s)
        BY ONLY <3>1, <3>2, <4>1, <4>2
      <4>7. own'[s] + Counted(tmps', s) = own[s] + Counted(tmps, s) + a
        BY ONLY <3>1, <3>2, <4>1
      <4> HIDE DEF k, a
      <4>8. Moves(s, a, HeldIn(rest, s), k, 0)
        BY ONLY <3>3, <4>4, <4>5, <4>6, <4>7 DEF Moves
      <4> QED
        BY ONLY <4>2, <4>4, <4>8
    <3>4. CASE ~rc
      <4>1. refcnt' = refcnt /\ work' = work /\ Counted(tmps', s) = Counted(tmps, s) + One(g, s)
        BY <1>1, <1>2, <1>3, <3>4, Mortalised
      <4>2. own'[s] + Counted(tmps', s) = own[s] + Counted(tmps, s) + 0
        BY ONLY <3>1, <3>2, <4>1
      <4>3. Moves(s, 0, 0, 0, 0)
        BY ONLY <3>1, <3>2, <3>4, <4>1, <4>2 DEF Moves
      <4> QED
        BY ONLY <4>3
    <3> QED
      BY <3>3, <3>4
  <2> QED
    BY <1>1, <1>2, <1>6, <2>2, CountsKept
<1> QED
  BY <1>5, <1>6, <1>7, <1>8 DEF IInv

LEMMA IncFacts ==
  ASSUME NEW count \in [SVs -> Int], NEW x \in SV
  PROVE  Inc(count, x) \in [SVs -> Int] /\ \A s \in SVs : Inc(count, x)[s] = count[s] + One(x, s)
<1>1. CASE x = Undef
  <2>1. \A s \in SVs : One(x, s) = 0
    BY <1>1, UndefAssumption DEF One
  <2> QED
    BY <1>1, <2>1 DEF Inc
<1>2. CASE x # Undef
  <2>1. x \in SVs /\ Inc(count, x) = [count EXCEPT ![x] = @ + 1]
    BY <1>2 DEF SV, Inc
  <2>2. ASSUME NEW s \in SVs PROVE [count EXCEPT ![x] = @ + 1][s] = count[s] + One(x, s)
    BY <2>1 DEF One
  <2> QED
    BY <2>1, <2>2
<1> QED
  BY <1>1, <1>2

(* Helpers that give up two SVs together: off counts what they are wrong   *)
(* by when the two are one.                                                *)
FastPlan(now, incs, x, y, last, documented) ==
  LET rest == <<FastDec(x), FastDec(y)>> \o last
  IN /\ Planned(now, rest, documented)
     /\ \A s \in SVs : Counted(now, s) + HeldIn(rest, s) = Counted(stack, s) + Counted(incs, s)
     /\ \A s \in SVs : Counted(documented, s) + (One(x, s) + One(y, s)) = Counted(stack, s) + Counted(incs, s)

LEMMA FastKeeps ==
  ASSUME IInv, Running, NEW now, NEW incs \in Seq(SV), NEW x \in SV, NEW y \in SV, NEW last, NEW documented,
         FreeBoth(now, incs, x, y, last, documented), FastPlan(now, incs, x, y, last, documented)
  PROVE  IInv'
<1> DEFINE rest == <<FastDec(x), FastDec(y)>> \o last
           counts == Added(incs)
           shared(v) == v = Undef \/ counts[v] \div 2 # 0
<1>1. TypeOK /\ CountsAgree /\ Mortals /\ Plans
  BY DEF IInv
<1>2. rc' = rc /\ tmps' = tmps /\ temp' = temp /\ own' = own /\ args' = args
  BY DEF FreeBoth
<1>3. result' = IF work = <<>> THEN documented ELSE result
  BY DEF FreeBoth
<1>0. /\ Planned(now, rest, documented)
      /\ \A s \in SVs : Counted(now, s) + HeldIn(rest, s) = Counted(stack, s) + Counted(incs, s)
      /\ \A s \in SVs : Counted(documented, s) + (One(x, s) + One(y, s)) = Counted(stack, s) + Counted(incs, s)
  BY DEF FastPlan
<1>4. CASE ~(rc /\ shared(x) /\ shared(y))
  <2>1. Helper(now, incs, rest, documented) /\ off' = off
    BY <1>4 DEF FreeBoth, Helper
  <2>2. Others
    BY <1>2, <2>1 DEF Others
  <2> HIDE DEF rest
  <2>3. Balanced(now, incs, rest)
    BY <1>0 DEF Balanced
  <2> QED
    BY ONLY IInv, Running, incs \in Seq(SV), <1>0, <2>1, <2>2, <2>3, HelperKeeps
<1>5. CASE rc /\ shared(x) /\ shared(y)
  <2>1. /\ stack' = documented /\ work' = work
        /\ refcnt' = [w \in SVs |-> counts[w] - (IF w \in {x, y} THEN 1 ELSE 0)]
        /\ off' = IF x = y THEN Inc(off, x) ELSE off
    BY <1>5 DEF FreeBoth
  <2>2. /\ counts \in [SVs -> Nat]
        /\ \A s \in SVs : counts[s] = refcnt[s] + Counted(incs, s) /\ Counted(incs, s) \in Nat
    BY <1>1, AddedCounts
  <2>3. \A s \in SVs : s \in {x, y} => counts[s] >= 1
    <3> TAKE s \in SVs
    <3> HAVE s \in {x, y}
    <3>1. counts[s] \in Nat /\ counts[s] \div 2 # 0
      BY <1>5, <2>2, UndefAssumption
    <3> QED
      BY ONLY <3>1
  <2> HIDE DEF counts
  <2>4. ASSUME NEW s \in SVs PROVE refcnt'[s] = counts[s] - (IF s \in {x, y} THEN 1 ELSE 0) /\ refcnt'[s] \in Nat
    BY <2>1, <2>2, <2>3
  <2>5. refcnt' \in [SVs -> Nat]
    BY <2>1, <2>4
  <2>6. off' \in [SVs -> Int] /\ \A s \in SVs : off'[s] = off[s] + (IF x = y THEN One(x, s) ELSE 0)
    <3>1. off \in [SVs -> Int]
      BY <1>1 DEF TypeOK
    <3>2. CASE x = y
      BY ONLY x \in SV, <2>1, <3>1, <3>2, IncFacts
    <3>3. CASE x # y
      BY ONLY <2>1, <3>1, <3>3
    <3> QED
      BY <3>2, <3>3
  <2>7. documented \in Seq(SV) /\ Above(documented)
    BY <1>0 DEF Planned
  <2>8. TypeOK'
    BY <1>1, <1>2, <1>3, <2>1, <2>5, <2>6, <2>7 DEF TypeOK
  <2>9. RunStep(<<>>)
    BY <1>1, <1>2, <1>3, <2>1, <2>7, AtOnce
  <2>10. Plans'
    BY <1>1, <2>8, <2>9, RunPlans
  <2>11. Mortals'
    BY <1>1, <1>2 DEF Mortals
  <2>12. ASSUME NEW s \in SVs
         PROVE  \E a, h, k, m \in Int : Moves(s, a, h, k, m)
    <3>1. /\ refcnt[s] \in Nat /\ own[s] \in Nat /\ off[s] \in Int
          /\ Counted(tmps, s) \in Nat /\ Counted(stack, s) \in Nat
          /\ Counted(args, s) \in Nat /\ HeldIn(work, s) \in Int
      BY <1>1, CountTypes
    <3>2. Counted(documented, s) + (One(x, s) + One(y, s)) = Counted(stack, s) + Counted(incs, s) /\ Counted(documented, s) \in Nat
      BY <1>0, <2>7, CountedNat
    <3>3. refcnt'[s] - off'[s] = refcnt[s] - off[s] + (Counted(incs, s) - (One(x, s) + One(y, s)))
      <4>1. /\ refcnt'[s] = counts[s] - (IF s \in {x, y} THEN 1 ELSE 0)
            /\ off'[s] = off[s] + (IF x = y THEN One(x, s) ELSE 0)
            /\ counts[s] = refcnt[s] + Counted(incs, s) /\ Counted(incs, s) \in Nat
        BY <2>2, <2>4, <2>6
      <4>2. (IF s \in {x, y} THEN 1 ELSE 0) + (IF x = y THEN One(x, s) ELSE 0) = One(x, s) + One(y, s)
        BY DEF One
      <4> DEFINE d == IF s \in {x, y} THEN 1 ELSE 0
                 e == IF x = y THEN One(x, s) ELSE 0
      <4>3. d \in Nat /\ e \in Nat
        BY DEF One
      <4> HIDE DEF d, e
      <4>4. refcnt'[s] = counts[s] - d /\ off'[s] = off[s] + e /\ d + e = One(x, s) + One(y, s)
        BY <4>1, <4>2 DEF d, e
      <4> DEFINE r == refcnt[s]
                 f == off[s]
                 i == Counted(incs, s)
                 g == One(x, s) + One(y, s)
                 rp == refcnt'[s]
                 fp == off'[s]
      <4>5. r \in Nat /\ f \in Int /\ i \in Nat /\ rp = (r + i) - d /\ fp = f + e /\ g = d + e
        BY ONLY <3>1, <4>1, <4>4
      <4> HIDE DEF r, f, i, g, rp, fp
      <4>6. rp - fp = r - f + (i - g)
        BY ONLY <4>3, <4>5
      <4> QED
        BY <4>6 DEF r, f, i, g, rp, fp
    <3> DEFINE k == Counted(documented, s) - Counted(stack, s)
               m == Counted(incs, s) - (One(x, s) + One(y, s))
    <3>4. k \in Int /\ m \in Int /\ m = 0 + 0 + k
      <4>1. Counted(incs, s) \in Int /\ One(x, s) + One(y, s) \in Int
        BY <2>2 DEF One
      <4>2. \A n, h, o, i \in Int : n + h = o + i => i - h = 0 + 0 + (n - o)
        OBVIOUS
      <4>3. Counted(documented, s) \in Int /\ Counted(stack, s) \in Int
        BY ONLY <3>1, <3>2
      <4> QED
        BY ONLY <3>2, <4>1, <4>2, <4>3
    <3>5. Counted(stack', s) + Counted(args', s) = Counted(stack, s) + Counted(args, s) + k
      <4>1. Counted(stack', s) = Counted(documented, s) /\ Counted(args', s) = Counted(args, s)
        BY ONLY <1>2, <2>1
      <4> QED
        BY ONLY <3>1, <3>2, <4>1
    <3>6. own'[s] + Counted(tmps', s) = own[s] + Counted(tmps, s) + 0 /\ HeldIn(work', s) = HeldIn(work, s) + 0
      BY ONLY <1>2, <2>1, <3>1
    <3> HIDE DEF k
    <3>7. Moves(s, 0, 0, k, m)
      BY <1>5, <3>3, <3>4, <3>5, <3>6 DEF Moves
    <3> QED
      BY ONLY <3>4, <3>7
  <2>13. CountsAgree'
    BY <1>1, <1>2, <2>8, <2>12, CountsKept
  <2> QED
    BY <2>8, <2>10, <2>11, <2>13 DEF IInv
<1> QED
  BY <1>4, <1>5

-----------------------------------------------------------------------------
(* Each helper keeps the invariant.                                        *)

LEMMA RunningFacts ==
  ASSUME IInv, Running
  PROVE  /\ TypeOK /\ stack \in Seq(SV) /\ SP \in Nat /\ Base \in Nat /\ Base <= SP /\ Above(stack)
         /\ SVs \subseteq SV /\ Undef \in SV /\ Reachable \subseteq SVs
         /\ \A i \in 1 .. SP : stack[i] \in SV
         /\ Len(stack) = SP
<1>1. TypeOK /\ Heights
  BY DEF IInv, Plans
<1>2. stack \in Seq(SV)
  BY <1>1 DEF TypeOK
<1>3. Base \in Nat /\ Base <= SP /\ SP \in Nat
  BY <1>1, BaseFacts, WorkFacts DEF SP
<1>4. \A i \in 1 .. SP : stack[i] \in SV
  BY <1>2, ElementOfSeq DEF SP
<1> QED
  BY <1>1, <1>2, <1>3, <1>4 DEF Above, SP, SV, Reachable

(* Counts of one to three new references, and of none.                     *)
LEMMA FewCounted ==
  ASSUME NEW x \in SV, NEW s
  PROVE  /\ <<x>> \in Seq(SV) /\ Counted(<<x>>, s) = One(x, s)
         /\ <<>> \in Seq(SV) /\ Counted(<<>>, s) = 0
         /\ HeldIn(<<>>, s) = 0
         /\ HeldIn(<<Dec(x)>>, s) = One(x, s)
         /\ \A n \in Nat : /\ HeldIn(<<PopTo(n)>>, s) = 0
                           /\ HeldIn(<<Dec(x), PopTo(n)>>, s) = One(x, s)
                           /\ HeldIn(<<PopTo(n), PushUndef>>, s) = 0
                           /\ HeldIn(<<FreeTmps(n)>>, s) = 0
         /\ HeldIn(<<ClearArgs>>, s) = 0
<1>1. One(x, s) \in Nat
  BY GivenFacts
<1>2. Dec(x) \in Entry /\ Gives(Dec(x), s) = One(x, s)
  BY <1>1, EntriesMade DEF Gives
<1>3. ASSUME NEW n \in Nat PROVE /\ PopTo(n) \in Entry /\ Gives(PopTo(n), s) = 0
                                 /\ FreeTmps(n) \in Entry /\ Gives(FreeTmps(n), s) = 0
  BY EntriesMade DEF Gives
<1>4. PushUndef \in Entry /\ Gives(PushUndef, s) = 0 /\ ClearArgs \in Entry /\ Gives(ClearArgs, s) = 0
  BY EntriesMade DEF Gives
<1>5. ASSUME NEW n \in Nat
      PROVE  /\ HeldIn(<<PopTo(n)>>, s) = 0
             /\ HeldIn(<<Dec(x), PopTo(n)>>, s) = One(x, s)
             /\ HeldIn(<<PopTo(n), PushUndef>>, s) = 0
             /\ HeldIn(<<FreeTmps(n)>>, s) = 0
  <2>1. /\ PopTo(n) \in Entry /\ Gives(PopTo(n), s) = 0
        /\ FreeTmps(n) \in Entry /\ Gives(FreeTmps(n), s) = 0
    BY <1>3
  <2>2. HeldIn(<<PopTo(n)>>, s) = 0 /\ HeldIn(<<FreeTmps(n)>>, s) = 0
    BY ONLY <2>1, HeldOne
  <2>3. HeldIn(<<Dec(x), PopTo(n)>>, s) = One(x, s) + 0 /\ HeldIn(<<PopTo(n), PushUndef>>, s) = 0 + 0
    BY ONLY <1>2, <1>4, <2>1, HeldTwo
  <2> QED
    BY ONLY <1>1, <2>2, <2>3
<1>6. /\ HeldIn(<<>>, s) = 0 /\ HeldIn(<<Dec(x)>>, s) = One(x, s) /\ HeldIn(<<ClearArgs>>, s) = 0
  BY ONLY <1>2, <1>4, HeldOne
<1>7. Counted(<<x>>, s) = One(x, s) /\ Counted(<<>>, s) = 0
  BY ONLY CountedOne
<1> QED
  BY <1>5, <1>6, <1>7

LEMMA PopfreeKeeps ==
  ASSUME IInv, Running, NEW n, rpp_popfree_to(n)
  PROVE  IInv'
<1>1. /\ stack \in Seq(SV) /\ Above(stack) /\ Base \in Nat /\ n \in Base .. Len(stack) /\ n \in Nat
      /\ Undef \in SV /\ TypeOK
  BY RunningFacts DEF rpp_popfree_to
<1>2. Planned(stack, <<PopTo(n)>>, Upto(n))
  BY <1>1, PlannedPop DEF Upto
<1>3. ASSUME NEW s \in SVs
      PROVE  Counted(stack, s) + HeldIn(<<PopTo(n)>>, s) = Counted(stack, s) + Counted(<<>>, s)
  BY <1>1, FewCounted
<1>4. Helper(stack, <<>>, <<PopTo(n)>>, Upto(n)) /\ Others /\ <<>> \in Seq(SV)
  BY DEF rpp_popfree_to
<1>5. Balanced(stack, <<>>, <<PopTo(n)>>)
  BY <1>3 DEF Balanced
<1> QED
  BY ONLY IInv, Running, <1>2, <1>5, <1>4, HelperKeeps

LEMMA PushKeeps ==
  ASSUME IInv, Running, NEW s \in SVs, rpp_push_1(s)
  PROVE  IInv'
<1>1. stack \in Seq(SV) /\ Above(stack) /\ Base \in Nat /\ s \in SV /\ TypeOK
  BY RunningFacts
<1>2. Append(stack, s) \in Seq(SV) /\ Above(Append(stack, s))
  BY ONLY <1>1, AboveAppend
<1>3. Planned(Append(stack, s), <<>>, Append(stack, s))
  BY ONLY <1>2, PlannedNothing
<1>4. ASSUME NEW u \in SVs
      PROVE  Counted(Append(stack, s), u) + HeldIn(<<>>, u) = Counted(stack, u) + Counted(<<s>>, u)
  <2>1. Counted(Append(stack, s), u) = Counted(stack, u) + One(s, u)
    BY ONLY <1>1, CountedAppend
  <2>2. HeldIn(<<>>, u) = 0 /\ Counted(<<s>>, u) = One(s, u) /\ One(s, u) \in Nat /\ Counted(stack, u) \in Nat
    BY <1>1, FewCounted, GivenFacts, CountTypes
  <2> QED
    BY ONLY <2>1, <2>2
<1>5. Helper(Append(stack, s), <<s>>, <<>>, Append(stack, s)) /\ Others /\ <<s>> \in Seq(SV)
  BY <1>1 DEF rpp_push_1
<1>6. Balanced(Append(stack, s), <<s>>, <<>>)
  BY <1>4 DEF Balanced
<1> QED
  BY ONLY IInv, Running, <1>3, <1>6, <1>5, HelperKeeps

LEMMA PushImmKeeps ==
  ASSUME IInv, Running, rpp_push_IMM
  PROVE  IInv'
<1>1. stack \in Seq(SV) /\ Above(stack) /\ Base \in Nat /\ Undef \in SV /\ TypeOK
  BY RunningFacts
<1>2. Append(stack, Undef) \in Seq(SV) /\ Above(Append(stack, Undef))
  BY ONLY <1>1, AboveAppend
<1>3. Planned(Append(stack, Undef), <<>>, Append(stack, Undef))
  BY ONLY <1>2, PlannedNothing
<1>4. ASSUME NEW u \in SVs
      PROVE  Counted(Append(stack, Undef), u) + HeldIn(<<>>, u) = Counted(stack, u) + Counted(<<>>, u)
  <2>1. Counted(Append(stack, Undef), u) = Counted(stack, u) + One(Undef, u)
    BY ONLY <1>1, CountedAppend
  <2>2. HeldIn(<<>>, u) = 0 /\ Counted(<<>>, u) = 0 /\ One(Undef, u) = 0 /\ Counted(stack, u) \in Nat
    BY <1>1, FewCounted, CountTypes, UndefAssumption DEF One
  <2> QED
    BY ONLY <2>1, <2>2
<1>5. Helper(Append(stack, Undef), <<>>, <<>>, Append(stack, Undef)) /\ Others /\ <<>> \in Seq(SV)
  BY DEF rpp_push_IMM
<1>6. Balanced(Append(stack, Undef), <<>>, <<>>)
  BY <1>4 DEF Balanced
<1> QED
  BY ONLY IInv, Running, <1>3, <1>6, <1>5, HelperKeeps

LEMMA PushTwoKeeps ==
  ASSUME IInv, Running, NEW s \in SVs, NEW u \in SVs, rpp_push_2(s, u)
  PROVE  IInv'
<1> DEFINE now == stack \o <<s, u>>
<1>1. stack \in Seq(SV) /\ Above(stack) /\ Base \in Nat /\ TypeOK /\ s \in SV /\ u \in SV
  BY RunningFacts
<1>2. <<s, u>> \in Seq(SV) /\ Len(<<s, u>>) = 2 /\ Len(stack) \in Nat
  BY <1>1, LenProperties
<1>3. now \in Seq(SV) /\ Above(now)
  <2>1. /\ now \in Seq(SV) /\ Len(now) = Len(stack) + 2
        /\ \A i \in 1 .. Len(stack) + 2 : now[i] = IF i <= Len(stack) THEN stack[i] ELSE <<s, u>>[i - Len(stack)]
    BY ONLY <1>1, <1>2, ConcatProperties
  <2> HIDE DEF now
  <2>2. \A p \in 1 .. Base : p \in 1 .. Len(stack) + 2 /\ p <= Len(stack)
    BY <1>1, <1>2 DEF Above
  <2> QED
    BY <1>1, <1>2, <2>1, <2>2 DEF Above
<1>4. Planned(now, <<>>, now)
  BY ONLY <1>3, PlannedNothing
<1>5. ASSUME NEW v \in SVs
      PROVE  Counted(now, v) + HeldIn(<<>>, v) = Counted(stack, v) + Counted(<<s, u>>, v)
  <2>1. Counted(now, v) = Counted(stack, v) + Counted(<<s, u>>, v)
    BY ONLY <1>1, <1>2, CountedConcat
  <2>2. HeldIn(<<>>, v) = 0 /\ Counted(stack, v) \in Nat /\ Counted(<<s, u>>, v) \in Nat
    BY <1>1, <1>2, FewCounted, CountTypes, CountedNat
  <2> QED
    BY ONLY <2>1, <2>2
<1>6. Helper(now, <<s, u>>, <<>>, now) /\ Others
  BY DEF rpp_push_2
<1> HIDE DEF now
<1>7. Balanced(now, <<s, u>>, <<>>)
  BY <1>5 DEF Balanced
<1> QED
  BY ONLY IInv, Running, <1>2, <1>4, <1>7, <1>6, HelperKeeps

(* One item is replaced, and its reference given up.                       *)
LEMMA ReplacedCounts ==
  ASSUME IInv, Running, NEW i \in Base + 1 .. SP, NEW x \in SV
  PROVE  /\ stack[i] \in SV
         /\ Planned([stack EXCEPT ![i] = x], <<Dec(stack[i])>>, [stack EXCEPT ![i] = x])
         /\ \A s \in SVs : Counted([stack EXCEPT ![i] = x], s) + HeldIn(<<Dec(stack[i])>>, s)
                             = Counted(stack, s) + One(x, s)
<1> DEFINE now == [stack EXCEPT ![i] = x]
<1>1. stack \in Seq(SV) /\ Above(stack) /\ Base \in Nat /\ i \in Base + 1 .. Len(stack) /\ i \in 1 .. Len(stack) /\ TypeOK
  BY RunningFacts DEF SP
<1>2. stack[i] \in SV
  BY ONLY <1>1, ElementOfSeq
<1>3. now \in Seq(SV) /\ Above(now)
  BY ONLY <1>1, x \in SV, AboveReplace
<1>4. ASSUME NEW s \in SVs
      PROVE  Counted(now, s) + HeldIn(<<Dec(stack[i])>>, s) = Counted(stack, s) + One(x, s)
  <2>1. Counted(now, s) = Counted(stack, s) - One(stack[i], s) + One(x, s)
    BY ONLY <1>1, x \in SV, CountedReplace
  <2>2. HeldIn(<<Dec(stack[i])>>, s) = One(stack[i], s)
    BY ONLY <1>2, FewCounted
  <2>3. Counted(stack, s) \in Nat /\ One(stack[i], s) \in Nat /\ One(x, s) \in Nat
    BY <1>1, CountTypes, GivenFacts
  <2> QED
    BY ONLY <2>1, <2>2, <2>3
<1> HIDE DEF now
<1>5. Planned(now, <<Dec(stack[i])>>, now)
  BY ONLY <1>2, <1>3, PlannedDec
<1> QED
  BY <1>2, <1>4, <1>5 DEF now

LEMMA ReplaceKeeps ==
  ASSUME IInv, Running, NEW i, NEW s \in SVs, rpp_replace_at(i, s)
  PROVE  IInv'
<1>1. i \in Base + 1 .. SP /\ s \in SV
  BY DEF rpp_replace_at, SV
<1> DEFINE now == [stack EXCEPT ![i] = s]
<1>2. Planned(now, <<Dec(stack[i])>>, now)
  BY ONLY IInv, Running, <1>1, ReplacedCounts
<1>3. ASSUME NEW u \in SVs
      PROVE  Counted(now, u) + HeldIn(<<Dec(stack[i])>>, u) = Counted(stack, u) + Counted(<<s>>, u)
  <2>1. Counted(<<s>>, u) = One(s, u)
    BY ONLY CountedOne
  <2> QED
    BY <1>1, <2>1, ReplacedCounts
<1>4. Helper(now, <<s>>, <<Dec(stack[i])>>, now) /\ Others /\ <<s>> \in Seq(SV)
  BY <1>1 DEF rpp_replace_at
<1> HIDE DEF now
<1>5. Balanced(now, <<s>>, <<Dec(stack[i])>>)
  BY <1>3 DEF Balanced
<1> QED
  BY ONLY IInv, Running, <1>2, <1>5, <1>4, HelperKeeps

LEMMA ReplaceImmKeeps ==
  ASSUME IInv, Running, rpp_replace_1_IMM_NN
  PROVE  IInv'
<1>1. SP \in Base + 1 .. SP /\ Undef \in SV /\ TypeOK
  BY RunningFacts DEF rpp_replace_1_IMM_NN
<1> DEFINE now == [stack EXCEPT ![SP] = Undef]
<1>2. Planned(now, <<Dec(stack[SP])>>, now)
  BY ONLY IInv, Running, <1>1, ReplacedCounts
<1>3. ASSUME NEW u \in SVs
      PROVE  Counted(now, u) + HeldIn(<<Dec(stack[SP])>>, u) = Counted(stack, u) + Counted(<<>>, u)
  <2>1. Counted(<<>>, u) = 0 /\ One(Undef, u) = 0
    BY CountedOne, UndefAssumption DEF One
  <2> QED
    BY <1>1, <2>1, ReplacedCounts
<1>4. Helper(now, <<>>, <<Dec(stack[SP])>>, now) /\ Others /\ <<>> \in Seq(SV)
  BY DEF rpp_replace_1_IMM_NN
<1> HIDE DEF now
<1>5. Balanced(now, <<>>, <<Dec(stack[SP])>>)
  BY <1>3 DEF Balanced
<1> QED
  BY ONLY IInv, Running, <1>2, <1>5, <1>4, HelperKeeps

(* A stack that goes on for one item after its first n.                    *)
LEMMA OneMore ==
  ASSUME NEW st \in Seq(SV), NEW a \in Seq(SV), NEW n \in 0 .. Len(a), Len(st) >= n + 1,
         \A p \in 1 .. n : st[p] = a[p]
  PROVE  SubSeq(st, 1, n + 1) = Append(SubSeq(a, 1, n), st[n + 1])
<1>1. Len(st) \in Nat /\ Len(a) \in Nat /\ n \in Nat /\ n + 1 \in 0 .. Len(st) /\ n + 1 \in 1 .. Len(st)
  BY LenProperties
<1>2. st[n + 1] \in SV
  BY <1>1, ElementOfSeq
<1> DEFINE low == SubSeq(a, 1, n)
           high == SubSeq(st, 1, n + 1)
<1>3. low \in Seq(SV) /\ Len(low) = n /\ \A p \in 1 .. n : low[p] = a[p]
  BY UptoFacts
<1>4. high \in Seq(SV) /\ Len(high) = n + 1 /\ \A p \in 1 .. n + 1 : high[p] = st[p]
  BY <1>1, UptoFacts
<1> HIDE DEF low, high
<1>5. /\ Append(low, st[n + 1]) \in Seq(SV) /\ Len(Append(low, st[n + 1])) = n + 1
      /\ \A p \in 1 .. n : Append(low, st[n + 1])[p] = low[p]
      /\ Append(low, st[n + 1])[n + 1] = st[n + 1]
  BY <1>2, <1>3, AppendProperties
<1>6. \A p \in 1 .. n + 1 : high[p] = Append(low, st[n + 1])[p]
  <2> TAKE p \in 1 .. n + 1
  <2>1. CASE p \in 1 .. n
    BY <1>3, <1>4, <1>5, <2>1
  <2>2. CASE p = n + 1
    BY <1>4, <1>5, <2>2
  <2>3. p \in 1 .. n \/ p = n + 1
    BY <1>1
  <2> QED
    BY <2>1, <2>2, <2>3
<1>7. high = Append(low, st[n + 1])
  BY <1>4, <1>5, <1>6, SeqEqual
<1> QED
  BY <1>7 DEF low, high

(* The two topmost items.                                                  *)
LEMMA TopTwo ==
  ASSUME IInv, Running, SP > Base + 1
  PROVE  /\ stack[SP - 1] \in SV /\ stack[SP] \in SV /\ SP - 1 \in Base + 1 .. SP /\ SP - 2 \in Base .. SP
         /\ Upto(SP - 1) \in Seq(SV) /\ Above(Upto(SP - 1)) /\ Len(Upto(SP - 1)) = SP - 1
         /\ Upto(SP - 1)[SP - 1] = stack[SP - 1]
         /\ Upto(SP - 2) \in Seq(SV) /\ Above(Upto(SP - 2)) /\ Len(Upto(SP - 2)) = SP - 2
         /\ SubSeq(Upto(SP - 1), 1, SP - 2) = Upto(SP - 2)
         /\ \A s : /\ Counted(stack, s) = Counted(Upto(SP - 1), s) + One(stack[SP], s)
                   /\ Counted(Upto(SP - 1), s) = Counted(Upto(SP - 2), s) + One(stack[SP - 1], s)
                   /\ Counted(Upto(SP - 2), s) \in Nat /\ Counted(Upto(SP - 1), s) \in Nat
<1>1. /\ stack \in Seq(SV) /\ Above(stack) /\ Base \in Nat /\ SP \in Nat /\ Len(stack) = SP
      /\ \A i \in 1 .. SP : stack[i] \in SV
  BY RunningFacts
<1>2. /\ SP - 1 \in Base .. Len(stack) /\ SP - 1 \in 0 .. Len(stack) /\ SP - 1 \in Base + 1 .. SP
      /\ SP - 2 \in Base .. Len(stack) /\ SP - 2 \in 0 .. Len(stack) /\ SP - 2 \in Nat /\ SP - 2 \in 0 .. SP - 1
      /\ SP - 1 \in 1 .. SP /\ SP \in 1 .. SP /\ SP > 0
  BY <1>1
<1> DEFINE one == Upto(SP - 1)
           two == Upto(SP - 2)
<1>3. one \in Seq(SV) /\ Len(one) = SP - 1 /\ (\A p \in 1 .. SP - 1 : one[p] = stack[p]) /\ Above(one)
  BY <1>1, <1>2, UptoFacts, AboveUpto DEF Upto
<1>4. two \in Seq(SV) /\ Len(two) = SP - 2 /\ Above(two)
  BY <1>1, <1>2, UptoFacts, AboveUpto DEF Upto
<1>5. SubSeq(one, 1, SP - 2) = two
  <2>1. \A p \in 1 .. SP - 2 : one[p] = stack[p]
    BY <1>1, <1>3
  <2>2. SP - 2 <= Len(one) /\ SP - 2 <= Len(stack)
    BY <1>1, <1>3
  <2>3. SubSeq(one, 1, SP - 2) = SubSeq(stack, 1, SP - 2)
    BY ONLY <1>1, <1>2, <1>3, <2>1, <2>2, SamePrefix
  <2> QED
    BY <2>3 DEF Upto
<1>6. one[SP - 1] = stack[SP - 1]
  BY <1>1, <1>2, <1>3
<1>7. ASSUME NEW s
      PROVE  /\ Counted(stack, s) = Counted(one, s) + One(stack[SP], s)
             /\ Counted(one, s) = Counted(two, s) + One(stack[SP - 1], s)
             /\ Counted(two, s) \in Nat /\ Counted(one, s) \in Nat
  <2>1. Counted(stack, s) = Counted(SubSeq(stack, 1, Len(stack) - 1), s) + One(stack[Len(stack)], s)
    BY <1>1, <1>2, CountedLast
  <2> HIDE DEF one, two
  <2>2. Len(one) > 0 /\ Len(one) - 1 = SP - 2
    BY <1>1, <1>2, <1>3
  <2>3. Counted(one, s) = Counted(SubSeq(one, 1, Len(one) - 1), s) + One(one[Len(one)], s)
    BY ONLY <1>3, <2>2, CountedLast
  <2>4. Counted(one, s) = Counted(two, s) + One(stack[SP - 1], s)
    BY ONLY <1>3, <1>5, <1>6, <2>2, <2>3
  <2>5. Counted(two, s) \in Nat /\ Counted(one, s) \in Nat
    BY ONLY <1>3, <1>4, CountedNat
  <2> QED
    BY <1>1, <2>1, <2>4, <2>5 DEF one, Upto
<1> HIDE DEF one, two
<1>8. /\ one \in Seq(SV) /\ Above(one) /\ Len(one) = SP - 1 /\ one[SP - 1] = stack[SP - 1]
      /\ two \in Seq(SV) /\ Above(two) /\ Len(two) = SP - 2 /\ SubSeq(one, 1, SP - 2) = two
      /\ \A s : /\ Counted(stack, s) = Counted(one, s) + One(stack[SP], s)
                /\ Counted(one, s) = Counted(two, s) + One(stack[SP - 1], s)
                /\ Counted(two, s) \in Nat /\ Counted(one, s) \in Nat
  BY ONLY <1>3, <1>4, <1>5, <1>6, <1>7
<1> QED
  BY <1>1, <1>2, <1>8 DEF one, two

LEMMA ReplaceTwoKeeps ==
  ASSUME IInv, Running, NEW s \in SVs, rpp_replace_2_1(s)
  PROVE  IInv'
<1> DEFINE now == [stack EXCEPT ![SP - 1] = s]
           x == stack[SP - 1]
<1>1. SP > Base + 1 /\ s \in SV /\ <<s>> \in Seq(SV)
  BY DEF rpp_replace_2_1, SV
<1>2. /\ stack \in Seq(SV) /\ Above(stack) /\ Base \in Nat /\ SP \in Nat /\ Len(stack) = SP /\ TypeOK
  BY RunningFacts
<1>3. /\ SP - 1 \in Base + 1 .. Len(stack) /\ SP - 1 \in 1 .. Len(stack) /\ SP - 1 \in Base .. SP
      /\ SP - 1 \in Nat /\ SP - 2 \in 0 .. Len(stack) /\ (SP - 2) + 1 = SP - 1 /\ x \in SV
  BY <1>1, <1>2, TopTwo
<1>4. now \in Seq(SV) /\ Above(now) /\ Len(now) = SP
  BY ONLY <1>1, <1>2, <1>3, AboveReplace
<1>5. \A j \in 1 .. SP : now[j] = IF j = SP - 1 THEN s ELSE stack[j]
  BY ONLY <1>1, <1>2, <1>3, ExceptSeq
<1>6. SubSeq(now, 1, SP - 1) = Append(Upto(SP - 2), s)
  <2>1. (\A p \in 1 .. SP - 2 : now[p] = stack[p]) /\ now[(SP - 2) + 1] = s /\ Len(now) >= (SP - 2) + 1
    BY <1>2, <1>3, <1>4, <1>5
  <2> HIDE DEF now
  <2>2. SubSeq(now, 1, (SP - 2) + 1) = Append(SubSeq(stack, 1, SP - 2), now[(SP - 2) + 1])
    BY ONLY <1>2, <1>3, <1>4, <2>1, OneMore
  <2> QED
    BY <1>3, <2>1, <2>2 DEF Upto
<1>7. ASSUME NEW u \in SVs
      PROVE  Counted(now, u) + HeldIn(<<Dec(x), PopTo(SP - 1)>>, u) = Counted(stack, u) + Counted(<<s>>, u)
  <2> DEFINE i == SP - 1
  <2>0. i \in 1 .. Len(stack)
    BY <1>3
  <2> HIDE DEF i
  <2>1. Counted([stack EXCEPT ![i] = s], u) = Counted(stack, u) - One(stack[i], u) + One(s, u)
    <3>1. stack \in Seq(SV) /\ s \in SV
      BY <1>1, <1>2
    <3> QED
      BY ONLY <2>0, <3>1, CountedReplace
  <2>2. HeldIn(<<Dec(x), PopTo(SP - 1)>>, u) = One(x, u) /\ Counted(<<s>>, u) = One(s, u)
    BY ONLY <1>1, <1>3, FewCounted
  <2>3. Counted(stack, u) \in Nat /\ One(x, u) \in Nat /\ One(s, u) \in Nat
    BY <1>2, CountTypes, GivenFacts
  <2>4. Counted(now, u) = Counted(stack, u) - One(x, u) + One(s, u)
    BY ONLY <2>1 DEF i
  <2> QED
    BY ONLY <2>2, <2>3, <2>4
<1>8. Helper(now, <<s>>, <<Dec(x), PopTo(SP - 1)>>, Append(Upto(SP - 2), s)) /\ Others
  BY DEF rpp_replace_2_1
<1> HIDE DEF now, x
<1>9. Planned(now, <<Dec(x), PopTo(SP - 1)>>, Append(Upto(SP - 2), s))
  BY ONLY <1>2, <1>3, <1>4, <1>6, PlannedDecPop
<1>10. Balanced(now, <<s>>, <<Dec(x), PopTo(SP - 1)>>)
  BY <1>7 DEF Balanced
<1> QED
  BY ONLY IInv, Running, <1>1, <1>10, <1>8, <1>9, HelperKeeps

LEMMA PopTwoKeeps ==
  ASSUME IInv, Running, rpp_popfree_2_NN
  PROVE  IInv'
<1> DEFINE x == stack[SP - 1]
           y == stack[SP]
           one == Upto(SP - 1)
           two == Upto(SP - 2)
<1>1. SP > Base + 1 /\ FreeBoth(one, <<>>, x, y, <<Drop(x)>>, two) /\ <<>> \in Seq(SV)
  BY DEF rpp_popfree_2_NN
<1>2. /\ x \in SV /\ y \in SV /\ one \in Seq(SV) /\ Above(one) /\ Len(one) = SP - 1 /\ one[SP - 1] = x
      /\ two \in Seq(SV) /\ SubSeq(one, 1, SP - 2) = two
      /\ \A s : /\ Counted(stack, s) = Counted(one, s) + One(y, s)
                /\ Counted(one, s) = Counted(two, s) + One(x, s)
                /\ Counted(two, s) \in Nat /\ Counted(one, s) \in Nat
  BY <1>1, TopTwo
<1>3. Base \in Nat /\ SP \in Nat
  BY RunningFacts
<1>4. Len(one) > Base /\ one[Len(one)] = x /\ Len(one) - 1 = SP - 2
  BY <1>1, <1>2, <1>3
<1> HIDE DEF x, y, one, two
<1>5. Planned(one, <<FastDec(x), FastDec(y), Drop(x)>>, two)
  BY ONLY <1>2, <1>3, <1>4, PlannedFastDrop
<1>6. FastDec(x) \in Entry /\ FastDec(y) \in Entry /\ Drop(x) \in Entry
  BY <1>2, EntriesMade
<1>7. <<FastDec(x), FastDec(y)>> \o <<Drop(x)>> = <<FastDec(x), FastDec(y), Drop(x)>>
  BY ONLY <1>6, JoinThree
<1>8. ASSUME NEW s \in SVs
      PROVE  /\ Counted(one, s) + HeldIn(<<FastDec(x), FastDec(y), Drop(x)>>, s) = Counted(stack, s) + Counted(<<>>, s)
             /\ Counted(two, s) + (One(x, s) + One(y, s)) = Counted(stack, s) + Counted(<<>>, s)
  <2>1. Gives(FastDec(x), s) = One(x, s) /\ Gives(FastDec(y), s) = One(y, s) /\ Gives(Drop(x), s) = 0 - One(x, s)
    <3> DEFINE e == FastDec(x)
               f == FastDec(y)
               g == Drop(x)
    <3>1. e.do = "dec" /\ e.sv = x /\ f.do = "dec" /\ f.sv = y /\ g.do = "drop" /\ g.sv = x
      BY <1>2, EntriesMade
    <3> HIDE DEF e, f, g
    <3>2. Gives(e, s) = One(x, s) /\ Gives(f, s) = One(y, s) /\ Gives(g, s) = 0 - One(x, s)
      BY <3>1 DEF Gives, One
    <3> QED
      BY <3>2 DEF e, f, g
  <2>2. HeldIn(<<FastDec(x), FastDec(y), Drop(x)>>, s) = Gives(FastDec(x), s) + Gives(FastDec(y), s) + Gives(Drop(x), s)
    BY ONLY <1>6, HeldThree
  <2>3. One(x, s) \in Nat /\ One(y, s) \in Nat /\ Counted(<<>>, s) = 0
    BY GivenFacts, CountedOne
  <2>4. HeldIn(<<FastDec(x), FastDec(y), Drop(x)>>, s) = One(y, s)
    BY ONLY <2>1, <2>2, <2>3
  <2>5. /\ Counted(stack, s) = Counted(one, s) + One(y, s)
        /\ Counted(one, s) = Counted(two, s) + One(x, s)
        /\ Counted(two, s) \in Nat /\ Counted(one, s) \in Nat
    BY ONLY <1>2
  <2> QED
    BY ONLY <2>3, <2>4, <2>5
<1>9. FastPlan(one, <<>>, x, y, <<Drop(x)>>, two)
  BY ONLY <1>5, <1>7, <1>8 DEF FastPlan
<1> QED
  BY ONLY IInv, Running, <1>1, <1>2, <1>9, FastKeeps

LEMMA ReplaceCommonKeeps ==
  ASSUME IInv, Running, NEW s \in SV, NEW incs \in Seq(SV), rpp_replace_2_1_COMMON(s, incs),
         \A u \in SVs : Counted(incs, u) = One(s, u)
  PROVE  IInv'
<1> DEFINE x == stack[SP - 1]
           y == stack[SP]
           one == Upto(SP - 1)
           two == Upto(SP - 2)
           now == Append(two, s)
<1>1. SP > Base + 1 /\ FreeBoth(now, incs, x, y, <<>>, now)
  BY DEF rpp_replace_2_1_COMMON
<1>2. /\ x \in SV /\ y \in SV /\ two \in Seq(SV) /\ Above(two)
      /\ \A u : /\ Counted(stack, u) = Counted(one, u) + One(y, u)
                /\ Counted(one, u) = Counted(two, u) + One(x, u)
                /\ Counted(two, u) \in Nat /\ Counted(one, u) \in Nat
  BY <1>1, TopTwo
<1>3. Base \in Nat
  BY RunningFacts
<1> HIDE DEF x, y, one, two
<1>4. now \in Seq(SV) /\ Above(now)
  BY ONLY <1>2, <1>3, s \in SV, AboveAppend
<1>5. ASSUME NEW u \in SVs PROVE Counted(now, u) = Counted(two, u) + One(s, u)
  BY ONLY <1>2, s \in SV, CountedAppend
<1> HIDE DEF now
<1>6. FastDec(x) \in Entry /\ FastDec(y) \in Entry /\ <<FastDec(x), FastDec(y)>> \in Seq(Entry)
  BY <1>2, EntriesMade
<1>7. <<FastDec(x), FastDec(y)>> \o <<>> = <<FastDec(x), FastDec(y)>>
  BY ONLY <1>6, ConcatEmptySeq
<1>8. Planned(now, <<FastDec(x), FastDec(y)>>, now)
  BY ONLY <1>2, <1>4, PlannedFast
<1>9. ASSUME NEW u \in SVs
      PROVE  /\ Counted(now, u) + HeldIn(<<FastDec(x), FastDec(y)>>, u) = Counted(stack, u) + Counted(incs, u)
             /\ Counted(now, u) + (One(x, u) + One(y, u)) = Counted(stack, u) + Counted(incs, u)
  <2>1. Gives(FastDec(x), u) = One(x, u) /\ Gives(FastDec(y), u) = One(y, u)
    <3> DEFINE e == FastDec(x)
               f == FastDec(y)
    <3>1. e.do = "dec" /\ e.sv = x /\ f.do = "dec" /\ f.sv = y
      BY <1>2, EntriesMade
    <3> HIDE DEF e, f
    <3>2. Gives(e, u) = One(x, u) /\ Gives(f, u) = One(y, u)
      BY <3>1 DEF Gives, One
    <3> QED
      BY <3>2 DEF e, f
  <2>2. HeldIn(<<FastDec(x), FastDec(y)>>, u) = Gives(FastDec(x), u) + Gives(FastDec(y), u)
    BY ONLY <1>6, HeldTwo
  <2>3. One(x, u) \in Nat /\ One(y, u) \in Nat /\ One(s, u) \in Nat /\ Counted(incs, u) = One(s, u)
    BY GivenFacts
  <2>4. /\ Counted(stack, u) = Counted(one, u) + One(y, u)
        /\ Counted(one, u) = Counted(two, u) + One(x, u)
        /\ Counted(two, u) \in Nat /\ Counted(one, u) \in Nat
    BY ONLY <1>2
  <2>5. Counted(now, u) + (One(x, u) + One(y, u)) = Counted(stack, u) + Counted(incs, u)
    BY <1>5, <2>3, <2>4
  <2> QED
    BY ONLY <2>1, <2>2, <2>5
<1>10. FastPlan(now, incs, x, y, <<>>, now)
  BY ONLY <1>7, <1>8, <1>9 DEF FastPlan
<1> QED
  BY ONLY IInv, Running, incs \in Seq(SV), <1>1, <1>2, <1>10, FastKeeps

(* Two items trade places.                                                 *)
Swapped(seq, i, j) == [seq EXCEPT ![j] = seq[i], ![i] = seq[j]]

LEMMA CountedSwap ==
  ASSUME NEW seq \in Seq(SV), NEW i \in 1 .. Len(seq), NEW j \in 1 .. Len(seq)
  PROVE  /\ Swapped(seq, i, j) \in Seq(SV) /\ Len(Swapped(seq, i, j)) = Len(seq)
         /\ Swapped(seq, i, j)[i] = seq[j]
         /\ \A p \in 1 .. Len(seq) : p # i /\ p # j => Swapped(seq, i, j)[p] = seq[p]
         /\ \A s : Counted(Swapped(seq, i, j), s) = Counted(seq, s)
<1> DEFINE now == Swapped(seq, i, j)
           x == seq[i]
           y == seq[j]
           mid == [seq EXCEPT ![j] = x]
<1>1. x \in SV /\ y \in SV
  BY ElementOfSeq
<1>2. /\ mid \in Seq(SV) /\ Len(mid) = Len(seq)
      /\ \A p \in 1 .. Len(seq) : mid[p] = IF p = j THEN x ELSE seq[p]
  BY ONLY <1>1, seq \in Seq(SV), j \in 1 .. Len(seq), ExceptSeq
<1>3. ASSUME NEW s PROVE Counted(mid, s) = Counted(seq, s) - One(y, s) + One(x, s)
  BY ONLY <1>1, seq \in Seq(SV), j \in 1 .. Len(seq), CountedReplace
<1>4. now = [mid EXCEPT ![i] = y]
  BY DEF Swapped
<1> HIDE DEF now
<1>5. mid[i] = x
  BY <1>2
<1> HIDE DEF mid, x, y
<1>6. /\ now \in Seq(SV) /\ Len(now) = Len(mid)
      /\ \A p \in 1 .. Len(mid) : now[p] = IF p = i THEN y ELSE mid[p]
  <2>1. i \in 1 .. Len(mid)
    BY <1>2
  <2> QED
    BY ONLY <1>1, <1>2, <1>4, <2>1, ExceptSeq
<1>7. ASSUME NEW s PROVE Counted(now, s) = Counted(seq, s)
  <2>1. i \in 1 .. Len(mid)
    BY <1>2
  <2>2. Counted([mid EXCEPT ![i] = y], s) = Counted(mid, s) - One(mid[i], s) + One(y, s)
    BY ONLY <1>1, <1>2, <2>1, CountedReplace
  <2>3. Counted(now, s) = Counted(mid, s) - One(x, s) + One(y, s)
    BY ONLY <1>4, <1>5, <2>2
  <2>4. Counted(seq, s) \in Nat /\ One(x, s) \in Nat /\ One(y, s) \in Nat
    BY CountedNat, GivenFacts
  <2> QED
    BY ONLY <1>3, <2>3, <2>4
<1>8. now[i] = y /\ \A p \in 1 .. Len(seq) : p # i /\ p # j => now[p] = seq[p]
  BY <1>2, <1>6
<1> QED
  BY <1>2, <1>6, <1>7, <1>8 DEF y, now

LEMMA ContextKeeps ==
  ASSUME IInv, Running, NEW mark, NEW gimme, NEW extra \in Int, rpp_context(mark, gimme, extra)
  PROVE  IInv'
<1> DEFINE top == SP - extra
<1>1. /\ stack \in Seq(SV) /\ Above(stack) /\ Base \in Nat /\ Len(stack) = SP /\ SP \in Nat
      /\ Undef \in SV /\ TypeOK /\ <<>> \in Seq(SV)
  BY RunningFacts
<1>2. mark \in Base .. Len(stack) /\ top \in Base .. Len(stack) /\ mark \in Nat /\ top \in Nat /\ Others
  BY <1>1 DEF rpp_context
<1>3. ASSUME NEW s \in SVs
      PROVE  /\ \A n \in Nat : Counted(stack, s) + HeldIn(<<PopTo(n)>>, s) = Counted(stack, s) + Counted(<<>>, s)
             /\ Counted(stack, s) + HeldIn(<<PopTo(top), PushUndef>>, s) = Counted(stack, s) + Counted(<<>>, s)
  BY <1>1, <1>2, FewCounted
<1>4. ASSUME NEW n \in Base .. Len(stack), n \in Nat, Helper(stack, <<>>, <<PopTo(n)>>, Upto(n))
      PROVE  IInv'
  <2>1. Planned(stack, <<PopTo(n)>>, Upto(n))
    BY <1>1, PlannedPop DEF Upto
  <2>2. \A s \in SVs : Counted(stack, s) + HeldIn(<<PopTo(n)>>, s) = Counted(stack, s) + Counted(<<>>, s)
    BY <1>3, <1>4
  <2>3. Helper(stack, <<>>, <<PopTo(n)>>, Upto(n)) /\ Others /\ <<>> \in Seq(SV)
    BY <1>2, <1>4
  <2>4. Balanced(stack, <<>>, <<PopTo(n)>>)
    BY <2>2 DEF Balanced
  <2> QED
    BY ONLY IInv, Running, <2>1, <2>4, <2>3, HelperKeeps
<1>5. ASSUME mark = top, Helper(stack, <<>>, <<PopTo(top), PushUndef>>, Append(Upto(mark), Undef))
      PROVE  IInv'
  <2> HIDE DEF top
  <2>1. Planned(stack, <<PopTo(top), PushUndef>>, Append(Upto(mark), Undef))
    BY <1>1, <1>2, <1>5, PlannedPopPush DEF Upto
  <2>2. \A s \in SVs : Counted(stack, s) + HeldIn(<<PopTo(top), PushUndef>>, s) = Counted(stack, s) + Counted(<<>>, s)
    BY <1>3
  <2>3. Helper(stack, <<>>, <<PopTo(top), PushUndef>>, Append(Upto(mark), Undef)) /\ Others /\ <<>> \in Seq(SV)
    BY <1>2, <1>5
  <2>4. Balanced(stack, <<>>, <<PopTo(top), PushUndef>>)
    BY <2>2 DEF Balanced
  <2> QED
    BY ONLY IInv, Running, <2>1, <2>4, <2>3, HelperKeeps
<1>6. ASSUME mark < top,
             Helper([stack EXCEPT ![top] = stack[mark + 1], ![mark + 1] = stack[top]],
                    <<>>, <<PopTo(mark + 1)>>, Append(Upto(mark), stack[top]))
      PROVE  IInv'
  <2> DEFINE now == [stack EXCEPT ![top] = stack[mark + 1], ![mark + 1] = stack[top]]
             low == mark + 1
             documented == Append(Upto(mark), stack[top])
  <2>1. /\ low \in 1 .. Len(stack) /\ top \in 1 .. Len(stack) /\ mark \in 0 .. Len(stack)
        /\ low \in Base .. Len(stack) /\ low \in Nat /\ low = mark + 1
        /\ \A p \in 1 .. mark : p \in 1 .. Len(stack) /\ p # low /\ p # top
        /\ \A p \in 1 .. Base : p \in 1 .. mark
    BY <1>1, <1>2, <1>6
  <2>2. now = Swapped(stack, low, top)
    BY DEF Swapped
  <2> HIDE DEF now, low, top
  <2>3. /\ now \in Seq(SV) /\ Len(now) = Len(stack) /\ now[low] = stack[top]
        /\ \A p \in 1 .. Len(stack) : p # low /\ p # top => now[p] = stack[p]
        /\ \A s : Counted(now, s) = Counted(stack, s)
    <3>1. stack \in Seq(SV) /\ low \in 1 .. Len(stack) /\ top \in 1 .. Len(stack)
      BY <1>1, <2>1
    <3> QED
      BY ONLY <2>2, <3>1, CountedSwap
  <2>4. \A p \in 1 .. mark : now[p] = stack[p]
    BY ONLY <2>1, <2>3
  <2>5. Above(now) /\ low \in Base .. Len(now)
    BY <1>1, <2>1, <2>3, <2>4 DEF Above
  <2>6. SubSeq(now, 1, low) = documented
    <3>1. Len(now) >= mark + 1 /\ now[mark + 1] = stack[top]
      BY <1>1, <2>1, <2>3
    <3>2. SubSeq(now, 1, mark + 1) = Append(SubSeq(stack, 1, mark), now[mark + 1])
      BY ONLY <1>1, <2>1, <2>3, <2>4, <3>1, OneMore
    <3> QED
      BY ONLY <2>1, <3>1, <3>2 DEF Upto
  <2> HIDE DEF documented
  <2>7. Planned(now, <<PopTo(low)>>, documented)
    BY ONLY <1>1, <2>3, <2>5, <2>6, PlannedPop
  <2>8. ASSUME NEW s \in SVs
        PROVE  Counted(now, s) + HeldIn(<<PopTo(low)>>, s) = Counted(stack, s) + Counted(<<>>, s)
    <3>1. Counted(stack, s) + HeldIn(<<PopTo(low)>>, s) = Counted(stack, s) + Counted(<<>>, s)
      BY <1>3, <2>1
    <3> QED
      BY ONLY <2>3, <3>1
  <2>9. Helper(now, <<>>, <<PopTo(low)>>, documented) /\ Others /\ <<>> \in Seq(SV)
    BY <1>2, <1>6 DEF now, low, documented
  <2>10. Balanced(now, <<>>, <<PopTo(low)>>)
    BY <2>8 DEF Balanced
  <2> QED
    BY ONLY IInv, Running, <2>7, <2>10, <2>9, HelperKeeps
<1> QED
  BY <1>2, <1>4, <1>5, <1>6 DEF rpp_context

LEMMA PushNorcKeeps ==
  ASSUME IInv, Running, NEW s \in SVs, rpp_push_1_norc(s)
  PROVE  IInv'
<1>1. stack \in Seq(SV) /\ Above(stack) /\ Base \in Nat /\ s \in SV /\ TypeOK
  BY RunningFacts
<1>2. Append(stack, s) \in Seq(SV) /\ Above(Append(stack, s))
  BY ONLY <1>1, AboveAppend
<1>3. Planned(Append(stack, s), <<>>, Append(stack, s))
  BY ONLY <1>2, PlannedNothing
<1>4. ASSUME NEW u \in SVs
      PROVE  Counted(Append(stack, s), u) + HeldIn(<<>>, u) = Counted(stack, u) + One(s, u)
  <2>1. Counted(Append(stack, s), u) = Counted(stack, u) + One(s, u)
    BY ONLY <1>1, CountedAppend
  <2>2. HeldIn(<<>>, u) = 0 /\ One(s, u) \in Nat /\ Counted(stack, u) \in Nat
    BY <1>1, FewCounted, GivenFacts, CountTypes
  <2> QED
    BY ONLY <2>1, <2>2
<1>5. Helper(Append(stack, s), <<>>, <<>>, Append(stack, s)) /\ TakeOver(s)
  BY DEF rpp_push_1_norc
<1> QED
  BY ONLY IInv, Running, s \in SVs, <1>3, <1>4, <1>5, NorcKeeps

LEMMA ReplaceNorcKeeps ==
  ASSUME IInv, Running, NEW i, NEW s \in SVs, rpp_replace_at_norc(i, s)
  PROVE  IInv'
<1>1. i \in Base + 1 .. SP /\ s \in SV
  BY DEF rpp_replace_at_norc, SV
<1> DEFINE now == [stack EXCEPT ![i] = s]
<1>2. /\ Planned(now, <<Dec(stack[i])>>, now)
      /\ \A u \in SVs : Counted(now, u) + HeldIn(<<Dec(stack[i])>>, u) = Counted(stack, u) + One(s, u)
  BY ONLY IInv, Running, <1>1, ReplacedCounts
<1>3. Helper(now, <<>>, <<Dec(stack[i])>>, now) /\ TakeOver(s)
  BY DEF rpp_replace_at_norc
<1> HIDE DEF now
<1> QED
  BY ONLY IInv, Running, s \in SVs, <1>2, <1>3, NorcKeeps

(* The reference of the slot becomes the caller's; without PERL_RC_STACK   *)
(* the caller gets a new one.                                              *)
LEMMA PopNorcKeeps ==
  ASSUME IInv, Running, rpp_pop_1_norc
  PROVE  IInv'
<1> DEFINE x == stack[SP]
           one == Upto(SP - 1)
<1>1. /\ stack \in Seq(SV) /\ Above(stack) /\ Base \in Nat /\ SP \in Nat /\ Len(stack) = SP
      /\ TypeOK /\ CountsAgree /\ Mortals /\ Plans
  BY RunningFacts DEF IInv
<1>2. /\ SP > Base /\ x \in SVs /\ stack' = one
      /\ own' = [own EXCEPT ![x] = @ + 1]
      /\ refcnt' = IF rc THEN refcnt ELSE Inc(refcnt, x)
      /\ result' = IF work = <<>> THEN one ELSE result
      /\ rc' = rc /\ tmps' = tmps /\ temp' = temp /\ args' = args /\ work' = work /\ off' = off
  BY DEF rpp_pop_1_norc, Reachable
<1>3. SP - 1 \in Base .. Len(stack) /\ SP - 1 \in 0 .. Len(stack) /\ Len(stack) > 0
  BY <1>1, <1>2
<1>4. one \in Seq(SV) /\ Above(one)
  BY <1>1, <1>3, UptoFacts, AboveUpto DEF Upto
<1>5. ASSUME NEW s PROVE Counted(stack, s) = Counted(one, s) + One(x, s) /\ Counted(one, s) \in Nat
  <2>1. Counted(stack, s) = Counted(SubSeq(stack, 1, Len(stack) - 1), s) + One(stack[Len(stack)], s)
    BY ONLY <1>1, <1>3, CountedLast
  <2>2. Counted(one, s) \in Nat
    <3> HIDE DEF one
    <3> QED
      BY ONLY <1>4, CountedNat
  <2> QED
    BY ONLY <1>1, <2>1, <2>2 DEF Upto
<1> HIDE DEF x, one
<1>6. own' \in [SVs -> Nat] /\ \A s \in SVs : own'[s] = own[s] + One(x, s)
  <2>1. own \in [SVs -> Nat]
    BY <1>1 DEF TypeOK
  <2>2. ASSUME NEW s \in SVs PROVE own'[s] = own[s] + One(x, s) /\ own'[s] \in Nat
    BY <1>2, <2>1 DEF One
  <2> QED
    BY <1>2, <2>1, <2>2
<1>7. refcnt' \in [SVs -> Nat] /\ \A s \in SVs : refcnt'[s] = refcnt[s] + (IF rc THEN 0 ELSE One(x, s))
  <2>1. refcnt \in [SVs -> Nat]
    BY <1>1 DEF TypeOK
  <2>2. CASE rc
    BY <1>2, <2>1, <2>2
  <2>3. CASE ~rc
    <3>1. refcnt' = [refcnt EXCEPT ![x] = @ + 1]
      BY <1>2, <2>3, UndefAssumption DEF Inc
    <3>2. ASSUME NEW s \in SVs PROVE refcnt'[s] = refcnt[s] + One(x, s) /\ refcnt'[s] \in Nat
      BY <1>2, <2>1, <3>1 DEF One
    <3> QED
      BY <2>1, <2>3, <3>1, <3>2
  <2> QED
    BY <2>2, <2>3
<1>8. TypeOK'
  BY <1>1, <1>2, <1>4, <1>6, <1>7 DEF TypeOK
<1>9. RunStep(<<>>)
  BY <1>1, <1>2, <1>4, AtOnce
<1>10. Plans'
  BY <1>1, <1>8, <1>9, RunPlans
<1>11. Mortals'
  BY <1>1, <1>2 DEF Mortals
<1>12. ASSUME NEW s \in SVs
       PROVE  \E a, h, k, m \in Int : Moves(s, a, h, k, m)
  <2>1. /\ refcnt[s] \in Nat /\ own[s] \in Nat /\ off[s] \in Int
        /\ Counted(tmps, s) \in Nat /\ Counted(stack, s) \in Nat
        /\ Counted(args, s) \in Nat /\ HeldIn(work, s) \in Int /\ One(x, s) \in Nat
    BY <1>1, CountTypes, GivenFacts
  <2>2. own'[s] + Counted(tmps', s) = own[s] + Counted(tmps, s) + One(x, s)
    BY <1>2, <1>6, <2>1
  <2>3. HeldIn(work', s) = HeldIn(work, s) + 0
    BY ONLY <1>2, <2>1
  <2>4. Counted(stack', s) + Counted(args', s) = Counted(stack, s) + Counted(args, s) + (0 - One(x, s))
    <3>1. Counted(stack', s) = Counted(one, s) /\ Counted(args', s) = Counted(args, s)
      BY ONLY <1>2
    <3>2. Counted(stack, s) = Counted(one, s) + One(x, s) /\ Counted(one, s) \in Nat
      BY <1>5
    <3> QED
      BY ONLY <2>1, <3>1, <3>2
  <2> DEFINE k == 0 - One(x, s)
             m == IF rc THEN 0 ELSE One(x, s)
  <2>5. k \in Int /\ m \in Int /\ One(x, s) \in Int /\ m = One(x, s) + 0 + (IF rc THEN k ELSE 0)
    BY <2>1
  <2>6. refcnt'[s] - off'[s] = refcnt[s] - off[s] + m
    <3>1. refcnt'[s] = refcnt[s] + m /\ off'[s] = off[s]
      BY <1>2, <1>7
    <3> HIDE DEF m
    <3> QED
      BY ONLY <2>1, <2>5, <3>1
  <2>7. Moves(s, One(x, s), 0, k, m)
    <3>1. Counted(stack', s) + Counted(args', s) = Counted(stack, s) + Counted(args, s) + k
      BY ONLY <2>4
    <3> HIDE DEF k, m
    <3> QED
      BY ONLY <2>2, <2>3, <2>5, <2>6, <3>1 DEF Moves
  <2> QED
    BY ONLY <2>5, <2>7
<1>13. CountsAgree'
  BY <1>1, <1>2, <1>8, <1>12, CountsKept
<1> QED
  BY <1>8, <1>10, <1>11, <1>13 DEF IInv

LEMMA UseKeeps ==
  ASSUME IInv, Running, UseHelper
  PROVE  IInv'
<1>1. ASSUME NEW n \in Base .. SP, rpp_popfree_to(n) PROVE IInv'
  BY <1>1, PopfreeKeeps
<1>2. ASSUME rpp_popfree_1 PROVE IInv'
  BY <1>2, PopfreeKeeps DEF rpp_popfree_1
<1>3. ASSUME rpp_popfree_2 PROVE IInv'
  BY <1>3, PopfreeKeeps DEF rpp_popfree_2
<1>4. ASSUME rpp_replace_2_IMM_NN PROVE IInv'
  <2>1. \A u \in SVs : Counted(<<>>, u) = One(Undef, u)
    BY CountedOne, UndefAssumption DEF One
  <2>2. Undef \in SV /\ <<>> \in Seq(SV) /\ rpp_replace_2_1_COMMON(Undef, <<>>)
    BY <1>4 DEF SV, rpp_replace_2_IMM_NN
  <2> QED
    BY ONLY IInv, Running, <2>1, <2>2, ReplaceCommonKeeps
<1>5. ASSUME NEW s \in SVs, rpp_replace_2_1_NN(s) PROVE IInv'
  <2>1. s \in SV /\ <<s>> \in Seq(SV) /\ rpp_replace_2_1_COMMON(s, <<s>>)
    BY <1>5 DEF SV, rpp_replace_2_1_NN
  <2>2. \A u \in SVs : Counted(<<s>>, u) = One(s, u)
    BY CountedOne
  <2> QED
    BY ONLY IInv, Running, <2>1, <2>2, ReplaceCommonKeeps
<1>6. ASSUME NEW s \in SVs, rpp_replace_1_1(s) PROVE IInv'
  BY <1>6, ReplaceKeeps DEF rpp_replace_1_1
<1>7. Reachable \subseteq SVs
  BY DEF Reachable
<1>8. ASSUME NEW s \in SVs, \/ rpp_push_1(s) \/ rpp_replace_1_1(s)
                            \/ rpp_replace_2_1(s) \/ rpp_replace_2_1_NN(s) \/ rpp_push_1_norc(s)
      PROVE  IInv'
  BY <1>5, <1>6, <1>8, PushKeeps, ReplaceTwoKeeps, PushNorcKeeps
<1>9. ASSUME NEW s \in SVs, NEW u \in SVs, rpp_push_2(s, u) PROVE IInv'
  BY <1>9, PushTwoKeeps
<1>10. ASSUME NEW s \in SVs, NEW i \in Base + 1 .. SP, rpp_replace_at(i, s) \/ rpp_replace_at_norc(i, s) PROVE IInv'
  BY <1>10, ReplaceKeeps, ReplaceNorcKeeps
<1>11. ASSUME NEW mark \in Base .. SP, NEW gimme \in {"G_VOID", "G_SCALAR", "G_LIST"}, NEW extra \in 0 .. 1,
              rpp_context(mark, gimme, extra)
       PROVE  IInv'
  <2>1. extra \in Int
    OBVIOUS
  <2> QED
    BY <1>11, <2>1, ContextKeeps
<1>12. ASSUME rpp_popfree_2_NN \/ rpp_push_IMM \/ rpp_replace_1_IMM_NN \/ rpp_pop_1_norc PROVE IInv'
  BY <1>12, PopTwoKeeps, PushImmKeeps, ReplaceImmKeeps, PopNorcKeeps
<1> QED
  BY <1>1, <1>2, <1>3, <1>4, <1>7, <1>8, <1>9, <1>10, <1>11, <1>12 DEF UseHelper

-----------------------------------------------------------------------------
(* What the callers do.                                                    *)

(* Each drop that waits has a slot of its own below Base, with its SV.     *)
LEMMA DropsBound ==
  ASSUME TypeOK, Heights, Drops, Running, NEW s
  PROVE  Counted(work, Drop(s)) <= Counted(Upto(Base), s)
<1> DEFINE W == Places(work, Drop(s))
           low == Upto(Base)
           S == Places(low, s)
           slot == [i \in W |-> CHOOSE p \in 1 .. Len(stack) : IsSlot(i, p)]
<1>1. work \in Seq(Entry) /\ stack \in Seq(SV) /\ Base \in 0 .. Len(stack) /\ Len(work) \in Nat
  BY BaseFacts, WorkFacts DEF TypeOK
<1>2. low \in Seq(SV) /\ Len(low) = Base /\ \A p \in 1 .. Base : low[p] = stack[p]
  BY <1>1, UptoFacts DEF Upto
<1>3. DOMAIN work = 1 .. Len(work) /\ DOMAIN low = 1 .. Base
  BY <1>1, <1>2, LenProperties
<1>4. ASSUME NEW i \in W
      PROVE  /\ i \in 1 .. Len(work) /\ work[i].do = "drop" /\ work[i].sv = s
             /\ slot[i] \in 1 .. Len(stack) /\ IsSlot(i, slot[i])
  <2>1. i \in 1 .. Len(work) /\ work[i] = Drop(s)
    BY <1>3 DEF Places
  <2>2. work[i].do = "drop" /\ work[i].sv = s
    BY <2>1 DEF Drop
  <2>3. \E p \in 1 .. Len(stack) : IsSlot(i, p)
    BY <2>1, <2>2 DEF Drops
  <2> QED
    BY <2>1, <2>2, <2>3
<1>5. ASSUME NEW i \in W
      PROVE  /\ slot[i] \in S
             /\ \E j \in 1 .. i - 1 : /\ work[j].do = "destroy" /\ work[j].base = slot[i]
                                      /\ \A k \in j + 1 .. i - 1 : work[k].do = "dec"
  <2> DEFINE p == slot[i]
  <2>1. i \in 1 .. Len(work) /\ work[i].do = "drop" /\ work[i].sv = s /\ IsSlot(i, p)
    BY <1>4
  <2> HIDE DEF p
  <2>2. /\ p \in 1 .. Base
        /\ \E j \in 1 .. i - 1 : /\ work[j].do = "destroy" /\ work[j].base = p
                                 /\ \A k \in j + 1 .. i - 1 : work[k].do = "dec"
    BY ONLY TypeOK, Heights, Running, <2>1, SlotBelow
  <2>3. low[p] = s
    BY <1>2, <2>1, <2>2 DEF IsSlot
  <2>4. p \in S
    BY <1>3, <2>2, <2>3 DEF Places
  <2> QED
    BY ONLY <2>2, <2>4 DEF p
<1>6. ASSUME NEW h \in W, NEW i \in W, h < i PROVE slot[h] # slot[i]
  <2> SUFFICES ASSUME slot[h] = slot[i] PROVE FALSE
    OBVIOUS
  <2>1. PICK j \in 1 .. i - 1 : /\ work[j].do = "destroy" /\ work[j].base = slot[i]
                                /\ \A k \in j + 1 .. i - 1 : work[k].do = "dec"
    BY <1>5
  <2>2. h \in 1 .. Len(work) /\ i \in 1 .. Len(work) /\ work[h].do = "drop" /\ IsSlot(h, slot[h]) /\ slot[h] \in 1 .. Len(stack)
    BY <1>4
  <2>3. h # j /\ h \notin j + 1 .. i - 1
    BY <2>1, <2>2
  <2>4. j \in h + 1 .. Len(work)
    BY <1>1, <1>6, <2>2, <2>3
  <2>5. Height(work[j]) < slot[h] /\ Height(work[j]) = slot[i]
    <3>1. Behind(h, slot[h])
      BY <2>2 DEF IsSlot
    <3> HIDE DEF slot
    <3> QED
      BY <2>1, <2>4, <3>1 DEF Behind, Lowers, Height
  <2>6. slot[h] \in Int
    BY <2>2
  <2> HIDE DEF slot
  <2> QED
    BY ONLY <2>5, <2>6, slot[h] = slot[i]
<1>7. slot \in Injection(W, S)
  <2>1. slot \in [W -> S]
    BY <1>5
  <2>2. ASSUME NEW h \in W, NEW i \in W, slot[h] = slot[i] PROVE h = i
    <3>1. h \in Int /\ i \in Int
      BY <1>4
    <3>2. ~(h < i) /\ ~(i < h)
      BY <1>6, <2>2
    <3> QED
      BY ONLY <3>1, <3>2
  <2>3. DOMAIN slot = W
    OBVIOUS
  <2> HIDE DEF slot, W
  <2> QED
    BY <2>1, <2>2, <2>3 DEF Injection, IsInjective
<1> HIDE DEF slot, W, S, low
<1>8. IsFiniteSet(S) /\ Counted(low, s) = Cardinality(S)
  BY <1>2, CountedNat DEF S
<1>9. Counted(work, Drop(s)) = Cardinality(W)
  BY <1>1, CountedNat DEF W
<1>10. Cardinality(W) <= Cardinality(S)
  BY ONLY <1>7, <1>8, FS_Injection
<1> QED
  BY <1>8, <1>9, <1>10 DEF low

(* Nothing stands for more slots than there are.                           *)
LEMMA HeldBound ==
  ASSUME TypeOK, Heights, Drops, Simple, Running, NEW s
  PROVE  HeldIn(work, s) + (IF rc THEN Counted(stack, s) ELSE 0) >= 0
<1>1. work \in Seq(Entry) /\ stack \in Seq(SV) /\ Base \in 0 .. Len(stack)
  BY BaseFacts DEF TypeOK
<1>2. /\ Counted(work, Dec(s)) \in Nat /\ Counted(work, FastDec(s)) \in Nat
      /\ Counted(work, Drop(s)) \in Nat /\ Counted(stack, s) \in Nat
  BY ONLY <1>1, CountedNat
<1>3. CASE rc
  <2>1. Counted(stack, s) = Counted(SubSeq(stack, 1, Base), s) + Counted(SubSeq(stack, Base + 1, Len(stack)), s)
    BY ONLY <1>1, CountedCut
  <2>2. Counted(SubSeq(stack, Base + 1, Len(stack)), s) \in Nat
    <3>1. Base + 1 \in 1 .. Len(stack) + 1 /\ Len(stack) \in Nat
      BY <1>1, LenProperties
    <3>2. \A i \in Base + 1 .. Len(stack) : stack[i] \in SV
      BY <1>1, <3>1, ElementOfSeq
    <3>3. SubSeq(stack, Base + 1, Len(stack)) \in Seq(SV)
      BY <1>1, <3>1, <3>2, SubSeqProperties
    <3> QED
      BY ONLY <3>3, CountedNat
  <2>3. Counted(SubSeq(stack, 1, Base), s) \in Nat
    <3>1. SubSeq(stack, 1, Base) \in Seq(SV)
      BY <1>1, UptoFacts
    <3> QED
      BY ONLY <3>1, CountedNat
  <2>4. Counted(work, Drop(s)) <= Counted(SubSeq(stack, 1, Base), s)
    BY DropsBound DEF Upto
  <2>5. Counted(stack, s) >= Counted(work, Drop(s))
    BY ONLY <1>2, <2>1, <2>2, <2>3, <2>4
  <2> QED
    BY ONLY <1>2, <1>3, <2>5 DEF HeldIn
<1>4. CASE ~rc
  <2>1. \A i \in 1 .. Len(work) : work[i] # Drop(s)
    BY <1>4 DEF Simple, Drop
  <2>2. Counted(work, Drop(s)) = 0
    BY ONLY <1>1, <2>1, CountedNat
  <2> QED
    BY ONLY <1>2, <1>4, <2>2 DEF HeldIn
<1> QED
  BY <1>3, <1>4

LEMMA PlansSame ==
  ASSUME Plans, UNCHANGED <<rc, stack, work, result>>
  PROVE  Plans'
BY DEF Plans, Heights, Drops, IsSlot, Behind, InFront, Simple, Outcome, LastDestroy, BottomOf, Leads,
       Lowers, Height, Upto

(* A new SV has no references left from its former life.                   *)
LEMMA NewKeeps ==
  ASSUME IInv, Running, NEW n \in SVs, NewSV(n)
  PROVE  IInv'
<1>1. TypeOK /\ CountsAgree /\ Mortals /\ Plans /\ Heights /\ Drops /\ Simple
  BY DEF IInv, Plans
<1>2. /\ refcnt[n] = 0 /\ off[n] = 0
      /\ refcnt' = [refcnt EXCEPT ![n] = 1] /\ own' = [own EXCEPT ![n] = 1]
      /\ UNCHANGED <<rc, stack, tmps, temp, args, work, off, result>>
  BY DEF NewSV
<1>3. refcnt \in [SVs -> Nat] /\ own \in [SVs -> Nat]
  BY <1>1 DEF TypeOK
<1>4. own[n] = 0
  <2>1. Agrees(n)
    BY <1>1, AgreesEverywhere
  <2>2. /\ own[n] \in Nat /\ Counted(tmps, n) \in Nat /\ Counted(stack, n) \in Nat
        /\ Counted(args, n) \in Nat /\ HeldIn(work, n) \in Int
    BY <1>1, CountTypes
  <2>3. HeldIn(work, n) + (IF rc THEN Counted(stack, n) ELSE 0) >= 0
    BY <1>1, HeldBound
  <2> DEFINE O == own[n]
             T == Counted(tmps, n)
             K == Counted(stack, n)
             G == Counted(args, n)
             H == HeldIn(work, n)
  <2>4. 0 = O + T + H + (IF rc THEN K + G ELSE 0) + 0
    BY <1>2, <2>1 DEF Agrees
  <2>5. O \in Nat /\ T \in Nat /\ K \in Nat /\ G \in Nat /\ H \in Int /\ H + (IF rc THEN K ELSE 0) >= 0
    BY ONLY <2>2, <2>3
  <2> HIDE DEF O, T, K, G, H
  <2>6. O = 0
    <3>1. CASE rc
      BY ONLY <2>4, <2>5, <3>1
    <3>2. CASE ~rc
      BY ONLY <2>4, <2>5, <3>2
    <3> QED
      BY <3>1, <3>2
  <2> QED
    BY <2>6 DEF O
<1>5. TypeOK'
  BY <1>1, <1>2, <1>3 DEF TypeOK
<1>6. Plans' /\ Mortals'
  BY <1>1, <1>2, PlansSame DEF Mortals
<1>7. ASSUME NEW s \in SVs
      PROVE  \E a, h, k, m \in Int : Moves(s, a, h, k, m)
  <2>1. /\ refcnt[s] \in Nat /\ own[s] \in Nat /\ off[s] \in Int
        /\ Counted(tmps, s) \in Nat /\ Counted(stack, s) \in Nat
        /\ Counted(args, s) \in Nat /\ HeldIn(work, s) \in Int /\ One(n, s) \in Nat
    BY <1>1, CountTypes, GivenFacts
  <2>2. own'[s] = own[s] + One(n, s) /\ refcnt'[s] = refcnt[s] + One(n, s) /\ off'[s] = off[s]
    BY <1>2, <1>3, <1>4 DEF One
  <2>3. own'[s] + Counted(tmps', s) = own[s] + Counted(tmps, s) + One(n, s)
    BY ONLY <1>2, <2>1, <2>2
  <2>4. Moves(s, One(n, s), 0, 0, One(n, s))
    BY ONLY <1>2, <2>1, <2>2, <2>3 DEF Moves
  <2> QED
    BY ONLY <2>1, <2>4
<1>8. CountsAgree'
  BY <1>1, <1>2, <1>5, <1>7, CountsKept
<1> QED
  BY <1>5, <1>6, <1>8 DEF IInv

(* The program's stack between two helpers is what is documented.          *)
LEMMA DoneResult ==
  ASSUME TypeOK, Outcome, work = <<>>
  PROVE  result = stack
<1>1. Len(work) = 0 /\ stack \in Seq(SV) /\ Len(stack) \in Nat
  BY LenProperties DEF TypeOK
<1>2. PICK d \in 0 .. Len(work) : LastDestroy(d) /\ \E n \in 0 .. BottomOf(d) : Leads(d, n)
  BY DEF Outcome
<1>3. PICK n \in 0 .. BottomOf(d) : Leads(d, n)
  BY <1>2
<1>4. d = 0 /\ BottomOf(0) = Len(stack)
  BY <1>1 DEF BottomOf
<1>5. n = Len(stack) /\ result = SubSeq(stack, 1, n)
  BY <1>1, <1>3, <1>4 DEF Leads, Upto
<1> QED
  BY <1>1, <1>5, SubSeqFull

LEMMA PlannedEntry ==
  ASSUME NEW now \in Seq(SV), Above(now), NEW e \in Entry, e.do \in {"dec", "freetmps", "clear"}
  PROVE  Planned(now, <<e>>, now)
<1> DEFINE rest == <<e>>
<1>1. rest \in Seq(Entry) /\ Len(rest) = 1 /\ rest[1].do \in {"dec", "freetmps", "clear"}
  OBVIOUS
<1> HIDE DEF rest
<1>2. Len(now) \in 0 .. Len(now)
  BY LenProperties
<1>3. Fits(rest, now)
  BY <1>1 DEF Fits
<1>4. Leaves(rest, now, Len(now), now)
  BY <1>1, SubSeqFull DEF Leaves
<1>5. Planned(now, rest, now)
  BY <1>1, <1>2, <1>3, <1>4 DEF Planned
<1> QED
  BY <1>5 DEF rest

(* A caller that starts to give references up.                             *)
LEMMA StartRuns ==
  ASSUME IInv, Running, NEW e \in Entry, e.do \in {"dec", "freetmps", "clear"}, e.do = "clear" => rc,
         UNCHANGED <<rc, stack, result>>, work' = <<e>> \o work
  PROVE  RunStep(<<e>>) /\ work' \in Seq(Entry)
<1>1. /\ TypeOK /\ Plans /\ stack \in Seq(SV) /\ Above(stack) /\ work \in Seq(Entry)
  BY RunningFacts DEF IInv, TypeOK
<1> DEFINE rest == <<e>>
<1>2. rest \in Seq(Entry) /\ \A i \in 1 .. Len(rest) : rest[i].do = e.do
  OBVIOUS
<1>3. Planned(stack, rest, stack)
  BY <1>1, PlannedEntry
<1> HIDE DEF rest
<1>4. Above(stack') /\ Fits(rest, stack') /\ \E n \in 0 .. Len(stack') : Leaves(rest, stack', n, stack)
  BY <1>3 DEF Planned
<1>5. work' = rest \o work
  BY DEF rest
<1>6. work = <<>> => result' = stack
  BY <1>1, DoneResult DEF Plans
<1>7. IF work = <<>> THEN \E n \in 0 .. Len(stack') : Leaves(rest, stack', n, result')
                     ELSE result' = result
  BY <1>4, <1>6
<1>8. RunStep(rest)
  BY <1>2, <1>4, <1>5, <1>7 DEF RunStep
<1>9. work' \in Seq(Entry)
  BY ONLY <1>1, <1>2, <1>5, ConcatProperties
<1> QED
  BY <1>8, <1>9 DEF rest

LEMMA ForgetKeeps ==
  ASSUME IInv, Running, NEW g \in SVs, Forget(g)
  PROVE  IInv'
<1>1. TypeOK /\ CountsAgree /\ Mortals /\ Plans
  BY DEF IInv
<1>2. /\ own[g] > 0 /\ own' = [own EXCEPT ![g] = @ - 1] /\ work' = <<Dec(g)>> \o work
      /\ UNCHANGED <<rc, refcnt, stack, tmps, temp, args, off, result>>
  BY DEF Forget
<1>3. g \in SV /\ Dec(g) \in Entry /\ Dec(g).do = "dec"
  BY EntriesMade DEF SV
<1>4. RunStep(<<Dec(g)>>) /\ work' \in Seq(Entry)
  BY <1>2, <1>3, StartRuns
<1>5. own' \in [SVs -> Nat] /\ \A s \in SVs : own'[s] = own[s] - One(g, s)
  BY <1>1, <1>2, GivenAway
<1>6. TypeOK'
  BY <1>1, <1>2, <1>4, <1>5 DEF TypeOK
<1>7. Plans' /\ Mortals'
  BY <1>1, <1>2, <1>4, <1>6, RunPlans DEF Mortals
<1>8. ASSUME NEW s \in SVs
      PROVE  \E a, h, k, m \in Int : Moves(s, a, h, k, m)
  <2>1. /\ refcnt[s] \in Nat /\ own[s] \in Nat /\ off[s] \in Int
        /\ Counted(tmps, s) \in Nat /\ Counted(stack, s) \in Nat
        /\ Counted(args, s) \in Nat /\ HeldIn(work, s) \in Int /\ One(g, s) \in Nat
    BY <1>1, CountTypes, GivenFacts
  <2>2. HeldIn(work', s) = HeldIn(work, s) + One(g, s)
    <3>1. HeldIn(<<Dec(g)>>, s) = One(g, s)
      BY <1>3, FewCounted
    <3>2. <<Dec(g)>> \in Seq(Entry) /\ work \in Seq(Entry)
      BY <1>1, <1>3 DEF TypeOK
    <3>3. HeldIn(<<Dec(g)>> \o work, s) = HeldIn(<<Dec(g)>>, s) + HeldIn(work, s)
      BY ONLY <3>2, HeldConcat
    <3> QED
      BY ONLY <1>2, <2>1, <3>1, <3>3
  <2>3. own'[s] + Counted(tmps', s) = own[s] + Counted(tmps, s) + (0 - One(g, s))
    <3>1. own'[s] = own[s] - One(g, s) /\ Counted(tmps', s) = Counted(tmps, s)
      BY <1>2, <1>5
    <3> QED
      BY ONLY <2>1, <3>1
  <2> DEFINE a == 0 - One(g, s)
             b == One(g, s)
  <2>4. a \in Int /\ b \in Int /\ 0 = a + b + (IF rc THEN 0 ELSE 0)
    BY <2>1
  <2>5. /\ Counted(stack', s) + Counted(args', s) = Counted(stack, s) + Counted(args, s) + 0
        /\ refcnt'[s] - off'[s] = refcnt[s] - off[s] + 0
    BY ONLY <1>2, <2>1
  <2>6. Moves(s, a, b, 0, 0)
    <3>1. HeldIn(work', s) = HeldIn(work, s) + b /\ own'[s] + Counted(tmps', s) = own[s] + Counted(tmps, s) + a
      BY ONLY <2>2, <2>3
    <3> HIDE DEF a, b
    <3> QED
      BY ONLY <2>4, <2>5, <3>1 DEF Moves
  <2> QED
    BY ONLY <2>4, <2>6
<1>9. CountsAgree'
  BY <1>1, <1>2, <1>6, <1>8, CountsKept
<1> QED
  BY <1>6, <1>7, <1>9 DEF IInv

LEMMA MortaliseKeeps ==
  ASSUME IInv, Running, NEW g \in SVs, Mortalise(g)
  PROVE  IInv'
<1>1. TypeOK /\ CountsAgree /\ Mortals /\ Plans
  BY DEF IInv
<1>2. /\ own[g] > 0 /\ own' = [own EXCEPT ![g] = @ - 1] /\ sv_2mortal(g)
      /\ UNCHANGED <<rc, refcnt, stack, args, work, off, result>>
  BY DEF Mortalise
<1>3. own' \in [SVs -> Nat] /\ \A s \in SVs : own'[s] = own[s] - One(g, s)
  BY <1>1, <1>2, GivenAway
<1>4. /\ tmps' \in Seq(SVs) /\ temp' \subseteq SVs /\ Mortals'
      /\ \A s \in SVs : Counted(tmps', s) = Counted(tmps, s) + One(g, s)
  BY <1>1, <1>2, Mortalised
<1>5. TypeOK'
  BY <1>1, <1>2, <1>3, <1>4 DEF TypeOK
<1>6. Plans'
  BY <1>1, <1>2, PlansSame
<1>7. ASSUME NEW s \in SVs
      PROVE  \E a, h, k, m \in Int : Moves(s, a, h, k, m)
  <2>1. /\ refcnt[s] \in Nat /\ own[s] \in Nat /\ off[s] \in Int
        /\ Counted(tmps, s) \in Nat /\ Counted(stack, s) \in Nat
        /\ Counted(args, s) \in Nat /\ HeldIn(work, s) \in Int /\ One(g, s) \in Nat
    BY <1>1, CountTypes, GivenFacts
  <2>2. own'[s] + Counted(tmps', s) = own[s] + Counted(tmps, s) + 0
    <3>1. own'[s] = own[s] - One(g, s) /\ Counted(tmps', s) = Counted(tmps, s) + One(g, s)
      BY <1>3, <1>4
    <3> QED
      BY ONLY <2>1, <3>1
  <2>3. Moves(s, 0, 0, 0, 0)
    BY ONLY <1>2, <2>1, <2>2 DEF Moves
  <2> QED
    BY ONLY <2>3
<1>8. CountsAgree'
  BY <1>1, <1>2, <1>5, <1>7, CountsKept
<1> QED
  BY <1>4, <1>5, <1>6, <1>8 DEF IInv

(* Steps that change what is to be done, and no reference.                 *)
LEMMA StartKeeps ==
  ASSUME IInv, Running, NEW e \in Entry, e.do \in {"freetmps", "clear"}, e.do = "clear" => rc,
         UNCHANGED <<rc, refcnt, stack, tmps, temp, own, args, off, result>>, work' = <<e>> \o work
  PROVE  IInv'
<1>1. TypeOK /\ CountsAgree /\ Mortals /\ Plans
  BY DEF IInv
<1>2. RunStep(<<e>>) /\ work' \in Seq(Entry)
  BY StartRuns
<1>3. TypeOK'
  BY <1>1, <1>2 DEF TypeOK
<1>4. Plans' /\ Mortals'
  BY <1>1, <1>2, <1>3, RunPlans DEF Mortals
<1>5. ASSUME NEW s \in SVs
      PROVE  \E a, h, k, m \in Int : Moves(s, a, h, k, m)
  <2>1. /\ refcnt[s] \in Nat /\ own[s] \in Nat /\ off[s] \in Int
        /\ Counted(tmps, s) \in Nat /\ Counted(stack, s) \in Nat
        /\ Counted(args, s) \in Nat /\ HeldIn(work, s) \in Int
    BY <1>1, CountTypes
  <2>2. HeldIn(work', s) = HeldIn(work, s) + 0
    <3>1. HeldIn(<<e>>, s) = 0
      BY HeldOne DEF Gives
    <3>2. <<e>> \in Seq(Entry) /\ work \in Seq(Entry)
      BY <1>1 DEF TypeOK
    <3>3. HeldIn(<<e>> \o work, s) = HeldIn(<<e>>, s) + HeldIn(work, s)
      BY ONLY <3>2, HeldConcat
    <3>4. HeldIn(work', s) = HeldIn(<<e>> \o work, s)
      OBVIOUS
    <3> QED
      BY ONLY <2>1, <3>1, <3>3, <3>4
  <2>3. own'[s] = own[s] /\ Counted(tmps', s) = Counted(tmps, s) /\ refcnt'[s] = refcnt[s] /\ off'[s] = off[s]
    OBVIOUS
  <2>4. Counted(stack', s) = Counted(stack, s) /\ Counted(args', s) = Counted(args, s)
    OBVIOUS
  <2>5. Moves(s, 0, 0, 0, 0)
    BY ONLY <2>1, <2>2, <2>3, <2>4 DEF Moves
  <2> QED
    BY ONLY <2>5
<1>6. CountsAgree'
  BY <1>1, <1>3, <1>5, CountsKept
<1> QED
  BY <1>3, <1>4, <1>6 DEF IInv

LEMMA FreetmpsKeeps ==
  ASSUME IInv, Running, FREETMPS
  PROVE  IInv'
<1>1. Floor \in Nat
  <2>1. CASE work = <<>>
    BY <2>1 DEF Floor
  <2>2. CASE work # <<>>
    <3>1. 1 \in 1 .. Len(work) /\ Head(work) = work[1] /\ work[1] \in Entry /\ work[1].do = "destroy"
      BY <2>2, WorkFacts DEF IInv, Running
    <3> QED
      BY <2>2, <3>1, EntryKinds DEF Floor
  <2> QED
    BY <2>1, <2>2
<1>2. FreeTmps(Floor) \in Entry /\ FreeTmps(Floor).do = "freetmps"
  BY <1>1, EntriesMade
<1>3. /\ UNCHANGED <<rc, refcnt, stack, tmps, temp, own, args, off, result>>
      /\ work' = <<FreeTmps(Floor)>> \o work
  BY DEF FREETMPS
<1> DEFINE e == FreeTmps(Floor)
<1>4. e \in Entry /\ e.do \in {"freetmps", "clear"} /\ (e.do = "clear" => rc) /\ work' = <<e>> \o work
  BY <1>2, <1>3
<1> HIDE DEF e
<1> QED
  BY ONLY IInv, Running, <1>3, <1>4, StartKeeps

LEMMA ClearKeeps ==
  ASSUME IInv, Running, clear_defarray_simple
  PROVE  IInv'
<1>1. TypeOK /\ CountsAgree /\ Mortals /\ Plans
  BY DEF IInv
<1>2. work = <<>> /\ UNCHANGED <<rc, refcnt, stack, tmps, temp, own, off, result>>
  BY DEF clear_defarray_simple
<1>3. CASE rc
  <2>1. work' = <<ClearArgs>> /\ args' = args
    BY <1>3 DEF clear_defarray_simple
  <2> DEFINE e == ClearArgs
  <2>2. e \in Entry /\ e.do = "clear"
    BY EntriesMade
  <2>3. work' = <<e>> /\ <<e>> \in Seq(Entry)
    BY <2>1, <2>2
  <2> HIDE DEF e
  <2>4. <<e>> \o work = <<e>>
    BY ONLY <1>2, <2>3, ConcatEmptySeq
  <2>5. work' = <<e>> \o work /\ e.do \in {"freetmps", "clear"}
    BY <2>2, <2>3, <2>4
  <2> QED
    BY ONLY IInv, Running, <1>2, <1>3, <2>1, <2>2, <2>5, StartKeeps
<1>4. CASE ~rc
  <2>1. args' = <<>> /\ work' = work
    BY <1>4 DEF clear_defarray_simple
  <2>2. TypeOK'
    BY <1>1, <1>2, <2>1 DEF TypeOK
  <2>3. Plans' /\ Mortals'
    BY <1>1, <1>2, <2>1, PlansSame DEF Mortals
  <2>4. ASSUME NEW s \in SVs
        PROVE  \E a, h, k, m \in Int : Moves(s, a, h, k, m)
    <3>1. /\ refcnt[s] \in Nat /\ own[s] \in Nat /\ off[s] \in Int
          /\ Counted(tmps, s) \in Nat /\ Counted(stack, s) \in Nat
          /\ Counted(args, s) \in Nat /\ HeldIn(work, s) \in Int
      BY <1>1, CountTypes
    <3>2. Moves(s, 0, 0, 0, 0)
      BY ONLY <1>2, <1>4, <2>1, <3>1 DEF Moves
    <3> QED
      BY ONLY <3>2
  <2>5. CountsAgree'
    BY <1>1, <1>2, <2>2, <2>4, CountsKept
  <2> QED
    BY <2>2, <2>3, <2>5 DEF IInv
<1> QED
  BY <1>3, <1>4

(* The references of the items of a call move to @_.                       *)
LEMMA EnterKeeps ==
  ASSUME IInv, NEW n, n \in 1 .. SP, EnterSub(n)
  PROVE  IInv'
<1>1. TypeOK /\ CountsAgree /\ Mortals /\ Plans /\ Running
  BY DEF IInv, Running, EnterSub
<1>2. /\ work = <<>> /\ args = <<>> /\ args' = SubSeq(stack, SP - n + 1, SP)
      /\ stack' = Upto(SP - n) /\ result' = Upto(SP - n)
      /\ UNCHANGED <<rc, refcnt, tmps, temp, own, work, off>>
  BY DEF EnterSub
<1>3. stack \in Seq(SV) /\ Len(stack) = SP /\ SP \in Nat /\ Above(stack) /\ Base = 0
  BY <1>2, RunningFacts, <1>1 DEF Base
<1> DEFINE d == SP - n
<1>4. d \in 0 .. Len(stack) /\ d \in Base .. Len(stack) /\ Base \in Nat /\ d + 1 \in 1 .. Len(stack) + 1
  BY <1>3
<1>5. \A i \in d + 1 .. Len(stack) : stack[i] \in SV
  BY <1>3, <1>4, ElementOfSeq
<1>6. args' = SubSeq(stack, d + 1, Len(stack)) /\ stack' = SubSeq(stack, 1, d)
  BY <1>2, <1>3 DEF Upto
<1> HIDE DEF d
<1>7. args' \in Seq(SV)
  <2>1. SubSeq(stack, d + 1, Len(stack)) \in Seq(SV)
    BY <1>3, <1>4, <1>5, SubSeqProperties
  <2> QED
    BY <1>6, <2>1
<1>8. stack' \in Seq(SV) /\ Above(stack')
  BY <1>3, <1>4, <1>6, UptoFacts, AboveUpto
<1>9. TypeOK'
  BY <1>1, <1>2, <1>7, <1>8 DEF TypeOK
<1>10. RunStep(<<>>)
  <2> DEFINE documented == Upto(SP - n)
  <2>1. /\ documented \in Seq(SV) /\ Above(documented) /\ stack' = documented /\ rc' = rc /\ work' = work
        /\ result' = IF work = <<>> THEN documented ELSE result
    BY <1>2, <1>8
  <2> HIDE DEF documented
  <2> QED
    BY ONLY <1>1, <2>1, AtOnce
<1>11. Plans' /\ Mortals'
  BY <1>1, <1>2, <1>9, <1>10, RunPlans DEF Mortals
<1>12. ASSUME NEW s \in SVs
       PROVE  \E a, h, k, m \in Int : Moves(s, a, h, k, m)
  <2>1. /\ refcnt[s] \in Nat /\ own[s] \in Nat /\ off[s] \in Int
        /\ Counted(tmps, s) \in Nat /\ Counted(stack, s) \in Nat
        /\ Counted(args, s) \in Nat /\ HeldIn(work, s) \in Int
    BY <1>1, CountTypes
  <2>2. Counted(stack, s) = Counted(SubSeq(stack, 1, d), s) + Counted(SubSeq(stack, d + 1, Len(stack)), s)
    BY ONLY <1>3, <1>4, CountedCut
  <2>3. Counted(stack', s) = Counted(SubSeq(stack, 1, d), s) /\ Counted(args', s) = Counted(SubSeq(stack, d + 1, Len(stack)), s)
    BY ONLY <1>6
  <2>4. Counted(args, s) = 0
    BY ONLY <1>2, CountedOne
  <2>5. Counted(stack', s) + Counted(args', s) = Counted(stack, s) + Counted(args, s) + 0
    BY ONLY <2>1, <2>2, <2>3, <2>4
  <2>6. Moves(s, 0, 0, 0, 0)
    BY ONLY <1>2, <2>1, <2>5 DEF Moves
  <2> QED
    BY ONLY <2>6
<1>13. CountsAgree'
  BY <1>1, <1>2, <1>9, <1>12, CountsKept
<1> QED
  BY <1>9, <1>11, <1>13 DEF IInv

LEMMA CallerKeeps ==
  ASSUME IInv, Running, Caller
  PROVE  IInv'
BY NewKeeps, ForgetKeeps, MortaliseKeeps, FreetmpsKeeps, EnterKeeps, ClearKeeps DEF Caller

-----------------------------------------------------------------------------
(* A step of a suspended function: rest takes the place of the first entry *)
(* of work.  The entry is done, starts a destructor, or gives up one       *)
(* reference and stays.                                                    *)
TailStep(rest) ==
  /\ work # <<>> /\ rest \in Seq(Entry) /\ work' = rest \o Tail(work)
  /\ rc' = rc /\ result' = result
  /\ \A p \in 1 .. Len(stack') : p <= Len(stack) => stack'[p] = stack[p]
  /\ \A k \in 2 .. Len(work) : Lowers(work[k]) => Height(work[k]) <= Len(stack')
  /\ work[1].do \in {"dec", "destroy"} => stack' = stack
  /\ work[1].do = "destroy" => Len(rest) = 0 /\ work[1].base = Len(stack)
  /\ \/ Len(rest) = 0
     \/ /\ Len(rest) = 1 /\ work[1].do = "dec"
        /\ rest[1].do = "destroy" /\ rest[1].base = Len(stack)
     \/ /\ Len(rest) = 2 /\ work[1].do \in {"popto", "freetmps", "clear"}
        /\ rest[1].do = "dec" /\ rest[2] = work[1]
        /\ work[1].do = "popto" => work[1].n <= Len(stack')

LEMMA TailIndices ==
  ASSUME TypeOK, work # <<>>, NEW rest \in Seq(Entry), work' = rest \o Tail(work)
  PROVE  /\ work' \in Seq(Entry) /\ Len(work) \in Nat /\ Len(work) >= 1
         /\ Len(rest) \in Nat /\ Len(work') = Len(rest) + Len(work) - 1
         /\ \A i \in 1 .. Len(rest) : i \in 1 .. Len(work') /\ work'[i] = rest[i] /\ rest[i] \in Entry
         /\ \A i \in 2 .. Len(work) : /\ (i - 1) + Len(rest) \in Len(rest) + 1 .. Len(work')
                                      /\ work'[(i - 1) + Len(rest)] = work[i]
         /\ \A i \in Len(rest) + 1 .. Len(work') : /\ (i - Len(rest)) + 1 \in 2 .. Len(work)
                                                   /\ work'[i] = work[(i - Len(rest)) + 1]
         /\ \A i \in 1 .. Len(work') : i \in 1 .. Len(rest) \/ i \in Len(rest) + 1 .. Len(work')
<1> DEFINE tail == Tail(work)
           m == Len(rest)
<1>1. work \in Seq(Entry) /\ Len(work) \in Nat /\ Len(work) >= 1 /\ m \in Nat
  BY WorkFacts, LenProperties DEF TypeOK
<1>2. /\ tail \in Seq(Entry) /\ Len(tail) = Len(work) - 1
      /\ \A i \in 1 .. Len(tail) : tail[i] = work[i + 1]
  BY <1>1, HeadTailProperties
<1> HIDE DEF tail
<1>3. /\ work' \in Seq(Entry) /\ Len(work') = m + Len(tail)
      /\ \A i \in 1 .. m + Len(tail) : work'[i] = IF i <= m THEN rest[i] ELSE tail[i - m]
  <2>1. work' = rest \o tail
    BY DEF tail
  <2> QED
    BY ONLY <1>2, <2>1, rest \in Seq(Entry), ConcatProperties
<1>4. \A i \in 1 .. m : i \in 1 .. Len(work') /\ work'[i] = rest[i] /\ rest[i] \in Entry
  BY <1>1, <1>2, <1>3, ElementOfSeq
<1>5. \A i \in m + 1 .. Len(work') : (i - m) + 1 \in 2 .. Len(work) /\ work'[i] = work[(i - m) + 1]
  <2> TAKE i \in m + 1 .. Len(work')
  <2>1. i \in 1 .. m + Len(tail) /\ ~(i <= m) /\ i - m \in 1 .. Len(tail) /\ (i - m) + 1 \in 2 .. Len(work)
    BY <1>1, <1>2, <1>3
  <2> QED
    BY <1>2, <1>3, <2>1
<1>6. \A i \in 2 .. Len(work) : (i - 1) + m \in m + 1 .. Len(work') /\ work'[(i - 1) + m] = work[i]
  <2> TAKE i \in 2 .. Len(work)
  <2>1. (i - 1) + m \in m + 1 .. Len(work') /\ (((i - 1) + m) - m) + 1 = i
    BY <1>1, <1>2, <1>3
  <2> QED
    BY <1>5, <2>1
<1>7. \A i \in 1 .. Len(work') : i \in 1 .. m \/ i \in m + 1 .. Len(work')
  BY <1>1, <1>2, <1>3
<1> QED
  BY <1>1, <1>2, <1>3, <1>4, <1>5, <1>6, <1>7

LEMMA TailHeights ==
  ASSUME TypeOK, TypeOK', Heights, NEW rest, TailStep(rest)
  PROVE  Heights'
<1> DEFINE m == Len(rest)
           top == Len(stack')
<1>1. work # <<>> /\ rest \in Seq(Entry) /\ work' = rest \o Tail(work)
  BY DEF TailStep
<1>2. /\ top \in Nat /\ Len(stack) \in Nat /\ m \in Nat /\ Len(work) \in Nat /\ Len(work) >= 1
      /\ 1 \in 1 .. Len(work)
  BY <1>1, TailIndices, LenProperties DEF TypeOK
<1>3. \A k \in 2 .. Len(work) : Lowers(work[k]) => Height(work[k]) <= top /\ Height(work[k]) \in Nat
  BY <1>2, WorkFacts DEF TailStep
<1>4. \A i \in 1 .. m : Lowers(rest[i]) => i = m /\ Height(rest[i]) <= top
  <2> SUFFICES ASSUME NEW i \in 1 .. m, Lowers(rest[i]) PROVE i = m /\ Height(rest[i]) <= top
    OBVIOUS
  <2>1. CASE m = 0
    BY <2>1
  <2>2. CASE m = 1 /\ work[1].do = "dec" /\ rest[1].do = "destroy" /\ rest[1].base = Len(stack)
    BY <1>2, <2>2 DEF TailStep, Height
  <2>3. CASE /\ m = 2 /\ work[1].do \in {"popto", "freetmps", "clear"}
             /\ rest[1].do = "dec" /\ rest[2] = work[1]
             /\ work[1].do = "popto" => work[1].n <= Len(stack')
    <3>1. i = 2
      BY <2>3 DEF Lowers
    <3> QED
      BY <2>3, <3>1 DEF Lowers, Height
  <2> QED
    BY <2>1, <2>2, <2>3 DEF TailStep
<1>5. \A i \in 1 .. m, k \in 2 .. Len(work) :
        Lowers(rest[i]) /\ Lowers(work[k]) => Height(work[k]) <= Height(rest[i])
  <2> SUFFICES ASSUME NEW i \in 1 .. m, NEW k \in 2 .. Len(work), Lowers(rest[i]), Lowers(work[k])
               PROVE  Height(work[k]) <= Height(rest[i])
    OBVIOUS
  <2>1. CASE m = 0
    BY <2>1
  <2>2. CASE m = 1 /\ work[1].do = "dec" /\ rest[1].do = "destroy" /\ rest[1].base = Len(stack)
    <3>1. Height(rest[i]) = Len(stack) /\ k \in 1 .. Len(work)
      BY <1>2, <2>2 DEF Height
    <3> QED
      BY <3>1 DEF Heights
  <2>3. CASE m = 2 /\ rest[1].do = "dec" /\ rest[2] = work[1]
    <3>1. rest[i] = work[1] /\ k \in 1 .. Len(work) /\ 1 < k
      BY <1>2, <2>3 DEF Lowers
    <3> QED
      BY <1>2, <3>1 DEF Heights
  <2> QED
    BY <2>1, <2>2, <2>3 DEF TailStep
<1>6. ASSUME NEW i \in 1 .. Len(work'), Lowers(work'[i]) PROVE Height(work'[i]) <= top
  <2>1. CASE i \in 1 .. m
    BY <1>1, <1>4, <1>6, <2>1, TailIndices
  <2>2. CASE i \in m + 1 .. Len(work')
    BY <1>1, <1>3, <1>6, <2>2, TailIndices
  <2> QED
    BY <1>1, <2>1, <2>2, TailIndices
<1>7. ASSUME NEW i \in 1 .. Len(work'), NEW k \in 1 .. Len(work'), i < k, Lowers(work'[i]), Lowers(work'[k])
      PROVE  Height(work'[k]) <= Height(work'[i])
  <2>1. ~(k \in 1 .. m)
    <3> SUFFICES ASSUME k \in 1 .. m PROVE FALSE
      OBVIOUS
    <3>1. i \in 1 .. m
      BY <1>7
    <3>2. work'[i] = rest[i] /\ work'[k] = rest[k]
      BY <1>1, <3>1, TailIndices
    <3>3. i = m /\ k = m
      BY <1>4, <1>7, <3>1, <3>2
    <3> QED
      BY <1>2, <1>7, <3>3
  <2>2. k \in m + 1 .. Len(work')
    BY <1>1, <2>1, TailIndices
  <2>3. (k - m) + 1 \in 2 .. Len(work) /\ work'[k] = work[(k - m) + 1]
    BY <1>1, <2>2, TailIndices
  <2>4. CASE i \in 1 .. m
    <3>1. work'[i] = rest[i]
      BY <1>1, <2>4, TailIndices
    <3> QED
      BY <1>5, <1>7, <2>3, <2>4, <3>1
  <2>5. CASE i \in m + 1 .. Len(work')
    <3>1. (i - m) + 1 \in 2 .. Len(work) /\ work'[i] = work[(i - m) + 1]
      BY <1>1, <2>5, TailIndices
    <3>2. (i - m) + 1 < (k - m) + 1
      BY ONLY <1>2, <1>7, <2>2, <2>5
    <3>3. (i - m) + 1 \in 1 .. Len(work) /\ (k - m) + 1 \in 1 .. Len(work)
      BY ONLY <1>2, <2>3, <3>1
    <3> QED
      BY <1>7, <2>3, <3>1, <3>2, <3>3 DEF Heights
  <2> QED
    BY <1>1, <2>4, <2>5, TailIndices
<1> QED
  BY <1>6, <1>7 DEF Heights, Lowers, Height

LEMMA TailDrops ==
  ASSUME TypeOK, TypeOK', Heights, Drops, NEW rest, TailStep(rest)
  PROVE  Drops'
<1> DEFINE m == Len(rest)
           top == Len(stack')
<1>1. work # <<>> /\ rest \in Seq(Entry) /\ work' = rest \o Tail(work)
  BY DEF TailStep
<1>2. /\ top \in Nat /\ Len(stack) \in Nat /\ m \in Nat /\ Len(work) \in Nat /\ Len(work) >= 1
      /\ 1 \in 1 .. Len(work)
  BY <1>1, TailIndices, LenProperties DEF TypeOK
<1>3. \A i \in 1 .. m : rest[i].do # "drop"
  <2> SUFFICES ASSUME NEW i \in 1 .. m PROVE rest[i].do # "drop"
    OBVIOUS
  <2>1. CASE m = 0
    BY <2>1
  <2>2. CASE m = 1 /\ rest[1].do = "destroy"
    BY <2>2
  <2>3. CASE m = 2 /\ work[1].do \in {"popto", "freetmps", "clear"} /\ rest[1].do = "dec" /\ rest[2] = work[1]
    BY <2>3
  <2> QED
    BY <2>1, <2>2, <2>3 DEF TailStep
<1>4. ASSUME NEW i \in 2 .. Len(work), work[i].do = "drop"
      PROVE  \E p \in 1 .. top : IsSlot((i - 1) + m, p)'
  <2> DEFINE j == (i - 1) + m
  <2>1. i \in 1 .. Len(work) /\ j \in m + 1 .. Len(work') /\ work'[j] = work[i] /\ j \in Int
    BY <1>1, <1>2, TailIndices
  <2>2. PICK p \in 1 .. Len(stack) : IsSlot(i, p)
    BY <1>4, <2>1 DEF Drops
  <2>3. stack[p] = work[i].sv /\ Behind(i, p) /\ InFront(i, p)
    BY <2>2 DEF IsSlot
  <2>4. Behind(j, p)'
    <3> SUFFICES ASSUME NEW k \in j + 1 .. Len(work'), Lowers(work'[k])
                 PROVE  Height(work'[k]) < p
      BY DEF Behind, Lowers, Height
    <3>1. k \in m + 1 .. Len(work')
      BY <1>2, <2>1
    <3>2. (k - m) + 1 \in 2 .. Len(work) /\ work'[k] = work[(k - m) + 1]
      BY <1>1, <3>1, TailIndices
    <3>3. (k - m) + 1 \in i + 1 .. Len(work)
      BY <1>2, <3>2
    <3> QED
      BY <2>3, <3>2, <3>3 DEF Behind
  <2>5. p <= top /\ InFront(j, p)'
    <3>1. \A k \in m + 1 .. j - 1 : (k - m) + 1 \in 2 .. i - 1 /\ work'[k] = work[(k - m) + 1]
      <4> TAKE k \in m + 1 .. j - 1
      <4>1. k \in m + 1 .. Len(work') /\ (k - m) + 1 \in 2 .. i - 1
        BY <1>2, <2>1
      <4> QED
        BY <1>1, <4>1, TailIndices
    <3>2. CASE p = Len(stack) /\ \A k \in 1 .. i - 1 : work[k].do = "dec"
      <4>1. work[1].do = "dec" /\ stack' = stack
        <5>1. 1 \in 1 .. i - 1
          OBVIOUS
        <5> QED
          BY <3>2, <5>1 DEF TailStep
      <4>2. \A k \in m + 1 .. j - 1 : work'[k].do = "dec"
        BY <3>1, <3>2
      <4>3. CASE m = 0
        <5>1. \A k \in 1 .. j - 1 : work'[k].do = "dec"
          BY <4>2, <4>3
        <5> QED
          BY <1>2, <3>2, <4>1, <5>1 DEF InFront
      <4>4. CASE m = 1 /\ rest[1].do = "destroy" /\ rest[1].base = Len(stack)
        <5>1. work'[1] = rest[1] /\ 1 \in 1 .. j - 1
          <6>1. 1 \in 1 .. m
            BY <4>4
          <6>2. work'[1] = rest[1]
            BY <1>1, <6>1, TailIndices
          <6>3. 1 \in 1 .. j - 1
            BY <4>4
          <6> QED
            BY <6>2, <6>3
        <5>2. \A k \in 1 + 1 .. j - 1 : work'[k].do = "dec"
          BY <4>2, <4>4
        <5>3. p <= top
          BY ONLY <1>2, <3>2, <4>1
        <5>4. work'[1].do = "destroy" /\ work'[1].base = p
          BY <3>2, <4>4, <5>1
        <5> QED
          BY <5>1, <5>2, <5>3, <5>4 DEF InFront
      <4> QED
        BY <4>1, <4>3, <4>4 DEF TailStep
    <3>3. CASE \E h \in 1 .. i - 1 : /\ work[h].do = "destroy" /\ work[h].base = p
                                     /\ \A k \in h + 1 .. i - 1 : work[k].do = "dec"
      <4>1. PICK h \in 1 .. i - 1 : /\ work[h].do = "destroy" /\ work[h].base = p
                                    /\ \A k \in h + 1 .. i - 1 : work[k].do = "dec"
        BY <3>3
      <4>2. CASE h = 1
        <5>1. stack' = stack /\ m = 0 /\ p = Len(stack)
          BY <4>1, <4>2 DEF TailStep
        <5>2. \A k \in 1 .. j - 1 : work'[k].do = "dec"
          <6> TAKE k \in 1 .. j - 1
          <6>1. k \in m + 1 .. j - 1
            BY <5>1
          <6>2. (k - m) + 1 \in 2 .. i - 1 /\ work'[k] = work[(k - m) + 1]
            BY ONLY <3>1, <6>1
          <6>3. \A l \in 2 .. i - 1 : work[l].do = "dec"
            BY <4>1, <4>2
          <6> QED
            BY ONLY <6>2, <6>3
        <5> QED
          BY <1>2, <5>1, <5>2 DEF InFront
      <4>3. CASE h # 1
        <5>1. h \in 2 .. Len(work) /\ (h - 1) + m \in 1 .. j - 1
          BY <1>2, <4>1, <4>3
        <5>2. work'[(h - 1) + m] = work[h]
          BY <1>1, <5>1, TailIndices
        <5>3. p <= top
          <6>1. Lowers(work[h]) /\ Height(work[h]) = p
            BY <4>1 DEF Lowers, Height
          <6> QED
            BY <5>1, <6>1 DEF TailStep
        <5>4. \A k \in ((h - 1) + m) + 1 .. j - 1 : work'[k].do = "dec"
          <6> TAKE k \in ((h - 1) + m) + 1 .. j - 1
          <6>1. k \in m + 1 .. j - 1 /\ (k - m) + 1 \in h + 1 .. i - 1
            BY <1>2, <5>1
          <6> QED
            BY <3>1, <4>1, <6>1
        <5> QED
          BY <4>1, <5>1, <5>2, <5>3, <5>4 DEF InFront
      <4> QED
        BY <4>2, <4>3
    <3> QED
      BY <2>3, <3>2, <3>3 DEF InFront
  <2>6. p \in 1 .. top /\ stack'[p] = work'[j].sv
    <3>1. p \in 1 .. top
      BY <1>2, <2>5
    <3>2. stack'[p] = stack[p]
      BY <2>2, <3>1 DEF TailStep
    <3> QED
      BY <2>1, <2>3, <3>1, <3>2
  <2>7. IsSlot(j, p)'
    BY <2>4, <2>5, <2>6 DEF IsSlot
  <2> QED
    BY <2>6, <2>7
<1>5. ASSUME NEW i \in 1 .. Len(work'), work'[i].do = "drop"
      PROVE  \E p \in 1 .. top : IsSlot(i, p)'
  <2>1. i \in m + 1 .. Len(work')
    BY <1>1, <1>3, <1>5, TailIndices
  <2>2. (i - m) + 1 \in 2 .. Len(work) /\ work'[i] = work[(i - m) + 1] /\ (((i - m) + 1) - 1) + m = i
    BY <1>1, <1>2, <2>1, TailIndices
  <2>3. work[(i - m) + 1].do = "drop"
    BY <1>5, <2>2
  <2>4. \E p \in 1 .. top : IsSlot((((i - m) + 1) - 1) + m, p)'
    BY <1>4, <2>2, <2>3
  <2> QED
    BY <2>2, <2>4
<1> QED
  BY <1>5 DEF Drops

LEMMA TailSimple ==
  ASSUME TypeOK, TypeOK', Simple, NEW rest, TailStep(rest)
  PROVE  Simple'
<1> DEFINE m == Len(rest)
<1>1. work # <<>> /\ rest \in Seq(Entry) /\ work' = rest \o Tail(work) /\ rc' = rc
  BY DEF TailStep
<1>2. m \in Nat /\ Len(work) \in Nat /\ Len(work) >= 1 /\ 1 \in 1 .. Len(work)
  BY <1>1, TailIndices
<1>3. \A i \in 1 .. m : \/ i = 1 /\ rest[i].do \in {"dec", "destroy"}
                        \/ i = 2 /\ rest[i] = work[1] /\ work[1].do \in {"popto", "freetmps", "clear"}
  <2> SUFFICES ASSUME NEW i \in 1 .. m
               PROVE  \/ i = 1 /\ rest[i].do \in {"dec", "destroy"}
                      \/ i = 2 /\ rest[i] = work[1] /\ work[1].do \in {"popto", "freetmps", "clear"}
    OBVIOUS
  <2>1. CASE m = 0
    BY <2>1
  <2>2. CASE m = 1 /\ rest[1].do = "destroy"
    BY <2>2
  <2>3. CASE m = 2 /\ work[1].do \in {"popto", "freetmps", "clear"} /\ rest[1].do = "dec" /\ rest[2] = work[1]
    BY <2>3
  <2> QED
    BY <2>1, <2>2, <2>3 DEF TailStep
<1>4. ASSUME ~rc', NEW i \in 1 .. Len(work')
      PROVE  work'[i].do \in {"dec", "freetmps", "destroy", "exit"}
  <2>1. \A k \in 1 .. Len(work) : work[k].do \in {"dec", "freetmps", "destroy", "exit"}
    BY <1>1, <1>4 DEF Simple
  <2>2. CASE i \in 1 .. m
    BY <1>1, <1>2, <1>3, <2>1, <2>2, TailIndices
  <2>3. CASE i \in m + 1 .. Len(work')
    <3>1. (i - m) + 1 \in 2 .. Len(work) /\ work'[i] = work[(i - m) + 1]
      BY <1>1, <2>3, TailIndices
    <3>2. (i - m) + 1 \in 1 .. Len(work)
      BY <1>2, <3>1
    <3> QED
      BY <2>1, <3>1, <3>2
  <2> QED
    BY <1>1, <2>2, <2>3, TailIndices
<1>5. ASSUME NEW i \in 2 .. Len(work'), work'[i].do = "dec"
      PROVE  work'[i].fast
  <2>1. CASE i \in 1 .. m
    <3>1. work'[i] = rest[i] /\ i # 1
      BY <1>1, <2>1, TailIndices
    <3>2. rest[i].do # "dec"
      BY <1>3, <2>1, <3>1
    <3> QED
      BY <1>5, <3>1, <3>2
  <2>2. CASE i \in m + 1 .. Len(work')
    <3>1. (i - m) + 1 \in 2 .. Len(work) /\ work'[i] = work[(i - m) + 1]
      BY <1>1, <2>2, TailIndices
    <3> QED
      BY <1>5, <3>1 DEF Simple
  <2>3. i \in 1 .. Len(work')
    BY <1>2
  <2> QED
    BY <1>1, <2>1, <2>2, <2>3, TailIndices
<1> QED
  BY <1>4, <1>5 DEF Simple

(* What the step does to the stack of the function that it belongs to.     *)
Finishes(rest) ==
  /\ work[1].do \in {"dec", "freetmps", "clear"} => stack' = stack
  /\ work[1].do = "popto" /\ Len(rest) = 0 => stack' = stack /\ work[1].n = Len(stack)
  /\ work[1].do = "drop" => Len(rest) = 0 /\ Len(stack') = Len(stack) - 1
  /\ work[1].do = "push_undef" => Len(rest) = 0 /\ stack' = Append(stack, Undef)
  /\ work[1].do # "exit"

(* The part of the plan that stays when the program's own function is not  *)
(* the one that takes the step.                                            *)
LEMMA TailBelow ==
  ASSUME TypeOK, TypeOK', Heights, NEW rest, TailStep(rest),
         NEW d \in 2 .. Len(work), LastDestroy(d), NEW n \in 0 .. BottomOf(d), Leads(d, n)
  PROVE  Outcome'
<1> DEFINE m == Len(rest)
           e == (d - 1) + m
<1>1. work # <<>> /\ rest \in Seq(Entry) /\ work' = rest \o Tail(work) /\ result' = result
  BY DEF TailStep
<1>2. /\ m \in Nat /\ Len(work) \in Nat /\ Len(work) >= 1 /\ Len(work') = m + Len(work) - 1
      /\ Len(stack') \in Nat /\ Len(stack) \in Nat /\ stack \in Seq(SV) /\ stack' \in Seq(SV)
  BY <1>1, TailIndices, LenProperties DEF TypeOK
<1>3. e \in 1 .. Len(work') /\ work'[e] = work[d] /\ e \in Nat /\ e > 0
  <2>1. e \in m + 1 .. Len(work') /\ work'[e] = work[d]
    BY <1>1, TailIndices
  <2> DEFINE f == e
             len == Len(work')
  <2>2. f \in m + 1 .. len /\ len \in Nat /\ m \in Nat
    BY <1>2, <2>1
  <2> HIDE DEF f, len, m
  <2>3. f \in 1 .. len /\ f \in Nat /\ f > 0
    BY ONLY <2>2
  <2> QED
    BY <2>1, <2>3 DEF f, len
<1>4. work[d].do = "destroy" /\ BottomOf(d) = work[d].base /\ d > 0
  BY DEF LastDestroy, BottomOf
<1>5. BottomOf(d) \in Nat /\ BottomOf(d) <= Len(stack) /\ BottomOf(d) <= Len(stack')
  <2>1. Lowers(work[d]) /\ Height(work[d]) = work[d].base /\ d \in 1 .. Len(work)
    BY <1>2, <1>4 DEF Lowers, Height
  <2>2. work[d].base \in Nat /\ work[d].base <= Len(stack)
    BY <1>4, <2>1, WorkFacts DEF Heights
  <2>3. work[d].base <= Len(stack')
    BY <2>1 DEF TailStep
  <2> QED
    BY <1>4, <2>2, <2>3
<1>6. BottomOf(e)' = BottomOf(d)
  BY <1>3, <1>4 DEF BottomOf
<1>7. \A k \in e + 1 .. Len(work') : /\ (k - m) + 1 \in d + 1 .. Len(work) /\ work'[k] = work[(k - m) + 1]
                                     /\ (k - m) + 1 = Len(work) => k = Len(work')
  <2> TAKE k \in e + 1 .. Len(work')
  <2>1. k \in m + 1 .. Len(work') /\ (k - m) + 1 \in d + 1 .. Len(work) /\ ((k - m) + 1 = Len(work) => k = Len(work'))
    BY <1>2
  <2> QED
    BY <1>1, <2>1, TailIndices
<1>8. \A k \in d + 1 .. Len(work) : (k - 1) + m \in e + 1 .. Len(work') /\ work'[(k - 1) + m] = work[k]
  <2> TAKE k \in d + 1 .. Len(work)
  <2>1. k \in 2 .. Len(work) /\ (k - 1) + m \in e + 1 .. Len(work')
    BY <1>2
  <2> QED
    BY <1>1, <2>1, TailIndices
<1> HIDE DEF e
<1>9. LastDestroy(e)'
  BY <1>3, <1>4, <1>7 DEF LastDestroy
<1>10. SubSeq(stack', 1, n) = SubSeq(stack, 1, n)
  <2>1. n \in Nat /\ n <= Len(stack) /\ n <= Len(stack')
    BY <1>2, <1>5
  <2>2. \A p \in 1 .. n : stack'[p] = stack[p]
    BY <1>2, <2>1 DEF TailStep
  <2> QED
    BY ONLY <1>2, <2>1, <2>2, SamePrefix
<1>11. Leads(e, n)'
  <2>1. \A k \in e + 1 .. Len(work') :
          /\ work'[k].do = "popto" => work'[k].n = n
          /\ work'[k].do = "drop" => k = Len(work') /\ n = BottomOf(e)' - 1
          /\ work'[k].do = "push_undef" => k = Len(work')
    BY <1>6, <1>7 DEF Leads
  <2>2. (\A k \in e + 1 .. Len(work') : work'[k].do \notin {"popto", "drop"}) => n = BottomOf(e)'
    BY <1>6, <1>8 DEF Leads
  <2>3. (\E k \in e + 1 .. Len(work') : work'[k].do = "push_undef")
          <=> (\E k \in d + 1 .. Len(work) : work[k].do = "push_undef")
    <3>1. ASSUME NEW k \in e + 1 .. Len(work'), work'[k].do = "push_undef"
          PROVE  \E h \in d + 1 .. Len(work) : work[h].do = "push_undef"
      BY <1>7, <3>1
    <3>2. ASSUME NEW h \in d + 1 .. Len(work), work[h].do = "push_undef"
          PROVE  \E k \in e + 1 .. Len(work') : work'[k].do = "push_undef"
      BY <1>8, <3>2
    <3> QED
      BY <3>1, <3>2
  <2>4. result' = IF \E k \in e + 1 .. Len(work') : work'[k].do = "push_undef"
                  THEN Append(SubSeq(stack', 1, n), Undef) ELSE SubSeq(stack', 1, n)
    BY <1>1, <1>10, <2>3 DEF Leads, Upto
  <2> QED
    BY <2>1, <2>2, <2>4 DEF Leads, Upto
<1>12. e \in 0 .. Len(work') /\ n \in 0 .. BottomOf(e)'
  BY <1>3, <1>6
<1> QED
  BY <1>9, <1>11, <1>12 DEF Outcome

(* The destructor that the program's function waits for returns.           *)
LEMMA TailReturns ==
  ASSUME TypeOK, TypeOK', NEW rest, TailStep(rest), LastDestroy(1), NEW n \in 0 .. BottomOf(1), Leads(1, n)
  PROVE  Outcome'
<1>1. work # <<>> /\ rest \in Seq(Entry) /\ work' = rest \o Tail(work) /\ result' = result
  BY DEF TailStep
<1>2. work[1].do = "destroy" /\ BottomOf(1) = work[1].base
  BY DEF LastDestroy, BottomOf
<1>3. Len(rest) = 0 /\ work[1].base = Len(stack) /\ stack' = stack
  BY <1>2 DEF TailStep
<1>4. Len(work) \in Nat /\ Len(work) >= 1 /\ Len(work') = Len(work) - 1
  BY <1>1, <1>3, TailIndices
<1>5. \A k \in 0 + 1 .. Len(work') : /\ k + 1 \in 1 + 1 .. Len(work) /\ work'[k] = work[k + 1]
                                     /\ k + 1 = Len(work) => k = Len(work')
  <2> TAKE k \in 0 + 1 .. Len(work')
  <2>1. k \in Len(rest) + 1 .. Len(work') /\ k + 1 \in 1 + 1 .. Len(work)
    BY <1>3, <1>4
  <2>2. work'[k] = work[(k - Len(rest)) + 1]
    BY <1>1, <2>1, TailIndices
  <2> QED
    BY <1>3, <1>4, <2>1, <2>2
<1>6. \A k \in 1 + 1 .. Len(work) : k - 1 \in 0 + 1 .. Len(work') /\ work'[k - 1] = work[k]
  <2> TAKE k \in 1 + 1 .. Len(work)
  <2>1. k - 1 \in 0 + 1 .. Len(work') /\ (k - 1) + 1 = k
    BY <1>4
  <2> QED
    BY <1>5, <2>1
<1>7. BottomOf(0)' = BottomOf(1)
  BY <1>2, <1>3 DEF BottomOf
<1>8. LastDestroy(0)'
  BY <1>5 DEF LastDestroy
<1>9. Leads(0, n)'
  <2>1. \A k \in 0 + 1 .. Len(work') :
          /\ work'[k].do = "popto" => work'[k].n = n
          /\ work'[k].do = "drop" => k = Len(work') /\ n = BottomOf(0)' - 1
          /\ work'[k].do = "push_undef" => k = Len(work')
    BY <1>5, <1>7 DEF Leads
  <2>2. (\A k \in 0 + 1 .. Len(work') : work'[k].do \notin {"popto", "drop"}) => n = BottomOf(0)'
    BY <1>6, <1>7 DEF Leads
  <2>3. (\E k \in 0 + 1 .. Len(work') : work'[k].do = "push_undef")
          <=> (\E k \in 1 + 1 .. Len(work) : work[k].do = "push_undef")
    <3>1. ASSUME NEW k \in 0 + 1 .. Len(work'), work'[k].do = "push_undef"
          PROVE  \E h \in 1 + 1 .. Len(work) : work[h].do = "push_undef"
      BY <1>5, <3>1
    <3>2. ASSUME NEW h \in 1 + 1 .. Len(work), work[h].do = "push_undef"
          PROVE  \E k \in 0 + 1 .. Len(work') : work'[k].do = "push_undef"
      BY <1>6, <3>2
    <3> QED
      BY <3>1, <3>2
  <2>4. result' = IF \E k \in 0 + 1 .. Len(work') : work'[k].do = "push_undef"
                  THEN Append(SubSeq(stack', 1, n), Undef) ELSE SubSeq(stack', 1, n)
    BY <1>1, <1>3, <2>3 DEF Leads, Upto
  <2> QED
    BY <2>1, <2>2, <2>4 DEF Leads, Upto
<1>10. 0 \in 0 .. Len(work') /\ n \in 0 .. BottomOf(0)'
  BY <1>4, <1>7
<1> QED
  BY <1>8, <1>9, <1>10 DEF Outcome

(* The program's own function takes the step.                              *)
LEMMA TailOwn ==
  ASSUME TypeOK, TypeOK', Drops, NEW rest, TailStep(rest), Finishes(rest),
         LastDestroy(0), NEW n \in 0 .. BottomOf(0), Leads(0, n)
  PROVE  Outcome'
<1> DEFINE m == Len(rest)
           d == IF m = 1 THEN 1 ELSE 0
<1>1. work # <<>> /\ rest \in Seq(Entry) /\ work' = rest \o Tail(work) /\ result' = result
  BY DEF TailStep
<1>2. /\ m \in Nat /\ Len(work) \in Nat /\ Len(work) >= 1 /\ Len(work') = m + Len(work) - 1
      /\ Len(stack') \in Nat /\ Len(stack) \in Nat /\ stack \in Seq(SV) /\ stack' \in Seq(SV)
      /\ BottomOf(0) = Len(stack) /\ n \in Nat /\ n <= Len(stack) /\ 1 \in 0 + 1 .. Len(work)
  BY <1>1, TailIndices, LenProperties DEF TypeOK, BottomOf
<1>3. \A k \in m + 1 .. Len(work') :
        /\ (k - m) + 1 \in 2 .. Len(work) /\ (k - m) + 1 \in 0 + 1 .. Len(work)
        /\ work'[k] = work[(k - m) + 1] /\ ((k - m) + 1 = Len(work) => k = Len(work'))
  <2> TAKE k \in m + 1 .. Len(work')
  <2>1. /\ (k - m) + 1 \in 2 .. Len(work) /\ (k - m) + 1 \in 0 + 1 .. Len(work)
        /\ (k - m) + 1 = Len(work) => k = Len(work')
    BY <1>2
  <2> QED
    BY <1>1, <2>1, TailIndices
<1>4. \A k \in 2 .. Len(work) : (k - 1) + m \in m + 1 .. Len(work') /\ work'[(k - 1) + m] = work[k]
  BY <1>1, TailIndices
<1>5. \A k \in 0 + 1 .. Len(work) :
        /\ work[k].do # "destroy"
        /\ work[k].do = "popto" => work[k].n = n
        /\ work[k].do = "drop" => k = Len(work) /\ n = Len(stack) - 1
        /\ work[k].do = "push_undef" => k = Len(work)
  BY <1>2 DEF LastDestroy, Leads
<1>6. (\A k \in 0 + 1 .. Len(work) : work[k].do \notin {"popto", "drop"}) => n = Len(stack)
  BY <1>2 DEF Leads
<1>7. result = IF \E k \in 0 + 1 .. Len(work) : work[k].do = "push_undef"
               THEN Append(SubSeq(stack, 1, n), Undef) ELSE SubSeq(stack, 1, n)
  BY DEF Leads, Upto
<1>8. work[1].do \in {"dec", "drop", "popto", "freetmps", "push_undef", "clear"}
  <2>1. work[1] \in Entry /\ work[1].do # "destroy" /\ work[1].do # "exit"
    BY <1>2, <1>5, WorkFacts DEF Finishes
  <2> QED
    BY <2>1, EntryKinds
<1>14. \/ m = 0 /\ d = 0
       \/ m = 1 /\ d = 1 /\ rest[1].do = "destroy" /\ rest[1].base = Len(stack)
       \/ m = 2 /\ d = 0 /\ rest[1].do = "dec" /\ rest[2] = work[1]
  BY DEF TailStep
<1>9. CASE work[1].do \in {"dec", "freetmps", "clear", "popto"} /\ Len(stack') >= n
             /\ (stack' = stack \/ (work[1].do = "popto" /\ m = 2))
  <2>1. d \in 0 .. Len(work') /\ d \in Nat
    BY <1>2, <1>14
  <2>2. BottomOf(d)' = IF m = 1 THEN Len(stack) ELSE Len(stack')
    <3>1. CASE m = 1
      <4>1. 1 \in 1 .. m
        BY <3>1
      <4>2. work'[1] = rest[1]
        BY <1>1, <4>1, TailIndices
      <4>3. rest[1].base = Len(stack)
        BY <3>1 DEF TailStep
      <4> QED
        BY <3>1, <4>2, <4>3 DEF BottomOf
    <3>2. CASE m # 1
      BY <3>2 DEF BottomOf
    <3> QED
      BY <3>1, <3>2
  <2>3. \A k \in d + 1 .. Len(work') : \/ k \in m + 1 .. Len(work')
                                       \/ k = 1 /\ m = 2 /\ work'[k].do = "dec"
                                       \/ k = 2 /\ m = 2 /\ work'[k] = work[1]
    <3> TAKE k \in d + 1 .. Len(work')
    <3>1. CASE m = 2 /\ k \in {1, 2}
      <4>1. k \in 1 .. m
        BY <3>1
      <4>2. work'[k] = rest[k]
        BY <1>1, <4>1, TailIndices
      <4>3. rest[1].do = "dec" /\ rest[2] = work[1]
        BY <3>1 DEF TailStep
      <4> QED
        BY <3>1, <4>2, <4>3
    <3>2. CASE ~(m = 2 /\ k \in {1, 2})
      <4> DEFINE a == m
                 b == d
                 len == Len(work')
      <4>1. a \in Nat /\ b \in Nat /\ len \in Nat /\ k \in b + 1 .. len
        BY <1>2, <2>1
      <4>2. (a = 0 /\ b = 0) \/ (a = 1 /\ b = 1) \/ (a = 2 /\ b = 0)
        BY <1>14
      <4>3. ~(a = 2 /\ k \in {1, 2})
        BY <3>2
      <4> HIDE DEF a, b, len
      <4>4. k \in a + 1 .. len
        BY ONLY <4>1, <4>2, <4>3
      <4> QED
        BY <4>4 DEF a, len
    <3> QED
      BY <3>1, <3>2
  <2>4. m = 2 => 2 \in d + 1 .. Len(work') /\ work'[2] = work[1]
    <3> SUFFICES ASSUME m = 2
                 PROVE  2 \in d + 1 .. Len(work') /\ work'[2] = work[1]
      OBVIOUS
    <3>1. d = 0 /\ rest[2] = work[1]
      BY <1>14
    <3>2. 2 \in 1 .. m /\ 2 \in d + 1 .. Len(work')
      BY <1>2, <3>1
    <3>3. work'[2] = rest[2]
      BY <1>1, <3>2, TailIndices
    <3> QED
      BY <3>1, <3>2, <3>3
  <2>5. \A k \in m + 1 .. Len(work') : k \in d + 1 .. Len(work')
    <3>1. d <= m
      BY <1>2, <1>14
    <3> QED
      BY ONLY <1>2, <2>1, <3>1
  <2>6. m = 1 => work'[1].do = "destroy"
    <3> SUFFICES ASSUME m = 1
                 PROVE  work'[1].do = "destroy"
      OBVIOUS
    <3>1. 1 \in 1 .. m /\ rest[1].do = "destroy"
      BY <1>14
    <3>2. work'[1] = rest[1]
      BY <1>1, <3>1, TailIndices
    <3> QED
      BY <3>1, <3>2
  <2>7. LastDestroy(d)'
    <3>1. \A k \in d + 1 .. Len(work') : work'[k].do # "destroy"
      <4> TAKE k \in d + 1 .. Len(work')
      <4>1. CASE k \in m + 1 .. Len(work')
        BY <1>3, <1>5, <4>1
      <4>2. CASE k \notin m + 1 .. Len(work')
        BY <1>8, <1>9, <2>3, <4>2
      <4> QED
        BY <4>1, <4>2
    <3> QED
      BY <2>6, <3>1 DEF LastDestroy
  <2>8. \A k \in 0 + 1 .. Len(work) : work[k].do = "drop" => stack' = stack
    <3> SUFFICES ASSUME NEW k \in 0 + 1 .. Len(work), work[k].do = "drop", work[1].do = "popto"
                 PROVE  FALSE
      BY <1>9
    <3>1. k \in 1 .. Len(work) /\ 1 \in 1 .. k - 1
      BY <1>2
    <3>2. PICK p \in 1 .. Len(stack) : IsSlot(k, p)
      BY <3>1 DEF Drops
    <3>3. InFront(k, p) /\ ~(\A h \in 1 .. k - 1 : work[h].do = "dec")
      BY <3>1, <3>2 DEF IsSlot
    <3>4. PICK h \in 1 .. k - 1 : work[h].do = "destroy"
      BY <3>3 DEF InFront
    <3>5. h \in 0 + 1 .. Len(work)
      BY <1>2
    <3> QED
      BY <1>5, <3>4, <3>5
  <2>9. \A k \in d + 1 .. Len(work') :
          /\ work'[k].do = "popto" => work'[k].n = n
          /\ work'[k].do = "drop" => k = Len(work') /\ n = BottomOf(d)' - 1
          /\ work'[k].do = "push_undef" => k = Len(work')
    <3> TAKE k \in d + 1 .. Len(work')
    <3>1. CASE k \in m + 1 .. Len(work')
      <4> DEFINE h == (k - m) + 1
      <4>1. h \in 0 + 1 .. Len(work) /\ work'[k] = work[h] /\ (h = Len(work) => k = Len(work'))
        BY <1>3, <3>1
      <4> HIDE DEF h
      <4>2. work[h].do = "drop" => n = BottomOf(d)' - 1
        BY <1>2, <1>5, <2>2, <2>8, <4>1
      <4> QED
        BY <1>5, <4>1, <4>2
    <3>2. CASE k \notin m + 1 .. Len(work')
      <4>1. \/ work'[k].do = "dec"
            \/ work'[k] = work[1]
        BY <2>3, <3>2
      <4> QED
        BY <1>2, <1>5, <1>9, <4>1
    <3> QED
      BY <3>1, <3>2
  <2>10. (\A k \in d + 1 .. Len(work') : work'[k].do \notin {"popto", "drop"}) => n = BottomOf(d)'
    <3> HAVE \A k \in d + 1 .. Len(work') : work'[k].do \notin {"popto", "drop"}
    <3>1. \A k \in 2 .. Len(work) : work[k].do \notin {"popto", "drop"}
      BY <1>4, <2>5
    <3>2. CASE work[1].do = "popto"
      <4>1. m # 2
        BY <2>4, <3>2
      <4>2. m = 0
        BY <2>1, <3>2, <4>1 DEF TailStep
      <4>3. stack' = stack /\ work[1].n = Len(stack) /\ work[1].n = n
        BY <1>2, <1>5, <3>2, <4>2 DEF Finishes
      <4> QED
        BY <2>2, <4>2, <4>3
    <3>3. CASE work[1].do # "popto"
      <4>1. \A k \in 0 + 1 .. Len(work) : work[k].do \notin {"popto", "drop"}
        <5> TAKE k \in 0 + 1 .. Len(work)
        <5>1. k = 1 \/ k \in 2 .. Len(work)
          BY <1>2
        <5> QED
          BY <1>9, <3>1, <3>3, <5>1
      <4>2. n = Len(stack) /\ stack' = stack
        BY <1>6, <1>9, <3>3, <4>1
      <4> QED
        BY <2>2, <4>2
    <3> QED
      BY <3>2, <3>3
  <2>11. (\E k \in d + 1 .. Len(work') : work'[k].do = "push_undef")
           <=> (\E k \in 0 + 1 .. Len(work) : work[k].do = "push_undef")
    <3>1. ASSUME NEW k \in d + 1 .. Len(work'), work'[k].do = "push_undef"
          PROVE  \E h \in 0 + 1 .. Len(work) : work[h].do = "push_undef"
      <4>1. k \in m + 1 .. Len(work')
        BY <1>9, <2>3, <3>1
      <4> QED
        BY <1>3, <3>1, <4>1
    <3>2. ASSUME NEW h \in 0 + 1 .. Len(work), work[h].do = "push_undef"
          PROVE  \E k \in d + 1 .. Len(work') : work'[k].do = "push_undef"
      <4>1. h # 1
        BY <1>9, <3>2
      <4>2. h \in 2 .. Len(work)
        BY <4>1
      <4>3. (h - 1) + m \in m + 1 .. Len(work') /\ work'[(h - 1) + m] = work[h]
        BY <1>4, <4>2
      <4>4. (h - 1) + m \in d + 1 .. Len(work')
        BY <2>5, <4>3
      <4> QED
        BY <3>2, <4>3, <4>4
    <3> HIDE DEF d
    <3> QED
      BY <3>1, <3>2
  <2>12. SubSeq(stack', 1, n) = SubSeq(stack, 1, n)
    <3>1. \A p \in 1 .. n : stack'[p] = stack[p]
      BY <1>2, <1>9 DEF TailStep
    <3>2. n <= Len(stack) /\ n <= Len(stack')
      BY <1>2, <1>9
    <3> QED
      BY ONLY <1>2, <3>1, <3>2, SamePrefix
  <2>13. n \in 0 .. BottomOf(d)'
    BY <1>2, <1>9, <2>2
  <2> HIDE DEF d
  <2>14. result' = IF \E k \in d + 1 .. Len(work') : work'[k].do = "push_undef"
                   THEN Append(SubSeq(stack', 1, n), Undef) ELSE SubSeq(stack', 1, n)
    BY <1>1, <1>7, <2>11, <2>12
  <2>15. Leads(d, n)'
    BY <2>9, <2>10, <2>14 DEF Leads, Upto
  <2> QED
    BY <2>1, <2>7, <2>13, <2>15 DEF Outcome
<1>10. CASE work[1].do \in {"drop", "push_undef"}
  <2>1. m = 0 /\ Len(work) = 1 /\ Len(work') = 0
    <3>1. m = 0
      BY <1>10 DEF Finishes
    <3>2. 1 = Len(work)
      BY <1>2, <1>5, <1>10
    <3> DEFINE a == m
               b == Len(work)
               c == Len(work')
    <3>3. a = 0 /\ b = 1 /\ c = a + b - 1
      BY ONLY <1>2, <3>1, <3>2
    <3> HIDE DEF a, b, c
    <3>4. a = 0 /\ b = 1 /\ c = 0
      BY ONLY <3>3
    <3> QED
      BY <3>4 DEF a, b, c
  <2>2. LastDestroy(0)' /\ BottomOf(0)' = Len(stack')
    BY <2>1 DEF LastDestroy, BottomOf
  <2>3. \A k \in 0 + 1 .. Len(work) : k = 1
    BY <2>1
  <2>4. result = SubSeq(stack', 1, Len(stack'))
    <3>1. CASE work[1].do = "drop"
      <4>1. ~ \E k \in 0 + 1 .. Len(work) : work[k].do = "push_undef"
        BY <2>3, <3>1
      <4>2. result = SubSeq(stack, 1, n) /\ n = Len(stack) - 1 /\ Len(stack') = n
        BY <1>2, <1>5, <1>7, <3>1, <4>1 DEF Finishes
      <4>3. \A p \in 1 .. n : stack'[p] = stack[p]
        BY <1>2, <4>2 DEF TailStep
      <4>4. n <= Len(stack) /\ n <= Len(stack')
        BY <1>2, <4>2
      <4>5. SubSeq(stack', 1, n) = SubSeq(stack, 1, n)
        BY ONLY <1>2, <4>3, <4>4, SamePrefix
      <4> QED
        BY <4>2, <4>5
    <3>2. CASE work[1].do = "push_undef"
      <4>1. \E k \in 0 + 1 .. Len(work) : work[k].do = "push_undef"
        BY <1>2, <3>2
      <4>2. n = Len(stack)
        BY <1>6, <2>3, <3>2
      <4>3. result = Append(SubSeq(stack, 1, n), Undef) /\ SubSeq(stack, 1, n) = stack
        BY <1>2, <1>7, <4>1, <4>2, SubSeqFull
      <4>4. result = stack'
        BY <3>2, <4>3 DEF Finishes
      <4> QED
        BY <1>2, <4>4, SubSeqFull
    <3> QED
      BY <1>10, <3>1, <3>2
  <2>5. PICK q \in Nat : q = Len(stack')
    BY <1>2
  <2>6. Leads(0, q)'
    <3>1. result' = SubSeq(stack', 1, q) /\ BottomOf(0)' = q
      BY <1>1, <2>2, <2>4, <2>5
    <3>2. \A k \in 0 + 1 .. Len(work') : FALSE
      BY <2>1
    <3> QED
      BY <3>1, <3>2 DEF Leads, Upto
  <2>7. 0 \in 0 .. Len(work') /\ q \in 0 .. BottomOf(0)'
    BY <2>1, <2>2, <2>5
  <2> QED
    BY <2>2, <2>6, <2>7 DEF Outcome
<1>11. work[1].do \in {"dec", "freetmps", "clear"} => stack' = stack
  BY DEF Finishes
<1>12. work[1].do = "popto" => Len(stack') >= n /\ (stack' = stack \/ m = 2)
  <2> HAVE work[1].do = "popto"
  <2>1. work[1].n = n
    BY <1>2, <1>5
  <2>2. CASE m = 0
    BY <1>2, <2>2 DEF Finishes
  <2>3. CASE m # 0
    BY <1>2, <2>1, <2>3 DEF TailStep
  <2> QED
    BY <2>2, <2>3
<1> QED
  BY <1>2, <1>8, <1>9, <1>10, <1>11, <1>12

LEMMA TailPlans ==
  ASSUME TypeOK, TypeOK', Plans, NEW rest, TailStep(rest), Finishes(rest)
  PROVE  Plans'
<1>1. Heights /\ Drops /\ Simple /\ Outcome
  BY DEF Plans
<1>2. Heights'
  BY <1>1, TailHeights
<1>3. Drops'
  BY <1>1, TailDrops
<1>4. Simple'
  BY <1>1, TailSimple
<1>5. Outcome'
  <2>1. PICK d \in 0 .. Len(work) : LastDestroy(d) /\ \E n \in 0 .. BottomOf(d) : Leads(d, n)
    BY <1>1 DEF Outcome
  <2>2. PICK n \in 0 .. BottomOf(d) : Leads(d, n)
    BY <2>1
  <2>3. Len(work) \in Nat
    BY WorkFacts
  <2>4. CASE d = 0
    BY <1>1, <2>1, <2>2, <2>4, TailOwn
  <2>5. CASE d = 1
    BY <1>1, <2>1, <2>2, <2>5, TailReturns
  <2>6. CASE d \in 2 .. Len(work)
    BY <1>1, <2>1, <2>2, <2>6, TailBelow
  <2> QED
    BY <2>3, <2>4, <2>5, <2>6
<1> QED
  BY <1>2, <1>3, <1>4, <1>5 DEF Plans

(* What the step changes, beside the references held by its own entries.   *)
Shifts(rest, s, a, k, m) ==
  /\ own'[s] + Counted(tmps', s) = own[s] + Counted(tmps, s) + a
  /\ rc => Counted(stack', s) + Counted(args', s) = Counted(stack, s) + Counted(args, s) + k
  /\ refcnt'[s] - off'[s] = refcnt[s] - off[s] + m
  /\ m = a + (HeldIn(rest, s) - Gives(work[1], s)) + (IF rc THEN k ELSE 0)

LEMMA HeadFacts ==
  ASSUME TypeOK, NEW do, AtStep(do)
  PROVE  /\ work # <<>> /\ work \in Seq(Entry) /\ Tail(work) \in Seq(Entry)
         /\ Head(work) = work[1] /\ work[1] \in Entry /\ work[1].do = do
         /\ Len(work) \in Nat /\ 1 \in 1 .. Len(work)
         /\ <<>> \in Seq(Entry) /\ <<>> \o Tail(work) = Tail(work)
         /\ stack \in Seq(SV) /\ SP = Len(stack) /\ SP \in Nat
<1>1. work # <<>> /\ work \in Seq(Entry) /\ Head(work).do = do /\ stack \in Seq(SV)
  BY DEF AtStep, TypeOK
<1>2. Tail(work) \in Seq(Entry)
  BY <1>1, HeadTailProperties
<1>3. Head(work) = work[1] /\ work[1] \in Entry /\ Len(work) \in Nat /\ 1 \in 1 .. Len(work)
  BY <1>1, WorkFacts
<1>4. <<>> \o Tail(work) = Tail(work)
  BY ONLY <1>2, ConcatEmptySeq
<1> QED
  BY <1>1, <1>2, <1>3, <1>4, LenProperties DEF SP

LEMMA PushedEntry ==
  ASSUME TypeOK, work # <<>>, NEW e \in Entry, work' = <<e>> \o work
  PROVE  <<e, work[1]>> \in Seq(Entry) /\ work' = <<e, work[1]>> \o Tail(work)
<1>1. work \in Seq(Entry) /\ work[1] \in Entry /\ Head(work) = work[1]
  BY WorkFacts DEF TypeOK
<1> DEFINE tail == Tail(work)
           f == work[1]
<1>2. /\ tail \in Seq(Entry) /\ Len(tail) \in Nat /\ Len(tail) = Len(work) - 1 /\ Len(work) \in Nat
      /\ \A i \in 1 .. Len(tail) : tail[i] = work[i + 1]
  BY <1>1, HeadTailProperties, LenProperties
<1> HIDE DEF tail
<1>3. <<e, f>> \in Seq(Entry) /\ Len(<<e, f>>) = 2 /\ <<e, f>>[1] = e /\ <<e, f>>[2] = f
  BY <1>1
<1>4. <<e>> \in Seq(Entry) /\ Len(<<e>>) = 1 /\ <<e>>[1] = e
  OBVIOUS
<1> DEFINE one == <<e>>
           two == <<e, f>>
           A == one \o work
           B == two \o tail
<1>5. /\ one \in Seq(Entry) /\ Len(one) = 1 /\ one[1] = e
      /\ two \in Seq(Entry) /\ Len(two) = 2 /\ two[1] = e /\ two[2] = work[1]
  BY <1>3, <1>4
<1> HIDE DEF one, two
<1>6. A \in Seq(Entry) /\ Len(A) = 1 + Len(work) /\ \A i \in 1 .. 1 + Len(work) : A[i] = IF i <= 1 THEN one[i] ELSE work[i - 1]
  <2>1. one \in Seq(Entry) /\ work \in Seq(Entry)
    BY <1>1, <1>5
  <2>2. /\ A \in Seq(Entry) /\ Len(A) = Len(one) + Len(work)
        /\ \A i \in 1 .. Len(one) + Len(work) : A[i] = IF i <= Len(one) THEN one[i] ELSE work[i - Len(one)]
    BY ONLY <2>1, ConcatProperties
  <2> HIDE DEF A
  <2> QED
    BY ONLY <1>5, <2>2
<1>7. B \in Seq(Entry) /\ Len(B) = 2 + Len(tail) /\ \A i \in 1 .. 2 + Len(tail) : B[i] = IF i <= 2 THEN two[i] ELSE tail[i - 2]
  <2>1. two \in Seq(Entry) /\ tail \in Seq(Entry)
    BY <1>2, <1>5
  <2>2. /\ B \in Seq(Entry) /\ Len(B) = Len(two) + Len(tail)
        /\ \A i \in 1 .. Len(two) + Len(tail) : B[i] = IF i <= Len(two) THEN two[i] ELSE tail[i - Len(two)]
    BY ONLY <2>1, ConcatProperties
  <2> HIDE DEF B
  <2> QED
    BY ONLY <1>5, <2>2
<1> HIDE DEF A, B
<1>8. Len(A) = Len(B)
  BY ONLY <1>2, <1>6, <1>7
<1>9. ASSUME NEW i \in 1 .. Len(A) PROVE A[i] = B[i]
  <2>1. CASE i = 1
    BY ONLY <1>2, <1>5, <1>6, <1>7, <2>1
  <2>2. CASE i = 2
    BY ONLY <1>2, <1>5, <1>6, <1>7, <1>9, <2>2
  <2>3. CASE i \in 3 .. Len(A)
    <3>1. A[i] = work[i - 1] /\ B[i] = tail[i - 2] /\ i - 2 \in 1 .. Len(tail) /\ (i - 2) + 1 = i - 1
      BY ONLY <1>2, <1>6, <1>7, <2>3
    <3> QED
      BY <1>2, <3>1
  <2> QED
    BY <1>2, <1>6, <2>1, <2>2, <2>3
<1>10. A = B
  BY ONLY <1>6, <1>7, <1>8, <1>9, SeqEqual
<1> QED
  BY <1>3, <1>10 DEF A, B, one, two, tail

LEMMA TailHeld ==
  ASSUME TypeOK, work # <<>>, NEW rest \in Seq(Entry), work' = rest \o Tail(work), NEW s
  PROVE  /\ HeldIn(work', s) = HeldIn(work, s) + (HeldIn(rest, s) - Gives(work[1], s))
         /\ HeldIn(rest, s) \in Int /\ Gives(work[1], s) \in Int
<1>1. work \in Seq(Entry) /\ work[1] \in Entry /\ Head(work) = work[1]
  BY WorkFacts DEF TypeOK
<1>2. Tail(work) \in Seq(Entry)
  BY <1>1, HeadTailProperties
<1>3. HeldIn(work, s) = Gives(Head(work), s) + HeldIn(Tail(work), s)
  BY ONLY <1>1, work # <<>>, HeldHead
<1>4. HeldIn(rest \o Tail(work), s) = HeldIn(rest, s) + HeldIn(Tail(work), s) /\ HeldIn(rest, s) \in Int
  BY ONLY <1>2, rest \in Seq(Entry), HeldConcat
<1>5. Tail(work) \o <<>> \in Seq(Entry) /\ HeldIn(Tail(work), s) \in Int
  BY ONLY <1>2, HeldConcat, ConcatEmptySeq
<1>6. Gives(work[1], s) \in Int
  BY ONLY <1>1, GivesOne
<1>7. HeldIn(work', s) = HeldIn(rest, s) + HeldIn(Tail(work), s)
  BY ONLY <1>4, work' = rest \o Tail(work)
<1>8. HeldIn(work, s) = Gives(work[1], s) + HeldIn(Tail(work), s)
  BY <1>1, <1>3
<1> QED
  BY ONLY <1>4, <1>5, <1>6, <1>7, <1>8

LEMMA TailKeeps ==
  ASSUME IInv, TypeOK', Mortals', NEW rest, TailStep(rest), Finishes(rest),
         \A s \in SVs : \E a, k, m \in Int : Shifts(rest, s, a, k, m)
  PROVE  IInv'
<1>1. TypeOK /\ CountsAgree /\ Plans
  BY DEF IInv
<1>2. Plans'
  BY <1>1, TailPlans
<1>3. work # <<>> /\ rest \in Seq(Entry) /\ work' = rest \o Tail(work) /\ rc' = rc
  BY DEF TailStep
<1>4. ASSUME NEW s \in SVs
      PROVE  \E a, h, k, m \in Int : Moves(s, a, h, k, m)
  <2>1. PICK a \in Int, k \in Int, m \in Int : Shifts(rest, s, a, k, m)
    OBVIOUS
  <2> DEFINE h == HeldIn(rest, s) - Gives(work[1], s)
  <2>2. HeldIn(work', s) = HeldIn(work, s) + h /\ h \in Int
    BY ONLY <1>1, <1>3, TailHeld
  <2>3. Moves(s, a, h, k, m)
    BY ONLY <2>1, <2>2 DEF Shifts, Moves
  <2> HIDE DEF h
  <2> QED
    BY <2>2, <2>3
<1>5. CountsAgree'
  BY <1>1, <1>3, <1>4, CountsKept
<1> QED
  BY <1>2, <1>5 DEF IInv

(* A step that leaves the stack alone.                                     *)
LEMMA TailStill ==
  ASSUME TypeOK, Heights, work # <<>>, NEW rest \in Seq(Entry), work' = rest \o Tail(work),
         UNCHANGED <<rc, stack, result>>,
         work[1].do = "destroy" => Len(rest) = 0 /\ work[1].base = Len(stack),
         \/ Len(rest) = 0
         \/ Len(rest) = 1 /\ work[1].do = "dec" /\ rest[1].do = "destroy" /\ rest[1].base = Len(stack)
         \/ Len(rest) = 2 /\ work[1].do \in {"freetmps", "clear"} /\ rest[1].do = "dec" /\ rest[2] = work[1],
         work[1].do \in {"dec", "freetmps", "clear", "destroy"}
           \/ (work[1].do = "popto" /\ work[1].n = Len(stack))
  PROVE  TailStep(rest) /\ Finishes(rest)
<1>1. \A k \in 2 .. Len(work) : Lowers(work[k]) => Height(work[k]) <= Len(stack')
  <2>1. Len(work) \in Nat
    BY WorkFacts
  <2> QED
    BY <2>1 DEF Heights
<1>2. TailStep(rest)
  BY <1>1 DEF TailStep
<1>3. Finishes(rest)
  BY DEF Finishes
<1> QED
  BY <1>2, <1>3

LEMMA HeldOfRest ==
  ASSUME NEW s \in SVs
  PROVE  /\ HeldIn(<<>>, s) = 0
         /\ \A x \in SV, e \in Entry : HeldIn(<<Dec(x), e>>, s) = One(x, s) + Gives(e, s)
         /\ \A e \in Entry : e.do = "destroy" => HeldIn(<<e>>, s) = 0
<1>1. HeldIn(<<>>, s) = 0
  BY EntriesMade, HeldOne
<1>2. ASSUME NEW x \in SV, NEW e \in Entry PROVE HeldIn(<<Dec(x), e>>, s) = One(x, s) + Gives(e, s)
  <2> DEFINE f == Dec(x)
  <2>1. f \in Entry /\ f.do = "dec" /\ f.sv = x
    BY EntriesMade
  <2> HIDE DEF f
  <2>2. HeldIn(<<f, e>>, s) = Gives(f, s) + Gives(e, s)
    BY ONLY <1>2, <2>1, HeldTwo
  <2>3. Gives(f, s) = One(x, s)
    BY <2>1 DEF Gives, One
  <2> QED
    BY <2>2, <2>3 DEF f
<1>3. ASSUME NEW e \in Entry, e.do = "destroy" PROVE HeldIn(<<e>>, s) = 0
  BY <1>3, HeldOne DEF Gives
<1> QED
  BY <1>1, <1>2, <1>3

(* A reference is given up.                                                *)
LEMMA DecKeeps ==
  ASSUME IInv, SvREFCNT_dec
  PROVE  IInv'
<1>1. TypeOK /\ Heights /\ Mortals /\ AtStep("dec")
  BY DEF IInv, Plans, SvREFCNT_dec
<1> DEFINE x == work[1].sv
<1>2. /\ work # <<>> /\ Tail(work) \in Seq(Entry) /\ Head(work) = work[1] /\ work[1] \in Entry
      /\ work[1].do = "dec" /\ <<>> \in Seq(Entry) /\ <<>> \o Tail(work) = Tail(work)
  BY <1>1, HeadFacts
<1>3. x \in SV /\ (x # Undef => x \in SVs)
  BY <1>2, EntryKinds DEF SV
<1>4. UNCHANGED <<rc, stack, tmps, temp, own, args, result>>
  BY DEF SvREFCNT_dec
<1>5. \A s \in SVs : Gives(work[1], s) = One(x, s) /\ One(x, s) \in Nat
  BY <1>2, GivenFacts DEF Gives, One
<1>6. refcnt \in [SVs -> Nat] /\ off \in [SVs -> Int]
  BY <1>1 DEF TypeOK
<1>7. \/ x = Undef /\ work' = Tail(work) /\ UNCHANGED <<refcnt, off>>
      \/ /\ x # Undef /\ refcnt[x] = 1 /\ refcnt' = [refcnt EXCEPT ![x] = 0]
         /\ work' = <<Destroy(x)>> \o Tail(work) /\ UNCHANGED off
      \/ /\ x # Undef /\ refcnt[x] # 1 /\ refcnt' = [refcnt EXCEPT ![x] = IF @ = 0 THEN 0 ELSE @ - 1]
         /\ off' = IF refcnt[x] = 0 THEN Inc(off, x) ELSE off
         /\ work' = Tail(work)
  BY <1>2 DEF SvREFCNT_dec
<1>8. Mortals'
  BY <1>1, <1>4 DEF Mortals
<1> DEFINE rest == IF x # Undef /\ refcnt[x] = 1 THEN <<Destroy(x)>> ELSE <<>>
<1>9. Destroy(x).do = "destroy" /\ Destroy(x).base = Len(stack)
  BY DEF Destroy
<1>10. x # Undef => Destroy(x) \in Entry
  <2>1. Len(stack) \in Nat /\ Len(tmps) \in Nat
    BY <1>1, LenProperties DEF TypeOK
  <2> QED
    BY <1>3, <2>1 DEF Destroy, Entry
<1>11. /\ rest \in Seq(Entry) /\ work' = rest \o Tail(work)
       /\ Len(rest) = 0 \/ (Len(rest) = 1 /\ rest[1].do = "destroy" /\ rest[1].base = Len(stack))
       /\ \A s \in SVs : HeldIn(rest, s) = 0
  <2>1. CASE x # Undef /\ refcnt[x] = 1
    <3> DEFINE e == Destroy(x)
    <3>1. e \in Entry /\ e.do = "destroy" /\ e.base = Len(stack) /\ work' = <<e>> \o Tail(work) /\ rest = <<e>>
      BY <1>7, <1>9, <1>10, <2>1
    <3> HIDE DEF e, rest
    <3>2. \A s \in SVs : HeldIn(<<e>>, s) = 0
      BY ONLY <3>1, HeldOfRest
    <3>3. <<e>> \in Seq(Entry) /\ Len(<<e>>) = 1 /\ <<e>>[1] = e
      BY ONLY <3>1
    <3> QED
      BY ONLY <3>1, <3>2, <3>3
  <2>2. CASE ~(x # Undef /\ refcnt[x] = 1)
    <3>1. rest = <<>> /\ work' = Tail(work)
      BY <1>7, <2>2
    <3> HIDE DEF rest
    <3> QED
      BY <1>2, <3>1, HeldOfRest
  <2> QED
    BY <2>1, <2>2
<1> HIDE DEF rest
<1>12. TailStep(rest) /\ Finishes(rest)
  <2>1. TypeOK /\ Heights /\ work # <<>> /\ rest \in Seq(Entry) /\ work' = rest \o Tail(work)
    BY <1>1, <1>2, <1>11
  <2>2. UNCHANGED <<rc, stack, result>>
    BY <1>4
  <2>3. work[1].do = "destroy" => Len(rest) = 0 /\ work[1].base = Len(stack)
    BY <1>2
  <2>4. \/ Len(rest) = 0
        \/ Len(rest) = 1 /\ work[1].do = "dec" /\ rest[1].do = "destroy" /\ rest[1].base = Len(stack)
        \/ Len(rest) = 2 /\ work[1].do \in {"freetmps", "clear"} /\ rest[1].do = "dec" /\ rest[2] = work[1]
    BY <1>2, <1>11
  <2>5. work[1].do \in {"dec", "freetmps", "clear", "destroy"}
           \/ (work[1].do = "popto" /\ work[1].n = Len(stack))
    BY <1>2
  <2> QED
    BY ONLY <2>1, <2>2, <2>3, <2>4, <2>5, TailStill
<1>13. refcnt' \in [SVs -> Nat] /\ off' \in [SVs -> Int]
  <2>1. x # Undef => Inc(off, x) \in [SVs -> Int]
    BY <1>3, <1>6, IncFacts
  <2>2. refcnt' = refcnt \/ (x \in SVs /\ \E n \in Nat : refcnt' = [refcnt EXCEPT ![x] = n])
    <3>1. CASE x = Undef
      BY <1>7, <3>1
    <3>2. CASE x # Undef
      <4>1. x \in SVs /\ refcnt[x] \in Nat
        BY <1>3, <1>6, <3>2
      <4>2. CASE refcnt[x] \in {0, 1}
        BY <1>7, <3>2, <4>1, <4>2
      <4>3. CASE refcnt[x] \notin {0, 1}
        <5>1. refcnt' = [refcnt EXCEPT ![x] = refcnt[x] - 1]
          BY <1>7, <3>2, <4>3
        <5>2. refcnt[x] - 1 \in Nat
          BY <4>1, <4>3
        <5> QED
          BY <4>1, <5>1, <5>2
      <4> QED
        BY <4>2, <4>3
    <3> QED
      BY <3>1, <3>2
  <2>3. off' = off \/ (x # Undef /\ off' = Inc(off, x))
    BY <1>7
  <2>4. refcnt' \in [SVs -> Nat]
    BY <1>6, <2>2
  <2> QED
    BY <1>6, <2>1, <2>3, <2>4
<1>14. TypeOK'
  <2>1. work' \in Seq(Entry)
    BY ONLY <1>2, <1>11, ConcatProperties
  <2> QED
    BY <1>1, <1>4, <1>13, <2>1 DEF TypeOK
<1>15. ASSUME NEW s \in SVs
       PROVE  \E a, k, m \in Int : Shifts(rest, s, a, k, m)
  <2>1. /\ refcnt[s] \in Nat /\ own[s] \in Nat /\ off[s] \in Int
        /\ Counted(tmps, s) \in Nat /\ Counted(stack, s) \in Nat
        /\ Counted(args, s) \in Nat
    BY <1>1, CountTypes
  <2>2. refcnt'[s] - off'[s] = refcnt[s] - off[s] + (0 - One(x, s))
    <3>1. CASE x = Undef
      BY <1>7, <2>1, <3>1, UndefAssumption DEF One
    <3>2. CASE x # Undef /\ refcnt[x] # 0
      <4>1. off' = off /\ refcnt' = [refcnt EXCEPT ![x] = refcnt[x] - 1] /\ x \in SVs
        BY <1>3, <1>7, <3>2
      <4>2. refcnt'[s] = refcnt[s] - One(x, s)
        BY <1>6, <2>1, <4>1 DEF One
      <4> QED
        BY <1>5, <2>1, <4>1, <4>2
    <3>3. CASE x # Undef /\ refcnt[x] = 0
      <4>1. off'[s] = off[s] + One(x, s)
        BY <1>3, <1>6, <1>7, <3>3, IncFacts
      <4>2. refcnt'[s] = refcnt[s]
        BY <1>3, <1>6, <1>7, <3>3
      <4> QED
        BY <1>5, <2>1, <4>1, <4>2
    <3> QED
      BY <3>1, <3>2, <3>3
  <2> DEFINE m == 0 - One(x, s)
  <2>3. m \in Int /\ m = 0 + (HeldIn(rest, s) - Gives(work[1], s)) + (IF rc THEN 0 ELSE 0)
    BY <1>5, <1>11
  <2>4. refcnt'[s] - off'[s] = refcnt[s] - off[s] + m
    BY <2>2
  <2> HIDE DEF m
  <2>5. Shifts(rest, s, 0, 0, m)
    BY ONLY <1>4, <2>1, <2>3, <2>4 DEF Shifts
  <2> QED
    BY ONLY <2>3, <2>5
<1> QED
  BY ONLY IInv, <1>8, <1>12, <1>14, <1>15, TailKeeps

(* Only what shrinks a stack can be pending without being a reference, and *)
(* only with PERL_RC_STACK.                                                *)
LEMMA CountedOnly ==
  ASSUME Simple, NEW do, AtStep(do), TypeOK, do \in {"popto", "drop", "push_undef", "clear"}
  PROVE  rc
<1>1. 1 \in 1 .. Len(work) /\ work[1].do = do
  BY HeadFacts
<1> QED
  BY <1>1 DEF Simple

(* An item is popped, and then its reference is given up.                  *)
LEMMA PopToKeeps ==
  ASSUME IInv, PopToStep
  PROVE  IInv'
<1>1. TypeOK /\ Heights /\ Simple /\ Mortals /\ AtStep("popto")
  BY DEF IInv, Plans, PopToStep
<1>2. /\ work # <<>> /\ Tail(work) \in Seq(Entry) /\ Head(work) = work[1] /\ work[1] \in Entry
      /\ work[1].do = "popto" /\ <<>> \in Seq(Entry) /\ <<>> \o Tail(work) = Tail(work)
      /\ stack \in Seq(SV) /\ SP = Len(stack) /\ SP \in Nat /\ Len(work) \in Nat /\ 1 \in 1 .. Len(work)
      /\ work \in Seq(Entry)
  BY <1>1, HeadFacts
<1>3. UNCHANGED <<rc, refcnt, tmps, temp, own, args, off, result>> /\ rc
  BY <1>1, CountedOnly DEF PopToStep
<1>4. Lowers(work[1]) /\ Height(work[1]) = work[1].n /\ work[1].n \in Nat /\ work[1].n <= SP
  BY <1>1, <1>2, EntryKinds DEF Lowers, Height, Heights
<1>5. Mortals'
  BY <1>1, <1>3 DEF Mortals
<1>6. \A s \in SVs : Gives(work[1], s) = 0
  BY <1>2 DEF Gives
<1>7. CASE SP > work[1].n
  <2>1. stack' = Upto(SP - 1) /\ work' = <<Dec(stack[SP])>> \o work
    BY <1>2, <1>7 DEF PopToStep
  <2>2. SP - 1 \in 0 .. Len(stack) /\ SP \in 1 .. Len(stack) /\ work[1].n <= SP - 1
    BY <1>2, <1>4, <1>7
  <2> DEFINE x == stack[SP]
             e == Dec(x)
             rest == <<e, work[1]>>
  <2>3. x \in SV
    BY <1>2, <2>2, ElementOfSeq
  <2>4. e \in Entry /\ e.do = "dec"
    BY <2>3, EntriesMade
  <2>5. stack' \in Seq(SV) /\ Len(stack') = SP - 1 /\ \A p \in 1 .. SP - 1 : stack'[p] = stack[p]
    BY <1>2, <2>1, <2>2, UptoFacts DEF Upto
  <2>6. \A s \in SVs : HeldIn(rest, s) = One(x, s) + Gives(work[1], s)
    BY <1>2, <2>3, HeldOfRest
  <2>7. work' = <<e>> \o work
    BY <2>1
  <2> HIDE DEF e
  <2>8. rest \in Seq(Entry) /\ work' = rest \o Tail(work)
    BY ONLY <1>1, <1>2, <2>4, <2>7, PushedEntry
  <2>9. Len(rest) = 2 /\ rest[1].do = "dec" /\ rest[2] = work[1]
    BY <1>2, <2>4
  <2> HIDE DEF rest, x
  <2>10. \A k \in 2 .. Len(work) : Lowers(work[k]) => Height(work[k]) <= Len(stack')
    <3> SUFFICES ASSUME NEW k \in 2 .. Len(work), Lowers(work[k])
                 PROVE  Height(work[k]) <= Len(stack')
      OBVIOUS
    <3>1. k \in 1 .. Len(work) /\ 1 < k
      BY <1>2
    <3>2. Height(work[k]) <= Height(work[1]) /\ Height(work[k]) \in Nat
      BY <1>1, <1>2, <1>4, <3>1, WorkFacts DEF Heights
    <3> QED
      BY <1>2, <1>4, <2>2, <2>5, <3>2
  <2>11. TailStep(rest)
    BY <1>2, <1>3, <2>2, <2>5, <2>8, <2>9, <2>10 DEF TailStep
  <2>12. Finishes(rest)
    BY <1>2, <2>9 DEF Finishes
  <2>13. TypeOK'
    <3>1. work' \in Seq(Entry)
      BY ONLY <1>2, <2>8, ConcatProperties
    <3> QED
      BY <1>1, <1>3, <2>5, <3>1 DEF TypeOK
  <2>14. ASSUME NEW s \in SVs
         PROVE  \E a, k, m \in Int : Shifts(rest, s, a, k, m)
    <3>1. /\ refcnt[s] \in Nat /\ own[s] \in Nat /\ off[s] \in Int
          /\ Counted(tmps, s) \in Nat /\ Counted(stack, s) \in Nat
          /\ Counted(args, s) \in Nat /\ One(x, s) \in Nat
      BY <1>1, CountTypes, GivenFacts
    <3>2. Counted(stack, s) = Counted(stack', s) + One(x, s)
      <4>1. Len(stack) > 0
        BY <2>2
      <4>2. Counted(stack, s) = Counted(SubSeq(stack, 1, Len(stack) - 1), s) + One(stack[Len(stack)], s)
        BY ONLY <1>2, <4>1, CountedLast
      <4> QED
        BY <1>2, <2>1, <4>2 DEF Upto, x
    <3>3. Counted(stack', s) \in Nat
      BY ONLY <2>5, CountedNat
    <3> DEFINE k == 0 - One(x, s)
    <3>4. /\ k \in Int /\ 0 = 0 + (HeldIn(rest, s) - Gives(work[1], s)) + (IF rc THEN k ELSE 0)
          /\ Counted(stack', s) + Counted(args, s) = Counted(stack, s) + Counted(args, s) + k
      BY <1>3, <1>6, <2>6, <3>1, <3>2, <3>3
    <3> HIDE DEF k
    <3>5. Shifts(rest, s, 0, k, 0)
      BY ONLY <1>3, <3>1, <3>4 DEF Shifts
    <3> QED
      BY ONLY <3>4, <3>5
  <2> QED
    BY ONLY IInv, <1>5, <2>11, <2>12, <2>13, <2>14, TailKeeps
<1>8. CASE ~(SP > work[1].n)
  <2>1. stack' = stack /\ work' = Tail(work)
    BY <1>2, <1>8 DEF PopToStep
  <2> DEFINE rest == <<>>
  <2>2. rest \in Seq(Entry) /\ work' = rest \o Tail(work) /\ Len(rest) = 0 /\ work[1].n = Len(stack)
    BY <1>2, <1>4, <1>8, <2>1
  <2>3. \A s \in SVs : HeldIn(rest, s) = 0
    BY HeldOfRest
  <2> HIDE DEF rest
  <2>4. TailStep(rest) /\ Finishes(rest)
    <3>1. \A k \in 2 .. Len(work) : Lowers(work[k]) => Height(work[k]) <= Len(stack')
      BY <1>1, <1>2, <2>1 DEF Heights
    <3> QED
      BY <1>2, <1>3, <2>1, <2>2, <3>1 DEF TailStep, Finishes
  <2>5. TypeOK'
    BY <1>1, <1>2, <1>3, <2>1 DEF TypeOK
  <2>6. ASSUME NEW s \in SVs
        PROVE  \E a, k, m \in Int : Shifts(rest, s, a, k, m)
    <3>1. /\ refcnt[s] \in Nat /\ own[s] \in Nat /\ off[s] \in Int
          /\ Counted(tmps, s) \in Nat /\ Counted(stack, s) \in Nat /\ Counted(args, s) \in Nat
      BY <1>1, CountTypes
    <3>2. Shifts(rest, s, 0, 0, 0)
      BY ONLY <1>3, <1>6, <2>1, <2>3, <3>1 DEF Shifts
    <3> QED
      BY ONLY <3>2
  <2> QED
    BY ONLY IInv, <1>5, <2>4, <2>5, <2>6, TailKeeps
<1> QED
  BY <1>7, <1>8

(* The slot that is dropped is the topmost one.                            *)
LEMMA DropKeeps ==
  ASSUME IInv, DropStep
  PROVE  IInv'
<1>1. TypeOK /\ Heights /\ Drops /\ Simple /\ Mortals /\ AtStep("drop")
  BY DEF IInv, Plans, DropStep
<1>2. /\ work # <<>> /\ Tail(work) \in Seq(Entry) /\ work[1] \in Entry
      /\ work[1].do = "drop" /\ <<>> \in Seq(Entry) /\ <<>> \o Tail(work) = Tail(work)
      /\ stack \in Seq(SV) /\ SP = Len(stack) /\ SP \in Nat /\ Len(work) \in Nat /\ 1 \in 1 .. Len(work)
  BY <1>1, HeadFacts
<1>3. /\ UNCHANGED <<rc, refcnt, tmps, temp, own, args, off, result>> /\ rc
      /\ stack' = Upto(SP - 1) /\ work' = Tail(work)
  BY <1>1, CountedOnly DEF DropStep
<1>4. /\ SP \in 1 .. Len(stack) /\ stack[SP] = work[1].sv
      /\ \A k \in 2 .. Len(work) : Lowers(work[k]) => Height(work[k]) < SP
  <2>1. PICK p \in 1 .. Len(stack) : IsSlot(1, p)
    BY <1>1, <1>2 DEF Drops
  <2>2. p = Len(stack)
    BY <2>1 DEF IsSlot, InFront
  <2>3. stack[p] = work[1].sv /\ Behind(1, p)
    BY <2>1 DEF IsSlot
  <2> QED
    BY <1>2, <2>1, <2>2, <2>3 DEF Behind
<1> DEFINE x == stack[SP]
           rest == <<>>
<1>5. SP - 1 \in 0 .. Len(stack) /\ SP > 0
  BY <1>2, <1>4
<1>6. stack' \in Seq(SV) /\ Len(stack') = SP - 1 /\ \A p \in 1 .. SP - 1 : stack'[p] = stack[p]
  BY <1>2, <1>3, <1>5, UptoFacts DEF Upto
<1>7. x \in SV /\ \A s \in SVs : Gives(work[1], s) = 0 - One(x, s)
  BY <1>2, <1>4, EntryKinds DEF Gives, One
<1>8. rest \in Seq(Entry) /\ work' = rest \o Tail(work) /\ Len(rest) = 0 /\ \A s \in SVs : HeldIn(rest, s) = 0
  BY <1>2, <1>3, HeldOfRest
<1> HIDE DEF rest, x
<1>9. TailStep(rest)
  <2>1. \A k \in 2 .. Len(work) : Lowers(work[k]) => Height(work[k]) <= Len(stack')
    <3> SUFFICES ASSUME NEW k \in 2 .. Len(work), Lowers(work[k])
                 PROVE  Height(work[k]) <= Len(stack')
      OBVIOUS
    <3> DEFINE h == Height(work[k])
               top == Len(stack')
    <3>1. k \in 1 .. Len(work)
      BY <1>2
    <3>2. h \in Nat /\ h < SP /\ SP \in Nat /\ top = SP - 1
      BY <1>1, <1>2, <1>4, <1>6, <3>1, WorkFacts
    <3> HIDE DEF h, top
    <3>3. h <= top
      BY ONLY <3>2
    <3> QED
      BY <3>3 DEF h, top
  <2> QED
    BY <1>2, <1>3, <1>5, <1>6, <1>8, <2>1 DEF TailStep
<1>10. Finishes(rest)
  BY <1>2, <1>6, <1>8 DEF Finishes
<1>11. TypeOK' /\ Mortals'
  BY <1>1, <1>2, <1>3, <1>6 DEF TypeOK, Mortals
<1>12. ASSUME NEW s \in SVs
       PROVE  \E a, k, m \in Int : Shifts(rest, s, a, k, m)
  <2>1. /\ refcnt[s] \in Nat /\ own[s] \in Nat /\ off[s] \in Int
        /\ Counted(tmps, s) \in Nat /\ Counted(stack, s) \in Nat
        /\ Counted(args, s) \in Nat /\ One(x, s) \in Nat
    BY <1>1, CountTypes, GivenFacts
  <2>2. Counted(stack, s) = Counted(stack', s) + One(x, s)
    <3>1. Len(stack) > 0
      BY <1>2, <1>5
    <3>2. Counted(stack, s) = Counted(SubSeq(stack, 1, Len(stack) - 1), s) + One(stack[Len(stack)], s)
      BY ONLY <1>2, <3>1, CountedLast
    <3> QED
      BY <1>2, <1>3, <3>2 DEF Upto, x
  <2>3. Counted(stack', s) \in Nat
    BY ONLY <1>6, CountedNat
  <2> DEFINE k == 0 - One(x, s)
  <2>4. /\ k \in Int /\ 0 = 0 + (HeldIn(rest, s) - Gives(work[1], s)) + (IF rc THEN k ELSE 0)
        /\ Counted(stack', s) + Counted(args, s) = Counted(stack, s) + Counted(args, s) + k
    <3> DEFINE c == Counted(stack, s)
               cp == Counted(stack', s)
    <3>1. HeldIn(rest, s) - Gives(work[1], s) = One(x, s)
      BY <1>7, <1>8, <2>1
    <3>2. k \in Int /\ 0 = 0 + (HeldIn(rest, s) - Gives(work[1], s)) + (IF rc THEN k ELSE 0)
      BY ONLY <1>3, <2>1, <3>1
    <3>3. c = cp - k /\ c \in Nat /\ cp \in Nat /\ Counted(args, s) \in Nat
      BY <2>1, <2>2, <2>3
    <3>4. cp + Counted(args, s) = c + Counted(args, s) + k
      <4> HIDE DEF k, c, cp
      <4> QED
        BY ONLY <3>2, <3>3
    <3> QED
      BY <3>2, <3>4
  <2>5. own'[s] + Counted(tmps', s) = own[s] + Counted(tmps, s) + 0 /\ refcnt'[s] - off'[s] = refcnt[s] - off[s] + 0
    BY ONLY <1>3, <2>1
  <2>6. Counted(args', s) = Counted(args, s)
    BY ONLY <1>3
  <2> HIDE DEF k
  <2>7. Shifts(rest, s, 0, k, 0)
    BY ONLY <2>4, <2>5, <2>6 DEF Shifts
  <2> QED
    BY ONLY <2>4, <2>7
<1> QED
  BY ONLY IInv, <1>9, <1>10, <1>11, <1>12, TailKeeps

LEMMA PushUndefKeeps ==
  ASSUME IInv, PushUndefStep
  PROVE  IInv'
<1>1. TypeOK /\ Heights /\ Simple /\ Mortals /\ AtStep("push_undef")
  BY DEF IInv, Plans, PushUndefStep
<1>2. /\ work # <<>> /\ Tail(work) \in Seq(Entry) /\ work[1] \in Entry
      /\ work[1].do = "push_undef" /\ <<>> \in Seq(Entry) /\ <<>> \o Tail(work) = Tail(work)
      /\ stack \in Seq(SV) /\ SP = Len(stack) /\ SP \in Nat /\ Len(work) \in Nat /\ 1 \in 1 .. Len(work)
  BY <1>1, HeadFacts
<1>3. /\ UNCHANGED <<rc, refcnt, tmps, temp, own, args, off, result>> /\ rc
      /\ stack' = Append(stack, Undef) /\ work' = Tail(work)
  BY <1>1, CountedOnly DEF PushUndefStep
<1> DEFINE rest == <<>>
<1>4. Undef \in SV
  BY DEF SV
<1>5. stack' \in Seq(SV) /\ Len(stack') = SP + 1 /\ \A p \in 1 .. SP : stack'[p] = stack[p]
  BY <1>2, <1>3, <1>4, AppendProperties
<1>6. \A s \in SVs : Gives(work[1], s) = 0
  BY <1>2 DEF Gives
<1>7. rest \in Seq(Entry) /\ work' = rest \o Tail(work) /\ Len(rest) = 0 /\ \A s \in SVs : HeldIn(rest, s) = 0
  BY <1>2, <1>3, HeldOfRest
<1> HIDE DEF rest
<1>8. TailStep(rest)
  <2>1. \A k \in 2 .. Len(work) : Lowers(work[k]) => Height(work[k]) <= Len(stack')
    <3> SUFFICES ASSUME NEW k \in 2 .. Len(work), Lowers(work[k])
                 PROVE  Height(work[k]) <= Len(stack')
      OBVIOUS
    <3>1. k \in 1 .. Len(work)
      BY <1>2
    <3>2. Height(work[k]) \in Nat /\ Height(work[k]) <= Len(stack)
      BY <1>1, <3>1, WorkFacts DEF Heights
    <3> QED
      BY <1>2, <1>5, <3>2
  <2>2. \A p \in 1 .. Len(stack') : p <= Len(stack) => stack'[p] = stack[p]
    BY <1>2, <1>5
  <2> QED
    BY <1>2, <1>3, <1>7, <2>1, <2>2 DEF TailStep
<1>9. Finishes(rest)
  BY <1>2, <1>3, <1>7 DEF Finishes
<1>10. TypeOK' /\ Mortals'
  BY <1>1, <1>2, <1>3, <1>5 DEF TypeOK, Mortals
<1>11. ASSUME NEW s \in SVs
       PROVE  \E a, k, m \in Int : Shifts(rest, s, a, k, m)
  <2>1. /\ refcnt[s] \in Nat /\ own[s] \in Nat /\ off[s] \in Int
        /\ Counted(tmps, s) \in Nat /\ Counted(stack, s) \in Nat /\ Counted(args, s) \in Nat
    BY <1>1, CountTypes
  <2>2. Counted(stack', s) = Counted(stack, s)
    <3>1. Counted(Append(stack, Undef), s) = Counted(stack, s) + One(Undef, s)
      BY ONLY <1>2, <1>4, CountedAppend
    <3>2. One(Undef, s) = 0
      BY UndefAssumption DEF One
    <3> QED
      BY <1>3, <2>1, <3>1, <3>2
  <2>3. Shifts(rest, s, 0, 0, 0)
    BY ONLY <1>3, <1>6, <1>7, <2>1, <2>2 DEF Shifts
  <2> QED
    BY ONLY <2>3
<1> QED
  BY ONLY IInv, <1>8, <1>9, <1>10, <1>11, TailKeeps

LEMMA EndKeeps ==
  ASSUME IInv, EndDestructor
  PROVE  IInv'
<1>1. TypeOK /\ Heights /\ Mortals /\ AtStep("destroy")
  BY DEF IInv, Plans, EndDestructor
<1>2. /\ work # <<>> /\ Tail(work) \in Seq(Entry) /\ work[1] \in Entry /\ Head(work) = work[1]
      /\ work[1].do = "destroy" /\ <<>> \in Seq(Entry) /\ <<>> \o Tail(work) = Tail(work)
      /\ SP = Len(stack) /\ Len(work) \in Nat
  BY <1>1, HeadFacts
<1>3. /\ UNCHANGED <<rc, refcnt, stack, tmps, temp, own, args, off, result>>
      /\ work[1].base = Len(stack) /\ work' = Tail(work)
  BY <1>2 DEF EndDestructor
<1> DEFINE rest == <<>>
<1>4. \A s \in SVs : Gives(work[1], s) = 0
  BY <1>2 DEF Gives
<1>5. rest \in Seq(Entry) /\ work' = rest \o Tail(work) /\ Len(rest) = 0 /\ \A s \in SVs : HeldIn(rest, s) = 0
  BY <1>2, <1>3, HeldOfRest
<1> HIDE DEF rest
<1>6. TailStep(rest) /\ Finishes(rest)
  <2>1. \A k \in 2 .. Len(work) : Lowers(work[k]) => Height(work[k]) <= Len(stack')
    BY <1>1, <1>2, <1>3 DEF Heights
  <2> QED
    BY <1>2, <1>3, <1>5, <2>1 DEF TailStep, Finishes
<1>7. TypeOK' /\ Mortals'
  BY <1>1, <1>2, <1>3 DEF TypeOK, Mortals
<1>8. ASSUME NEW s \in SVs
      PROVE  \E a, k, m \in Int : Shifts(rest, s, a, k, m)
  <2>1. /\ refcnt[s] \in Nat /\ own[s] \in Nat /\ off[s] \in Int
        /\ Counted(tmps, s) \in Nat /\ Counted(stack, s) \in Nat /\ Counted(args, s) \in Nat
    BY <1>1, CountTypes
  <2>2. Shifts(rest, s, 0, 0, 0)
    BY ONLY <1>3, <1>4, <1>5, <2>1 DEF Shifts
  <2> QED
    BY ONLY <2>2
<1> QED
  BY ONLY IInv, <1>6, <1>7, <1>8, TailKeeps

LEMMA FrontFacts ==
  ASSUME NEW T, NEW seq \in Seq(T), seq # <<>>
  PROVE  /\ Len(seq) \in Nat /\ Len(seq) > 0 /\ Last(seq) = seq[Len(seq)] /\ Last(seq) \in T
         /\ Front(seq) \in Seq(T)
         /\ \A i \in 1 .. Len(seq) - 1 : i \in 1 .. Len(Front(seq)) /\ Front(seq)[i] = seq[i]
         /\ \A s : /\ Counted(seq, s) = Counted(Front(seq), s) + One(Last(seq), s)
                   /\ Counted(Front(seq), s) \in Nat
<1>1. Len(seq) \in Nat /\ Len(seq) > 0
  BY EmptySeq, LenProperties
<1>2. Front(seq) = SubSeq(seq, 1, Len(seq) - 1) /\ Last(seq) = seq[Len(seq)]
  BY DEF Front, Last
<1> DEFINE n == Len(seq) - 1
           front == SubSeq(seq, 1, n)
<1>3. n \in Nat /\ n <= Len(seq) /\ Len(seq) \in 1 .. Len(seq)
  BY <1>1
<1>4. seq[Len(seq)] \in T /\ \A i \in 1 .. n : seq[i] \in T
  BY <1>1, <1>3, ElementOfSeq
<1>5. front \in Seq(T) /\ Len(front) = n /\ \A i \in 1 .. n : front[i] = seq[i]
  <2> HIDE DEF n
  <2> QED
    BY <1>3, <1>4, SubSeqProperties
<1>6. ASSUME NEW s
      PROVE  Counted(seq, s) = Counted(front, s) + One(seq[Len(seq)], s) /\ Counted(front, s) \in Nat
  BY <1>1, <1>5, CountedLast, CountedNat
<1> QED
  BY <1>1, <1>2, <1>4, <1>5, <1>6

(* The last mortal leaves the temps stack, and then its reference is given *)
(* up; the flag goes with it, whatever entries it has further down.        *)
LEMMA FreeTmpsKeeps ==
  ASSUME IInv, FreeTmpsStep
  PROVE  IInv'
<1>1. TypeOK /\ Heights /\ Mortals /\ AtStep("freetmps")
  BY DEF IInv, Plans, FreeTmpsStep
<1>2. /\ work # <<>> /\ Tail(work) \in Seq(Entry) /\ Head(work) = work[1] /\ work[1] \in Entry
      /\ work[1].do = "freetmps" /\ <<>> \in Seq(Entry) /\ <<>> \o Tail(work) = Tail(work)
      /\ Len(work) \in Nat /\ work \in Seq(Entry)
  BY <1>1, HeadFacts
<1>3. UNCHANGED <<rc, refcnt, stack, own, args, off, result>>
  BY DEF FreeTmpsStep
<1>4. \A s \in SVs : Gives(work[1], s) = 0
  BY <1>2 DEF Gives
<1>5. CASE Len(tmps) > work[1].n
  <2>1. tmps' = Front(tmps) /\ temp' = temp \ {Last(tmps)} /\ work' = <<Dec(Last(tmps))>> \o work
    BY <1>2, <1>5 DEF FreeTmpsStep
  <2>2. tmps \in Seq(SVs) /\ tmps # <<>>
    <3>1. work[1].n \in Nat
      BY <1>2, EntryKinds
    <3>2. ~(Len(<<>>) > work[1].n)
      BY <3>1
    <3> QED
      BY <1>1, <1>5, <3>2 DEF TypeOK
  <2> DEFINE x == Last(tmps)
             e == Dec(x)
             rest == <<e, work[1]>>
  <2>3. /\ Len(tmps) \in Nat /\ x = tmps[Len(tmps)] /\ x \in SVs /\ tmps' \in Seq(SVs)
        /\ \A i \in 1 .. Len(tmps) - 1 : i \in 1 .. Len(tmps') /\ tmps'[i] = tmps[i]
        /\ \A s : Counted(tmps, s) = Counted(tmps', s) + One(x, s) /\ Counted(tmps', s) \in Nat
    BY <2>1, <2>2, FrontFacts
  <2>4. x \in SV /\ e \in Entry /\ e.do = "dec"
    BY <2>3, EntriesMade DEF SV
  <2>5. \A s \in SVs : HeldIn(rest, s) = One(x, s) + Gives(work[1], s)
    BY <1>2, <2>4, HeldOfRest
  <2>6. work' = <<e>> \o work /\ temp' = temp \ {x}
    BY <2>1
  <2> HIDE DEF e
  <2>7. rest \in Seq(Entry) /\ work' = rest \o Tail(work)
    BY ONLY <1>1, <1>2, <2>4, <2>6, PushedEntry
  <2>8. Len(rest) = 2 /\ rest[1].do = "dec" /\ rest[2] = work[1]
    BY <1>2, <2>4
  <2> HIDE DEF rest, x
  <2>9. TailStep(rest) /\ Finishes(rest)
    <3>1. \A k \in 2 .. Len(work) : Lowers(work[k]) => Height(work[k]) <= Len(stack')
      BY <1>1, <1>2, <1>3 DEF Heights
    <3> QED
      BY <1>2, <1>3, <2>7, <2>8, <3>1 DEF TailStep, Finishes
  <2>10. TypeOK'
    <3>1. work' \in Seq(Entry)
      BY ONLY <1>2, <2>7, ConcatProperties
    <3> QED
      BY <1>1, <1>3, <2>3, <2>6, <3>1 DEF TypeOK
  <2>11. Mortals'
    <3> SUFFICES ASSUME NEW s \in temp, s # x
                 PROVE  \E i \in 1 .. Len(tmps') : tmps'[i] = s
      BY <2>6 DEF Mortals
    <3>1. PICK i \in 1 .. Len(tmps) : tmps[i] = s
      BY <1>1 DEF Mortals
    <3>2. i # Len(tmps)
      BY <2>3, <3>1
    <3>3. i \in 1 .. Len(tmps) - 1
      BY <2>3, <3>2
    <3> QED
      BY <2>3, <3>1, <3>3
  <2>12. ASSUME NEW s \in SVs
         PROVE  \E a, k, m \in Int : Shifts(rest, s, a, k, m)
    <3>1. /\ refcnt[s] \in Nat /\ own[s] \in Nat /\ off[s] \in Int
          /\ Counted(tmps, s) \in Nat /\ Counted(stack, s) \in Nat
          /\ Counted(args, s) \in Nat /\ One(x, s) \in Nat
      BY <1>1, CountTypes, GivenFacts
    <3>2. Counted(tmps, s) = Counted(tmps', s) + One(x, s) /\ Counted(tmps', s) \in Nat
      BY ONLY <2>3
    <3> DEFINE a == 0 - One(x, s)
               c == Counted(tmps, s)
               cp == Counted(tmps', s)
    <3>3. HeldIn(rest, s) - Gives(work[1], s) = One(x, s)
      BY <1>4, <2>5, <3>1
    <3>4. a \in Int /\ 0 = a + (HeldIn(rest, s) - Gives(work[1], s)) + (IF rc THEN 0 ELSE 0)
      BY ONLY <3>1, <3>3
    <3>5. c = cp - a /\ c \in Nat /\ cp \in Nat /\ own[s] \in Nat
      BY <3>1, <3>2
    <3>6. own[s] + cp = own[s] + c + a
      <4> HIDE DEF a, c, cp
      <4> QED
        BY ONLY <3>4, <3>5
    <3>7. /\ a \in Int /\ 0 = a + (HeldIn(rest, s) - Gives(work[1], s)) + (IF rc THEN 0 ELSE 0)
          /\ own[s] + Counted(tmps', s) = own[s] + Counted(tmps, s) + a
      BY <3>4, <3>6
    <3> HIDE DEF a
    <3>8. Shifts(rest, s, a, 0, 0)
      BY ONLY <1>3, <3>1, <3>7 DEF Shifts
    <3> QED
      BY ONLY <3>7, <3>8
  <2> QED
    BY ONLY IInv, <2>9, <2>10, <2>11, <2>12, TailKeeps
<1>6. CASE ~(Len(tmps) > work[1].n)
  <2>1. UNCHANGED <<tmps, temp>> /\ work' = Tail(work)
    BY <1>2, <1>6 DEF FreeTmpsStep
  <2> DEFINE rest == <<>>
  <2>2. rest \in Seq(Entry) /\ work' = rest \o Tail(work) /\ Len(rest) = 0 /\ \A s \in SVs : HeldIn(rest, s) = 0
    BY <1>2, <2>1, HeldOfRest
  <2> HIDE DEF rest
  <2>3. TailStep(rest) /\ Finishes(rest)
    <3>1. \A k \in 2 .. Len(work) : Lowers(work[k]) => Height(work[k]) <= Len(stack')
      BY <1>1, <1>2, <1>3 DEF Heights
    <3> QED
      BY <1>2, <1>3, <2>2, <3>1 DEF TailStep, Finishes
  <2>4. TypeOK' /\ Mortals'
    BY <1>1, <1>2, <1>3, <2>1 DEF TypeOK, Mortals
  <2>5. ASSUME NEW s \in SVs
        PROVE  \E a, k, m \in Int : Shifts(rest, s, a, k, m)
    <3>1. /\ refcnt[s] \in Nat /\ own[s] \in Nat /\ off[s] \in Int
          /\ Counted(tmps, s) \in Nat /\ Counted(stack, s) \in Nat /\ Counted(args, s) \in Nat
      BY <1>1, CountTypes
    <3>2. Shifts(rest, s, 0, 0, 0)
      BY ONLY <1>3, <1>4, <2>1, <2>2, <3>1 DEF Shifts
    <3> QED
      BY ONLY <3>2
  <2> QED
    BY ONLY IInv, <2>3, <2>4, <2>5, TailKeeps
<1> QED
  BY <1>5, <1>6

(* The last element leaves @_, and then its reference is given up.         *)
LEMMA ClearArgsKeeps ==
  ASSUME IInv, ClearArgsStep
  PROVE  IInv'
<1>1. TypeOK /\ Heights /\ Simple /\ Mortals /\ AtStep("clear")
  BY DEF IInv, Plans, ClearArgsStep
<1>2. /\ work # <<>> /\ Tail(work) \in Seq(Entry) /\ Head(work) = work[1] /\ work[1] \in Entry
      /\ work[1].do = "clear" /\ <<>> \in Seq(Entry) /\ <<>> \o Tail(work) = Tail(work)
      /\ Len(work) \in Nat /\ work \in Seq(Entry)
  BY <1>1, HeadFacts
<1>3. UNCHANGED <<rc, refcnt, stack, tmps, temp, own, off, result>> /\ rc
  BY <1>1, CountedOnly DEF ClearArgsStep
<1>4. \A s \in SVs : Gives(work[1], s) = 0
  BY <1>2 DEF Gives
<1>5. Mortals'
  BY <1>1, <1>3 DEF Mortals
<1>6. \A k \in 2 .. Len(work) : Lowers(work[k]) => Height(work[k]) <= Len(stack')
  BY <1>1, <1>2, <1>3 DEF Heights
<1>7. CASE args # <<>>
  <2>1. args' = Front(args) /\ work' = <<Dec(Last(args))>> \o work /\ args \in Seq(SV)
    BY <1>1, <1>7 DEF ClearArgsStep, TypeOK
  <2> DEFINE x == Last(args)
             e == Dec(x)
             rest == <<e, work[1]>>
  <2>2. /\ x \in SV /\ args' \in Seq(SV)
        /\ \A s : Counted(args, s) = Counted(args', s) + One(x, s) /\ Counted(args', s) \in Nat
    BY <1>7, <2>1, FrontFacts
  <2>3. e \in Entry /\ e.do = "dec"
    BY <2>2, EntriesMade
  <2>4. \A s \in SVs : HeldIn(rest, s) = One(x, s) + Gives(work[1], s)
    BY <1>2, <2>2, HeldOfRest
  <2>5. work' = <<e>> \o work
    BY <2>1
  <2> HIDE DEF e
  <2>6. rest \in Seq(Entry) /\ work' = rest \o Tail(work)
    BY ONLY <1>1, <1>2, <2>3, <2>5, PushedEntry
  <2>7. Len(rest) = 2 /\ rest[1].do = "dec" /\ rest[2] = work[1]
    BY <1>2, <2>3
  <2> HIDE DEF rest, x
  <2>8. TailStep(rest) /\ Finishes(rest)
    BY <1>2, <1>3, <1>6, <2>6, <2>7 DEF TailStep, Finishes
  <2>9. TypeOK'
    <3>1. work' \in Seq(Entry)
      BY ONLY <1>2, <2>6, ConcatProperties
    <3> QED
      BY <1>1, <1>3, <2>2, <3>1 DEF TypeOK
  <2>10. ASSUME NEW s \in SVs
         PROVE  \E a, k, m \in Int : Shifts(rest, s, a, k, m)
    <3>1. /\ refcnt[s] \in Nat /\ own[s] \in Nat /\ off[s] \in Int
          /\ Counted(tmps, s) \in Nat /\ Counted(stack, s) \in Nat
          /\ Counted(args, s) \in Nat /\ One(x, s) \in Nat
      BY <1>1, CountTypes, GivenFacts
    <3>2. Counted(args, s) = Counted(args', s) + One(x, s) /\ Counted(args', s) \in Nat
      BY ONLY <2>2
    <3> DEFINE k == 0 - One(x, s)
    <3>3. /\ k \in Int /\ 0 = 0 + (HeldIn(rest, s) - Gives(work[1], s)) + (IF rc THEN k ELSE 0)
          /\ Counted(stack, s) + Counted(args', s) = Counted(stack, s) + Counted(args, s) + k
      BY <1>3, <1>4, <2>4, <3>1, <3>2
    <3> HIDE DEF k
    <3>4. Shifts(rest, s, 0, k, 0)
      BY ONLY <1>3, <3>1, <3>3 DEF Shifts
    <3> QED
      BY ONLY <3>3, <3>4
  <2> QED
    BY ONLY IInv, <1>5, <2>8, <2>9, <2>10, TailKeeps
<1>8. CASE args = <<>>
  <2>1. args' = args /\ work' = Tail(work)
    BY <1>2, <1>8 DEF ClearArgsStep
  <2> DEFINE rest == <<>>
  <2>2. rest \in Seq(Entry) /\ work' = rest \o Tail(work) /\ Len(rest) = 0 /\ \A s \in SVs : HeldIn(rest, s) = 0
    BY <1>2, <2>1, HeldOfRest
  <2> HIDE DEF rest
  <2>3. TailStep(rest) /\ Finishes(rest)
    BY <1>2, <1>3, <1>6, <2>2 DEF TailStep, Finishes
  <2>4. TypeOK'
    BY <1>1, <1>2, <1>3, <2>1 DEF TypeOK
  <2>5. ASSUME NEW s \in SVs
        PROVE  \E a, k, m \in Int : Shifts(rest, s, a, k, m)
    <3>1. /\ refcnt[s] \in Nat /\ own[s] \in Nat /\ off[s] \in Int
          /\ Counted(tmps, s) \in Nat /\ Counted(stack, s) \in Nat /\ Counted(args, s) \in Nat
      BY <1>1, CountTypes
    <3>2. Shifts(rest, s, 0, 0, 0)
      BY ONLY <1>3, <1>4, <2>1, <2>2, <3>1 DEF Shifts
    <3> QED
      BY ONLY <3>2
  <2> QED
    BY ONLY IInv, <1>5, <2>3, <2>4, <2>5, TailKeeps
<1> QED
  BY <1>7, <1>8

(* A destructor exits: nothing that waits has anything left to do.         *)
LEMMA ThrowKeeps ==
  ASSUME IInv, Throw
  PROVE  IInv'
<1>1. TypeOK /\ CountsAgree /\ Simple /\ Mortals /\ AtStep("destroy")
  BY DEF IInv, Plans, Throw
<1>2. /\ work # <<>> /\ work \in Seq(Entry) /\ work[1].do = "destroy" /\ Len(work) \in Nat
      /\ stack \in Seq(SV) /\ Len(stack) \in Nat
  BY <1>1, HeadFacts
<1> DEFINE A == IF rc THEN <<PopTo(0), ClearArgs>> ELSE <<>>
           B == <<FreeTmps(0), Exit>>
<1>3. /\ work' = A \o B
      /\ off' = [s \in SVs |-> off[s] + HeldFast(s)]
      /\ IF rc THEN UNCHANGED <<stack, args>> ELSE stack' = <<>> /\ args' = <<>>
      /\ result' = <<>>
      /\ UNCHANGED <<rc, refcnt, tmps, temp, own>>
  BY DEF Throw
<1>4. /\ PopTo(0) \in Entry /\ PopTo(0).do = "popto" /\ PopTo(0).n = 0
      /\ ClearArgs \in Entry /\ ClearArgs.do = "clear"
      /\ FreeTmps(0) \in Entry /\ FreeTmps(0).do = "freetmps"
      /\ Exit \in Entry /\ Exit.do = "exit"
  BY EntriesMade
<1>5. A \in Seq(Entry) /\ B \in Seq(Entry) /\ Len(B) = 2 /\ Len(A) = IF rc THEN 2 ELSE 0
  BY <1>4
<1>6. \A i \in 1 .. Len(B) : B[i].do \in {"freetmps", "exit"}
  BY <1>4
<1>7. \A i \in 1 .. Len(A) : rc /\ A[i].do \in {"popto", "clear"} /\ (A[i].do = "popto" => A[i].n = 0)
  BY <1>4
<1>8. rc => A[1].do = "popto"
  BY <1>4
<1>9. \A s : HeldIn(A, s) = 0 /\ HeldIn(B, s) = 0
  <2> TAKE s
  <2>1. HeldIn(B, s) = 0
    BY <1>4, HeldTwo DEF Gives
  <2>2. HeldIn(<<PopTo(0), ClearArgs>>, s) = 0
    BY <1>4, HeldTwo DEF Gives
  <2>3. HeldIn(<<>>, s) = 0
    BY <1>4, HeldOne
  <2> QED
    BY <2>1, <2>2, <2>3
<1> HIDE DEF A, B
<1>10. /\ work' \in Seq(Entry) /\ Len(work') = Len(A) + Len(B)
       /\ \A i \in 1 .. Len(A) + Len(B) : work'[i] = IF i <= Len(A) THEN A[i] ELSE B[i - Len(A)]
  BY ONLY <1>3, <1>5, ConcatProperties
<1>11. \A i \in 1 .. Len(work') : \/ rc /\ work'[i].do \in {"popto", "clear"} /\ (work'[i].do = "popto" => work'[i].n = 0)
                                  \/ work'[i].do \in {"freetmps", "exit"}
  <2> TAKE i \in 1 .. Len(work')
  <2>1. CASE i <= Len(A)
    <3>1. i \in 1 .. Len(A) /\ work'[i] = A[i]
      BY <1>5, <1>10, <2>1
    <3> QED
      BY <1>7, <3>1
  <2>2. CASE ~(i <= Len(A))
    <3>1. i - Len(A) \in 1 .. Len(B) /\ work'[i] = B[i - Len(A)]
      BY <1>5, <1>10, <2>2
    <3> QED
      BY <1>6, <3>1
  <2> QED
    BY <2>1, <2>2
<1>12. rc => 1 \in 1 .. Len(work') /\ work'[1].do = "popto"
  BY <1>5, <1>8, <1>10
<1>13. stack' \in Seq(SV) /\ args' \in Seq(SV) /\ Len(stack') \in Nat /\ (~rc => Len(stack') = 0)
  <2>1. CASE rc
    BY <1>1, <1>2, <1>3, <2>1 DEF TypeOK
  <2>2. CASE ~rc
    <3>1. stack' = <<>> /\ args' = <<>>
      BY <1>3, <2>2
    <3> QED
      BY ONLY <3>1
  <2> QED
    BY <2>1, <2>2
<1>14. \A s \in SVs : HeldFast(s) = HeldIn(work, s)
  <2> TAKE s \in SVs
  <2>1. \A i \in 1 .. Len(work) : work[i] # Dec(s)
    <3> TAKE i \in 1 .. Len(work)
    <3>1. CASE i = 1
      BY <1>2, <3>1 DEF Dec
    <3>2. CASE i \in 2 .. Len(work)
      BY <1>1, <3>2 DEF Simple, Dec
    <3> QED
      BY <1>2, <3>1, <3>2
  <2>2. Counted(work, Dec(s)) = 0
    BY <1>2, <2>1, CountedNat
  <2>3. Counted(work, FastDec(s)) \in Nat /\ Counted(work, Drop(s)) \in Nat
    BY ONLY <1>2, CountedNat
  <2> QED
    BY ONLY <2>2, <2>3 DEF HeldFast, HeldIn
<1>15. \A s \in SVs : HeldIn(work, s) \in Int /\ HeldIn(work', s) = 0
  <2> TAKE s \in SVs
  <2>1. HeldIn(work, s) \in Int
    BY <1>1, CountTypes
  <2>2. HeldIn(A \o B, s) = HeldIn(A, s) + HeldIn(B, s)
    BY ONLY <1>5, HeldConcat
  <2> QED
    BY <1>3, <1>9, <2>1, <2>2
<1>16. off' \in [SVs -> Int] /\ \A s \in SVs : off'[s] = off[s] + HeldIn(work, s)
  <2> DEFINE more == [s \in SVs |-> off[s] + HeldFast(s)]
  <2>1. off \in [SVs -> Int]
    BY <1>1 DEF TypeOK
  <2>2. \A s \in SVs : off[s] + HeldFast(s) \in Int /\ HeldFast(s) = HeldIn(work, s)
    BY <1>14, <1>15, <2>1
  <2>3. more \in [SVs -> Int] /\ \A s \in SVs : more[s] = off[s] + HeldFast(s)
    BY ONLY <2>2
  <2> QED
    BY <1>3, <2>2, <2>3
<1>17. TypeOK' /\ Mortals'
  BY <1>1, <1>3, <1>10, <1>13, <1>16 DEF TypeOK, Mortals
<1>18. Heights'
  <2>1. \A i \in 1 .. Len(work') : (work'[i].do = "popto" /\ work'[i].n = 0) \/ work'[i].do \in {"clear", "freetmps", "exit"}
    BY <1>11
  <2> QED
    <3>1. ASSUME NEW i \in 1 .. Len(work'), Lowers(work'[i]) PROVE Height(work'[i]) = 0
      BY <2>1, <3>1 DEF Lowers, Height
    <3> QED
      BY <1>13, <3>1 DEF Heights, Lowers, Height
<1>19. Drops' /\ Simple'
  <2>1. Drops'
    BY <1>11 DEF Drops
  <2>2. Len(work') \in Nat /\ \A i \in 2 .. Len(work') : i \in 1 .. Len(work')
    BY <1>5, <1>10
  <2>3. \A i \in 1 .. Len(work') : work'[i].do # "dec"
    BY <1>11
  <2>4. ~rc' => \A i \in 1 .. Len(work') : work'[i].do \in {"dec", "freetmps", "destroy", "exit"}
    BY <1>3, <1>11
  <2>5. Simple'
    BY <2>2, <2>3, <2>4 DEF Simple
  <2> QED
    BY <2>1, <2>5
<1>20. Outcome'
  <2>1. \A k \in 0 + 1 .. Len(work') : k \in 1 .. Len(work') /\ work'[k].do \notin {"destroy", "drop", "push_undef"}
    BY <1>11
  <2>2. LastDestroy(0)' /\ BottomOf(0)' = Len(stack')
    BY <2>1 DEF LastDestroy, BottomOf
  <2>3. SubSeq(stack', 1, 0) = <<>>
    BY <1>13
  <2>4. \A k \in 0 + 1 .. Len(work') : work'[k].do = "popto" => work'[k].n = 0
    BY <1>11
  <2>5. (\A k \in 0 + 1 .. Len(work') : work'[k].do \notin {"popto", "drop"}) => 0 = Len(stack')
    BY <1>12, <1>13
  <2>6. Leads(0, 0)'
    BY <1>3, <2>1, <2>2, <2>3, <2>4, <2>5 DEF Leads, Upto
  <2>7. 0 \in 0 .. Len(work') /\ 0 \in 0 .. BottomOf(0)'
    BY <1>5, <1>10, <1>13, <2>2
  <2> QED
    BY <2>2, <2>6, <2>7 DEF Outcome
<1>21. ASSUME NEW s \in SVs
       PROVE  \E a, h, k, m \in Int : Moves(s, a, h, k, m)
  <2>1. /\ refcnt[s] \in Nat /\ own[s] \in Nat /\ off[s] \in Int
        /\ Counted(tmps, s) \in Nat /\ Counted(stack, s) \in Nat
        /\ Counted(args, s) \in Nat /\ HeldIn(work, s) \in Int
    BY <1>1, CountTypes
  <2> DEFINE h == 0 - HeldIn(work, s)
  <2>2. h \in Int /\ h = 0 + h + (IF rc THEN 0 ELSE 0)
    BY <2>1
  <2>3. HeldIn(work', s) = HeldIn(work, s) + h
    BY <1>15, <2>1
  <2>4. refcnt'[s] - off'[s] = refcnt[s] - off[s] + h
    BY <1>3, <1>16, <2>1
  <2>5. own'[s] + Counted(tmps', s) = own[s] + Counted(tmps, s) + 0
    BY ONLY <1>3, <2>1
  <2>6. rc => Counted(stack', s) + Counted(args', s) = Counted(stack, s) + Counted(args, s) + 0
    BY ONLY <1>3, <2>1
  <2> HIDE DEF h
  <2>7. Moves(s, 0, h, 0, h)
    BY ONLY <2>2, <2>3, <2>4, <2>5, <2>6 DEF Moves
  <2> QED
    BY ONLY <2>2, <2>7
<1>22. CountsAgree'
  BY <1>1, <1>3, <1>17, <1>21, CountsKept
<1> QED
  BY <1>17, <1>18, <1>19, <1>20, <1>22 DEF IInv, Plans

LEMMA ContinueKeeps ==
  ASSUME IInv, Continue
  PROVE  IInv'
BY DecKeeps, PopToKeeps, DropKeeps, PushUndefKeeps, FreeTmpsKeeps, ClearArgsKeeps, EndKeeps, ThrowKeeps
   DEF Continue

LEMMA InitKeeps ==
  ASSUME Init
  PROVE  IInv
<1>1. /\ rc \in Builds /\ refcnt = [s \in SVs |-> 0] /\ own = [s \in SVs |-> 0] /\ off = [s \in SVs |-> 0]
      /\ stack = <<>> /\ tmps = <<>> /\ args = <<>> /\ work = <<>> /\ result = <<>> /\ temp = {}
  BY DEF Init
<1>2. TypeOK
  BY <1>1, BuildsAssumption DEF TypeOK
<1>3. Len(work) = 0 /\ Len(stack) = 0
  BY <1>1
<1>4. Heights /\ Drops /\ Simple /\ Mortals
  BY <1>1, <1>3 DEF Heights, Drops, Simple, Mortals
<1>5. Outcome
  <2>1. \A k \in 0 + 1 .. Len(work) : FALSE
    BY <1>3
  <2>2. LastDestroy(0) /\ BottomOf(0) = 0
    BY <1>3, <2>1 DEF LastDestroy, BottomOf
  <2>3. Upto(0) = <<>>
    BY <1>1 DEF Upto
  <2>4. Leads(0, 0)
    BY <1>1, <2>1, <2>2, <2>3 DEF Leads
  <2>5. 0 \in 0 .. Len(work) /\ 0 \in 0 .. BottomOf(0)
    BY <1>3, <2>2
  <2> QED
    BY <2>2, <2>4, <2>5 DEF Outcome
<1>6. ASSUME NEW s \in SVs PROVE Agrees(s)
  <2>1. Counted(<<>>, s) = 0
    BY ONLY CountedOne
  <2>2. Counted(tmps, s) = 0 /\ Counted(stack, s) = 0 /\ Counted(args, s) = 0
    BY ONLY <1>1, <2>1
  <2>3. HeldIn(work, s) = 0
    BY ONLY <1>1, HeldOfRest, s \in SVs
  <2>4. refcnt[s] = 0 /\ own[s] = 0 /\ off[s] = 0
    BY <1>1
  <2> QED
    BY ONLY <2>2, <2>3, <2>4 DEF Agrees
<1>7. CountsAgree
  BY <1>2, <1>6, AgreesEverywhere
<1> QED
  BY <1>2, <1>4, <1>5, <1>7 DEF IInv, Plans

LEMMA StutterKeeps ==
  ASSUME IInv, UNCHANGED vars
  PROVE  IInv'
<1>1. UNCHANGED <<rc, refcnt, stack, tmps, temp, own, args, work, off, result>>
  BY DEF vars
<1>2. TypeOK /\ CountsAgree /\ Mortals /\ Plans
  BY DEF IInv
<1>3. TypeOK' /\ Mortals' /\ Plans'
  BY <1>1, <1>2, PlansSame DEF TypeOK, Mortals
<1>4. ASSUME NEW s \in SVs
      PROVE  \E a, h, k, m \in Int : Moves(s, a, h, k, m)
  <2>1. /\ refcnt[s] \in Nat /\ own[s] \in Nat /\ off[s] \in Int
        /\ Counted(tmps, s) \in Nat /\ Counted(stack, s) \in Nat
        /\ Counted(args, s) \in Nat /\ HeldIn(work, s) \in Int
    BY <1>2, CountTypes
  <2>2. Moves(s, 0, 0, 0, 0)
    BY ONLY <1>1, <2>1 DEF Moves
  <2> QED
    BY ONLY <2>2
<1>5. CountsAgree'
  BY <1>1, <1>2, <1>3, <1>4, CountsKept
<1> QED
  BY <1>3, <1>5 DEF IInv

-----------------------------------------------------------------------------
(* The theorems.                                                           *)

(* At every moment, in both builds and for any number of items, mortals    *)
(* and nested destructors: the counts agree, mortals are on the temps      *)
(* stack, and what the suspended functions have still to do fits the       *)
(* stacks they left.                                                       *)
THEOREM ArgInvariant == Spec => []IInv
<1>1. Init => IInv
  BY InitKeeps
<1>2. IInv /\ [Next]_vars => IInv'
  <2> SUFFICES ASSUME IInv, [Next]_vars
               PROVE  IInv'
    OBVIOUS
  <2>1. CASE Running /\ UseHelper
    BY <2>1, UseKeeps
  <2>2. CASE Running /\ Caller
    BY <2>2, CallerKeeps
  <2>3. CASE Continue
    BY <2>3, ContinueKeeps
  <2>4. CASE UNCHANGED vars
    BY <2>4, StutterKeeps
  <2> QED
    BY <2>1, <2>2, <2>3, <2>4 DEF Next
<1> QED
  BY <1>1, <1>2, PTL DEF Spec

(* The state of the stack helpers keeps its types.                         *)
THEOREM ArgTypeOK == Spec => []TypeOK
<1>1. IInv => TypeOK
  BY DEF IInv
<1> QED
  BY <1>1, ArgInvariant, PTL

(* The count of each SV is the number of references to it, at every moment *)
(* of every helper, destructors that run in its middle included.           *)
THEOREM ArgCountsAgree == Spec => []CountsAgree
<1>1. IInv => CountsAgree
  BY DEF IInv
<1> QED
  BY <1>1, ArgInvariant, PTL

(* An SV that rpp_is_lone approves has no variable, no other slot of a     *)
(* counted stack and no place in @_ that refers to it.                     *)
THEOREM ArgLoneIsStealable == Spec => []LoneIsStealable
<1>1. IInv => LoneIsStealable
  <2> SUFFICES ASSUME IInv, Running, NEW s \in ToSet(Current) \cap SVs,
                      refcnt[s] > 0, off[s] = 0, rpp_is_lone(s)
               PROVE  own[s] = 0 /\ (rc => Counted(stack, s) + Held(s) = 1 /\ Counted(args, s) = 0)
    BY DEF LoneIsStealable
  <2>1. /\ TypeOK /\ CountsAgree /\ Mortals /\ Heights /\ Drops /\ Simple /\ s \in SVs
        /\ stack \in Seq(SV) /\ Len(stack) = SP /\ SP \in Nat /\ Base \in Nat /\ Base <= SP
        /\ work \in Seq(Entry) /\ tmps \in Seq(SVs)
    BY RunningFacts DEF IInv, Plans, TypeOK
  <2> DEFINE O  == own[s]
             T  == Counted(tmps, s)
             K  == Counted(stack, s)
             KB == Counted(Upto(Base), s)
             KC == Counted(Current, s)
             G  == Counted(args, s)
             H  == HeldIn(work, s)
             DD == Counted(work, Dec(s))
             DF == Counted(work, FastDec(s))
             DP == Counted(work, Drop(s))
             N  == refcnt[s]
  <2>2. O \in Nat /\ T \in Nat /\ K \in Nat /\ G \in Nat /\ H \in Int /\ N \in Nat
    BY <2>1, CountTypes
  <2>3. DD \in Nat /\ DF \in Nat /\ DP \in Nat
    BY ONLY <2>1, CountedNat
  <2>4. H = DD + DF - DP /\ Held(s) = H
    BY ONLY <2>3 DEF HeldIn, Held, HeldFast
  <2>5. N = O + T + H + (IF rc THEN K + G ELSE 0)
    <3>1. Agrees(s)
      BY <2>1, AgreesEverywhere
    <3> QED
      BY <2>2, <3>1 DEF Agrees
  <2>6. N <= (IF s \in temp THEN 1 ELSE 0) + (IF rc THEN 1 ELSE 0)
    BY DEF rpp_is_lone
  <2>7. s \in temp => T >= 1
    <3> SUFFICES ASSUME s \in temp PROVE T >= 1
      OBVIOUS
    <3>1. ~ \A i \in 1 .. Len(tmps) : tmps[i] # s
      BY <2>1 DEF Mortals
    <3>2. T # 0
      BY ONLY <2>1, <3>1, CountedNat
    <3> QED
      BY ONLY <2>2, <3>2
  <2>8. ~rc => H >= 0
    BY <2>1, <2>2, HeldBound
  <2>9. DP <= KB
    BY <2>1, DropsBound
  <2>10. K = KB + KC /\ KB \in Nat /\ KC \in Nat /\ KC >= 1
    <3> DEFINE b == Base
               low == SubSeq(stack, 1, b)
               top == SubSeq(stack, b + 1, Len(stack))
    <3>1. b \in 0 .. Len(stack) /\ b + 1 \in 1 .. Len(stack) + 1
      BY <2>1
    <3>2. low = Upto(Base) /\ top = Current
      BY <2>1 DEF Upto, Current
    <3> HIDE DEF b
    <3>3. Counted(stack, s) = Counted(low, s) + Counted(top, s)
      BY ONLY <2>1, <3>1, CountedCut
    <3>4. \A i \in 1 .. Len(stack) : stack[i] \in SV
      BY <2>1, ElementOfSeq
    <3>5. low \in Seq(SV)
      BY <2>1, <3>1, UptoFacts
    <3>6. top \in Seq(SV)
      <4>1. \A i \in b + 1 .. Len(stack) : stack[i] \in SV
        BY <3>1, <3>4
      <4> QED
        BY <2>1, <3>1, <4>1, SubSeqProperties
    <3> HIDE DEF low, top
    <3>7. Counted(low, s) \in Nat /\ Counted(top, s) \in Nat
      BY ONLY <3>5, <3>6, CountedNat
    <3>8. ~ \A i \in 1 .. Len(top) : top[i] # s
      <4>1. DOMAIN top = 1 .. Len(top)
        BY <3>6
      <4>2. s \in ToSet(top)
        BY <3>2
      <4> QED
        BY <4>1, <4>2 DEF ToSet
    <3>9. Counted(top, s) # 0
      BY ONLY <3>6, <3>8, CountedNat
    <3> QED
      BY <3>2, <3>3, <3>7, <3>9
  <2> HIDE DEF O, T, K, KB, KC, G, H, DD, DF, DP, N
  <2>11. CASE rc
    <3>1. N = O + T + H + K + G /\ N <= T + 1
      BY ONLY <2>2, <2>5, <2>6, <2>7, <2>11
    <3>2. K + H >= 1
      BY ONLY <2>2, <2>3, <2>4, <2>9, <2>10
    <3>3. O = 0 /\ K + H = 1 /\ G = 0
      BY ONLY <2>2, <3>1, <3>2
    <3> QED
      BY <2>4, <3>3 DEF O, K, G
  <2>12. CASE ~rc
    <3>1. N = O + T + H /\ N <= T /\ H >= 0
      BY ONLY <2>2, <2>5, <2>6, <2>7, <2>8, <2>12
    <3>2. O = 0
      BY ONLY <2>2, <3>1
    <3> QED
      BY <2>12, <3>2 DEF O
  <2> QED
    BY <2>11, <2>12
<1> QED
  BY <1>1, ArgInvariant, PTL

(* When the helper that the program called has returned, or the program is *)
(* over, the stack is as the helper's documentation says.                  *)
THEOREM ArgAsDocumented == Spec => []AsDocumented
<1>1. IInv => AsDocumented
  <2> SUFFICES ASSUME IInv, work = <<>> \/ work = <<Exit>>
               PROVE  stack = result
    BY DEF AsDocumented
  <2>1. TypeOK /\ Outcome /\ stack \in Seq(SV) /\ Len(stack) \in Nat
    BY LenProperties DEF IInv, Plans, TypeOK
  <2>2. CASE work = <<>>
    BY <2>1, <2>2, DoneResult
  <2>3. CASE work = <<Exit>>
    <3>1. Len(work) = 1 /\ work[1].do = "exit"
      BY <2>3, EntriesMade
    <3>2. PICK d \in 0 .. Len(work) : LastDestroy(d) /\ \E n \in 0 .. BottomOf(d) : Leads(d, n)
      BY <2>1 DEF Outcome
    <3>3. PICK n \in 0 .. BottomOf(d) : Leads(d, n)
      BY <3>2
    <3>4. d = 0
      BY <3>1, <3>2 DEF LastDestroy
    <3>5. \A k \in 0 + 1 .. Len(work) : work[k].do = "exit"
      BY <3>1
    <3>6. n = Len(stack) /\ result = SubSeq(stack, 1, n)
      BY <3>3, <3>4, <3>5 DEF Leads, BottomOf, Upto
    <3> QED
      BY <2>1, <3>6, SubSeqFull
  <2> QED
    BY <2>2, <2>3
<1> QED
  BY <1>1, ArgInvariant, PTL

=============================================================================
