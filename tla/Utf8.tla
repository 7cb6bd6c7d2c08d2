-------------------------------- MODULE Utf8 --------------------------------
(***************************************************************************)
(* The UTF-8 functions of CORE/inline.h: the three automata that recognise *)
(* a character (their tables are in CORE/perl.h), the validation of a      *)
(* string and of a buffer that ends within a character, the inline part of *)
(* decoding, and the hop functions.                                        *)
(*                                                                         *)
(* bytes stands for a pointer and an end: the bytes between the two.       *)
(* Positions in mem count from 0.  Bytes FE and FF, whose values take more *)
(* than 31 bits, are left out.                                             *)
(***************************************************************************)
EXTENDS Integers, FiniteSets, SequencesExt

CONSTANTS
  Bytes,     \* the bytes strings of up to MaxAny are made of
  MaxAny,
  FewBytes,  \* the bytes of longer strings,
  MaxLong,   \* up to MaxLong
  MaxHop     \* bound: characters hopped over at a time

ASSUME BytesAssumption == Bytes \cup FewBytes \subseteq 0 .. 253
ASSUME BoundsAssumption == {MaxAny, MaxLong, MaxHop} \subseteq Nat

VARIABLES
  mem,    \* what a reader has put in its buffer; a NUL follows
  seen,   \* how much of it has been validated,
  ep,     \* the start of the partial character that was left over,
  el,     \* the number of characters before it,
  ok      \* the result

vars == <<mem, seen, ep, el, ok>>

(* What n turns of a loop make of x: turn i makes body[i][v] of v.         *)
Loop(body, n, x) ==
  LET at[i \in Nat] == IF i = 0 THEN x ELSE body[i][at[i - 1]] IN at[n]

-----------------------------------------------------------------------------
(* The automata: the class of each byte, and a row for each node N0, N1,   *)
(* ... with its next node for each class; R rejects.                       *)

R == -1

PL_extended_utf8_dfa_tab ==
  [class |-> [b \in 0 .. 255 |->
     CASE b \in 0 .. 127 -> 0 [] b \in 128 .. 129 -> 7 [] b \in 130 .. 131 -> 8
       [] b \in 132 .. 135 -> 9 [] b \in 136 .. 143 -> 10 [] b \in 144 .. 159 -> 11
       [] b \in 160 .. 191 -> 12 [] b \in 192 .. 193 -> 1 [] b \in 194 .. 223 -> 2
       [] b = 224 -> 13 [] b \in 225 .. 239 -> 3 [] b = 240 -> 14
       [] b \in 241 .. 247 -> 4 [] b = 248 -> 15 [] b \in 249 .. 251 -> 5
       [] b = 252 -> 16 [] b = 253 -> 6 [] b = 254 -> 17 [] b = 255 -> 1],
   node |-> <<
     <<0, R, 1, 2, 3, 4, 5, R, R, R, R, R, R, 6, 7, 8, 9, 10>>,
     <<R, R, R, R, R, R, R, 0, 0, 0, 0, 0, 0, R, R, R, R, R>>,
     <<R, R, R, R, R, R, R, 1, 1, 1, 1, 1, 1, R, R, R, R, R>>,
     <<R, R, R, R, R, R, R, 2, 2, 2, 2, 2, 2, R, R, R, R, R>>,
     <<R, R, R, R, R, R, R, 3, 3, 3, 3, 3, 3, R, R, R, R, R>>,
     <<R, R, R, R, R, R, R, 4, 4, 4, 4, 4, 4, R, R, R, R, R>>,
     <<R, R, R, R, R, R, R, R, R, R, R, R, 1, R, R, R, R, R>>,
     <<R, R, R, R, R, R, R, R, R, R, R, 2, 2, R, R, R, R, R>>,
     <<R, R, R, R, R, R, R, R, R, R, 3, 3, 3, R, R, R, R, R>>,
     <<R, R, R, R, R, R, R, R, R, 4, 4, 4, 4, R, R, R, R, R>>,
     <<R, R, R, R, R, R, R, R, 5, 5, 5, 5, 5, R, R, R, R, R>> >>]

PL_strict_utf8_dfa_tab ==
  [class |-> [b \in 0 .. 255 |->
     CASE b \in 0 .. 127 -> 0 [] b \in 128 .. 142 -> 9 [] b = 143 -> 10
       [] b \in 144 .. 158 -> 11 [] b = 159 -> 12 [] b \in 160 .. 174 -> 13
       [] b = 175 -> 14 [] b \in 176 .. 182 -> 15 [] b = 183 -> 16
       [] b \in 184 .. 189 -> 15 [] b = 190 -> 17 [] b = 191 -> 18
       [] b \in 192 .. 193 -> 1 [] b \in 194 .. 223 -> 2 [] b = 224 -> 7
       [] b \in 225 .. 236 -> 3 [] b = 237 -> 1 [] b = 238 -> 3 [] b = 239 -> 4
       [] b = 240 -> 8 [] b \in 241 .. 243 -> 6 [] b = 244 -> 5
       [] b \in 245 .. 255 -> 1],
   node |-> <<
     <<0, R, 1, 2, 4, 7, 6, 3, 5, R, R, R, R, R, R, R, R, R, R>>,
     <<R, R, R, R, R, R, R, R, R, 0, 0, 0, 0, 0, 0, 0, 0, 0, 0>>,
     <<R, R, R, R, R, R, R, R, R, 1, 1, 1, 1, 1, 1, 1, 1, 1, 1>>,
     <<R, R, R, R, R, R, R, R, R, R, R, R, R, 1, 1, 1, 1, 1, 1>>,
     <<R, R, R, R, R, R, R, R, R, 1, 1, 1, 1, 1, 1, 1, 8, 1, 9>>,
     <<R, R, R, R, R, R, R, R, R, R, R, 2, 10, 2, 10, 2, 2, 2, 10>>,
     <<R, R, R, R, R, R, R, R, R, 2, 10, 2, 10, 2, 10, 2, 2, 2, 10>>,
     <<R, R, R, R, R, R, R, R, R, 2, 10, R, R, R, R, R, R, R, R>>,
     <<R, R, R, R, R, R, R, R, R, 0, 0, R, R, R, R, 0, 0, 0, 0>>,
     <<R, R, R, R, R, R, R, R, R, 0, 0, 0, 0, 0, 0, 0, 0, R, R>>,
     <<R, R, R, R, R, R, R, R, R, 1, 1, 1, 1, 1, 1, 1, 1, 1, 11>>,
     <<R, R, R, R, R, R, R, R, R, 0, 0, 0, 0, 0, 0, 0, 0, R, R>> >>]

PL_c9_utf8_dfa_tab ==
  [class |-> [b \in 0 .. 255 |->
     CASE b \in 0 .. 127 -> 0 [] b \in 128 .. 143 -> 9 [] b \in 144 .. 159 -> 10
       [] b \in 160 .. 191 -> 11 [] b \in 192 .. 193 -> 1 [] b \in 194 .. 223 -> 2
       [] b = 224 -> 7 [] b \in 225 .. 236 -> 3 [] b = 237 -> 4
       [] b \in 238 .. 239 -> 3 [] b = 240 -> 8 [] b \in 241 .. 243 -> 6
       [] b = 244 -> 5 [] b \in 245 .. 255 -> 1],
   node |-> <<
     <<0, R, 1, 2, 5, 7, 3, 4, 6, R, R, R>>,
     <<R, R, R, R, R, R, R, R, R, 0, 0, 0>>,
     <<R, R, R, R, R, R, R, R, R, 1, 1, 1>>,
     <<R, R, R, R, R, R, R, R, R, 2, 2, 2>>,
     <<R, R, R, R, R, R, R, R, R, R, R, 1>>,
     <<R, R, R, R, R, R, R, R, R, 1, 1, R>>,
     <<R, R, R, R, R, R, R, R, R, R, 2, 2>>,
     <<R, R, R, R, R, R, R, R, R, 2, R, R>> >>]

Class(dfa, b) == dfa.class[b]
Goto(dfa, state, b) == dfa.node[state + 1][Class(dfa, b) + 1]

(* Where the automaton stops: state 0, R, or short of the end of the       *)
(* character, having looked at n bytes.                                    *)
Stopped(at) == at.n > 0 /\ at.state \in {0, R}

PERL_IS_UTF8_CHAR_DFA(bytes, dfa) ==
  LET turn == [i \in 1 .. Len(bytes) |-> [at \in [state : R .. 11, n : 0 .. Len(bytes)] |->
                 IF Stopped(at) THEN at ELSE [state |-> Goto(dfa, at.state, bytes[i]), n |-> i]]]
  IN Loop(turn, Len(bytes), [state |-> 0, n |-> 0])

Accepted(at) == at.n > 0 /\ at.state = 0

isUTF8_CHAR(bytes) ==
  LET at == PERL_IS_UTF8_CHAR_DFA(bytes, PL_extended_utf8_dfa_tab)
  IN IF Accepted(at) THEN at.n ELSE 0

(* The automaton rejects ED, which may begin a Hangul or a surrogate.      *)
is_HANGUL_ED_utf8_safe(bytes) ==
  IF Len(bytes) >= 3 /\ bytes[1] = 237 /\ bytes[2] \in 128 .. 159 /\ bytes[3] \in 128 .. 191
  THEN 3 ELSE 0

isSTRICT_UTF8_CHAR(bytes) ==
  LET at == PERL_IS_UTF8_CHAR_DFA(bytes, PL_strict_utf8_dfa_tab)
  IN IF Accepted(at) THEN at.n
     ELSE IF at.state = R THEN is_HANGUL_ED_utf8_safe(bytes) ELSE 0

(* Seeded bug: any character that begins with ED is accepted.              *)
isC9_STRICT_UTF8_CHAR_Hangul(bytes) ==
  LET at == PERL_IS_UTF8_CHAR_DFA(bytes, PL_c9_utf8_dfa_tab)
  IN IF Accepted(at) THEN at.n
     ELSE IF at.state = R /\ Len(bytes) >= 3 /\ bytes[1] = 237 THEN 3 ELSE 0

isC9_STRICT_UTF8_CHAR(bytes) ==
  LET at == PERL_IS_UTF8_CHAR_DFA(bytes, PL_c9_utf8_dfa_tab)
  IN IF Accepted(at) THEN at.n ELSE 0

-----------------------------------------------------------------------------
(* Strings and buffers.  ep: where it stopped; el: characters before that. *)

UTF8_IS_INVARIANT(b) == b < 128

first_variant(bytes) ==
  LET variants == {i \in DOMAIN bytes : ~UTF8_IS_INVARIANT(bytes[i])}
  IN IF variants = {} THEN Len(bytes) ELSE Min(variants) - 1

(* cur_len[x]: the length of the character at x, or 0.                     *)
string_loclen(bytes, cur_len) ==
  LET turn == [i \in 1 .. Len(bytes) |-> [r \in [ep : 0 .. Len(bytes), el : Nat] |->
                 IF r.ep = Len(bytes) \/ cur_len[r.ep] = 0 THEN r
                 ELSE [ep |-> r.ep + cur_len[r.ep], el |-> r.el + 1]]]
      x == first_variant(bytes)
  IN Loop(turn, Len(bytes), [ep |-> x, el |-> x])

RestOf(bytes, x) == SubSeq(bytes, x + 1, Len(bytes))

is_utf8_string_loclen(bytes) ==
  string_loclen(bytes, [x \in 0 .. Len(bytes) |-> isUTF8_CHAR(RestOf(bytes, x))])
is_strict_utf8_string_loclen(bytes) ==
  string_loclen(bytes, [x \in 0 .. Len(bytes) |-> isSTRICT_UTF8_CHAR(RestOf(bytes, x))])
is_c9strict_utf8_string_loclen(bytes) ==
  string_loclen(bytes, [x \in 0 .. Len(bytes) |-> isC9_STRICT_UTF8_CHAR(RestOf(bytes, x))])

is_utf8_valid_partial_char(bytes) ==
  PERL_IS_UTF8_CHAR_DFA(bytes, PL_extended_utf8_dfa_tab).state \notin {0, R}

(* Seeded bug: the partial character is looked for at the start.           *)
is_utf8_fixed_width_buf_loclen_Start(bytes) ==
  LET r == is_utf8_string_loclen(bytes)
  IN [ep |-> r.ep, el |-> r.el,
      ok |-> r.ep = Len(bytes) \/ is_utf8_valid_partial_char(bytes)]

is_utf8_fixed_width_buf_loclen(bytes) ==
  LET r == is_utf8_string_loclen(bytes)
  IN [ep |-> r.ep, el |-> r.el,
      ok |-> \/ r.ep = Len(bytes)
             \/ is_utf8_valid_partial_char(RestOf(bytes, r.ep))]

-----------------------------------------------------------------------------
(* Decoding.                                                               *)

PL_utf8skip ==
  [b \in 0 .. 255 |->
     CASE b \in 0 .. 191 -> 1 [] b \in 192 .. 223 -> 2 [] b \in 224 .. 239 -> 3
       [] b \in 240 .. 247 -> 4 [] b \in 248 .. 251 -> 5 [] b \in 252 .. 253 -> 6
       [] b = 254 -> 7 [] b = 255 -> 13]
UTF8SKIP(b) == PL_utf8skip[b]

UTF8_IS_CONTINUATION(b) == b \in 128 .. 191
UTF8_ACCUMULATE(uv, b) == uv * 64 + (b % 64)

(* uv, with the bytes behind the first of n accumulated.                   *)
Accumulated(uv, bytes, n) ==
  Loop([i \in 1 .. n - 1 |-> [v \in Nat |-> UTF8_ACCUMULATE(v, bytes[i + 1])]], n - 1, uv)

valid_utf8_to_uvchr(bytes) ==
  LET expectlen == UTF8SKIP(bytes[1])
  IN IF expectlen = 1 THEN bytes[1]
     ELSE Accumulated(bytes[1] % 2 ^ (8 - expectlen), bytes, expectlen)

(* utf8n_to_uvchr_msgs, as far as it is inline: -1 where it calls the      *)
(* helper function.  The class of a start byte is the shift of its mask.   *)
utf8n_to_uvchr_msgs(bytes) ==
  LET dfa  == PL_strict_utf8_dfa_tab
      type == Class(dfa, bytes[1])
      at   == PERL_IS_UTF8_CHAR_DFA(bytes, dfa)
  IN CASE type = 0 -> bytes[1]
       [] type # 0 /\ at.state = 0 ->
            Accumulated(bytes[1] % 2 ^ (8 - type), bytes, at.n)
       [] OTHER -> -1

-----------------------------------------------------------------------------
(* Moving by characters.  start is position 0 of mem.                      *)

At(s) == IF s < Len(mem) THEN mem[s + 1] ELSE 0

NextStart(s) == Min({i \in s + 1 .. Len(mem) : ~UTF8_IS_CONTINUATION(At(i))})

(* Seeded bug: the rest of a character is not counted.                    *)
utf8_hop_forward_Counted(s, off, end) ==
  LET turn == [i \in 1 .. off |-> [p \in Nat |->
                 IF end - p \in 0 .. UTF8SKIP(At(p)) THEN end ELSE p + UTF8SKIP(At(p))]]
  IN Loop(turn, off, IF off > 0 /\ UTF8_IS_CONTINUATION(At(s)) THEN NextStart(s) ELSE s)

(* end - p is compared as an unsigned number: negative, it is large.       *)
utf8_hop_forward(s, off, end) ==
  LET aligning == off > 0 /\ UTF8_IS_CONTINUATION(At(s))
      turn == [i \in 1 .. off |-> [p \in Nat |->
                 IF end - p \in 0 .. UTF8SKIP(At(p)) THEN end ELSE p + UTF8SKIP(At(p))]]
  IN IF aligning THEN Loop(turn, off - 1, NextStart(s)) ELSE Loop(turn, off, s)

StartsBefore(p) == {i \in 0 .. p - 1 : ~UTF8_IS_CONTINUATION(At(i))}

utf8_hop_back(s, off) ==
  LET turn == [i \in 1 .. -off |-> [p \in Nat |->
                 IF p = 0 THEN p ELSE Max({0} \cup StartsBefore(p))]]
  IN Loop(turn, -off, s)

(* Without limits: the caller knows that off characters are there.        *)
utf8_hop(s, off) ==
  LET aligning == off > 0 /\ UTF8_IS_CONTINUATION(At(s))
      on   == [i \in 1 .. off |-> [p \in Nat |-> p + UTF8SKIP(At(p))]]
      back == [i \in 1 .. -off |-> [p \in Nat |-> Max(StartsBefore(p))]]
  IN IF aligning THEN Loop(on, off - 1, NextStart(s))
     ELSE IF off > 0 THEN Loop(on, off, s) ELSE Loop(back, -off, s)

utf8_hop_safe(s, off, end) ==
  IF off >= 0 THEN utf8_hop_forward(s, off, end) ELSE utf8_hop_back(s, off)

-----------------------------------------------------------------------------
(* A reader fills its buffer in chunks, and validates what it has.         *)

Init == mem = <<>> /\ seen = 0 /\ ep = 0 /\ el = 0 /\ ok = TRUE

Read(b) ==
  /\ ok
  /\ LET long == Append(mem, b)
     IN /\ \/ Len(mem) < MaxAny /\ b \in Bytes
           \/ Len(mem) < MaxLong /\ ToSet(long) \subseteq FewBytes
        /\ mem' = long
  /\ UNCHANGED <<seen, ep, el, ok>>

(* Never with len = 0, which the functions take to mean strlen.            *)
Validate ==
  /\ ok /\ seen < Len(mem)
  /\ LET r == is_utf8_fixed_width_buf_loclen(SubSeq(mem, ep + 1, Len(mem)))
     IN ep' = ep + r.ep /\ el' = el + r.el /\ ok' = r.ok
  /\ seen' = Len(mem)
  /\ UNCHANGED mem

Next == (\E b \in Bytes \cup FewBytes : Read(b)) \/ Validate

Spec == Init /\ [][Next]_vars

-----------------------------------------------------------------------------
(* The definition of UTF-8: n bytes are a character if the first says so,  *)
(* the others are continuation bytes, and no fewer bytes hold the value.   *)

Width(b) ==
  CASE b \in 0 .. 127 -> 1 [] b \in 192 .. 223 -> 2 [] b \in 224 .. 239 -> 3
    [] b \in 240 .. 247 -> 4 [] b \in 248 .. 251 -> 5 [] b \in 252 .. 253 -> 6 [] OTHER -> 0

Least == <<0, 128, 2048, 65536, 2 ^ 21, 2 ^ 26>>

(* The bits of the first byte below its mark, and six of each other.       *)
Value(c) ==
  LET w == Len(c)
      d == [i \in 2 .. w |-> c[i] - 128]
  IN CASE w = 1 -> c[1]
       [] w = 2 -> (c[1] - 192) * 64 + d[2]
       [] w = 3 -> ((c[1] - 224) * 64 + d[2]) * 64 + d[3]
       [] w = 4 -> (((c[1] - 240) * 64 + d[2]) * 64 + d[3]) * 64 + d[4]
       [] w = 5 -> ((((c[1] - 248) * 64 + d[2]) * 64 + d[3]) * 64 + d[4]) * 64 + d[5]
       [] w = 6 -> (((((c[1] - 252) * 64 + d[2]) * 64 + d[3]) * 64 + d[4]) * 64 + d[5]) * 64 + d[6]

IsCharacter(c) ==
  /\ Len(c) > 0 /\ Width(c[1]) = Len(c)
  /\ \A i \in 2 .. Len(c) : c[i] \in 128 .. 191
  /\ Value(c) >= Least[Len(c)]

(* Sets of code points.                                                    *)
Extended    == Nat
C9          == {v \in Nat : v <= 1114111 /\ v \notin 55296 .. 57343}
Interchange == {v \in C9 : v \notin 64976 .. 65007 /\ v % 65536 < 65534}

Encodes(c, Allowed) == IsCharacter(c) /\ Value(c) \in Allowed

FirstCharacter(bytes, Allowed) ==
  LET lengths == {n \in 1 .. Len(bytes) : Encodes(SubSeq(bytes, 1, n), Allowed)}
  IN IF lengths = {} THEN 0 ELSE Min(lengths)

(* What depends on mem alone is looked at before any of it is validated.   *)
Fresh == seen = 0

(* The ways to cut bytes into characters: the sets of their bounds.        *)
Neighbours(B, a, b) == a < b /\ \A x \in B : x <= a \/ b <= x

Cuts(bytes, Allowed) ==
  {B \in SUBSET (0 .. Len(bytes)) :
     /\ 0 \in B /\ Len(bytes) \in B
     /\ \A a, b \in B : Neighbours(B, a, b) => Encodes(SubSeq(bytes, a + 1, b), Allowed)}

(* r.ep is the end of the longest well-formed beginning, and r.el counts   *)
(* its characters.                                                         *)
Locates(r, bytes, Allowed) ==
  /\ \E B \in Cuts(SubSeq(bytes, 1, r.ep), Allowed) : Cardinality(B) = r.el + 1
  /\ FirstCharacter(SubSeq(bytes, r.ep + 1, Len(bytes)), Allowed) = 0

(* Each automaton, with the code that looks after what it rejects, accepts *)
(* exactly the shortest encodings of the code points it is for, strings    *)
(* are validated up to the first character that is none of them, and what  *)
(* is decoded inline is the value of the character.                        *)
RecognisesCharacters ==
  mem # <<>> /\ Fresh =>
    LET n == FirstCharacter(mem, Extended)
        strict == FirstCharacter(mem, Interchange)
        inline == utf8n_to_uvchr_msgs(mem)
    IN /\ isUTF8_CHAR(mem) = n
       /\ isSTRICT_UTF8_CHAR(mem) = strict
       /\ isC9_STRICT_UTF8_CHAR(mem) = FirstCharacter(mem, C9)
       /\ n # 0 => valid_utf8_to_uvchr(mem) = Value(SubSeq(mem, 1, n))
       /\ Locates(is_utf8_string_loclen(mem), mem, Extended)
       /\ Locates(is_strict_utf8_string_loclen(mem), mem, Interchange)
       /\ Locates(is_c9strict_utf8_string_loclen(mem), mem, C9)
       /\ inline # -1 => strict # 0 /\ inline = Value(SubSeq(mem, 1, strict))

Completable(bytes) ==
  \E k \in 1 .. 5 : \E rest \in [1 .. k -> {128, 191}] : IsCharacter(bytes \o rest)

(* Wherever a stream is cut into buffers, validating them one after the    *)
(* other, each from the partial character the last one ended in, accepts   *)
(* exactly the beginnings of well-formed strings, at once refuses what no  *)
(* further bytes can make right, and counts each character once.           *)
ChunksAgree ==
  /\ Locates([ep |-> ep, el |-> el], SubSeq(mem, 1, seen), Extended)
  /\ ok <=> ep = seen \/ Completable(SubSeq(mem, ep + 1, seen))

(* In a well-formed string a hop of off characters, from wherever it is,   *)
(* ends off character boundaries further on or back, or where the string   *)
(* ends: from within a character the rest of it counts as one.  utf8_hop,  *)
(* which has no limits, agrees wherever it may be used.                    *)
HopsCount ==
  Fresh => \A B \in Cuts(mem, Extended) :
    LET Ahead(s, off) == {b \in B : IF off > 0 THEN b > s ELSE b < s}
        Target(s, off) ==
          IF off = 0 THEN s
          ELSE IF off > 0
          THEN Min({Len(mem)} \cup {b \in Ahead(s, off) :
                                      Cardinality({a \in Ahead(s, off) : a <= b}) = off})
          ELSE Max({0} \cup {b \in Ahead(s, off) :
                               Cardinality({a \in Ahead(s, off) : a >= b}) = -off})
    IN \A s \in 0 .. Len(mem), off \in -MaxHop .. MaxHop :
         /\ utf8_hop_safe(s, off, Len(mem)) = Target(s, off)
         /\ Cardinality(Ahead(s, off)) >= (IF off > 0 THEN off ELSE -off)
              => utf8_hop(s, off) = Target(s, off)

(* What utf8_hop_safe says of itself: "Will not exceed those limits even   *)
(* if the string is not valid UTF-8".  The string may be the first part of *)
(* what is in memory.                                                      *)
HopStaysInside ==
  \A end \in 0 .. Len(mem) : \A s \in 0 .. end, off \in -MaxHop .. MaxHop :
    utf8_hop_safe(s, off, end) \in 0 .. end

=============================================================================
