--------------------------- MODULE VMFramesProofs ---------------------------
(***************************************************************************)
(* Proofs about VMFrames for every depth of calls and blocks and every set *)
(* of values.  What depends on programs not jumping out of a Try says so.  *)
(***************************************************************************)
EXTENDS VMFrames, SequenceTheorems, TLAPS

Armed(f) == ArmedAreOpen(f) /\ InnermostLast(f) /\ OpenAreArmed(f)

FramesInv ==
    /\ frames \in Seq(Frame) /\ frames # <<>>
    /\ current \in Value

-----------------------------------------------------------------------------
(* Prefixes *)

\* A prefix of a sequence.
LEMMA PrefixType ==
    ASSUME NEW S, NEW s \in Seq(S), NEW n \in 0 .. Len(s)
    PROVE  /\ SubSeq(s, 1, n) \in Seq(S)
           /\ Len(SubSeq(s, 1, n)) = n
           /\ \A i \in 1 .. n : SubSeq(s, 1, n)[i] = s[i]
<1>1. Len(s) \in Nat /\ n \in Nat
  BY LenProperties
<1>2. \A i \in 1 .. n : s[i] \in S
  BY <1>1, ElementOfSeq
<1>3. /\ SubSeq(s, 1, n) \in Seq(S)
      /\ Len(SubSeq(s, 1, n)) = IF 1 <= n THEN n - 1 + 1 ELSE 0
      /\ \A i \in 1 .. n - 1 + 1 : SubSeq(s, 1, n)[i] = s[1 + i - 1]
  BY <1>1, <1>2, SubSeqProperties
<1>4. Len(SubSeq(s, 1, n)) = n
  BY <1>1, <1>3
<1>5. \A i \in 1 .. n : SubSeq(s, 1, n)[i] = s[i]
  BY <1>1, <1>3
<1> QED
  BY <1>3, <1>4, <1>5

\* Sequences that agree up to n have the same prefix.
LEMMA PrefixAgree ==
    ASSUME NEW S, NEW s \in Seq(S), NEW t \in Seq(S),
           NEW n \in 0 .. Len(s), n <= Len(t),
           \A i \in 1 .. n : s[i] = t[i]
    PROVE  SubSeq(s, 1, n) = SubSeq(t, 1, n)
<1>1. n \in 0 .. Len(t)
  BY LenProperties
<1>2. /\ SubSeq(s, 1, n) \in Seq(S) /\ Len(SubSeq(s, 1, n)) = n
      /\ \A i \in 1 .. n : SubSeq(s, 1, n)[i] = s[i]
  BY PrefixType
<1>3. /\ SubSeq(t, 1, n) \in Seq(S) /\ Len(SubSeq(t, 1, n)) = n
      /\ \A i \in 1 .. n : SubSeq(t, 1, n)[i] = t[i]
  BY <1>1, PrefixType
<1> QED
  BY <1>2, <1>3, SeqEqual

\* The front is a prefix.
LEMMA FrontPrefix ==
    ASSUME NEW S, NEW s \in Seq(S), s # <<>>
    PROVE  /\ Len(s) - 1 \in 0 .. Len(s)
           /\ Front(s) = SubSeq(s, 1, Len(s) - 1)
<1>1. Len(s) \in Nat /\ Len(s) # 0
  BY EmptySeq, LenProperties
<1> QED
  BY <1>1 DEF Front

\* Range, by position.
LEMMA InRange ==
    ASSUME NEW S, NEW s \in Seq(S)
    PROVE  /\ \A x : x \in Range(s) <=> \E i \in 1 .. Len(s) : x = s[i]
           /\ Range(s) \subseteq S
<1>1. DOMAIN s = 1 .. Len(s)
  BY LenProperties
<1>2. \A i \in 1 .. Len(s) : s[i] \in S
  BY ElementOfSeq
<1> QED
  BY <1>1, <1>2 DEF Range

-----------------------------------------------------------------------------
(* What keeps the handlers of a frame those of its open Try blocks *)

\* The parts of a frame.
LEMMA FrameParts ==
    ASSUME NEW f \in Frame
    PROVE  /\ f.blocks \in Seq(Block) /\ f.handlers \in Seq(Handler)
           /\ Len(f.blocks) \in Nat /\ Len(f.handlers) \in Nat
           /\ DOMAIN f.blocks = 1 .. Len(f.blocks)
           /\ DOMAIN f.handlers = 1 .. Len(f.handlers)
           /\ \A i \in 1 .. Len(f.blocks) : f.blocks[i] \in Block
           /\ \A k \in 1 .. Len(f.handlers) :
                 /\ f.handlers[k] \in Handler
                 /\ f.handlers[k].outer \in Seq(Block)
                 /\ Len(f.handlers[k].outer) \in Nat
                 /\ TryOf(f.handlers[k]) \in Nat \ {0}
<1>1. f.blocks \in Seq(Block) /\ f.handlers \in Seq(Handler)
  BY DEF Frame
<1>2. /\ Len(f.blocks) \in Nat /\ Len(f.handlers) \in Nat
      /\ DOMAIN f.blocks = 1 .. Len(f.blocks)
      /\ DOMAIN f.handlers = 1 .. Len(f.handlers)
  BY <1>1, LenProperties
<1>3. \A i \in 1 .. Len(f.blocks) : f.blocks[i] \in Block
  BY <1>1, ElementOfSeq
<1>4. \A k \in 1 .. Len(f.handlers) : f.handlers[k] \in Handler
  BY <1>1, ElementOfSeq
<1>5. \A h \in Handler : h.outer \in Seq(Block) /\ Len(h.outer) \in Nat
  BY LenProperties DEF Handler
<1> QED
  BY <1>1, <1>2, <1>3, <1>4, <1>5 DEF TryOf

\* Handler h belongs to a Try block among b.
Belongs(h, b) ==
    /\ TryOf(h) <= Len(b)
    /\ h.outer = SubSeq(b, 1, TryOf(h) - 1)
    /\ b[TryOf(h)].block = "try"
    /\ b[TryOf(h)].catches = h.catches

\* Armed, by position.
LEMMA ArmedByPosition ==
    ASSUME NEW f \in Frame
    PROVE  Armed(f) <=>
             /\ \A k \in 1 .. Len(f.handlers) : Belongs(f.handlers[k], f.blocks)
             /\ \A k, l \in 1 .. Len(f.handlers) :
                   k < l => TryOf(f.handlers[k]) < TryOf(f.handlers[l])
             /\ \A j \in 1 .. Len(f.blocks) : f.blocks[j].block = "try" =>
                   \E k \in 1 .. Len(f.handlers) : TryOf(f.handlers[k]) = j
<1>1. \A x : x \in Range(f.handlers) <=> \E i \in 1 .. Len(f.handlers) : x = f.handlers[i]
  BY FrameParts, InRange
<1>2. DOMAIN f.blocks = 1 .. Len(f.blocks) /\ DOMAIN f.handlers = 1 .. Len(f.handlers)
  BY FrameParts
<1>3. ArmedAreOpen(f) <=> \A h \in Range(f.handlers) : Belongs(h, f.blocks)
  BY DEF ArmedAreOpen, Belongs
<1>4. ArmedAreOpen(f) <=> \A k \in 1 .. Len(f.handlers) : Belongs(f.handlers[k], f.blocks)
  BY <1>1, <1>3, Zenon
<1>5. InnermostLast(f) <=> \A k, l \in 1 .. Len(f.handlers) :
                              k < l => TryOf(f.handlers[k]) < TryOf(f.handlers[l])
  BY <1>2, Zenon DEF InnermostLast
<1>6. OpenAreArmed(f) <=> \A j \in 1 .. Len(f.blocks) : f.blocks[j].block = "try" =>
                             \E k \in 1 .. Len(f.handlers) : TryOf(f.handlers[k]) = j
  BY <1>1, <1>2, Zenon DEF OpenAreArmed
<1> QED
  BY <1>4, <1>5, <1>6, Zenon DEF Armed

\* Growing or cutting the blocks above the Try of a handler leaves it in place.
LEMMA BelongsStays ==
    ASSUME NEW b \in Seq(Block), NEW c \in Seq(Block), NEW h \in Handler,
           Belongs(h, b), TryOf(h) <= Len(c),
           \A i \in 1 .. TryOf(h) : b[i] = c[i]
    PROVE  Belongs(h, c)
<1>1. TryOf(h) \in Nat \ {0} /\ Len(b) \in Nat /\ Len(c) \in Nat
  BY LenProperties DEF Handler, TryOf
<1>2. TryOf(h) <= Len(b)
  BY DEF Belongs
<1>3. SubSeq(b, 1, TryOf(h) - 1) = SubSeq(c, 1, TryOf(h) - 1)
  <2> DEFINE n == TryOf(h) - 1
  <2>1. /\ n \in 0 .. Len(b) /\ n <= Len(c)
        /\ \A i \in 1 .. n : b[i] = c[i]
    BY <1>1, <1>2
  <2> HIDE DEF n
  <2>2. SubSeq(b, 1, n) = SubSeq(c, 1, n)
    BY <2>1, PrefixAgree
  <2> QED
    BY <2>2 DEF n
<1>4. b[TryOf(h)] = c[TryOf(h)]
  BY <1>1
<1> QED
  BY <1>3, <1>4 DEF Belongs

\* A frame of a new call has no blocks and no handlers.
LEMMA NewFrame ==
    LET f == [blocks |-> <<>>, handlers |-> <<>>] IN f \in Frame /\ Armed(f)
<1> DEFINE f == [blocks |-> <<>>, handlers |-> <<>>]
<1>1. f \in Frame
  BY EmptySeq DEF Frame
<1>2. f.blocks = <<>> /\ f.handlers = <<>>
  OBVIOUS
<1>3. Len(f.blocks) = 0 /\ Len(f.handlers) = 0
  BY <1>2, EmptySeq
<1> HIDE DEF f
<1>4. Armed(f)
  BY <1>1, <1>3, ArmedByPosition
<1> QED
  BY <1>1, <1>4 DEF f

\* PUSH_TRY arms the Try block it opens.
LEMMA PushArmed ==
    ASSUME NEW f \in Frame, Armed(f), NEW b \in Block, b.block = "try",
           NEW h \in Handler, h.outer = f.blocks, h.catches = b.catches
    PROVE  LET g == [blocks |-> Append(f.blocks, b), handlers |-> Append(f.handlers, h)]
           IN  g \in Frame /\ Armed(g)
<1> DEFINE g == [blocks |-> Append(f.blocks, b), handlers |-> Append(f.handlers, h)]
<1>1. g.blocks = Append(f.blocks, b) /\ g.handlers = Append(f.handlers, h)
  OBVIOUS
<1>2. /\ Append(f.blocks, b) \in Seq(Block)
      /\ Append(f.handlers, h) \in Seq(Handler)
  BY FrameParts, AppendProperties
<1>3. g \in Frame
  BY <1>2 DEF Frame
<1> HIDE DEF g
<1>4. /\ Len(g.blocks) = Len(f.blocks) + 1
      /\ \A i \in 1 .. Len(f.blocks) : g.blocks[i] = f.blocks[i]
      /\ g.blocks[Len(f.blocks) + 1] = b
  BY <1>1, FrameParts, AppendProperties
<1>5. /\ Len(g.handlers) = Len(f.handlers) + 1
      /\ \A k \in 1 .. Len(f.handlers) : g.handlers[k] = f.handlers[k]
      /\ g.handlers[Len(f.handlers) + 1] = h
  BY <1>1, FrameParts, AppendProperties
<1>6. TryOf(h) = Len(f.blocks) + 1 /\ Len(f.blocks) \in Nat /\ Len(f.handlers) \in Nat
  BY FrameParts DEF TryOf
<1>8. SubSeq(g.blocks, 1, TryOf(h) - 1) = f.blocks
  <2>1. SubSeq(f.blocks, 1, Len(f.blocks)) = f.blocks
    BY FrameParts, SubSeqFull
  <2>2. Len(f.blocks) \in 0 .. Len(f.blocks) /\ Len(f.blocks) <= Len(g.blocks)
    BY <1>4, <1>6
  <2>3. SubSeq(g.blocks, 1, Len(f.blocks)) = SubSeq(f.blocks, 1, Len(f.blocks))
    BY <2>2, <1>1, <1>2, <1>4, FrameParts, PrefixAgree
  <2>4. TryOf(h) - 1 = Len(f.blocks)
    BY <1>6
  <2> QED
    BY <2>1, <2>3, <2>4
<1>9. ASSUME NEW k \in 1 .. Len(g.handlers)
      PROVE  Belongs(g.handlers[k], g.blocks)
  <2>1. CASE k = Len(f.handlers) + 1
    <3>1. g.handlers[k] = h
      BY <2>1, <1>5
    <3>2. Belongs(h, g.blocks)
      BY <1>4, <1>6, <1>8 DEF Belongs
    <3> QED
      BY <3>1, <3>2
  <2>2. CASE k \in 1 .. Len(f.handlers)
    <3>1. Belongs(f.handlers[k], f.blocks) /\ f.handlers[k] \in Handler
      BY <2>2, ArmedByPosition, FrameParts
    <3>2. TryOf(f.handlers[k]) \in Nat \ {0} /\ TryOf(f.handlers[k]) <= Len(f.blocks)
      BY <2>2, <3>1, FrameParts DEF Belongs
    <3>3. \A i \in 1 .. TryOf(f.handlers[k]) : f.blocks[i] = g.blocks[i]
      BY <1>4, <1>6, <3>2
    <3>4. TryOf(f.handlers[k]) <= Len(g.blocks)
      BY <1>4, <1>6, <3>2
    <3>5. Belongs(f.handlers[k], g.blocks)
      BY <1>1, <1>2, <3>1, <3>3, <3>4, FrameParts, BelongsStays
    <3>6. g.handlers[k] = f.handlers[k]
      BY <2>2, <1>5
    <3> QED
      BY <3>5, <3>6
  <2> QED
    BY <2>1, <2>2, <1>5, <1>6
<1>10. ASSUME NEW k \in 1 .. Len(g.handlers), NEW l \in 1 .. Len(g.handlers), k < l
       PROVE  TryOf(g.handlers[k]) < TryOf(g.handlers[l])
  <2>1. k \in 1 .. Len(f.handlers)
    BY <1>5, <1>6, <1>10
  <2>2. CASE l = Len(f.handlers) + 1
    <3>1. TryOf(f.handlers[k]) <= Len(f.blocks) /\ TryOf(f.handlers[k]) \in Nat
      BY <2>1, ArmedByPosition, FrameParts DEF Belongs
    <3> QED
      BY <2>1, <2>2, <3>1, <1>5, <1>6
  <2>3. CASE l \in 1 .. Len(f.handlers)
    BY <2>1, <2>3, <1>5, <1>10, ArmedByPosition
  <2> QED
    BY <2>2, <2>3, <1>5, <1>6
<1>11. ASSUME NEW j \in 1 .. Len(g.blocks), g.blocks[j].block = "try"
       PROVE  \E k \in 1 .. Len(g.handlers) : TryOf(g.handlers[k]) = j
  <2>1. CASE j = Len(f.blocks) + 1
    BY <2>1, <1>5, <1>6
  <2>2. CASE j \in 1 .. Len(f.blocks)
    <3>1. PICK k \in 1 .. Len(f.handlers) : TryOf(f.handlers[k]) = j
      BY <2>2, <1>4, <1>11, ArmedByPosition
    <3> QED
      BY <3>1, <1>5, <1>6
  <2> QED
    BY <2>1, <2>2, <1>4, <1>6
<1>12. Armed(g)
  BY <1>3, <1>9, <1>10, <1>11, ArmedByPosition
<1> QED
  BY <1>3, <1>12 DEF g
\* Cutting the blocks back to the first m, where the first n handlers have
\* their Try, and going on with blocks that are no Try.
LEMMA CutArmed ==
    ASSUME NEW f \in Frame, Armed(f),
           NEW c \in Seq(Block), NEW m \in 0 .. Len(f.blocks), m <= Len(c),
           NEW n \in 0 .. Len(f.handlers),
           \A i \in 1 .. m : c[i] = f.blocks[i],
           \A j \in m + 1 .. Len(c) : c[j].block # "try",
           \A k \in 1 .. n : TryOf(f.handlers[k]) <= m,
           \A k \in n + 1 .. Len(f.handlers) : TryOf(f.handlers[k]) > m
    PROVE  LET g == [blocks |-> c, handlers |-> SubSeq(f.handlers, 1, n)]
           IN  g \in Frame /\ Armed(g)
<1> DEFINE g == [blocks |-> c, handlers |-> SubSeq(f.handlers, 1, n)]
<1>1. g.blocks = c /\ g.handlers = SubSeq(f.handlers, 1, n)
  OBVIOUS
<1>2. /\ SubSeq(f.handlers, 1, n) \in Seq(Handler)
      /\ Len(SubSeq(f.handlers, 1, n)) = n
      /\ \A k \in 1 .. n : SubSeq(f.handlers, 1, n)[k] = f.handlers[k]
  BY FrameParts, PrefixType
<1>3. g \in Frame
  BY <1>2 DEF Frame
<1> HIDE DEF g
<1>4. Len(g.handlers) = n /\ \A k \in 1 .. n : g.handlers[k] = f.handlers[k]
  BY <1>1, <1>2
<1>5. /\ m \in Nat /\ n \in Nat /\ Len(c) \in Nat
      /\ Len(f.handlers) \in Nat /\ Len(f.blocks) \in Nat
  BY FrameParts, LenProperties
<1>6. ASSUME NEW k \in 1 .. Len(g.handlers)
      PROVE  Belongs(g.handlers[k], g.blocks)
  <2>1. k \in 1 .. n /\ k \in 1 .. Len(f.handlers)
    BY <1>4, <1>5
  <2>2. Belongs(f.handlers[k], f.blocks) /\ f.handlers[k] \in Handler
    BY <2>1, ArmedByPosition, FrameParts
  <2>3. TryOf(f.handlers[k]) \in Nat \ {0} /\ TryOf(f.handlers[k]) <= m
    BY <2>1, FrameParts
  <2>4. \A i \in 1 .. TryOf(f.handlers[k]) : f.blocks[i] = c[i]
    <3> DEFINE t == TryOf(f.handlers[k])
    <3>1. t \in Nat /\ t <= m
      BY <2>3
    <3> HIDE DEF t
    <3>2. \A i \in 1 .. t : i \in 1 .. m
      BY <3>1, <1>5
    <3> QED
      BY <3>2 DEF t
  <2>5. TryOf(f.handlers[k]) <= Len(c)
    BY <2>3, <1>5
  <2>6. Belongs(f.handlers[k], c)
    BY <2>2, <2>4, <2>5, FrameParts, BelongsStays
  <2> QED
    BY <2>1, <2>6, <1>1, <1>4
<1>7. ASSUME NEW k \in 1 .. Len(g.handlers), NEW l \in 1 .. Len(g.handlers), k < l
      PROVE  TryOf(g.handlers[k]) < TryOf(g.handlers[l])
  <2>1. k \in 1 .. Len(f.handlers) /\ l \in 1 .. Len(f.handlers)
    BY <1>4, <1>5
  <2>2. TryOf(f.handlers[k]) < TryOf(f.handlers[l])
    BY <2>1, <1>7, ArmedByPosition
  <2> QED
    BY <2>2, <1>4
<1>8. ASSUME NEW j \in 1 .. Len(g.blocks), g.blocks[j].block = "try"
      PROVE  \E k \in 1 .. Len(g.handlers) : TryOf(g.handlers[k]) = j
  <2>1. j \in 1 .. m
    BY <1>1, <1>5, <1>8
  <2>2. j \in 1 .. Len(f.blocks) /\ f.blocks[j].block = "try"
    BY <2>1, <1>1, <1>5, <1>8
  <2>3. PICK k \in 1 .. Len(f.handlers) : TryOf(f.handlers[k]) = j
    BY <2>2, ArmedByPosition
  <2>4. k \in 1 .. n
    BY <2>1, <2>3, <1>5
  <2> QED
    BY <2>3, <2>4, <1>4
<1>9. Armed(g)
  BY <1>3, <1>6, <1>7, <1>8, ArmedByPosition
<1> QED
  BY <1>3, <1>9 DEF g

\* POP_TRY at the end of a Try block takes away the handler of that block.
LEMMA PopArmed ==
    ASSUME NEW f \in Frame, Armed(f), f.blocks # <<>>, Last(f.blocks).block = "try"
    PROVE  /\ f.handlers # <<>>
           /\ LET g == [blocks |-> Front(f.blocks), handlers |-> Front(f.handlers)]
              IN  g \in Frame /\ Armed(g)
<1> DEFINE b == Len(f.blocks)
           h == Len(f.handlers)
<1>1. b \in Nat /\ h \in Nat /\ b # 0
  BY FrameParts, EmptySeq
<1>2. f.blocks[b].block = "try"
  BY DEF Last
<1>3. PICK k \in 1 .. h : TryOf(f.handlers[k]) = b
  BY <1>1, <1>2, ArmedByPosition
<1>4. f.handlers # <<>>
  BY <1>3, EmptySeq
<1>5. \A l \in 1 .. h : TryOf(f.handlers[l]) <= b /\ TryOf(f.handlers[l]) \in Nat
  BY ArmedByPosition, FrameParts DEF Belongs
<1>6. k = h
  <2>1. ~(k < h)
    <3> SUFFICES ASSUME k < h PROVE FALSE
      OBVIOUS
    <3>1. TryOf(f.handlers[k]) < TryOf(f.handlers[h])
      BY <1>1, <1>3, ArmedByPosition
    <3> QED
      BY <3>1, <1>1, <1>3, <1>5
  <2> QED
    BY <2>1, <1>1, <1>3
<1>7. /\ h - 1 \in 0 .. h /\ Front(f.handlers) = SubSeq(f.handlers, 1, h - 1)
      /\ b - 1 \in 0 .. b /\ Front(f.blocks) = SubSeq(f.blocks, 1, b - 1)
  BY <1>4, FrameParts, FrontPrefix
<1>8. /\ SubSeq(f.blocks, 1, b - 1) \in Seq(Block)
      /\ Len(SubSeq(f.blocks, 1, b - 1)) = b - 1
      /\ \A i \in 1 .. b - 1 : SubSeq(f.blocks, 1, b - 1)[i] = f.blocks[i]
  BY <1>7, FrameParts, PrefixType
<1>9. \A l \in 1 .. h - 1 : TryOf(f.handlers[l]) <= b - 1
  <2> SUFFICES ASSUME NEW l \in 1 .. h - 1 PROVE TryOf(f.handlers[l]) <= b - 1
    OBVIOUS
  <2>1. l \in 1 .. h /\ l < h
    BY <1>1
  <2>2. TryOf(f.handlers[l]) < TryOf(f.handlers[h])
    BY <2>1, <1>3, <1>6, ArmedByPosition
  <2> QED
    BY <2>1, <2>2, <1>1, <1>3, <1>5, <1>6
<1>10. \A l \in (h - 1) + 1 .. h : TryOf(f.handlers[l]) > b - 1
  BY <1>1, <1>3, <1>6
<1> DEFINE c == SubSeq(f.blocks, 1, b - 1)
           m == b - 1
           n == h - 1
<1>11. /\ c \in Seq(Block) /\ m \in 0 .. Len(f.blocks) /\ m <= Len(c)
       /\ n \in 0 .. Len(f.handlers)
       /\ \A i \in 1 .. m : c[i] = f.blocks[i]
       /\ \A j \in m + 1 .. Len(c) : c[j].block # "try"
       /\ \A l \in 1 .. n : TryOf(f.handlers[l]) <= m
       /\ \A l \in n + 1 .. Len(f.handlers) : TryOf(f.handlers[l]) > m
  BY <1>1, <1>7, <1>8, <1>9, <1>10
<1>12. c = Front(f.blocks) /\ SubSeq(f.handlers, 1, n) = Front(f.handlers)
  BY <1>7
<1> HIDE DEF c, m, n
<1>13. LET g == [blocks |-> c, handlers |-> SubSeq(f.handlers, 1, n)]
       IN  g \in Frame /\ Armed(g)
  BY <1>11, CutArmed
<1> QED
  BY <1>4, <1>12, <1>13

\* Changing the blocks of a frame.
LEMMA BlocksUpdate ==
    ASSUME NEW f \in Frame, NEW c
    PROVE  [f EXCEPT !.blocks = c] = [blocks |-> c, handlers |-> f.handlers]
<1>1. DOMAIN f = {"blocks", "handlers"} /\ f = [x \in {"blocks", "handlers"} |-> f[x]]
  BY DEF Frame
<1>2. [f EXCEPT !.blocks = c] = [x \in {"blocks", "handlers"} |->
                                    IF x = "blocks" THEN c ELSE f[x]]
  BY <1>1
<1> QED
  BY <1>2

\* A jump out of Catch blocks leaves the handlers right.
LEMMA JumpArmed ==
    ASSUME NEW f \in Frame, Armed(f), NEW m \in 0 .. Len(f.blocks) - 1,
           \A i \in m + 1 .. Len(f.blocks) : f.blocks[i].block = "catch"
    PROVE  LET g == [f EXCEPT !.blocks = SubSeq(@, 1, m)]
           IN  g \in Frame /\ Armed(g)
<1> DEFINE c == SubSeq(f.blocks, 1, m)
           n == Len(f.handlers)
<1>1. m \in 0 .. Len(f.blocks) /\ n \in 0 .. Len(f.handlers) /\ n \in Nat
  BY FrameParts
<1>2. c \in Seq(Block) /\ Len(c) = m /\ \A i \in 1 .. m : c[i] = f.blocks[i]
  BY <1>1, FrameParts, PrefixType
<1>3. \A k \in 1 .. n : TryOf(f.handlers[k]) <= m
  <2> SUFFICES ASSUME NEW k \in 1 .. n PROVE TryOf(f.handlers[k]) <= m
    OBVIOUS
  <2>1. /\ TryOf(f.handlers[k]) <= Len(f.blocks) /\ TryOf(f.handlers[k]) \in Nat
        /\ f.blocks[TryOf(f.handlers[k])].block = "try"
    BY ArmedByPosition, FrameParts DEF Belongs
  <2>2. ~(TryOf(f.handlers[k]) \in m + 1 .. Len(f.blocks))
    BY <2>1
  <2> QED
    BY <2>1, <2>2, <1>1, FrameParts
<1>4. /\ m <= Len(c)
      /\ \A j \in m + 1 .. Len(c) : c[j].block # "try"
      /\ \A k \in n + 1 .. Len(f.handlers) : TryOf(f.handlers[k]) > m
  BY <1>1, <1>2
<1>5. SubSeq(f.handlers, 1, n) = f.handlers
  BY FrameParts, SubSeqFull
<1>6. [f EXCEPT !.blocks = SubSeq(@, 1, m)] = [blocks |-> c, handlers |-> f.handlers]
  BY BlocksUpdate
<1> HIDE DEF c, n
<1>7. LET g == [blocks |-> c, handlers |-> SubSeq(f.handlers, 1, n)]
      IN  g \in Frame /\ Armed(g)
  BY <1>1, <1>2, <1>3, <1>4, CutArmed
<1> QED
  BY <1>5, <1>6, <1>7

\* Entering the Catch block of handler k leaves armed what is around its Try.
LEMMA CatchArmed ==
    ASSUME NEW f \in Frame, Armed(f), NEW k \in 1 .. Len(f.handlers),
           NEW b \in Block, b.block = "catch"
    PROVE  LET g == [blocks |-> Append(f.handlers[k].outer, b),
                     handlers |-> SubSeq(f.handlers, 1, k - 1)]
           IN  g \in Frame /\ Armed(g)
<1> DEFINE o == f.handlers[k].outer
           c == Append(o, b)
           m == Len(o)
           n == k - 1
<1>1. /\ o \in Seq(Block) /\ m \in Nat /\ TryOf(f.handlers[k]) = m + 1
      /\ Len(f.blocks) \in Nat /\ Len(f.handlers) \in Nat
  BY FrameParts DEF TryOf
<1>2. m + 1 <= Len(f.blocks) /\ o = SubSeq(f.blocks, 1, (m + 1) - 1)
  BY <1>1, ArmedByPosition DEF Belongs
<1>3. m \in 0 .. Len(f.blocks) /\ n \in 0 .. Len(f.handlers)
  BY <1>1, <1>2
<1>4. \A i \in 1 .. m : o[i] = f.blocks[i]
  <2>1. o = SubSeq(f.blocks, 1, m)
    BY <1>1, <1>2
  <2>2. \A i \in 1 .. m : SubSeq(f.blocks, 1, m)[i] = f.blocks[i]
    BY <1>3, FrameParts, PrefixType
  <2> QED
    BY <2>1, <2>2
<1>5. /\ c \in Seq(Block) /\ Len(c) = m + 1
      /\ \A i \in 1 .. m : c[i] = o[i]
      /\ c[m + 1] = b
  BY <1>1, AppendProperties
<1>6. /\ m <= Len(c)
      /\ \A i \in 1 .. m : c[i] = f.blocks[i]
      /\ \A j \in m + 1 .. Len(c) : c[j].block # "try"
  <2>1. \A j \in m + 1 .. m + 1 : j = m + 1
    BY <1>1
  <2>2. m <= m + 1
    BY <1>1
  <2> HIDE DEF c, m
  <2> QED
    BY <2>1, <2>2, <1>4, <1>5
<1>7. \A l \in 1 .. n : TryOf(f.handlers[l]) <= m
  <2> SUFFICES ASSUME NEW l \in 1 .. n PROVE TryOf(f.handlers[l]) <= m
    OBVIOUS
  <2>1. l \in 1 .. Len(f.handlers) /\ l < k
    BY <1>1
  <2>2. TryOf(f.handlers[l]) < TryOf(f.handlers[k]) /\ TryOf(f.handlers[l]) \in Nat
    BY <2>1, ArmedByPosition, FrameParts
  <2> QED
    BY <2>1, <2>2, <1>1
<1>8. \A l \in n + 1 .. Len(f.handlers) : TryOf(f.handlers[l]) > m
  <2> SUFFICES ASSUME NEW l \in n + 1 .. Len(f.handlers) PROVE TryOf(f.handlers[l]) > m
    OBVIOUS
  <2>1. l \in 1 .. Len(f.handlers) /\ (l = k \/ k < l)
    BY <1>1
  <2>2. TryOf(f.handlers[l]) \in Nat
    BY <2>1, FrameParts
  <2>3. CASE l = k
    BY <2>3, <1>1
  <2>4. CASE k < l
    BY <2>1, <2>2, <2>4, <1>1, ArmedByPosition
  <2> QED
    BY <2>1, <2>3, <2>4
<1> HIDE DEF c, m, n
<1>9. LET g == [blocks |-> c, handlers |-> SubSeq(f.handlers, 1, n)]
      IN  g \in Frame /\ Armed(g)
  BY <1>3, <1>5, <1>6, <1>7, <1>8, CutArmed
<1> QED
  BY <1>9 DEF c, n

-----------------------------------------------------------------------------
(* What holds of the handlers also when programs jump out of a Try *)

\* Each Try block among b has one of the first n handlers hs.
Covers(hs, b, n) ==
    \A j \in 1 .. Len(b) : b[j].block = "try" =>
        \E k \in 1 .. n : Belongs(hs[k], b) /\ TryOf(hs[k]) = j

\* Every open Try block is armed and, below each handler, every Try block
\* around its own, so that taking handlers from the end uncovers none.
Covered(f) ==
    /\ Covers(f.handlers, f.blocks, Len(f.handlers))
    /\ \A k \in 1 .. Len(f.handlers) : Covers(f.handlers, f.handlers[k].outer, k - 1)

\* Handlers that stay cover the blocks that stay and any that are no Try.
LEMMA CoversStays ==
    ASSUME NEW hs \in Seq(Handler), NEW gs \in Seq(Handler), NEW n \in 0 .. Len(hs),
           NEW p \in n .. Len(gs), \A k \in 1 .. n : gs[k] = hs[k],
           NEW b \in Seq(Block), NEW c \in Seq(Block), Covers(hs, b, n),
           NEW m \in 0 .. Len(b), m <= Len(c), \A i \in 1 .. m : c[i] = b[i],
           \A j \in m + 1 .. Len(c) : c[j].block # "try"
    PROVE  Covers(gs, c, p)
<1>1. Len(b) \in Nat /\ Len(c) \in Nat /\ Len(hs) \in Nat /\ Len(gs) \in Nat
  BY LenProperties
<1> SUFFICES ASSUME NEW j \in 1 .. Len(c), c[j].block = "try"
             PROVE  \E k \in 1 .. p : Belongs(gs[k], c) /\ TryOf(gs[k]) = j
  BY DEF Covers
<1>2. j \in 1 .. m /\ j \in 1 .. Len(b) /\ b[j].block = "try"
  BY <1>1
<1>3. PICK k \in 1 .. n : Belongs(hs[k], b) /\ TryOf(hs[k]) = j
  BY <1>2 DEF Covers
<1>4. k \in 1 .. p /\ k \in 1 .. Len(hs) /\ gs[k] = hs[k]
  BY <1>1, <1>3
<1>5. hs[k] \in Handler
  BY <1>4, ElementOfSeq
<1>6. TryOf(hs[k]) <= Len(c) /\ \A i \in 1 .. TryOf(hs[k]) : b[i] = c[i]
  BY <1>1, <1>2, <1>3
<1>7. Belongs(hs[k], c)
  BY <1>3, <1>5, <1>6, BelongsStays
<1> QED
  BY <1>3, <1>4, <1>7

\* A frame without handlers and blocks.
LEMMA NewCovered == Covered([blocks |-> <<>>, handlers |-> <<>>])
<1> DEFINE f == [blocks |-> <<>>, handlers |-> <<>>]
<1>1. f.blocks = <<>> /\ f.handlers = <<>>
  OBVIOUS
<1>2. Len(f.blocks) = 0 /\ Len(f.handlers) = 0
  BY <1>1, EmptySeq
<1> HIDE DEF f
<1>3. Covered(f)
  BY <1>2 DEF Covered, Covers
<1> QED
  BY <1>3 DEF f

\* The first handlers of a covered frame cover what the next one is around.
LEMMA PrefixCovered ==
    ASSUME NEW f \in Frame, Covered(f), NEW n \in 0 .. Len(f.handlers),
           NEW hs \in Seq(Handler), n <= Len(hs),
           \A k \in 1 .. n : hs[k] = f.handlers[k],
           NEW k \in 1 .. n
    PROVE  Covers(hs, hs[k].outer, k - 1)
<1>1. /\ f.handlers \in Seq(Handler) /\ Len(f.handlers) \in Nat /\ Len(hs) \in Nat
      /\ k \in 1 .. Len(f.handlers)
  BY FrameParts, LenProperties
<1> DEFINE o == f.handlers[k].outer
           q == k - 1
<1>2. o \in Seq(Block) /\ Len(o) \in Nat /\ hs[k].outer = o
  BY <1>1, FrameParts
<1>3. Covers(f.handlers, o, q)
  BY <1>1 DEF Covered
<1>4. q \in 0 .. Len(f.handlers) /\ q \in q .. Len(hs) /\ \A l \in 1 .. q : hs[l] = f.handlers[l]
  BY <1>1
<1>5. /\ Len(o) \in 0 .. Len(o) /\ Len(o) <= Len(o)
      /\ \A j \in Len(o) + 1 .. Len(o) : o[j].block # "try"
  BY <1>2
<1> HIDE DEF o, q
<1>6. Covers(hs, o, q)
  BY <1>1, <1>2, <1>3, <1>4, <1>5, CoversStays
<1> QED
  BY <1>2, <1>6 DEF q

\* PUSH_TRY arms the Try block it opens, whatever was left armed.
LEMMA PushCovered ==
    ASSUME NEW f \in Frame, Covered(f), NEW b \in Block, b.block = "try",
           NEW h \in Handler, h.outer = f.blocks, h.catches = b.catches
    PROVE  Covered([blocks |-> Append(f.blocks, b), handlers |-> Append(f.handlers, h)])
<1> DEFINE g == [blocks |-> Append(f.blocks, b), handlers |-> Append(f.handlers, h)]
           m == Len(f.blocks)
           n == Len(f.handlers)
<1>1. g.blocks = Append(f.blocks, b) /\ g.handlers = Append(f.handlers, h)
  OBVIOUS
<1>2. /\ f.blocks \in Seq(Block) /\ f.handlers \in Seq(Handler) /\ m \in Nat /\ n \in Nat
  BY FrameParts
<1> HIDE DEF g
<1>3. /\ g.blocks \in Seq(Block) /\ Len(g.blocks) = m + 1 /\ g.blocks[m + 1] = b
      /\ \A i \in 1 .. m : g.blocks[i] = f.blocks[i]
  BY <1>1, <1>2, AppendProperties
<1>4. /\ g.handlers \in Seq(Handler) /\ Len(g.handlers) = n + 1 /\ g.handlers[n + 1] = h
      /\ \A k \in 1 .. n : g.handlers[k] = f.handlers[k]
  BY <1>1, <1>2, AppendProperties
<1>5. TryOf(h) = m + 1
  BY DEF TryOf
<1>6. Belongs(h, g.blocks)
  <2>1. SubSeq(f.blocks, 1, m) = f.blocks
    BY <1>2, SubSeqFull
  <2>2. m \in 0 .. m /\ m <= Len(g.blocks)
    BY <1>2, <1>3
  <2>3. SubSeq(g.blocks, 1, m) = SubSeq(f.blocks, 1, m)
    BY <1>2, <1>3, <2>2, PrefixAgree
  <2>4. TryOf(h) - 1 = m /\ TryOf(h) <= Len(g.blocks)
    BY <1>2, <1>3, <1>5
  <2> QED
    BY <1>3, <1>5, <2>1, <2>3, <2>4 DEF Belongs
<1>7. Covers(f.handlers, f.blocks, n)
  BY DEF Covered
<1>8. ASSUME NEW j \in 1 .. Len(g.blocks), g.blocks[j].block = "try"
      PROVE  \E k \in 1 .. Len(g.handlers) : Belongs(g.handlers[k], g.blocks) /\ TryOf(g.handlers[k]) = j
  <2>1. CASE j = m + 1
    BY <1>2, <1>4, <1>5, <1>6, <2>1
  <2>2. CASE j \in 1 .. m
    <3>1. PICK k \in 1 .. n : Belongs(f.handlers[k], f.blocks) /\ TryOf(f.handlers[k]) = j
      BY <1>3, <1>7, <1>8, <2>2 DEF Covers
    <3>2. f.handlers[k] \in Handler
      BY <3>1, FrameParts
    <3>3. TryOf(f.handlers[k]) <= Len(g.blocks)
          /\ \A i \in 1 .. TryOf(f.handlers[k]) : f.blocks[i] = g.blocks[i]
      BY <1>2, <1>3, <2>2, <3>1
    <3>4. Belongs(f.handlers[k], g.blocks)
      BY <1>2, <1>3, <3>1, <3>2, <3>3, BelongsStays
    <3> QED
      BY <1>2, <1>4, <3>1, <3>4
  <2> QED
    BY <1>2, <1>3, <2>1, <2>2
<1>9. ASSUME NEW k \in 1 .. Len(g.handlers)
      PROVE  Covers(g.handlers, g.handlers[k].outer, k - 1)
  <2>1. CASE k \in 1 .. n
    <3>1. n \in 0 .. Len(f.handlers) /\ n <= Len(g.handlers)
      BY <1>2, <1>4
    <3> HIDE DEF n
    <3> QED
      BY <1>4, <2>1, <3>1, PrefixCovered
  <2>2. CASE k = n + 1
    <3>1. g.handlers[k].outer = f.blocks /\ k - 1 = n
      BY <1>2, <1>4, <2>2
    <3>2. n \in 0 .. Len(f.handlers) /\ n \in n .. Len(g.handlers)
          /\ m \in 0 .. Len(f.blocks) /\ \A j \in m + 1 .. Len(f.blocks) : f.blocks[j].block # "try"
      BY <1>2, <1>4
    <3>3. m <= Len(f.blocks)
      BY <1>2
    <3> HIDE DEF n, m
    <3>4. Covers(g.handlers, f.blocks, n)
      BY <1>2, <1>4, <1>7, <3>2, <3>3, CoversStays
    <3> QED
      BY <3>1, <3>4
  <2> QED
    BY <1>2, <1>4, <2>1, <2>2
<1>10. Covered(g)
  BY <1>8, <1>9 DEF Covered, Covers
<1> QED
  BY <1>10 DEF g

\* The handlers before the k-th are what is left when it is taken, and cover
\* the blocks around its Try with any that are no Try on top.
LEMMA TakeCovered ==
    ASSUME NEW f \in Frame, Covered(f), NEW k \in 1 .. Len(f.handlers),
           NEW n \in k - 1 .. Len(f.handlers),
           NEW c \in Seq(Block), Len(f.handlers[k].outer) <= Len(c),
           \A i \in 1 .. Len(f.handlers[k].outer) : c[i] = f.handlers[k].outer[i],
           \A j \in Len(f.handlers[k].outer) + 1 .. Len(c) : c[j].block # "try"
    PROVE  Covered([blocks |-> c, handlers |-> SubSeq(f.handlers, 1, n)])
<1> DEFINE o == f.handlers[k].outer
           q == k - 1
           s == SubSeq(f.handlers, 1, n)
           g == [blocks |-> c, handlers |-> s]
<1>1. /\ f.handlers \in Seq(Handler) /\ Len(f.handlers) \in Nat
      /\ o \in Seq(Block) /\ Len(o) \in Nat
  BY FrameParts
<1>2. n \in 0 .. Len(f.handlers) /\ n \in Nat /\ q \in 0 .. Len(f.handlers) /\ q \in Nat /\ q <= n
  BY <1>1
<1>3. s \in Seq(Handler) /\ Len(s) = n /\ \A l \in 1 .. n : s[l] = f.handlers[l]
  BY <1>1, <1>2, PrefixType
<1>4. g.blocks = c /\ g.handlers = s
  OBVIOUS
<1>5. Covers(f.handlers, o, q)
  BY DEF Covered
<1>6. /\ n \in q .. Len(s) /\ \A l \in 1 .. q : s[l] = f.handlers[l]
      /\ Len(o) \in 0 .. Len(o)
  BY <1>1, <1>2, <1>3
<1>7. /\ Len(o) <= Len(c) /\ \A i \in 1 .. Len(o) : c[i] = o[i]
      /\ \A j \in Len(o) + 1 .. Len(c) : c[j].block # "try"
  OBVIOUS
<1> HIDE DEF o, q, s, g
<1>8. Covers(s, c, n)
  BY <1>1, <1>2, <1>3, <1>5, <1>6, <1>7, CoversStays
<1>9. \A l \in 1 .. n : Covers(s, s[l].outer, l - 1)
  <2>1. n <= Len(s)
    BY <1>2, <1>3
  <2> QED
    BY <1>2, <1>3, <2>1, PrefixCovered
<1>10. Covered(g)
  BY <1>3, <1>4, <1>8, <1>9 DEF Covered
<1> QED
  BY <1>10 DEF g, s

\* POP_TRY finds a handler to take, and takes no other Try block's.
LEMMA PopCovered ==
    ASSUME NEW f \in Frame, Covered(f), f.blocks # <<>>, Last(f.blocks).block = "try"
    PROVE  /\ f.handlers # <<>>
           /\ LET g == [blocks |-> Front(f.blocks), handlers |-> Front(f.handlers)]
              IN  g \in Frame /\ Covered(g)
<1> DEFINE b == Len(f.blocks)
           h == Len(f.handlers)
<1>1. b \in Nat /\ h \in Nat /\ b # 0
  BY FrameParts, EmptySeq
<1>2. f.blocks[b].block = "try" /\ b \in 1 .. b
  BY <1>1 DEF Last
<1>3. PICK k \in 1 .. h : Belongs(f.handlers[k], f.blocks) /\ TryOf(f.handlers[k]) = b
  BY <1>2 DEF Covered, Covers
<1>4. f.handlers # <<>>
  BY <1>3, EmptySeq
<1>5. /\ h - 1 \in 0 .. h /\ Front(f.handlers) = SubSeq(f.handlers, 1, h - 1)
      /\ b - 1 \in 0 .. b /\ Front(f.blocks) = SubSeq(f.blocks, 1, b - 1)
  BY <1>4, FrameParts, FrontPrefix
<1>6. f.handlers[k].outer = Front(f.blocks)
  BY <1>3, <1>5 DEF Belongs
<1>7. Front(f.blocks) \in Seq(Block) /\ Front(f.handlers) \in Seq(Handler)
  BY <1>5, FrameParts, PrefixType
<1> DEFINE c == Front(f.blocks)
<1>8. /\ Len(c) <= Len(c) /\ \A j \in Len(c) + 1 .. Len(c) : c[j].block # "try"
      /\ h - 1 \in k - 1 .. h
  <2>1. Len(c) \in Nat
    BY <1>7, LenProperties
  <2> HIDE DEF c
  <2> QED
    BY <1>1, <1>3, <2>1
<1> DEFINE n == h - 1
<1>9. n \in k - 1 .. Len(f.handlers) /\ k \in 1 .. Len(f.handlers)
  BY <1>3, <1>8
<1> HIDE DEF c, n, b, h
<1>10. Covered([blocks |-> c, handlers |-> SubSeq(f.handlers, 1, n)])
  BY <1>6, <1>7, <1>8, <1>9, TakeCovered DEF c
<1>11. Covered([blocks |-> Front(f.blocks), handlers |-> Front(f.handlers)])
  BY <1>5, <1>10 DEF c, n
<1>12. [blocks |-> Front(f.blocks), handlers |-> Front(f.handlers)] \in Frame
  BY <1>7 DEF Frame
<1> QED
  BY <1>4, <1>11, <1>12

\* A jump out of any blocks leaves armed what is still open.
LEMMA JumpCovered ==
    ASSUME NEW f \in Frame, Covered(f), NEW m \in 0 .. Len(f.blocks) - 1
    PROVE  LET g == [f EXCEPT !.blocks = SubSeq(@, 1, m)]
           IN  g \in Frame /\ Covered(g)
<1> DEFINE c == SubSeq(f.blocks, 1, m)
           n == Len(f.handlers)
           g == [blocks |-> c, handlers |-> f.handlers]
<1>1. /\ m \in 0 .. Len(f.blocks) /\ m \in Nat /\ n \in Nat /\ n \in 0 .. n /\ n \in n .. n
      /\ f.blocks \in Seq(Block) /\ f.handlers \in Seq(Handler)
  BY FrameParts
<1>2. c \in Seq(Block) /\ Len(c) = m /\ \A i \in 1 .. m : c[i] = f.blocks[i]
  BY <1>1, PrefixType
<1>3. [f EXCEPT !.blocks = SubSeq(@, 1, m)] = g
  BY BlocksUpdate
<1>4. g \in Frame /\ g.blocks = c /\ g.handlers = f.handlers
  BY <1>1, <1>2 DEF Frame
<1>5. Covers(f.handlers, f.blocks, n)
  BY DEF Covered
<1>6. m <= Len(c) /\ \A j \in m + 1 .. Len(c) : c[j].block # "try"
  BY <1>1, <1>2
<1> HIDE DEF c, g
<1>7. Covers(f.handlers, c, n)
  BY <1>1, <1>2, <1>5, <1>6, CoversStays
<1>8. Covered(g)
  BY <1>4, <1>7 DEF Covered
<1> QED
  BY <1>3, <1>4, <1>8

\* Entering the Catch block of any handler leaves armed what is around its Try.
LEMMA CatchCovered ==
    ASSUME NEW f \in Frame, Covered(f), NEW k \in 1 .. Len(f.handlers),
           NEW b \in Block, b.block = "catch"
    PROVE  LET g == [blocks |-> Append(f.handlers[k].outer, b),
                     handlers |-> SubSeq(f.handlers, 1, k - 1)]
           IN  g \in Frame /\ Covered(g)
<1> DEFINE o == f.handlers[k].outer
           c == Append(o, b)
           n == k - 1
<1>1. /\ o \in Seq(Block) /\ Len(o) \in Nat /\ Len(f.handlers) \in Nat
      /\ f.handlers \in Seq(Handler)
  BY FrameParts
<1>2. /\ c \in Seq(Block) /\ Len(c) = Len(o) + 1
      /\ \A i \in 1 .. Len(o) : c[i] = o[i]
      /\ c[Len(o) + 1] = b
  BY <1>1, AppendProperties
<1>3. n \in k - 1 .. Len(f.handlers) /\ n \in 0 .. Len(f.handlers)
  BY <1>1
<1>4. Len(o) <= Len(c) /\ \A j \in Len(o) + 1 .. Len(c) : c[j].block # "try"
  <2>1. \A l \in Nat : l <= l + 1 /\ \A j \in l + 1 .. l + 1 : j = l + 1
    OBVIOUS
  <2> HIDE DEF c, o
  <2> QED
    BY <1>1, <1>2, <2>1
<1>5. SubSeq(f.handlers, 1, n) \in Seq(Handler)
  BY <1>1, <1>3, PrefixType
<1> HIDE DEF c, n
<1>6. Covered([blocks |-> c, handlers |-> SubSeq(f.handlers, 1, n)])
  BY <1>2, <1>3, <1>4, TakeCovered
<1>7. [blocks |-> c, handlers |-> SubSeq(f.handlers, 1, n)] \in Frame
  BY <1>2, <1>5 DEF Frame
<1> QED
  BY <1>6, <1>7 DEF c, n

\* What the machine keeps of every frame.
Good(f) == Covered(f) /\ (~JumpsOutOfTry => Armed(f))

\* A new call.
LEMMA NewGood ==
    LET f == [blocks |-> <<>>, handlers |-> <<>>] IN f \in Frame /\ Good(f)
BY NewFrame, NewCovered DEF Good

\* PUSH_TRY.
LEMMA PushGood ==
    ASSUME NEW f \in Frame, Good(f), NEW b \in Block, b.block = "try",
           NEW h \in Handler, h.outer = f.blocks, h.catches = b.catches
    PROVE  LET g == [blocks |-> Append(f.blocks, b), handlers |-> Append(f.handlers, h)]
           IN  g \in Frame /\ Good(g)
<1> DEFINE g == [blocks |-> Append(f.blocks, b), handlers |-> Append(f.handlers, h)]
<1>1. g \in Frame
  BY FrameParts, AppendProperties DEF Frame
<1>2. Covered(g)
  BY PushCovered DEF Good
<1>3. ~JumpsOutOfTry => Armed(g)
  BY PushArmed DEF Good
<1> QED
  BY <1>1, <1>2, <1>3 DEF Good

\* POP_TRY.
LEMMA PopGood ==
    ASSUME NEW f \in Frame, Good(f), f.blocks # <<>>, Last(f.blocks).block = "try"
    PROVE  /\ f.handlers # <<>>
           /\ LET g == [blocks |-> Front(f.blocks), handlers |-> Front(f.handlers)]
              IN  g \in Frame /\ Good(g)
BY PopCovered, PopArmed DEF Good

\* A jump, out of Catch blocks or out of any.
LEMMA JumpGood ==
    ASSUME NEW f \in Frame, Good(f), NEW m \in 0 .. Len(f.blocks) - 1,
           JumpsOutOfTry \/ \A i \in m + 1 .. Len(f.blocks) : f.blocks[i].block = "catch"
    PROVE  LET g == [f EXCEPT !.blocks = SubSeq(@, 1, m)]
           IN  g \in Frame /\ Good(g)
BY JumpCovered, JumpArmed DEF Good

\* A Catch block entered.
LEMMA CatchGood ==
    ASSUME NEW f \in Frame, Good(f), NEW k \in 1 .. Len(f.handlers),
           NEW b \in Block, b.block = "catch"
    PROVE  LET g == [blocks |-> Append(f.handlers[k].outer, b),
                     handlers |-> SubSeq(f.handlers, 1, k - 1)]
           IN  g \in Frame /\ Good(g)
BY CatchCovered, CatchArmed DEF Good

-----------------------------------------------------------------------------
(* The invariant *)

\* While the machine runs, every frame is good.
IInv == /\ FramesInv
        /\ status = "run" => \A i \in DOMAIN frames : Good(frames[i])


\* Changing the top frame.
LEMMA WithTopInv ==
    ASSUME FramesInv, \A i \in DOMAIN frames : Good(frames[i]),
           NEW g \in Frame, Good(g)
    PROVE  /\ WithTop(g) \in Seq(Frame) /\ WithTop(g) # <<>>
           /\ \A i \in DOMAIN WithTop(g) : Good(WithTop(g)[i])
<1>1. Len(frames) \in 1 .. Len(frames) /\ DOMAIN frames = 1 .. Len(frames)
  BY EmptySeq, LenProperties DEF FramesInv
<1>2. /\ [frames EXCEPT ![Len(frames)] = g] \in Seq(Frame)
      /\ Len([frames EXCEPT ![Len(frames)] = g]) = Len(frames)
      /\ \A j \in 1 .. Len(frames) : [frames EXCEPT ![Len(frames)] = g][j]
                                        = IF j = Len(frames) THEN g ELSE frames[j]
  BY <1>1, ExceptSeq DEF FramesInv
<1>3. DOMAIN [frames EXCEPT ![Len(frames)] = g] = 1 .. Len(frames)
  BY <1>1
<1>4. [frames EXCEPT ![Len(frames)] = g] # <<>>
  BY <1>1, <1>2, EmptySeq
<1> QED
  BY <1>1, <1>2, <1>3, <1>4 DEF WithTop

\* The top frame.
LEMMA TopInv ==
    ASSUME IInv, status = "run"
    PROVE  /\ Top \in Frame /\ Good(Top)
           /\ Len(frames) \in Nat \ {0} /\ DOMAIN frames = 1 .. Len(frames)
<1>1. Len(frames) \in 1 .. Len(frames) /\ Len(frames) \in Nat
      /\ DOMAIN frames = 1 .. Len(frames)
  BY EmptySeq, LenProperties DEF IInv, FramesInv
<1>2. Top \in Frame
  BY <1>1, ElementOfSeq DEF Top, IInv, FramesInv
<1> QED
  BY <1>1, <1>2 DEF Top, IInv

\* The first n frames.
LEMMA FirstFrames ==
    ASSUME IInv, status = "run", NEW n \in 1 .. Len(frames)
    PROVE  /\ SubSeq(frames, 1, n) \in Seq(Frame) /\ Len(SubSeq(frames, 1, n)) = n
           /\ SubSeq(frames, 1, n) # <<>>
           /\ DOMAIN SubSeq(frames, 1, n) = 1 .. n
           /\ \A i \in 1 .. n : SubSeq(frames, 1, n)[i] = frames[i] /\ Good(frames[i])
<1>1. n \in 0 .. Len(frames) /\ DOMAIN frames = 1 .. Len(frames) /\ n \in Nat \ {0}
  BY TopInv
<1>2. /\ SubSeq(frames, 1, n) \in Seq(Frame) /\ Len(SubSeq(frames, 1, n)) = n
      /\ \A i \in 1 .. n : SubSeq(frames, 1, n)[i] = frames[i]
  BY <1>1, PrefixType DEF IInv, FramesInv
<1>3. DOMAIN SubSeq(frames, 1, n) = 1 .. n
  BY <1>2, LenProperties
<1>4. SubSeq(frames, 1, n) # <<>>
  BY <1>1, <1>2, EmptySeq
<1>5. \A i \in 1 .. n : Good(frames[i])
  BY <1>1, TopInv DEF IInv
<1> QED
  BY <1>2, <1>3, <1>4, <1>5

-----------------------------------------------------------------------------
(* Steps *)

\* The first frame has no blocks and no handlers.
LEMMA InitInv == Init => IInv
<1> SUFFICES ASSUME Init PROVE IInv
  OBVIOUS
<1> DEFINE f == [blocks |-> <<>>, handlers |-> <<>>]
<1>1. f \in Frame /\ Good(f)
  BY NewGood
<1>2. frames = <<f>>
  BY DEF Init
<1> HIDE DEF f
<1>3. frames \in Seq(Frame) /\ frames # <<>>
  BY <1>1, <1>2
<1>4. \A i \in DOMAIN frames : Good(frames[i])
  BY <1>1, <1>2
<1> QED
  BY <1>3, <1>4 DEF Init, IInv, FramesInv, Value

\* The top frame is replaced by one that is right.
LEMMA TopStep ==
    ASSUME IInv, status = "run", NEW g \in Frame, Good(g),
           frames' = WithTop(g), current' \in Value
    PROVE  IInv'
<1>1. FramesInv /\ \A i \in DOMAIN frames : Good(frames[i])
  BY DEF IInv
<1>2. /\ WithTop(g) \in Seq(Frame) /\ WithTop(g) # <<>>
      /\ \A i \in DOMAIN WithTop(g) : Good(WithTop(g)[i])
  BY <1>1, WithTopInv
<1>3. frames' \in Seq(Frame) /\ frames' # <<>>
  BY <1>2
<1>4. \A i \in DOMAIN frames' : Good(frames'[i])
  BY <1>2
<1> QED
  BY <1>3, <1>4 DEF IInv, FramesInv, Good, Covered, Covers, Belongs, TryOf, Armed, ArmedAreOpen, InnermostLast, OpenAreArmed

\* PUSH_TRY arms the Try block that it opens.
LEMMA PushTryStep == IInv /\ OpPushTry => IInv'
<1> SUFFICES ASSUME IInv, OpPushTry PROVE IInv'
  OBVIOUS
<1>1. status = "run" /\ current' \in Value
  BY DEF OpPushTry, exceptionVars, IInv, FramesInv
<1>2. Top \in Frame /\ Good(Top)
  BY <1>1, TopInv
<1>3. PICK t \in Target :
        frames' = WithTop([blocks |-> Append(Top.blocks,
                              [block |-> "try", catches |-> t, bound |-> Null]),
                           handlers |-> Append(Top.handlers,
                              [catches |-> t, outer |-> Top.blocks])])
  BY DEF OpPushTry
<1> DEFINE b == [block |-> "try", catches |-> t, bound |-> Null]
           h == [catches |-> t, outer |-> Top.blocks]
           g == [blocks |-> Append(Top.blocks, b), handlers |-> Append(Top.handlers, h)]
<1>4. /\ b \in Block /\ b.block = "try" /\ b.catches = t
      /\ h \in Handler /\ h.outer = Top.blocks /\ h.catches = t
  BY <1>2, FrameParts DEF Block, Handler
<1>5. frames' = WithTop(g)
  BY <1>3
<1> HIDE DEF b, h
<1>6. g \in Frame /\ Good(g)
  BY <1>2, <1>4, PushGood
<1> HIDE DEF g
<1> QED
  BY <1>1, <1>5, <1>6, TopStep

\* POP_TRY disarms the Try block that ends.
LEMMA PopTryStep == IInv /\ OpPopTry => IInv'
<1> SUFFICES ASSUME IInv, OpPopTry PROVE IInv'
  OBVIOUS
<1>1. status = "run" /\ current' \in Value
  BY DEF OpPopTry, exceptionVars, IInv, FramesInv
<1>2. Top \in Frame /\ Good(Top)
  BY <1>1, TopInv
<1> DEFINE g == [blocks |-> Front(Top.blocks), handlers |-> Front(Top.handlers)]
<1>3. Top.handlers # <<>> /\ g \in Frame /\ Good(g)
  BY <1>2, PopGood DEF OpPopTry
<1>4. frames' = WithTop(g)
  BY <1>3 DEF OpPopTry
<1> HIDE DEF g
<1> QED
  BY <1>1, <1>3, <1>4, TopStep

\* A jump, also out of a Try.
LEMMA JumpStep == IInv /\ OpJump => IInv'
<1> SUFFICES ASSUME IInv, OpJump PROVE IInv'
  OBVIOUS
<1>1. status = "run" /\ current' \in Value
  BY DEF OpJump, exceptionVars, IInv, FramesInv
<1>2. Top \in Frame /\ Good(Top)
  BY <1>1, TopInv
<1>3. PICK n \in 0 .. Len(Top.blocks) - 1 :
        /\ JumpsOutOfTry \/ \A i \in n + 1 .. Len(Top.blocks) :
                               Top.blocks[i].block = "catch"
        /\ frames' = WithTop([Top EXCEPT !.blocks = SubSeq(@, 1, n)])
  BY DEF OpJump
<1> DEFINE g == [Top EXCEPT !.blocks = SubSeq(@, 1, n)]
<1>4. g \in Frame /\ Good(g)
  BY <1>2, <1>3, JumpGood
<1>5. frames' = WithTop(g)
  BY <1>3
<1> HIDE DEF g
<1> QED
  BY <1>1, <1>4, <1>5, TopStep

\* Frames that are right one by one are right.
LEMMA FramesStep ==
    ASSUME NEW s \in Seq(Frame), s # <<>>, \A i \in 1 .. Len(s) : Good(s[i]),
           frames' = s, current' \in Value
    PROVE  IInv'
<1>1. DOMAIN s = 1 .. Len(s)
  BY LenProperties
<1>2. \A i \in DOMAIN frames' : Good(frames'[i])
  BY <1>1
<1> QED
  BY <1>2 DEF IInv, FramesInv, Good, Covered, Covers, Belongs, TryOf, Armed, ArmedAreOpen, InnermostLast, OpenAreArmed

\* A call adds a frame without blocks.
LEMMA CallStep == IInv /\ PushCall => IInv'
<1> SUFFICES ASSUME IInv, PushCall PROVE IInv'
  OBVIOUS
<1> DEFINE f == [blocks |-> <<>>, handlers |-> <<>>]
<1>1. f \in Frame /\ Good(f)
  BY NewGood
<1>2. status = "run" /\ frames' = Append(frames, f) /\ current' \in Value
  BY DEF PushCall, exceptionVars, IInv, FramesInv
<1> HIDE DEF f
<1>3. /\ Append(frames, f) \in Seq(Frame) /\ Append(frames, f) # <<>>
      /\ Len(Append(frames, f)) = Len(frames) + 1
      /\ \A i \in 1 .. Len(frames) : Append(frames, f)[i] = frames[i]
      /\ Append(frames, f)[Len(frames) + 1] = f
  BY <1>1, AppendProperties DEF IInv, FramesInv
<1>4. Len(frames) \in Nat /\ \A i \in 1 .. Len(frames) : Good(frames[i])
  BY <1>2, TopInv DEF IInv
<1>5. \A i \in 1 .. Len(Append(frames, f)) : Good(Append(frames, f)[i])
  <2> SUFFICES ASSUME NEW i \in 1 .. Len(Append(frames, f))
               PROVE  Good(Append(frames, f)[i])
    OBVIOUS
  <2>1. CASE i \in 1 .. Len(frames)
    BY <2>1, <1>3, <1>4
  <2>2. CASE i = Len(frames) + 1
    BY <2>2, <1>1, <1>3
  <2> QED
    BY <2>1, <2>2, <1>3, <1>4
<1> QED
  BY <1>2, <1>3, <1>5, FramesStep

\* A return takes the last frame away, or stops the machine.
LEMMA ReturnStep == IInv /\ ReturnFromCurrent => IInv'
<1> SUFFICES ASSUME IInv, ReturnFromCurrent PROVE IInv'
  OBVIOUS
<1>1. status = "run" /\ current' \in Value
  BY DEF ReturnFromCurrent, exceptionVars, IInv, FramesInv
<1>2. Len(frames) \in Nat \ {0}
  BY <1>1, TopInv
<1>3. CASE Len(frames) = 1
  BY <1>1, <1>3 DEF ReturnFromCurrent, exceptionVars, IInv, FramesInv
<1>4. CASE Len(frames) # 1
  <2> DEFINE n == Len(frames) - 1
             s == SubSeq(frames, 1, n)
  <2>1. n \in 1 .. Len(frames) /\ n \in Nat
    <3>1. \A l \in Nat \ {0} : l # 1 => l - 1 \in 1 .. l /\ l - 1 \in Nat
      OBVIOUS
    <3> QED
      BY <3>1, <1>2, <1>4
  <2>2. frames' = s
    <3>1. frames' = Front(frames)
      BY <1>4 DEF ReturnFromCurrent
    <3>2. Front(frames) = SubSeq(frames, 1, Len(frames) - 1)
      BY FrontPrefix DEF IInv, FramesInv
    <3> QED
      BY <3>1, <3>2
  <2> HIDE DEF n
  <2>3. /\ s \in Seq(Frame) /\ s # <<>> /\ Len(s) = n
        /\ \A i \in 1 .. n : s[i] = frames[i] /\ Good(frames[i])
    BY <1>1, <2>1, FirstFrames
  <2>4. \A i \in 1 .. Len(s) : Good(s[i])
    BY <2>3
  <2> HIDE DEF s
  <2> QED
    BY <1>1, <2>2, <2>3, <2>4, FramesStep
<1> QED
  BY <1>3, <1>4


\* What ClearException leaves.
LEMMA ClearedValues ==
    ClearException => current' \in Value
BY DEF ClearException, Value

\* A Catch block gets a value of the kind it declares.
LEMMA BoundValue ==
    ASSUME NEW v \in Value, NEW t \in Target, ValueMatchesCatch(v, t),
           NEW b \in CatchBindValue(v, t)
    PROVE  [block |-> "catch", catches |-> t, bound |-> b] \in Block
<1>1. CASE t = "any"
  BY <1>1 DEF CatchBindValue, Block
<1>2. CASE t = "string"
  <2>1. b \in Text
    BY <1>2, VMConstants DEF CatchBindValue, ValueMatchesCatch
  <2> QED
    BY <1>2, <2>1 DEF Block
<1>3. CASE t = "error"
  <2>1. b \in Error
    BY <1>3 DEF CatchBindValue, ValueMatchesCatch
  <2> QED
    BY <1>3, <2>1 DEF Block
<1> QED
  BY <1>1, <1>2, <1>3 DEF Target

\* The handler that RaiseException finds, and what it does to the stack.
LEMMA CatchTaken ==
    ASSUME IInv, status = "run", NEW v \in Value, Catch(v)
    PROVE  \E i \in 1 .. Len(frames) : \E k \in Matching(i, v) : \E c \in Block :
              /\ \A m \in i + 1 .. Len(frames) : Matching(m, v) = {}
              /\ \A l \in Matching(i, v) : l <= k
              /\ c.block = "catch" /\ c.catches = frames[i].handlers[k].catches
              /\ frames' = [SubSeq(frames, 1, i) EXCEPT ![i] =
                              [blocks |-> Append(frames[i].handlers[k].outer, c),
                               handlers |-> SubSeq(frames[i].handlers, 1, k - 1)]]
<1>1. PICK i \in DOMAIN frames : \E k \in Matching(i, v) :
        /\ \A m \in i + 1 .. Len(frames) : Matching(m, v) = {}
        /\ \A l \in Matching(i, v) : l <= k
        /\ \E b \in CatchBindValue(v, frames[i].handlers[k].catches) :
              frames' = [SubSeq(frames, 1, i) EXCEPT ![i] =
                 [blocks |-> Append(frames[i].handlers[k].outer,
                                    [block |-> "catch",
                                     catches |-> frames[i].handlers[k].catches,
                                     bound |-> b]),
                  handlers |-> SubSeq(@.handlers, 1, k - 1)]]
  BY DEF Catch
<1>2. PICK k \in Matching(i, v) :
        /\ \A m \in i + 1 .. Len(frames) : Matching(m, v) = {}
        /\ \A l \in Matching(i, v) : l <= k
        /\ \E b \in CatchBindValue(v, frames[i].handlers[k].catches) :
              frames' = [SubSeq(frames, 1, i) EXCEPT ![i] =
                 [blocks |-> Append(frames[i].handlers[k].outer,
                                    [block |-> "catch",
                                     catches |-> frames[i].handlers[k].catches,
                                     bound |-> b]),
                  handlers |-> SubSeq(@.handlers, 1, k - 1)]]
  BY <1>1
<1> DEFINE f == frames[i]
           t == f.handlers[k].catches
<1>3. PICK b \in CatchBindValue(v, t) :
        frames' = [SubSeq(frames, 1, i) EXCEPT ![i] =
           [blocks |-> Append(f.handlers[k].outer,
                              [block |-> "catch", catches |-> t, bound |-> b]),
            handlers |-> SubSeq(@.handlers, 1, k - 1)]]
  BY <1>2
<1> DEFINE c == [block |-> "catch", catches |-> t, bound |-> b]
<1>4. i \in 1 .. Len(frames)
  BY TopInv
<1>5. f \in Frame /\ SubSeq(frames, 1, i)[i] = f
  BY <1>4, TopInv, ElementOfSeq, FirstFrames DEF IInv, FramesInv
<1>6. k \in 1 .. Len(f.handlers) /\ ValueMatchesCatch(v, t)
  BY <1>5, FrameParts DEF Matching
<1>7. t \in Target
  BY <1>5, <1>6, FrameParts DEF Handler
<1>8. c \in Block /\ c.block = "catch" /\ c.catches = t
  BY <1>3, <1>6, <1>7, BoundValue
<1>9. frames' = [SubSeq(frames, 1, i) EXCEPT ![i] =
                   [blocks |-> Append(f.handlers[k].outer, c),
                    handlers |-> SubSeq(f.handlers, 1, k - 1)]]
  BY <1>3, <1>5
<1> HIDE DEF c
<1> QED
  BY <1>2, <1>4, <1>8, <1>9

\* A Catch block is entered: the frames above it are gone, and its frame is
\* left with what is armed around its Try.
LEMMA CatchStep ==
    ASSUME IInv, status = "run", NEW v \in Value, Catch(v)
    PROVE  IInv'
<1>a. PICK i \in 1 .. Len(frames) : \E k \in Matching(i, v) : \E c \in Block :
        /\ c.block = "catch"
        /\ frames' = [SubSeq(frames, 1, i) EXCEPT ![i] =
                        [blocks |-> Append(frames[i].handlers[k].outer, c),
                         handlers |-> SubSeq(frames[i].handlers, 1, k - 1)]]
  BY CatchTaken
<1>1. PICK k \in Matching(i, v), c \in Block :
        /\ c.block = "catch"
        /\ frames' = [SubSeq(frames, 1, i) EXCEPT ![i] =
                        [blocks |-> Append(frames[i].handlers[k].outer, c),
                         handlers |-> SubSeq(frames[i].handlers, 1, k - 1)]]
  BY <1>a
<1> DEFINE f == frames[i]
           s == SubSeq(frames, 1, i)
           g == [blocks |-> Append(f.handlers[k].outer, c),
                 handlers |-> SubSeq(f.handlers, 1, k - 1)]
           r == [s EXCEPT ![i] = g]
<1>2. /\ s \in Seq(Frame) /\ Len(s) = i /\ i \in Nat \ {0}
      /\ \A j \in 1 .. i : s[j] = frames[j] /\ Good(frames[j])
  BY TopInv, FirstFrames
<1>3. f \in Frame /\ Good(f)
  BY TopInv, ElementOfSeq DEF IInv, FramesInv
<1>4. k \in 1 .. Len(f.handlers)
  BY <1>3, FrameParts DEF Matching
<1>5. g \in Frame /\ Good(g)
  BY <1>1, <1>3, <1>4, CatchGood
<1>6. current' \in Value
  BY ClearedValues DEF Catch
<1> HIDE DEF f, s, g
<1>7. /\ r \in Seq(Frame) /\ Len(r) = i
      /\ \A j \in 1 .. i : r[j] = IF j = i THEN g ELSE s[j]
  BY <1>2, <1>5, ExceptSeq
<1>8. r # <<>> /\ \A j \in 1 .. Len(r) : Good(r[j])
  BY <1>2, <1>5, <1>7, EmptySeq
<1>9. frames' = r
  BY <1>1 DEF f, s, g
<1> HIDE DEF r
<1> QED
  BY <1>6, <1>7, <1>8, <1>9, FramesStep

\* An exception that nothing matches stops the machine.
LEMMA NoCatchStep ==
    ASSUME IInv, NEW v \in Value, NoCatch(v)
    PROVE  IInv'
<1> DEFINE s == [i \in DOMAIN frames |-> [frames[i] EXCEPT !.handlers = <<>>]]
<1>1. /\ frames \in Seq(Frame) /\ Len(frames) \in Nat /\ Len(frames) # 0
      /\ DOMAIN frames = 1 .. Len(frames)
  BY LenProperties, EmptySeq DEF IInv, FramesInv
<1>2. \A i \in 1 .. Len(frames) : frames[i] \in Frame
  BY <1>1, ElementOfSeq
<1>3. \A i \in 1 .. Len(frames) : [frames[i] EXCEPT !.handlers = <<>>] \in Frame
  <2>1. \A f \in Frame : [f EXCEPT !.handlers = <<>>] \in Frame
    BY EmptySeq DEF Frame
  <2> QED
    BY <1>2, <2>1
<1>4. s \in Seq(Frame)
  <2>1. s \in [1 .. Len(frames) -> Frame]
    BY <1>1, <1>3
  <2> HIDE DEF s
  <2> QED
    BY <2>1, <1>1, SeqDef
<1>5. s # <<>>
  BY <1>1
<1>6. frames' = s /\ status' = "halted" /\ current' = v
  BY DEF NoCatch
<1> HIDE DEF s
<1> QED
  BY <1>4, <1>5, <1>6 DEF IInv, FramesInv

\* Throwing, whatever is thrown.
LEMMA RaiseStep ==
    ASSUME IInv, status = "run", NEW v \in Value, RaiseException(v)
    PROVE  IInv'
BY CatchStep, NoCatchStep DEF RaiseException

\* Throwing a value.
LEMMA ThrowStep == IInv /\ OpThrow => IInv'
BY RaiseStep DEF OpThrow

\* A step that leaves the frames alone.
LEMMA OtherStep ==
    ASSUME IInv, frames' = frames, status' = "run" => status = "run",
           current' \in Value
    PROVE  IInv'
<1>1. status' = "run" => \A i \in DOMAIN frames' : Good(frames'[i])
  BY DEF IInv
<1> QED
  BY <1>1 DEF IInv, FramesInv, Good, Covered, Covers, Belongs, TryOf, Armed, ArmedAreOpen,
              InnermostLast, OpenAreArmed

\* IO.Error.Clear leaves the frames alone.
LEMMA ClearStep == IInv /\ ClearCall => IInv'
<1> SUFFICES ASSUME IInv, ClearCall PROVE IInv'
  OBVIOUS
<1>1. current' \in Value
  BY ClearedValues DEF ClearCall, IInv, FramesInv
<1>2. frames' = frames /\ status' = status
  BY DEF ClearCall
<1> QED
  BY <1>1, <1>2, OtherStep

\* So does every step that is no call, block or exception.
LEMMA QuietStep ==
    IInv /\ (NewFramePointer \/ PointerFails \/ UNCHANGED vars) => IInv'
<1> SUFFICES ASSUME IInv, NewFramePointer \/ PointerFails \/ UNCHANGED vars
             PROVE  IInv'
  OBVIOUS
<1>1. /\ frames' = frames /\ current' = current
      /\ status' = "run" => status = "run"
  BY DEF NewFramePointer, PointerFails, vars, exceptionVars
<1> QED
  BY <1>1, OtherStep DEF IInv, FramesInv

\* The inductive invariant holds of every run of every program.
THEOREM Invariance == Spec => []IInv
<1>1. Init => IInv
  BY InitInv
<1>2. IInv /\ [Next]_vars => IInv'
  BY PushTryStep, PopTryStep, JumpStep, CallStep, ReturnStep, ThrowStep, ClearStep,
     QuietStep, Zenon DEF Next, Ended
<1> QED
  BY <1>1, <1>2, PTL DEF Spec

\* A frame of the stack by its position.
LEMMA RightFrames == ~JumpsOutOfTry /\ IInv => HandlersAreOpenTries
<1> SUFFICES ASSUME ~JumpsOutOfTry, IInv, status = "run" PROVE \A f \in Range(frames) : Armed(f)
  BY Zenon DEF HandlersAreOpenTries, Armed
<1>1. \A f \in Range(frames) : \E i \in 1 .. Len(frames) : f = frames[i]
  BY InRange DEF IInv, FramesInv
<1>2. \A i \in 1 .. Len(frames) : Armed(frames[i])
  BY TopInv DEF IInv, Good
<1> QED
  BY <1>1, <1>2, Zenon

\* In programs that do not jump out of a Try, for every depth of calls and
\* blocks, the handlers that RaiseException finds are those of the Try blocks
\* that the program is in, innermost last.
THEOREM HandlersRight ==
    ASSUME JumpsOutOfTry = FALSE PROVE Spec => []HandlersAreOpenTries
<1>1. IInv => HandlersAreOpenTries
  BY RightFrames
<1> QED
  BY <1>1, Invariance, PTL

-----------------------------------------------------------------------------
(* Types *)

SmallInv ==
    /\ status \in {"run", "halted", "failed"} /\ unhandled \in BOOLEAN
    /\ current # Null => unhandled
    /\ status = "run" => ~unhandled
    /\ pointers \subseteq 1 .. MaxFrames
    /\ Len(frames) <= MaxFrames

\* The depth of calls does not change with the top frame.
LEMMA WithTopLen == ASSUME FramesInv, NEW g PROVE Len(WithTop(g)) = Len(frames)
<1> DEFINE S == Frame \cup {g}
<1>1. frames \in Seq(S)
  BY SeqMonotonic DEF FramesInv
<1>2. Len(frames) \in 1 .. Len(frames) /\ g \in S
  BY EmptySeq DEF FramesInv
<1> QED
  BY <1>1, <1>2, ExceptSeq DEF WithTop

\* Throwing keeps the types.
LEMMA RaiseSmall ==
    ASSUME IInv, SmallInv, status = "run", NEW v \in Value, RaiseException(v)
    PROVE  SmallInv'
<1>1. Len(frames) \in Nat \ {0} /\ DOMAIN frames = 1 .. Len(frames)
  BY TopInv
<1>2. CASE Catch(v)
  <2>1. PICK i \in DOMAIN frames :
          /\ \E g : frames' = [SubSeq(frames, 1, i) EXCEPT ![i] = g]
          /\ pointers' = pointers /\ ClearException /\ status' = status
    BY <1>2 DEF Catch
  <2>2. i \in 1 .. Len(frames) /\ i \in Nat
    BY <1>1, <2>1
  <2>3. PICK g : frames' = [SubSeq(frames, 1, i) EXCEPT ![i] = g]
    BY <2>1
  <2> DEFINE s == SubSeq(frames, 1, i)
             S == Frame \cup {g}
  <2>4. s \in Seq(Frame) /\ Len(s) = i
    BY <2>2, FirstFrames
  <2>5. s \in Seq(S)
    BY <2>4, SeqMonotonic
  <2>6. i \in 1 .. Len(s) /\ g \in S
    BY <2>2, <2>4
  <2> HIDE DEF s, S
  <2>7. Len([s EXCEPT ![i] = g]) = i
    BY <2>4, <2>5, <2>6, ExceptSeq
  <2>8. Len(frames') <= MaxFrames
    BY <2>2, <2>3, <2>7, <1>1, VMConstants DEF SmallInv, s
  <2> QED
    BY <2>1, <2>8 DEF SmallInv, ClearException
<1>3. CASE NoCatch(v)
  <2>1. DOMAIN frames' = 1 .. Len(frames)
    BY <1>1, <1>3 DEF NoCatch
  <2>2. frames' \in Seq(Frame)
    BY NoCatchStep, <1>3 DEF IInv, FramesInv
  <2>3. Len(frames') = Len(frames)
    BY <1>1, <2>1, <2>2, LenProperties
  <2> QED
    BY <1>3, <2>3 DEF NoCatch, SmallInv
<1> QED
  BY <1>2, <1>3 DEF RaiseException

\* Every step keeps the types.
LEMMA SmallStep == IInv /\ SmallInv /\ [Next]_vars => SmallInv'
<1> SUFFICES ASSUME IInv, SmallInv, [Next]_vars PROVE SmallInv'
  OBVIOUS
<1>f. FramesInv
  BY DEF IInv
<1>1. CASE OpPushTry \/ OpPopTry \/ OpJump
  <2>1. \E g : frames' = WithTop(g)
    BY <1>1, Zenon DEF OpPushTry, OpPopTry, OpJump
  <2>2. Len(frames') = Len(frames)
    BY <1>f, <2>1, WithTopLen
  <2> QED
    BY <1>1, <2>2 DEF OpPushTry, OpPopTry, OpJump, exceptionVars, SmallInv
<1>2. CASE PushCall
  <2>1. Len(frames) \in Nat
    BY <1>f, LenProperties DEF FramesInv
  <2>2. Len(frames') = Len(frames) + 1
    BY <1>2, <1>f, NewFrame, AppendProperties DEF PushCall, FramesInv
  <2> QED
    BY <1>2, <2>1, <2>2, VMConstants DEF PushCall, exceptionVars, SmallInv
<1>3. CASE ReturnFromCurrent
  <2>1. status = "run" /\ UNCHANGED <<current, unhandled>>
    BY <1>3 DEF ReturnFromCurrent, exceptionVars
  <2>2. Len(frames) \in Nat \ {0}
    BY <2>1, TopInv
  <2>3. CASE Len(frames) = 1
    BY <1>3, <2>1, <2>3 DEF ReturnFromCurrent, SmallInv
  <2>4. CASE Len(frames) # 1
    <3> DEFINE n == Len(frames) - 1
    <3>1. n \in 0 .. Len(frames) /\ n \in Nat /\ n <= MaxFrames
      BY <2>2, VMConstants DEF SmallInv
    <3>2. frames' = Front(frames) /\ pointers' = pointers /\ status' = status
      BY <1>3, <2>4 DEF ReturnFromCurrent
    <3>3. Front(frames) = SubSeq(frames, 1, n)
      BY <1>f, FrontPrefix DEF FramesInv
    <3> HIDE DEF n
    <3>4. Len(frames') = n
      BY <1>f, <3>1, <3>2, <3>3, PrefixType DEF FramesInv
    <3> QED
      BY <2>1, <3>1, <3>2, <3>4 DEF SmallInv
  <2> QED
    BY <2>3, <2>4
<1>4. CASE OpThrow
  BY <1>4, RaiseSmall DEF OpThrow
<1>5. CASE ClearCall
  BY <1>5 DEF ClearCall, ClearException, SmallInv
<1>6. CASE NewFramePointer
  <2>1. Len(frames) \in 1 .. MaxFrames
    BY <1>6, TopInv, VMConstants DEF NewFramePointer, SmallInv
  <2> QED
    BY <1>6, <2>1 DEF NewFramePointer, exceptionVars, SmallInv
<1>7. CASE PointerFails
  BY <1>7 DEF PointerFails, exceptionVars, SmallInv
<1>8. CASE UNCHANGED vars
  BY <1>8 DEF vars, exceptionVars, SmallInv
<1> QED
  BY <1>1, <1>2, <1>3, <1>4, <1>5, <1>6, <1>7, <1>8 DEF Next, Ended

\* A machine that starts is a small one.
LEMMA SmallInit == Init => SmallInv
<1> SUFFICES ASSUME Init PROVE SmallInv
  OBVIOUS
<1>1. Len(frames) = 1
  BY DEF Init
<1>2. Len(frames) <= MaxFrames
  BY <1>1, VMConstants
<1> QED
  BY <1>2 DEF Init, SmallInv

\* Frames, blocks, handlers and pointers keep their types, what a Catch block
\* has bound is of the kind it declares, and an exception is current only when
\* nothing has handled it.
THEOREM TypeCorrect == Spec => []TypeOK
<1>1. IInv /\ SmallInv => TypeOK
  <2> SUFFICES ASSUME IInv, SmallInv PROVE TypeOK
    OBVIOUS
  <2>1. Len(frames) \in Nat \ {0} /\ Len(frames) <= MaxFrames /\ MaxFrames \in Nat
    BY EmptySeq, VMConstants DEF IInv, FramesInv, SmallInv
  <2>2. Len(frames) \in 1 .. MaxFrames
    BY <2>1
  <2> QED
    BY <2>2 DEF IInv, FramesInv, SmallInv, TypeOK
<1> QED
  BY <1>1, SmallInit, SmallStep, Invariance, PTL DEF Spec

-----------------------------------------------------------------------------
(* Programs that jump out of a Try *)

\* Every Try block the program is in is armed.  A jump out of a Try leaves its
\* handler behind (HandlersAreOpenTries fails), but what is left is only ever
\* one handler too many.
OpenTriesAreArmed ==
    status = "run" =>
        \A i \in DOMAIN frames : \A j \in DOMAIN frames[i].blocks :
            frames[i].blocks[j].block = "try" =>
                \E h \in Range(frames[i].handlers) :
                    /\ h.outer = SubSeq(frames[i].blocks, 1, j - 1)
                    /\ h.catches = frames[i].blocks[j].catches

\* An exception ends the program only when no Try block the program is in takes
\* it: RaiseException passes no open Try by.
EndsOnlyUncaught ==
    status = "run" /\ unhandled' =>
        \A i \in DOMAIN frames : \A j \in DOMAIN frames[i].blocks :
            frames[i].blocks[j].block = "try" =>
                ~ValueMatchesCatch(current', frames[i].blocks[j].catches)

\* What a good frame says of its Try blocks.
LEMMA GoodTries ==
    ASSUME NEW f \in Frame, Good(f), NEW j \in DOMAIN f.blocks, f.blocks[j].block = "try"
    PROVE  \E k \in DOMAIN f.handlers :
              /\ f.handlers[k].outer = SubSeq(f.blocks, 1, j - 1)
              /\ f.handlers[k].catches = f.blocks[j].catches
<1>1. DOMAIN f.blocks = 1 .. Len(f.blocks) /\ DOMAIN f.handlers = 1 .. Len(f.handlers)
  BY FrameParts
<1>2. PICK k \in 1 .. Len(f.handlers) : Belongs(f.handlers[k], f.blocks) /\ TryOf(f.handlers[k]) = j
  BY <1>1 DEF Good, Covered, Covers
<1> QED
  BY <1>1, <1>2 DEF Belongs

\* Whatever jumps the program makes, each Try it is in is armed.
THEOREM NoTryDisarmed == Spec => []OpenTriesAreArmed
<1>1. IInv => OpenTriesAreArmed
  <2> SUFFICES ASSUME IInv, status = "run", NEW i \in DOMAIN frames,
                      NEW j \in DOMAIN frames[i].blocks, frames[i].blocks[j].block = "try"
               PROVE  \E h \in Range(frames[i].handlers) :
                         /\ h.outer = SubSeq(frames[i].blocks, 1, j - 1)
                         /\ h.catches = frames[i].blocks[j].catches
    BY DEF OpenTriesAreArmed
  <2>1. frames[i] \in Frame /\ Good(frames[i])
    BY TopInv, ElementOfSeq DEF IInv, FramesInv
  <2>2. PICK k \in DOMAIN frames[i].handlers :
           /\ frames[i].handlers[k].outer = SubSeq(frames[i].blocks, 1, j - 1)
           /\ frames[i].handlers[k].catches = frames[i].blocks[j].catches
    BY <2>1, GoodTries
  <2>3. frames[i].handlers[k] \in Range(frames[i].handlers)
    BY DEF Range
  <2> QED
    BY <2>2, <2>3
<1> QED
  BY <1>1, Invariance, PTL

\* Whatever jumps the program makes, an exception that an open Try takes is
\* caught.
THEOREM UncaughtOnly == Spec => [][EndsOnlyUncaught]_vars
<1>1. IInv /\ SmallInv /\ [Next]_vars => [EndsOnlyUncaught]_vars
  <2> SUFFICES ASSUME IInv, SmallInv, Next, status = "run", unhandled',
                      NEW i \in DOMAIN frames, NEW j \in DOMAIN frames[i].blocks,
                      frames[i].blocks[j].block = "try"
               PROVE  ~ValueMatchesCatch(current', frames[i].blocks[j].catches)
    BY DEF EndsOnlyUncaught
  <2>1. ~unhandled
    BY DEF SmallInv
  <2>2. OpThrow
    BY <2>1 DEF Next, OpPushTry, OpPopTry, OpJump, PushCall, ReturnFromCurrent, ClearCall,
                ClearException, NewFramePointer, PointerFails, Ended, exceptionVars, vars
  <2>3. PICK v \in Value : NoCatch(v)
    BY <2>2 DEF OpThrow, RaiseException, Catch, ClearException
  <2>4. current' = v /\ Matching(i, v) = {}
    BY <2>3 DEF NoCatch
  <2>5. frames[i] \in Frame /\ Good(frames[i])
    BY TopInv, ElementOfSeq DEF IInv, FramesInv
  <2>6. PICK k \in DOMAIN frames[i].handlers :
           frames[i].handlers[k].catches = frames[i].blocks[j].catches
    BY <2>5, GoodTries
  <2> QED
    BY <2>4, <2>6 DEF Matching
<1> QED
  BY <1>1, SmallInit, SmallStep, Invariance, PTL DEF Spec

-----------------------------------------------------------------------------
(* The view TryCatch has of a stack of frames: per frame the blocks, per   *)
(* block its kind and what it catches.                                     *)

Shape(b) == [block |-> b.block, catches |-> b.catches]
Shapes(bs) == [j \in DOMAIN bs |-> Shape(bs[j])]
StackOf(fs) == [i \in DOMAIN fs |-> Shapes(fs[i].blocks)]

FramesOver(F, B) == \A f \in F : f.blocks \in Seq(B)
Stacks(B) == Seq(Seq({Shape(b) : b \in B}))

\* The shapes of a sequence of blocks, by position.
LEMMA ShapesByPosition ==
    ASSUME NEW B, NEW bs \in Seq(B)
    PROVE  /\ Shapes(bs) \in Seq({Shape(b) : b \in B})
           /\ Len(Shapes(bs)) = Len(bs) /\ Len(bs) \in Nat
           /\ DOMAIN Shapes(bs) = 1 .. Len(bs)
           /\ \A j \in 1 .. Len(bs) : Shapes(bs)[j] = Shape(bs[j])
<1>1. Len(bs) \in Nat /\ DOMAIN bs = 1 .. Len(bs) /\ \A j \in 1 .. Len(bs) : bs[j] \in B
  BY LenProperties, ElementOfSeq
<1>2. Shapes(bs) = [j \in 1 .. Len(bs) |-> Shape(bs[j])]
  BY <1>1 DEF Shapes
<1>3. Shapes(bs) \in Seq({Shape(b) : b \in B}) /\ Len(Shapes(bs)) = Len(bs)
  BY <1>1, <1>2
<1> QED
  BY <1>1, <1>2, <1>3

\* No blocks.
LEMMA ShapesEmpty == Shapes(<<>>) = <<>>
BY DEF Shapes

\* A block opened.
LEMMA ShapesAppend ==
    ASSUME NEW B, NEW bs \in Seq(B), NEW b \in B
    PROVE  Shapes(Append(bs, b)) = Append(Shapes(bs), Shape(b))
<1> DEFINE S == {Shape(c) : c \in B}
           s == Append(Shapes(bs), Shape(b))
<1>1. /\ Shapes(bs) \in Seq(S) /\ Len(Shapes(bs)) = Len(bs) /\ Len(bs) \in Nat
      /\ Shape(b) \in S /\ \A j \in 1 .. Len(bs) : Shapes(bs)[j] = Shape(bs[j])
  BY ShapesByPosition
<1> HIDE DEF S
<1>2. /\ s \in Seq(S) /\ Len(s) = Len(bs) + 1 /\ s[Len(bs) + 1] = Shape(b)
      /\ \A j \in 1 .. Len(bs) : s[j] = Shape(bs[j])
  BY <1>1, AppendProperties
<1> HIDE DEF s
<1> DEFINE cs == Append(bs, b)
<1>3. /\ cs \in Seq(B) /\ Len(cs) = Len(bs) + 1 /\ cs[Len(bs) + 1] = b
      /\ \A j \in 1 .. Len(bs) : cs[j] = bs[j]
  BY AppendProperties
<1> HIDE DEF cs
<1>4. /\ Shapes(cs) \in Seq(S) /\ Len(Shapes(cs)) = Len(cs)
      /\ \A j \in 1 .. Len(cs) : Shapes(cs)[j] = Shape(cs[j])
  BY <1>3, ShapesByPosition DEF S
<1>5. Shapes(cs) = s
  BY <1>1, <1>2, <1>3, <1>4, SeqEqual
<1> QED
  BY <1>5 DEF cs, s

\* Blocks left.
LEMMA ShapesPrefix ==
    ASSUME NEW B, NEW bs \in Seq(B), NEW n \in 0 .. Len(bs)
    PROVE  Shapes(SubSeq(bs, 1, n)) = SubSeq(Shapes(bs), 1, n)
<1> DEFINE S == {Shape(c) : c \in B}
           s == SubSeq(Shapes(bs), 1, n)
           cs == SubSeq(bs, 1, n)
<1>1. /\ Shapes(bs) \in Seq(S) /\ Len(Shapes(bs)) = Len(bs) /\ Len(bs) \in Nat
      /\ \A j \in 1 .. Len(bs) : Shapes(bs)[j] = Shape(bs[j])
  BY ShapesByPosition
<1> HIDE DEF S
<1>2. s \in Seq(S) /\ Len(s) = n /\ \A j \in 1 .. n : s[j] = Shape(bs[j])
  BY <1>1, PrefixType
<1>3. cs \in Seq(B) /\ Len(cs) = n /\ \A j \in 1 .. n : cs[j] = bs[j]
  BY PrefixType
<1> HIDE DEF cs, s
<1>4. /\ Shapes(cs) \in Seq(S) /\ Len(Shapes(cs)) = Len(cs)
      /\ \A j \in 1 .. Len(cs) : Shapes(cs)[j] = Shape(cs[j])
  BY <1>3, ShapesByPosition DEF S
<1>5. Shapes(cs) = s
  BY <1>2, <1>3, <1>4, SeqEqual
<1> QED
  BY <1>5 DEF cs, s

\* The stack, by position.
LEMMA StackByPosition ==
    ASSUME NEW F, NEW B, FramesOver(F, B), NEW fs \in Seq(F)
    PROVE  /\ StackOf(fs) \in Stacks(B)
           /\ Len(StackOf(fs)) = Len(fs) /\ Len(fs) \in Nat
           /\ DOMAIN StackOf(fs) = 1 .. Len(fs)
           /\ \A i \in 1 .. Len(fs) : StackOf(fs)[i] = Shapes(fs[i].blocks)
<1>1. Len(fs) \in Nat /\ DOMAIN fs = 1 .. Len(fs) /\ \A i \in 1 .. Len(fs) : fs[i] \in F
  BY LenProperties, ElementOfSeq
<1>2. StackOf(fs) = [i \in 1 .. Len(fs) |-> Shapes(fs[i].blocks)]
  BY <1>1 DEF StackOf
<1> DEFINE S == Seq({Shape(b) : b \in B})
<1>3. \A i \in 1 .. Len(fs) : Shapes(fs[i].blocks) \in S
  BY <1>1, ShapesByPosition DEF FramesOver
<1> HIDE DEF S
<1>4. StackOf(fs) \in Seq(S) /\ Len(StackOf(fs)) = Len(fs)
  BY <1>1, <1>2, <1>3
<1> QED
  BY <1>1, <1>2, <1>4 DEF Stacks, S

\* A call.
LEMMA StackAppend ==
    ASSUME NEW F, NEW B, FramesOver(F, B), NEW fs \in Seq(F), NEW f \in F
    PROVE  StackOf(Append(fs, f)) = Append(StackOf(fs), Shapes(f.blocks))
<1> DEFINE S == Seq({Shape(b) : b \in B})
           s == Append(StackOf(fs), Shapes(f.blocks))
<1>1. /\ StackOf(fs) \in Seq(S) /\ Len(StackOf(fs)) = Len(fs) /\ Len(fs) \in Nat
      /\ \A i \in 1 .. Len(fs) : StackOf(fs)[i] = Shapes(fs[i].blocks)
  BY StackByPosition DEF Stacks
<1>2. Shapes(f.blocks) \in S
  BY ShapesByPosition DEF FramesOver
<1> HIDE DEF S
<1>3. /\ s \in Seq(S) /\ Len(s) = Len(fs) + 1 /\ s[Len(fs) + 1] = Shapes(f.blocks)
      /\ \A i \in 1 .. Len(fs) : s[i] = Shapes(fs[i].blocks)
  BY <1>1, <1>2, AppendProperties
<1> HIDE DEF s
<1> DEFINE gs == Append(fs, f)
<1>4. /\ gs \in Seq(F) /\ Len(gs) = Len(fs) + 1 /\ gs[Len(fs) + 1] = f
      /\ \A i \in 1 .. Len(fs) : gs[i] = fs[i]
  BY AppendProperties
<1> HIDE DEF gs
<1>5. /\ StackOf(gs) \in Seq(S) /\ Len(StackOf(gs)) = Len(gs)
      /\ \A i \in 1 .. Len(gs) : StackOf(gs)[i] = Shapes(gs[i].blocks)
  BY <1>4, StackByPosition DEF S, Stacks
<1>6. StackOf(gs) = s
  BY <1>1, <1>3, <1>4, <1>5, SeqEqual
<1> QED
  BY <1>6 DEF gs, s

\* Calls left.
LEMMA StackPrefix ==
    ASSUME NEW F, NEW B, FramesOver(F, B), NEW fs \in Seq(F), NEW n \in 0 .. Len(fs)
    PROVE  StackOf(SubSeq(fs, 1, n)) = SubSeq(StackOf(fs), 1, n)
<1> DEFINE S == Seq({Shape(b) : b \in B})
           s == SubSeq(StackOf(fs), 1, n)
           gs == SubSeq(fs, 1, n)
<1>1. /\ StackOf(fs) \in Seq(S) /\ Len(StackOf(fs)) = Len(fs) /\ Len(fs) \in Nat
      /\ \A i \in 1 .. Len(fs) : StackOf(fs)[i] = Shapes(fs[i].blocks)
  BY StackByPosition DEF Stacks
<1> HIDE DEF S
<1>2. s \in Seq(S) /\ Len(s) = n /\ \A i \in 1 .. n : s[i] = Shapes(fs[i].blocks)
  BY <1>1, PrefixType
<1>3. gs \in Seq(F) /\ Len(gs) = n /\ \A i \in 1 .. n : gs[i] = fs[i]
  BY PrefixType
<1> HIDE DEF gs, s
<1>4. /\ StackOf(gs) \in Seq(S) /\ Len(StackOf(gs)) = Len(gs)
      /\ \A i \in 1 .. Len(gs) : StackOf(gs)[i] = Shapes(gs[i].blocks)
  BY <1>3, StackByPosition DEF S, Stacks
<1>5. StackOf(gs) = s
  BY <1>2, <1>3, <1>4, SeqEqual
<1> QED
  BY <1>5 DEF gs, s

\* Another frame at one place.
LEMMA StackExcept ==
    ASSUME NEW fs, NEW n \in DOMAIN fs, NEW f
    PROVE  StackOf([fs EXCEPT ![n] = f]) = [StackOf(fs) EXCEPT ![n] = Shapes(f.blocks)]
BY DEF StackOf

-----------------------------------------------------------------------------
(* What TryCatch promises *)

Stack == StackOf(frames)
EndedOf == status # "run"

\* The promise in these terms: the machine finds the handler at once.
LEMMA PromiseView ==
    /\ Promise!Init <=> Stack = << <<>> >> /\ EndedOf = FALSE
    /\ UNCHANGED Promise!vars <=> Stack' = Stack /\ EndedOf' = EndedOf
    /\ Promise!EnterTry <=>
         /\ ~EndedOf
         /\ \E t \in Target : Stack' = [Stack EXCEPT ![Len(Stack)] =
                                          Append(@, [block |-> "try", catches |-> t])]
         /\ EndedOf' = EndedOf
    /\ Promise!LeaveBlocks <=>
         /\ ~EndedOf
         /\ \E n \in 0 .. Len(Stack[Len(Stack)]) - 1 :
               Stack' = [Stack EXCEPT ![Len(Stack)] = SubSeq(@, 1, n)]
         /\ EndedOf' = EndedOf
    /\ Promise!Call <=> ~EndedOf /\ Stack' = Append(Stack, <<>>) /\ EndedOf' = EndedOf
    /\ Promise!Return <=>
         /\ ~EndedOf /\ Len(Stack) > 1
         /\ Stack' = SubSeq(Stack, 1, Len(Stack) - 1) /\ EndedOf' = EndedOf
    /\ Promise!Finish <=> ~EndedOf /\ EndedOf' = TRUE /\ Stack' = Stack
<1> USE DEF Stack, StackOf, Shapes, Shape, EndedOf, NoValue
<1>1. Promise!Init <=> Stack = << <<>> >> /\ EndedOf = FALSE
  BY DEF Promise!Init
<1>2. UNCHANGED Promise!vars <=> Stack' = Stack /\ EndedOf' = EndedOf
  BY DEF Promise!vars
<1>3. Promise!EnterTry <=>
         /\ ~EndedOf
         /\ \E t \in Target : Stack' = [Stack EXCEPT ![Len(Stack)] =
                                          Append(@, [block |-> "try", catches |-> t])]
         /\ EndedOf' = EndedOf
  BY DEF Promise!EnterTry, Promise!Running
<1>4. Promise!LeaveBlocks <=>
         /\ ~EndedOf
         /\ \E n \in 0 .. Len(Stack[Len(Stack)]) - 1 :
               Stack' = [Stack EXCEPT ![Len(Stack)] = SubSeq(@, 1, n)]
         /\ EndedOf' = EndedOf
  BY DEF Promise!LeaveBlocks, Promise!Running, Promise!Top
<1>5. Promise!Call <=> ~EndedOf /\ Stack' = Append(Stack, <<>>) /\ EndedOf' = EndedOf
  BY DEF Promise!Call, Promise!Running
<1>6. Promise!Return <=>
         /\ ~EndedOf /\ Len(Stack) > 1
         /\ Stack' = SubSeq(Stack, 1, Len(Stack) - 1) /\ EndedOf' = EndedOf
  BY DEF Promise!Return, Promise!Running
<1>7. Promise!Finish <=> ~EndedOf /\ EndedOf' = TRUE /\ Stack' = Stack
  BY DEF Promise!Finish, Promise!Running
<1> QED
  BY <1>1, <1>2, <1>3, <1>4, <1>5, <1>6, <1>7

\* The Try blocks of call i that catch v.
Catchers(i, v) ==
    {j \in DOMAIN Stack[i] : Stack[i][j].block = "try" /\ CatchHandles(v, Stack[i][j].catches)}

\* How the promise lets a value be thrown.
LEMMA ThrowView ==
    ASSUME NEW v \in Value, ~EndedOf
    PROVE  /\ \A i \in DOMAIN Stack : \A j \in Catchers(i, v) :
                /\ \A k \in Catchers(i, v) : k <= j
                /\ \A m \in i + 1 .. Len(Stack) : Catchers(m, v) = {}
                /\ Stack' = [SubSeq(Stack, 1, i) EXCEPT ![i] =
                                Append(SubSeq(@, 1, j - 1), [@[j] EXCEPT !.block = "catch"])]
                /\ EndedOf' = EndedOf
                => Promise!Throw
           /\ (/\ \A i \in DOMAIN Stack : Catchers(i, v) = {}
               /\ EndedOf' = TRUE /\ Stack' = Stack
               => Promise!Throw)
<1> USE DEF Stack, StackOf, Shapes, Shape, EndedOf, NoValue
<1>1. \A i : Promise!CatchersIn(i, v) = Catchers(i, v)
  BY DEF Promise!CatchersIn, Catchers
<1>2. Promise!Running
  BY DEF Promise!Running
<1>3. ASSUME NEW i \in DOMAIN Stack, NEW j \in Catchers(i, v),
             \A k \in Catchers(i, v) : k <= j,
             \A m \in i + 1 .. Len(Stack) : Catchers(m, v) = {},
             Stack' = [SubSeq(Stack, 1, i) EXCEPT ![i] =
                             Append(SubSeq(@, 1, j - 1), [@[j] EXCEPT !.block = "catch"])],
             EndedOf' = EndedOf
      PROVE  Promise!Throw
  <2>1. Promise!Caught(v)
    BY <1>1, <1>3 DEF Promise!Caught
  <2> QED
    BY <1>2, <2>1 DEF Promise!Throw
<1>4. ASSUME \A i \in DOMAIN Stack : Catchers(i, v) = {}, EndedOf' = TRUE, Stack' = Stack
      PROVE  Promise!Throw
  <2>1. Promise!Uncaught(v)
    BY <1>1, <1>4 DEF Promise!Uncaught
  <2> QED
    BY <1>2, <2>1 DEF Promise!Throw
<1> QED
  BY <1>3, <1>4

\* The stack that the promise sees.
LEMMA StackView ==
    ASSUME FramesInv
    PROVE  /\ FramesOver(Frame, Block) /\ frames \in Seq(Frame)
           /\ Stack \in Stacks(Block)
           /\ Len(Stack) = Len(frames) /\ Len(frames) \in Nat \ {0}
           /\ DOMAIN Stack = 1 .. Len(frames) /\ DOMAIN frames = 1 .. Len(frames)
           /\ \A i \in 1 .. Len(frames) : frames[i] \in Frame
           /\ \A i \in 1 .. Len(frames) : Stack[i] = Shapes(frames[i].blocks)
           /\ Stack[Len(Stack)] = Shapes(Top.blocks)
<1>1. FramesOver(Frame, Block)
  BY DEF FramesOver, Frame
<1>2. frames \in Seq(Frame) /\ frames # <<>>
  BY DEF FramesInv
<1>3. /\ Stack \in Stacks(Block) /\ Len(Stack) = Len(frames) /\ Len(frames) \in Nat
      /\ DOMAIN Stack = 1 .. Len(frames)
      /\ \A i \in 1 .. Len(frames) : Stack[i] = Shapes(frames[i].blocks)
  BY <1>1, <1>2, StackByPosition DEF Stack
<1>4. Len(frames) # 0
  BY <1>2, EmptySeq
<1>5. Stack[Len(Stack)] = Shapes(Top.blocks)
  BY <1>3, <1>4 DEF Top
<1>6. DOMAIN frames = 1 .. Len(frames) /\ \A i \in 1 .. Len(frames) : frames[i] \in Frame
  BY <1>2, LenProperties, ElementOfSeq
<1> QED
  BY <1>1, <1>2, <1>3, <1>4, <1>5, <1>6

\* Another frame on top.
LEMMA StackWithTop ==
    ASSUME FramesInv, NEW g \in Frame
    PROVE  StackOf(WithTop(g)) = [Stack EXCEPT ![Len(Stack)] = Shapes(g.blocks)]
<1> DEFINE n == Len(frames)
<1>1. /\ n \in 1 .. Len(frames) /\ Len(Stack) = n
      /\ FramesOver(Frame, Block) /\ frames \in Seq(Frame)
  BY StackView
<1>2. WithTop(g) = [frames EXCEPT ![n] = g]
  BY DEF WithTop
<1> HIDE DEF n
<1>3. StackOf([frames EXCEPT ![n] = g]) = [StackOf(frames) EXCEPT ![n] = Shapes(g.blocks)]
  <2>1. n \in DOMAIN frames
    BY <1>1, LenProperties
  <2> QED
    BY <2>1, StackExcept
<1> QED
  BY <1>1, <1>2, <1>3 DEF Stack

\* A step that puts another frame on top.
LEMMA TopChanges ==
    ASSUME FramesInv, NEW g \in Frame, frames' = WithTop(g)
    PROVE  Stack' = [Stack EXCEPT ![Len(Stack)] = Shapes(g.blocks)]
<1>1. Stack' = StackOf(frames')
  BY DEF Stack, StackOf
<1> QED
  BY <1>1, StackWithTop

\* Blocks of the top frame that are left.
LEMMA BlocksLeft ==
    ASSUME IInv, status = "run", NEW n \in 0 .. Len(Top.blocks) - 1,
           NEW g \in Frame, g.blocks = SubSeq(Top.blocks, 1, n),
           frames' = WithTop(g), status' = status
    PROVE  Promise!LeaveBlocks
<1>1. FramesInv /\ ~EndedOf /\ EndedOf' = EndedOf
  BY DEF IInv, EndedOf
<1>2. Top.blocks \in Seq(Block) /\ Len(Top.blocks) \in Nat /\ n \in 0 .. Len(Top.blocks)
  BY TopInv, FrameParts
<1>3. Stack' = [Stack EXCEPT ![Len(Stack)] = Shapes(g.blocks)]
  BY <1>1, TopChanges
<1>4. /\ Shapes(SubSeq(Top.blocks, 1, n)) = SubSeq(Shapes(Top.blocks), 1, n)
      /\ Len(Shapes(Top.blocks)) = Len(Top.blocks)
  BY <1>2, ShapesPrefix, ShapesByPosition
<1>5. Stack[Len(Stack)] = Shapes(Top.blocks)
  BY <1>1, StackView
<1>6. /\ n \in 0 .. Len(Stack[Len(Stack)]) - 1
      /\ Stack' = [Stack EXCEPT ![Len(Stack)] = SubSeq(@, 1, n)]
  BY <1>3, <1>4, <1>5
<1> QED
  BY <1>1, <1>6, PromiseView

\* PUSH_TRY, POP_TRY and a jump do to the blocks what the promise says.
LEMMA BlocksRefine ==
    ASSUME ~JumpsOutOfTry, IInv, OpPushTry \/ OpPopTry \/ OpJump
    PROVE  Promise!EnterTry \/ Promise!LeaveBlocks
<1>1. FramesInv /\ status = "run" /\ status' = status
  BY DEF IInv, OpPushTry, OpPopTry, OpJump
<1>2. Top \in Frame /\ Armed(Top) /\ Top.blocks \in Seq(Block) /\ Len(Top.blocks) \in Nat
  BY <1>1, TopInv, FrameParts DEF Good
<1>3. CASE OpPushTry
  <2>1. PICK t \in Target :
          frames' = WithTop([blocks |-> Append(Top.blocks,
                                [block |-> "try", catches |-> t, bound |-> Null]),
                             handlers |-> Append(Top.handlers,
                                [catches |-> t, outer |-> Top.blocks])])
    BY <1>3 DEF OpPushTry
  <2> DEFINE b == [block |-> "try", catches |-> t, bound |-> Null]
             h == [catches |-> t, outer |-> Top.blocks]
             g == [blocks |-> Append(Top.blocks, b), handlers |-> Append(Top.handlers, h)]
  <2>2. /\ b \in Block /\ b.block = "try" /\ Shape(b) = [block |-> "try", catches |-> t]
        /\ h \in Handler /\ h.outer = Top.blocks /\ h.catches = b.catches
    BY <1>2 DEF Block, Handler, Shape
  <2>3. frames' = WithTop(g)
    BY <2>1
  <2> HIDE DEF b, h
  <2>4. g \in Frame /\ g.blocks = Append(Top.blocks, b)
    BY <1>2, <2>2, PushArmed
  <2> HIDE DEF g
  <2>5. Stack' = [Stack EXCEPT ![Len(Stack)] = Shapes(g.blocks)]
    BY <1>1, <2>3, <2>4, TopChanges
  <2>6. Shapes(g.blocks) = Append(Shapes(Top.blocks), Shape(b))
    BY <1>2, <2>2, <2>4, ShapesAppend
  <2>7. Stack[Len(Stack)] = Shapes(Top.blocks)
    BY <1>1, StackView
  <2>8. Stack' = [Stack EXCEPT ![Len(Stack)] = Append(@, [block |-> "try", catches |-> t])]
    BY <2>2, <2>5, <2>6, <2>7
  <2>9. ~EndedOf /\ EndedOf' = EndedOf
    BY <1>1 DEF EndedOf
  <2> QED
    BY <2>8, <2>9, PromiseView
<1>4. CASE OpPopTry
  <2> DEFINE g == [blocks |-> Front(Top.blocks), handlers |-> Front(Top.handlers)]
  <2>1. /\ Top.handlers # <<>> /\ g \in Frame /\ g.blocks = Front(Top.blocks)
        /\ Top.blocks # <<>>
    BY <1>2, <1>4, PopArmed DEF OpPopTry
  <2>2. frames' = WithTop(g)
    BY <1>4, <2>1 DEF OpPopTry
  <2> HIDE DEF g
  <2>3. Front(Top.blocks) = SubSeq(Top.blocks, 1, Len(Top.blocks) - 1)
    BY <1>2, <2>1, FrontPrefix
  <2>4. Len(Top.blocks) - 1 \in 0 .. Len(Top.blocks) - 1
    BY <1>2, <2>1, EmptySeq
  <2> QED
    BY <1>1, <2>1, <2>2, <2>3, <2>4, BlocksLeft
<1>5. CASE OpJump
  <2>1. PICK n \in 0 .. Len(Top.blocks) - 1 :
          frames' = WithTop([Top EXCEPT !.blocks = SubSeq(Top.blocks, 1, n)])
    BY <1>2, <1>5 DEF OpJump, Frame
  <2> DEFINE c == SubSeq(Top.blocks, 1, n)
             g == [blocks |-> c, handlers |-> Top.handlers]
  <2>2. frames' = WithTop(g)
    BY <1>2, <2>1, BlocksUpdate
  <2>3. c \in Seq(Block)
    BY <1>2, PrefixType
  <2> HIDE DEF c
  <2>4. g \in Frame /\ g.blocks = c
    BY <1>2, <2>3 DEF Frame
  <2> HIDE DEF g
  <2> QED
    BY <1>1, <2>2, <2>4, BlocksLeft DEF c
<1> QED
  BY <1>3, <1>4, <1>5

\* Calls and returns are those of the promise, and a pointer that is rejected
\* ends the program.
LEMMA CallsRefine ==
    ASSUME IInv, PushCall \/ ReturnFromCurrent \/ PointerFails
    PROVE  Promise!Call \/ Promise!Return \/ Promise!Finish
<1>1. FramesInv /\ ~EndedOf /\ Stack' = StackOf(frames')
  BY DEF IInv, PushCall, ReturnFromCurrent, PointerFails, EndedOf, Stack, StackOf
<1>2. CASE PushCall
  <2> DEFINE g == [blocks |-> <<>>, handlers |-> <<>>]
  <2>1. g \in Frame /\ g.blocks = <<>> /\ frames' = Append(frames, g) /\ status' = status
    BY <1>2, NewFrame DEF PushCall
  <2> HIDE DEF g
  <2>2. StackOf(Append(frames, g)) = Append(StackOf(frames), Shapes(g.blocks))
    BY <1>1, <2>1, StackView, StackAppend
  <2>3. Stack' = Append(Stack, <<>>) /\ EndedOf' = EndedOf
    BY <1>1, <2>1, <2>2, ShapesEmpty DEF Stack, EndedOf
  <2> QED
    BY <1>1, <2>3, PromiseView
<1>3. CASE ReturnFromCurrent /\ Len(frames) = 1
  <2>1. EndedOf' = TRUE /\ Stack' = Stack
    BY <1>1, <1>3 DEF ReturnFromCurrent, EndedOf, Stack
  <2> QED
    BY <1>1, <2>1, PromiseView
<1>4. CASE ReturnFromCurrent /\ Len(frames) # 1
  <2>1. frames' = SubSeq(frames, 1, Len(frames) - 1) /\ status' = status
    BY <1>1, <1>4, FrontPrefix DEF ReturnFromCurrent, FramesInv
  <2>2. Len(Stack) = Len(frames) /\ Len(frames) - 1 \in 0 .. Len(frames) /\ Len(Stack) > 1
    BY <1>1, <1>4, StackView
  <2>3. StackOf(SubSeq(frames, 1, Len(frames) - 1))
          = SubSeq(StackOf(frames), 1, Len(frames) - 1)
    BY <1>1, <2>2, StackView, StackPrefix
  <2>4. Stack' = SubSeq(Stack, 1, Len(Stack) - 1) /\ EndedOf' = EndedOf
    BY <1>1, <2>1, <2>2, <2>3 DEF Stack, EndedOf
  <2> QED
    BY <1>1, <2>2, <2>4, PromiseView
<1>5. CASE PointerFails
  <2>1. EndedOf' = TRUE /\ Stack' = Stack
    BY <1>1, <1>5 DEF PointerFails, EndedOf, Stack
  <2> QED
    BY <1>1, <2>1, PromiseView
<1> QED
  BY <1>2, <1>3, <1>4, <1>5

\* The two ways to say what a Catch takes.
LEMMA CatchHandlesMatches ==
    \A v \in Value, t \in Target : CatchHandles(v, t) <=> ValueMatchesCatch(v, t)
BY DEF CatchHandles, ValueMatchesCatch

\* The Try blocks that catch v are those of the handlers that match it.
LEMMA CatchersMatch ==
    ASSUME ~JumpsOutOfTry, IInv, status = "run", NEW i \in 1 .. Len(frames), NEW v \in Value
    PROVE  /\ \A j \in Catchers(i, v) : \E k \in Matching(i, v) :
                 TryOf(frames[i].handlers[k]) = j
           /\ \A k \in Matching(i, v) : TryOf(frames[i].handlers[k]) \in Catchers(i, v)
<1> DEFINE f == frames[i]
<1>1. f \in Frame /\ Armed(f) /\ Stack[i] = Shapes(f.blocks)
  BY TopInv, StackView DEF IInv, Good
<1>2. /\ DOMAIN f.handlers = 1 .. Len(f.handlers)
      /\ DOMAIN Stack[i] = 1 .. Len(f.blocks)
      /\ \A j \in 1 .. Len(f.blocks) : Stack[i][j] = Shape(f.blocks[j])
  BY <1>1, FrameParts, ShapesByPosition
<1>3. \A j \in 1 .. Len(f.blocks) : /\ Stack[i][j].block = f.blocks[j].block
                                    /\ Stack[i][j].catches = f.blocks[j].catches
  <2>1. \A b : Shape(b).block = b.block /\ Shape(b).catches = b.catches
    BY DEF Shape
  <2> HIDE DEF f
  <2> QED
    BY <1>2, <2>1
<1>4. \A k \in 1 .. Len(f.handlers) :
         /\ Belongs(f.handlers[k], f.blocks)
         /\ TryOf(f.handlers[k]) \in 1 .. Len(f.blocks)
         /\ f.handlers[k].catches \in Target
  <2> SUFFICES ASSUME NEW k \in 1 .. Len(f.handlers)
               PROVE  /\ Belongs(f.handlers[k], f.blocks)
                      /\ TryOf(f.handlers[k]) \in 1 .. Len(f.blocks)
                      /\ f.handlers[k].catches \in Target
    OBVIOUS
  <2>1. Belongs(f.handlers[k], f.blocks)
    BY <1>1, ArmedByPosition
  <2>2. /\ TryOf(f.handlers[k]) \in Nat \ {0} /\ Len(f.blocks) \in Nat
        /\ f.handlers[k] \in Handler
    BY <1>1, FrameParts
  <2>3. TryOf(f.handlers[k]) <= Len(f.blocks)
    BY <2>1 DEF Belongs
  <2>4. f.handlers[k].catches \in Target
    BY <2>2 DEF Handler
  <2> QED
    BY <2>1, <2>2, <2>3, <2>4
<1>5. ASSUME NEW j \in Catchers(i, v)
      PROVE  \E k \in Matching(i, v) : TryOf(f.handlers[k]) = j
  <2>1. /\ j \in 1 .. Len(f.blocks) /\ f.blocks[j].block = "try"
        /\ CatchHandles(v, f.blocks[j].catches)
    BY <1>2, <1>3 DEF Catchers
  <2>2. PICK k \in 1 .. Len(f.handlers) : TryOf(f.handlers[k]) = j
    BY <1>1, <2>1, ArmedByPosition
  <2>3. f.blocks[j].catches = f.handlers[k].catches
    BY <1>4, <2>2 DEF Belongs
  <2>4. ValueMatchesCatch(v, f.handlers[k].catches)
    BY <1>4, <2>1, <2>3, CatchHandlesMatches
  <2> QED
    BY <1>2, <2>2, <2>4 DEF Matching
<1>6. ASSUME NEW k \in Matching(i, v)
      PROVE  TryOf(f.handlers[k]) \in Catchers(i, v)
  <2>1. k \in 1 .. Len(f.handlers) /\ ValueMatchesCatch(v, f.handlers[k].catches)
    BY <1>2 DEF Matching
  <2> DEFINE j == TryOf(f.handlers[k])
  <2>2. /\ j \in 1 .. Len(f.blocks) /\ f.blocks[j].block = "try"
        /\ f.blocks[j].catches = f.handlers[k].catches
    BY <1>4, <2>1 DEF Belongs
  <2>3. CatchHandles(v, f.blocks[j].catches)
    BY <1>4, <2>1, <2>2, CatchHandlesMatches
  <2> HIDE DEF j
  <2>4. j \in Catchers(i, v)
    BY <1>2, <1>3, <2>2, <2>3 DEF Catchers
  <2> QED
    BY <2>4 DEF j
<1> QED
  BY <1>5, <1>6

\* RaiseException enters the Catch block of the innermost Try that catches v.
LEMMA CatchRefines ==
    ASSUME ~JumpsOutOfTry, IInv, status = "run", NEW v \in Value, Catch(v)
    PROVE  Promise!Throw
<1>a. PICK i \in 1 .. Len(frames) : \E k \in Matching(i, v) : \E c \in Block :
        /\ \A m \in i + 1 .. Len(frames) : Matching(m, v) = {}
        /\ \A l \in Matching(i, v) : l <= k
        /\ c.block = "catch" /\ c.catches = frames[i].handlers[k].catches
        /\ frames' = [SubSeq(frames, 1, i) EXCEPT ![i] =
                        [blocks |-> Append(frames[i].handlers[k].outer, c),
                         handlers |-> SubSeq(frames[i].handlers, 1, k - 1)]]
  BY CatchTaken
<1>1. PICK k \in Matching(i, v), c \in Block :
        /\ \A m \in i + 1 .. Len(frames) : Matching(m, v) = {}
        /\ \A l \in Matching(i, v) : l <= k
        /\ c.block = "catch" /\ c.catches = frames[i].handlers[k].catches
        /\ frames' = [SubSeq(frames, 1, i) EXCEPT ![i] =
                        [blocks |-> Append(frames[i].handlers[k].outer, c),
                         handlers |-> SubSeq(frames[i].handlers, 1, k - 1)]]
  BY <1>a
<1> DEFINE f == frames[i]
           h == f.handlers[k]
           j == TryOf(h)
           s == SubSeq(frames, 1, i)
           g == [blocks |-> Append(h.outer, c), handlers |-> SubSeq(f.handlers, 1, k - 1)]
<1>2. /\ f \in Frame /\ Armed(f) /\ FramesInv /\ i \in DOMAIN Stack /\ i \in Nat \ {0}
      /\ Len(Stack) = Len(frames) /\ Stack[i] = Shapes(f.blocks)
      /\ frames \in Seq(Frame) /\ FramesOver(Frame, Block)
  BY TopInv, StackView DEF IInv, Good
<1>3. k \in 1 .. Len(f.handlers)
  BY <1>2, FrameParts DEF Matching
<1>4. /\ f.blocks \in Seq(Block) /\ Len(f.blocks) \in Nat
      /\ h.outer \in Seq(Block) /\ j \in Nat \ {0} /\ Belongs(h, f.blocks)
  BY <1>2, <1>3, FrameParts, ArmedByPosition
<1>5. /\ j \in 1 .. Len(f.blocks) /\ j - 1 \in 0 .. Len(f.blocks)
      /\ h.outer = SubSeq(f.blocks, 1, j - 1)
      /\ f.blocks[j].catches = h.catches
  BY <1>4 DEF Belongs
<1>6. j \in Catchers(i, v)
  BY CatchersMatch
<1>7. \A l \in Catchers(i, v) : l <= j
  <2> SUFFICES ASSUME NEW l \in Catchers(i, v) PROVE l <= j
    OBVIOUS
  <2>1. PICK n \in Matching(i, v) : TryOf(f.handlers[n]) = l
    BY CatchersMatch
  <2>2. n <= k /\ n \in 1 .. Len(f.handlers) /\ l \in Nat
    BY <1>1, <1>2, <2>1, FrameParts DEF Matching
  <2>3. n < k => l < j
    BY <1>2, <1>3, <2>1, <2>2, ArmedByPosition
  <2> QED
    BY <1>3, <1>4, <2>1, <2>2, <2>3
<1>8. \A m \in i + 1 .. Len(Stack) : Catchers(m, v) = {}
  <2> SUFFICES ASSUME NEW m \in i + 1 .. Len(frames) PROVE Catchers(m, v) = {}
    BY <1>2
  <2>1. m \in 1 .. Len(frames) /\ Matching(m, v) = {}
    BY <1>1, <1>2
  <2> QED
    BY <2>1, CatchersMatch
<1>9. g \in Frame /\ g.blocks = Append(h.outer, c)
  BY <1>1, <1>2, <1>3, CatchArmed
<1>10. Shape(c) = [Stack[i][j] EXCEPT !.block = "catch"]
  <2>1. Stack[i][j] = Shape(f.blocks[j])
    BY <1>2, <1>4, <1>5, ShapesByPosition
  <2>2. c.block = "catch" /\ c.catches = f.blocks[j].catches
    BY <1>1, <1>5
  <2> QED
    BY <2>1, <2>2 DEF Shape
<1>11. Shapes(g.blocks) = Append(SubSeq(Stack[i], 1, j - 1), Shape(c))
  <2>1. Shapes(Append(h.outer, c)) = Append(Shapes(h.outer), Shape(c))
    BY <1>4, ShapesAppend
  <2>2. Shapes(SubSeq(f.blocks, 1, j - 1)) = SubSeq(Shapes(f.blocks), 1, j - 1)
    BY <1>4, <1>5, ShapesPrefix
  <2> QED
    BY <1>2, <1>5, <1>9, <2>1, <2>2
<1>12. StackOf(s) = SubSeq(Stack, 1, i) /\ s \in Seq(Frame) /\ i \in 1 .. Len(s)
       /\ SubSeq(Stack, 1, i)[i] = Stack[i]
  <2>1. s \in Seq(Frame) /\ Len(s) = i /\ s[i] = f
    BY <1>2, FirstFrames
  <2>2. StackOf(s) = SubSeq(Stack, 1, i)
    BY <1>2, StackPrefix DEF Stack
  <2>3. StackOf(s)[i] = Shapes(f.blocks)
    <3> HIDE DEF f, s
    <3>1. \A n \in 1 .. Len(s) : StackOf(s)[n] = Shapes(s[n].blocks)
      BY <1>2, <2>1, StackByPosition
    <3> QED
      BY <1>2, <2>1, <3>1
  <2> QED
    BY <1>2, <2>1, <2>2, <2>3
<1> HIDE DEF g, s, h, j, f
<1>13. StackOf([s EXCEPT ![i] = g]) = [StackOf(s) EXCEPT ![i] = Shapes(g.blocks)]
  <2>1. i \in DOMAIN s
    BY <1>12, LenProperties
  <2> QED
    BY <2>1, StackExcept
<1>14. Stack' = StackOf([s EXCEPT ![i] = g])
  BY <1>1 DEF Stack, StackOf, s, g, h, f
<1>15. Stack' = [SubSeq(Stack, 1, i) EXCEPT ![i] =
                   Append(SubSeq(@, 1, j - 1), [@[j] EXCEPT !.block = "catch"])]
  BY <1>10, <1>11, <1>12, <1>13, <1>14
<1>16. ~EndedOf /\ EndedOf' = EndedOf
  BY DEF EndedOf, Catch
<1> QED
  BY <1>2, <1>6, <1>7, <1>8, <1>15, <1>16, ThrowView

\* What nothing catches ends the program.
LEMMA NoCatchRefines ==
    ASSUME ~JumpsOutOfTry, IInv, status = "run", NEW v \in Value, NoCatch(v)
    PROVE  Promise!Throw
<1>1. /\ DOMAIN Stack = 1 .. Len(frames) /\ DOMAIN frames = 1 .. Len(frames)
      /\ \A i \in 1 .. Len(frames) : frames[i] \in Frame
  BY StackView DEF IInv
<1>2. \A i \in DOMAIN Stack : Catchers(i, v) = {}
  BY <1>1, CatchersMatch DEF NoCatch
<1>3. Stack' = Stack
  <2>1. \A f \in Frame : [f EXCEPT !.handlers = <<>>].blocks = f.blocks
    BY DEF Frame
  <2>2. /\ DOMAIN frames' = DOMAIN frames
        /\ \A i \in DOMAIN frames : frames'[i].blocks = frames[i].blocks
    BY <1>1, <2>1 DEF NoCatch
  <2> QED
    BY <2>2 DEF Stack, StackOf
<1>4. ~EndedOf /\ EndedOf' = TRUE
  BY DEF EndedOf, NoCatch
<1> QED
  BY <1>2, <1>3, <1>4, ThrowView

\* The rest does not touch the blocks.
LEMMA StuttersRefine ==
    ASSUME ClearCall \/ NewFramePointer \/ UNCHANGED vars
    PROVE  UNCHANGED Promise!vars
<1>1. frames' = frames /\ status' = status
  BY DEF ClearCall, NewFramePointer, vars
<1>2. Stack' = Stack /\ EndedOf' = EndedOf
  BY <1>1 DEF Stack, StackOf, EndedOf
<1> QED
  BY <1>2, PromiseView

\* The promise starts with one call and no blocks.
LEMMA InitRefines == Init => Promise!Init
<1> SUFFICES ASSUME Init PROVE Promise!Init
  OBVIOUS
<1>1. DOMAIN frames = {1} /\ frames[1].blocks = <<>> /\ EndedOf = FALSE
  BY DEF Init, EndedOf
<1>2. Stack = << <<>> >>
  BY <1>1, ShapesEmpty DEF Stack, StackOf
<1> QED
  BY <1>1, <1>2, PromiseView

\* In programs that do not jump out of a Try, the machine does what Try, Catch
\* and Throw promise: a value goes to the innermost Try around it that takes
\* it, through any number of calls, and ends the program when there is none.
THEOREM Refinement ==
    ASSUME JumpsOutOfTry = FALSE PROVE Spec => ImplementsTryCatch
<1>1. IInv /\ [Next]_vars => [Promise!Next]_(Promise!vars)
  <2> SUFFICES ASSUME IInv, [Next]_vars PROVE Promise!Next \/ UNCHANGED Promise!vars
    OBVIOUS
  <2>1. CASE OpPushTry \/ OpPopTry \/ OpJump
    BY <2>1, BlocksRefine DEF Promise!Next
  <2>2. CASE PushCall \/ ReturnFromCurrent \/ PointerFails
    BY <2>2, CallsRefine DEF Promise!Next
  <2>3. CASE OpThrow
    BY <2>3, CatchRefines, NoCatchRefines DEF OpThrow, RaiseException, Promise!Next
  <2>4. CASE ClearCall \/ NewFramePointer \/ UNCHANGED vars
    BY <2>4, StuttersRefine
  <2> QED
    BY <2>1, <2>2, <2>3, <2>4 DEF Next, Ended
<1> QED
  BY <1>1, InitRefines, Invariance, PTL DEF Spec, ImplementsTryCatch, Promise!Spec
=============================================================================
