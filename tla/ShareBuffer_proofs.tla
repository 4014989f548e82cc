------------------------- MODULE ShareBuffer_proofs -------------------------
(***************************************************************************)
(* Proofs about ShareBuffer for every arena, word width and set of clients.*)
(* The inductive invariant adds to WordOwnership what makes it last: the   *)
(* length recorded at the start of a block is the length its owner asked   *)
(* for, and a pointer the bitmap can see belongs to a client in the middle *)
(* of its use.                                                             *)
(***************************************************************************)
EXTENDS ShareBuffer, FiniteSetTheorems, WellFoundedInduction, TLAPS

BlocksInArena ==
  \A c \in Clients : ptr[c] # NULL => len[c] >= 1 /\ Block(c) \subseteq Segs

VisibleBlocks ==
  \A c \in Clients : ptr[c] \in Bits => using[c] /\ shareLenRecorder[ptr[c]] = len[c]

UsersHavePointers == \A c \in Clients : using[c] => ptr[c] # NULL

IInv ==
  /\ TypeOK
  /\ WordOwnership
  /\ BlocksInArena
  /\ VisibleBlocks
  /\ UsersHavePointers

\* A place the search offers lies in the arena and in no set bit.
LEMMA BestFitIsFree ==
  ASSUME NEW n \in 1 .. 255, NEW s \in BestFit(n)
  PROVE  /\ s \in Segs
         /\ Span(s, n) \subseteq Segs
         /\ Span(s, n) \cap shareBitMap = {}
         /\ n <= shareLeftNbr
<1>1. n <= shareLeftNbr /\ s \in Tightest(n)
  BY DEF BestFit
<1>2. PICK r \in Runs(n) : s = r[1]
  BY <1>1 DEF Tightest
<1>3. /\ r[1] \in 0 .. SEGMENTS - 1 /\ r[2] \in 1 .. SEGMENTS
      /\ r[1] + n <= r[2]
      /\ (r[1] .. r[2] - 1) \cap shareBitMap = {}
  BY DEF Runs, Segs
<1>4. Span(s, n) \subseteq r[1] .. r[2] - 1
  BY <1>2, <1>3 DEF Span
<1>5. r[1] .. r[2] - 1 \subseteq Segs
  BY <1>3, SizesAssumption DEF Segs
<1> QED
  BY <1>1, <1>2, <1>3, <1>4, <1>5 DEF Segs

LEMMA InitIInv == Init => IInv
<1> SUFFICES ASSUME Init PROVE IInv
  OBVIOUS
<1> USE SizesAssumption DEF Init, NULL
<1>1. TypeOK
  BY DEF TypeOK
<1>2. \A c \in Clients : ptr[c] = -1 /\ Block(c) = {} /\ InWord(c) = {}
  BY DEF Block, InWord
<1>3. WordOwnership
  BY <1>2 DEF WordOwnership
<1>4. BlocksInArena /\ UsersHavePointers
  BY <1>2 DEF BlocksInArena, UsersHavePointers
<1>5. VisibleBlocks
  BY <1>2 DEF VisibleBlocks, Bits
<1> QED
  BY <1>1, <1>3, <1>4, <1>5 DEF IInv

\* A granted block was free, so its owner is its only one.
LEMMA GetBufferIInv ==
  ASSUME IInv, NEW c \in Clients, ~using[c], NEW n \in Needs[c], NEW s \in Segs,
         GetBuffer(c, n, s)
  PROVE  IInv'
<1>1. n \in 1 .. 255
  BY SizesAssumption
<1>2. /\ Span(s, n) \subseteq Segs
      /\ Span(s, n) \cap shareBitMap = {}
      /\ n <= shareLeftNbr
  BY <1>1, BestFitIsFree DEF GetBuffer
<1>3. s \in Nat /\ s # NULL
  BY DEF Segs, NULL
<1>4. /\ Block(c)' = Span(s, n)
      /\ \A d \in Clients \ {c} : Block(d)' = Block(d) /\ ptr'[d] = ptr[d] /\ len'[d] = len[d]
      /\ ptr'[c] = s /\ len'[c] = n /\ using'[c] = TRUE
      /\ \A d \in Clients \ {c} : using'[d] = using[d]
  BY <1>3 DEF GetBuffer, IInv, TypeOK, Block
<1>5. InWord(c) = {}
  BY DEF IInv, WordOwnership
<1>6. InWord(c)' = Span(s, n) \cap Bits /\ \A d \in Clients \ {c} : InWord(d)' = InWord(d)
  BY <1>4 DEF InWord
<1>7. TypeOK'
  <2>1. shareBitMap' \subseteq Segs \cap Bits
    BY <1>2 DEF GetBuffer, IInv, TypeOK
  <2>2. shareLeftNbr' \in Nat
    BY <1>1, <1>2 DEF GetBuffer, IInv, TypeOK
  <2> QED
    BY <1>1, <2>1, <2>2 DEF GetBuffer, IInv, TypeOK
<1>8. WordOwnership'
  <2>1. shareBitMap' = UNION {InWord(d)' : d \in Clients}
    <3>1. shareBitMap = UNION {InWord(d) : d \in Clients \ {c}}
      BY <1>5 DEF IInv, WordOwnership
    <3>2. shareBitMap' = shareBitMap \cup InWord(c)'
      BY <1>6 DEF GetBuffer
    <3> QED
      BY <1>6, <3>1, <3>2
  <2>2. \A d \in Clients \ {c} : InWord(d) \subseteq shareBitMap
    BY DEF IInv, WordOwnership
  <2>3. \A d, e \in Clients : d # e => InWord(d)' \cap InWord(e)' = {}
    BY <1>2, <1>6, <2>2 DEF IInv, WordOwnership
  <2>4. \A d \in Clients : InWord(d)' # {} => using'[d]
    BY <1>4, <1>6 DEF IInv, WordOwnership
  <2> QED
    BY <2>1, <2>3, <2>4 DEF WordOwnership
<1>9. BlocksInArena'
  BY <1>1, <1>2, <1>4 DEF IInv, BlocksInArena
<1>10. VisibleBlocks'
  <2>1. shareLenRecorder'[s] = n
    BY DEF GetBuffer, IInv, TypeOK
  <2>2. ASSUME NEW d \in Clients \ {c}, ptr'[d] \in Bits
        PROVE  using'[d] /\ shareLenRecorder'[ptr'[d]] = len'[d]
    <3>1. ptr[d] \in Bits /\ using[d] /\ shareLenRecorder[ptr[d]] = len[d]
      BY <1>4, <2>2 DEF IInv, VisibleBlocks
    <3>2. ptr[d] # NULL /\ ptr[d] \in Segs /\ len[d] \in Nat /\ len[d] >= 1
      BY <3>1 DEF IInv, BlocksInArena, TypeOK, Bits, NULL
    <3>3. ptr[d] \in InWord(d)
      BY <3>1, <3>2 DEF InWord, Block, Span, Segs
    <3>4. ptr[d] \in shareBitMap
      BY <3>3 DEF IInv, WordOwnership
    <3>5. ptr[d] # s
      BY <1>1, <1>2, <1>3, <3>4 DEF Span
    <3>6. shareLenRecorder'[ptr[d]] = shareLenRecorder[ptr[d]]
      BY <3>2, <3>5 DEF GetBuffer, IInv, TypeOK
    <3> QED
      BY <1>4, <3>1, <3>6
  <2> QED
    BY <1>4, <2>1, <2>2 DEF VisibleBlocks
<1>11. UsersHavePointers'
  BY <1>3, <1>4 DEF IInv, UsersHavePointers
<1> QED
  BY <1>7, <1>8, <1>9, <1>10, <1>11 DEF IInv

LEMMA GetBufferFailsIInv ==
  ASSUME IInv, NEW c \in Clients, ~using[c], NEW n \in Needs[c], GetBufferFails(c, n)
  PROVE  IInv'
<1>1. InWord(c) = {}
  BY DEF IInv, WordOwnership
<1>2. /\ \A d \in Clients \ {c} : ptr'[d] = ptr[d] /\ Block(d)' = Block(d) /\ InWord(d)' = InWord(d)
      /\ ptr'[c] = NULL /\ Block(c)' = {} /\ InWord(c)' = {}
      /\ UNCHANGED <<shareBitMap, shareLeftNbr, shareLenRecorder, len, using>>
  BY DEF GetBufferFails, IInv, TypeOK, Block, InWord
<1>3. TypeOK'
  BY <1>2 DEF GetBufferFails, IInv, TypeOK
<1>4. \A d \in Clients : InWord(d)' = InWord(d)
  BY <1>1, <1>2
<1>5. WordOwnership'
  BY <1>2, <1>4 DEF IInv, WordOwnership
<1>6. BlocksInArena'
  BY <1>2 DEF IInv, BlocksInArena
<1>7. VisibleBlocks'
  BY <1>2 DEF IInv, VisibleBlocks, Bits, NULL
<1>8. UsersHavePointers'
  BY <1>2 DEF IInv, UsersHavePointers
<1> QED
  BY <1>3, <1>5, <1>6, <1>7, <1>8 DEF IInv

LEMMA ReuseIInv ==
  ASSUME IInv, NEW c \in Clients, Reuse(c)
  PROVE  IInv'
<1>1. /\ UNCHANGED <<shareBitMap, shareLeftNbr, shareLenRecorder, ptr, len>>
      /\ \A d \in Clients : Block(d)' = Block(d) /\ InWord(d)' = InWord(d)
      /\ \A d \in Clients : using'[d] = (using[d] \/ d = c)
      /\ ptr[c] # NULL
  BY DEF Reuse, Acquires, IInv, TypeOK, Block, InWord
<1>2. TypeOK'
  BY DEF Reuse, IInv, TypeOK
<1>3. WordOwnership'
  BY <1>1 DEF IInv, WordOwnership
<1>4. BlocksInArena' /\ VisibleBlocks' /\ UsersHavePointers'
  BY <1>1 DEF IInv, BlocksInArena, VisibleBlocks, UsersHavePointers
<1> QED
  BY <1>2, <1>3, <1>4 DEF IInv

\* A free that is accepted releases exactly what its caller owns.
LEMMA FreeBufferIInv ==
  ASSUME IInv, NEW c \in Clients, FreeBuffer(c)
  PROVE  IInv'
<1> DEFINE s == ptr[c]
           n == shareLenRecorder[ptr[c]]
<1>1. s \in shareBitMap /\ n > 0
  BY DEF FreeBuffer, Freeable
<1>2. s \in Segs /\ s \in Bits /\ s # NULL /\ n = len[c] /\ n \in 1 .. 255
  <2>1. s \in Segs /\ s \in Bits
    BY <1>1 DEF IInv, TypeOK
  <2>2. n \in 0 .. 255 /\ n > 0
    BY <1>1, <2>1 DEF IInv, TypeOK
  <2>3. s # NULL
    BY <2>1 DEF Bits, NULL
  <2>4. n = len[c]
    BY <2>1 DEF IInv, VisibleBlocks
  <2> QED
    BY <2>1, <2>2, <2>3, <2>4
<1>3. Block(c) = Span(s, n)
  BY <1>2 DEF Block
<1>4. /\ \A d \in Clients \ {c} : /\ ptr'[d] = ptr[d] /\ using'[d] = using[d]
                                  /\ Block(d)' = Block(d) /\ InWord(d)' = InWord(d)
      /\ ptr'[c] = NULL /\ using'[c] = FALSE /\ Block(c)' = {} /\ InWord(c)' = {}
      /\ len' = len
  BY DEF FreeBuffer, IInv, TypeOK, Block, InWord
<1>5. TypeOK'
  <2>1. shareBitMap' \subseteq Segs \cap Bits
    BY DEF FreeBuffer, IInv, TypeOK
  <2>2. shareLeftNbr' \in Nat
    <3>1. shareLeftNbr' = shareLeftNbr + n /\ shareLeftNbr \in Nat
      BY DEF FreeBuffer, IInv, TypeOK
    <3> QED
      BY <1>2, <3>1
  <2>3. shareLenRecorder' \in [Segs -> 0 .. 255]
    <3>1. shareLenRecorder' = [shareLenRecorder EXCEPT ![s] = 0]
      BY DEF FreeBuffer
    <3>2. shareLenRecorder \in [Segs -> 0 .. 255] /\ 0 \in 0 .. 255
      BY DEF IInv, TypeOK
    <3> HIDE DEF s, n
    <3> QED
      BY <3>1, <3>2
  <2>4. ptr' \in [Clients -> Segs \cup {NULL}] /\ using' \in [Clients -> BOOLEAN]
    BY DEF FreeBuffer, IInv, TypeOK
  <2>5. len' \in [Clients -> 0 .. 255]
    BY DEF FreeBuffer, IInv, TypeOK
  <2> QED
    BY <2>1, <2>2, <2>3, <2>4, <2>5 DEF TypeOK
<1>6. WordOwnership'
  <2>1. shareBitMap' = shareBitMap \ Block(c)
    BY <1>3 DEF FreeBuffer
  <2>2. \A d \in Clients \ {c} : InWord(d) \cap Block(c) = {}
    BY DEF IInv, WordOwnership, InWord
  <2>3. InWord(c) \subseteq Block(c)
    BY DEF InWord
  <2>4. shareBitMap' = UNION {InWord(d)' : d \in Clients}
    BY <1>4, <2>1, <2>2, <2>3 DEF IInv, WordOwnership
  <2>5. \A d, e \in Clients : d # e => InWord(d)' \cap InWord(e)' = {}
    BY <1>4 DEF IInv, WordOwnership
  <2>6. \A d \in Clients : InWord(d)' # {} => using'[d]
    BY <1>4 DEF IInv, WordOwnership
  <2> QED
    BY <2>4, <2>5, <2>6 DEF WordOwnership
<1>7. BlocksInArena'
  BY <1>4 DEF IInv, BlocksInArena
<1>8. VisibleBlocks'
  <2> SUFFICES ASSUME NEW d \in Clients, ptr'[d] \in Bits
               PROVE  using'[d] /\ shareLenRecorder'[ptr'[d]] = len'[d]
    BY DEF VisibleBlocks
  <2>1. d # c
    BY <1>4 DEF Bits, NULL
  <2>2. ptr'[d] = ptr[d] /\ using'[d] = using[d] /\ len'[d] = len[d]
    BY <1>4, <2>1
  <2>3. using[d] /\ shareLenRecorder[ptr[d]] = len[d]
    BY <2>2 DEF IInv, VisibleBlocks
  <2>4. ptr[d] \in Segs /\ ptr[d] \in Bits /\ ptr[d] # NULL /\ len[d] \in Nat /\ len[d] >= 1
    BY <2>2 DEF IInv, TypeOK, BlocksInArena, Bits, NULL
  <2>5. ptr[d] \in InWord(d) /\ s \in InWord(c)
    BY <1>2, <1>3, <2>4 DEF InWord, Block, Span, Segs
  <2>6. ptr[d] # s
    BY <2>1, <2>5 DEF IInv, WordOwnership
  <2>7. shareLenRecorder'[ptr[d]] = shareLenRecorder[ptr[d]]
    BY <2>4, <2>6 DEF FreeBuffer, IInv, TypeOK
  <2> QED
    BY <2>2, <2>3, <2>7
<1>9. UsersHavePointers'
  BY <1>4 DEF IInv, UsersHavePointers
<1> QED
  BY <1>5, <1>6, <1>7, <1>8, <1>9 DEF IInv

\* A refused free can only be about a block the bitmap does not see.
LEMMA FreeBufferFailsIInv ==
  ASSUME IInv, NEW c \in Clients, FreeBufferFails(c)
  PROVE  IInv'
<1>1. ptr[c] \in Segs /\ len[c] \in 1 .. 255 /\ ptr[c] # NULL
  BY SizesAssumption DEF FreeBufferFails, IInv, TypeOK, UsersHavePointers, BlocksInArena, Segs, NULL
<1>2. ptr[c] \notin Bits
  <2> SUFFICES ASSUME ptr[c] \in Bits PROVE FALSE
    OBVIOUS
  <2>1. ptr[c] \in InWord(c)
    BY <1>1 DEF InWord, Block, Span, Segs
  <2>2. ptr[c] \in shareBitMap
    BY <2>1 DEF IInv, WordOwnership
  <2>3. shareLenRecorder[ptr[c]] = len[c]
    BY DEF IInv, VisibleBlocks
  <2> QED
    BY <1>1, <2>2, <2>3 DEF FreeBufferFails, Freeable
<1>3. InWord(c) = {}
  BY <1>1, <1>2, SizesAssumption DEF InWord, Block, Span, Bits, Segs
<1>4. /\ \A d \in Clients \ {c} : ptr'[d] = ptr[d] /\ using'[d] = using[d]
      /\ ptr'[c] \in {ptr[c], NULL} /\ using'[c] = FALSE
      /\ UNCHANGED <<shareBitMap, shareLeftNbr, shareLenRecorder, len>>
  BY DEF FreeBufferFails, IInv, TypeOK
<1>5. \A d \in Clients : Block(d)' \subseteq Block(d)
  BY <1>4 DEF Block
<1>6. \A d \in Clients : InWord(d)' = InWord(d)
  <2>1. \A d \in Clients \ {c} : InWord(d)' = InWord(d)
    BY <1>4 DEF InWord, Block
  <2>2. InWord(c)' = {}
    BY <1>3, <1>5 DEF InWord
  <2> QED
    BY <1>3, <2>1, <2>2
<1>7. TypeOK'
  BY DEF FreeBufferFails, IInv, TypeOK
<1>8. WordOwnership'
  BY <1>3, <1>4, <1>6 DEF IInv, WordOwnership
<1>9. BlocksInArena'
  BY <1>4, <1>5 DEF IInv, BlocksInArena
<1>10. VisibleBlocks'
  BY <1>2, <1>4 DEF IInv, VisibleBlocks, Bits, NULL
<1>11. UsersHavePointers'
  BY <1>4 DEF IInv, UsersHavePointers
<1> QED
  BY <1>7, <1>8, <1>9, <1>10, <1>11 DEF IInv

LEMMA NextIInv == IInv /\ [Next]_vars => IInv'
<1> SUFFICES ASSUME IInv, [Next]_vars PROVE IInv'
  OBVIOUS
<1>1. CASE UNCHANGED vars
  BY <1>1 DEF vars, IInv, TypeOK, WordOwnership, BlocksInArena, VisibleBlocks,
              UsersHavePointers, Block, InWord
<1>2. ASSUME NEW c \in Clients, Acquire(c) PROVE IInv'
  BY <1>2, GetBufferIInv, GetBufferFailsIInv DEF Acquire
<1>3. ASSUME NEW c \in Clients, Reuse(c) PROVE IInv'
  BY <1>3, ReuseIInv
<1>4. ASSUME NEW c \in Clients, FreeBuffer(c) PROVE IInv'
  BY <1>4, FreeBufferIInv
<1>5. ASSUME NEW c \in Clients, FreeBufferFails(c) PROVE IInv'
  BY <1>5, FreeBufferFailsIInv
<1> QED
  BY <1>1, <1>2, <1>3, <1>4, <1>5 DEF Next

LEMMA Inductive == Spec => []IInv
BY InitIInv, NextIInv, PTL DEF Spec

\* The allocator's variables keep their types.
THEOREM TypeCorrect == Spec => []TypeOK
<1>1. IInv => TypeOK
  BY DEF IInv
<1> QED
  BY <1>1, Inductive, PTL

\* As far as the word of the bitmap reaches, every set bit has exactly one
\* owner and the owner is using it (SHABUF_GetBuffer, SHABUF_FreeBuffer).
THEOREM WordOwned == Spec => []WordOwnership
<1>1. IInv => WordOwnership
  BY DEF IInv
<1> QED
  BY <1>1, Inductive, PTL

\* Were the word as wide as the arena is long, SHABUF_GetBuffer would never
\* give two users the same segment.
THEOREM WideWordIsSafe == SEGMENTS <= BITMAP_BITS => (Spec => []UsersDisjoint)
<1> SUFFICES ASSUME SEGMENTS <= BITMAP_BITS PROVE Spec => []UsersDisjoint
  OBVIOUS
<1>1. IInv => UsersDisjoint
  <2> SUFFICES ASSUME IInv, NEW c \in Clients, NEW d \in Clients, c # d
               PROVE  Block(c) \cap Block(d) = {}
    BY DEF UsersDisjoint
  <2>1. Segs \subseteq Bits
    BY SizesAssumption DEF Segs, Bits
  <2>2. Block(c) \subseteq Segs /\ Block(d) \subseteq Segs
    BY DEF IInv, BlocksInArena, Block
  <2>3. InWord(c) \cap InWord(d) = {}
    BY DEF IInv, WordOwnership
  <2> QED
    BY <2>1, <2>2, <2>3 DEF InWord
<1> QED
  BY <1>1, Inductive, PTL

\* What the word covers implements the abstract pool: a grant takes free
\* segments for one owner, a free gives all of them back, and the rest (a
\* block beyond the word, a refused free) leaves the pool alone.
THEOREM ImplementsPool == Spec => PoolRefined
<1> DEFINE own == [c \in Clients |-> InWord(c)]
<1>1. Init => Pool!PoolInit
  BY DEF Init, Pool!PoolInit, InWord, Block
<1>2. IInv /\ [Next]_vars => [Pool!PoolNext]_own
  <2> SUFFICES ASSUME IInv, [Next]_vars PROVE Pool!PoolNext \/ own' = own
    OBVIOUS
  <2>1. CASE UNCHANGED vars
    BY <2>1 DEF vars, InWord, Block
  <2>2. ASSUME NEW c \in Clients, ~using[c], NEW n \in Needs[c], NEW s \in Segs,
               GetBuffer(c, n, s)
        PROVE  Pool!PoolNext \/ own' = own
    <3> DEFINE B == Span(s, n) \cap Bits
    <3>1. own[c] = {}
      BY <2>2 DEF IInv, WordOwnership
    <3>2. s # NULL
      BY DEF Segs, NULL
    <3>3. own' = [own EXCEPT ![c] = B]
      BY <2>2, <3>2 DEF GetBuffer, IInv, TypeOK, InWord, Block
    <3>4. n \in 1 .. 255
      BY SizesAssumption
    <3>5. Span(s, n) \subseteq Segs /\ Span(s, n) \cap shareBitMap = {}
      BY <2>2, <3>4, BestFitIsFree DEF GetBuffer
    <3>6. shareBitMap = UNION {own[d] : d \in Clients}
      BY DEF IInv, WordOwnership
    <3>7. B \subseteq Pool!Free
      BY <3>5, <3>6 DEF Pool!Free
    <3>8. CASE B = {}
      BY <3>1, <3>3, <3>8
    <3>9. CASE B # {}
      <4>1. Pool!Take(c, B)
        BY <3>1, <3>3, <3>7, <3>9 DEF Pool!Take
      <4>2. B \in SUBSET (Segs \cap Bits)
        BY <3>5
      <4> QED
        BY <4>1, <4>2 DEF Pool!PoolNext
    <3> QED
      BY <3>8, <3>9
  <2>3. ASSUME NEW c \in Clients, ~using[c], NEW n \in Needs[c], GetBufferFails(c, n)
        PROVE  own' = own
    <3>1. InWord(c) = {}
      BY <2>3 DEF IInv, WordOwnership
    <3>2. \A d \in Clients : InWord(d)' = InWord(d)
      BY <2>3, <3>1 DEF GetBufferFails, IInv, TypeOK, InWord, Block
    <3> QED
      BY <3>2
  <2>4. ASSUME NEW c \in Clients, Reuse(c) PROVE own' = own
    BY <2>4 DEF Reuse, InWord, Block
  <2>5. ASSUME NEW c \in Clients, FreeBuffer(c) PROVE Pool!PoolNext \/ own' = own
    <3>1. own' = [own EXCEPT ![c] = {}]
      BY <2>5 DEF FreeBuffer, IInv, TypeOK, InWord, Block
    <3>2. CASE own[c] = {}
      BY <3>1, <3>2
    <3>3. CASE own[c] # {}
      BY <3>1, <3>3 DEF Pool!Give, Pool!PoolNext
    <3> QED
      BY <3>2, <3>3
  <2>6. ASSUME NEW c \in Clients, FreeBufferFails(c) PROVE own' = own
    <3>1. \A d \in Clients \ {c} : InWord(d)' = InWord(d)
      BY <2>6 DEF FreeBufferFails, IInv, TypeOK, InWord, Block
    <3>2. IInv' /\ using'[c] = FALSE
      BY <2>6, FreeBufferFailsIInv DEF FreeBufferFails, IInv, TypeOK
    <3>3. InWord(c)' = {}
      BY <3>2 DEF IInv, WordOwnership
    <3>4. InWord(c) = {}
      BY <2>6, <3>1, <3>2, <3>3 DEF IInv, WordOwnership, FreeBufferFails
    <3> QED
      BY <3>1, <3>3, <3>4
  <2> QED
    BY <2>1, <2>2, <2>3, <2>4, <2>5, <2>6 DEF Next, Acquire
<1> QED
  BY <1>1, <1>2, Inductive, PTL DEF Spec, PoolRefined, Pool!PoolSpec
-----------------------------------------------------------------------------
(***************************************************************************)
(* The segments that shareLeftNbr was charged for and may yet be given     *)
(* back: the whole blocks of which the bitmap sees the first segment.  A   *)
(* block beyond the word is charged and never given back.                  *)
(***************************************************************************)
Charged == UNION {Block(c) : c \in {d \in Clients : ptr[d] \in Bits}}

ChargedOK == shareLeftNbr + Cardinality(Charged) <= SEGMENTS

LEMMA SpanSize ==
  ASSUME NEW s \in Nat, NEW n \in Nat
  PROVE  IsFiniteSet(Span(s, n)) /\ Cardinality(Span(s, n)) = n
<1>1. /\ IsFiniteSet(s .. s + n - 1)
      /\ Cardinality(s .. s + n - 1) = IF s > s + n - 1 THEN 0 ELSE (s + n - 1) - s + 1
  BY FS_Interval
<1> QED
  BY <1>1 DEF Span

LEMMA ChargedFinite ==
  ASSUME IInv
  PROVE  /\ Charged \subseteq Segs /\ shareBitMap \subseteq Charged
         /\ IsFiniteSet(Charged) /\ Cardinality(Charged) \in Nat
         /\ Cardinality(shareBitMap) <= Cardinality(Charged)
         /\ Cardinality(shareBitMap) \in Nat
<1>1. Charged \subseteq Segs
  BY DEF Charged, IInv, BlocksInArena, Bits, NULL
<1>2. IsFiniteSet(Segs)
  BY SpanSize, FS_Interval, SizesAssumption DEF Segs
<1>3. shareBitMap \subseteq Charged
  <2> SUFFICES ASSUME NEW b \in shareBitMap PROVE b \in Charged
    OBVIOUS
  <2>1. PICK c \in Clients : b \in InWord(c)
    BY DEF IInv, WordOwnership
  <2>2. ptr[c] # NULL /\ ptr[c] \in Segs /\ b \in Block(c) /\ b \in Bits /\ b >= ptr[c]
    <3>1. ptr[c] # NULL /\ b \in Span(ptr[c], len[c]) /\ b \in Bits
      BY <2>1 DEF InWord, Block
    <3>2. ptr[c] \in Segs /\ len[c] \in Nat
      BY <3>1 DEF IInv, TypeOK
    <3> QED
      BY <3>1, <3>2 DEF Span, Segs, Block
  <2>3. ptr[c] \in Bits
    BY <2>2, SizesAssumption DEF Bits, Segs
  <2> QED
    BY <2>2, <2>3 DEF Charged
<1>4. IsFiniteSet(Charged) /\ Cardinality(shareBitMap) <= Cardinality(Charged)
  BY <1>1, <1>2, <1>3, FS_Subset
<1>5. Cardinality(Charged) \in Nat /\ Cardinality(shareBitMap) \in Nat
  BY <1>3, <1>4, FS_CardinalityType, FS_Subset
<1> QED
  BY <1>1, <1>3, <1>4, <1>5

\* Two blocks that begin in the word are disjoint beyond it too: there only
\* one of them can reach.
LEMMA ChargedDisjoint ==
  ASSUME IInv, NEW c \in Clients, NEW d \in Clients, c # d, ptr[c] \in Bits, ptr[d] \in Bits
  PROVE  Block(c) \cap Block(d) = {}
<1>1. /\ ptr[c] # NULL /\ ptr[d] # NULL /\ ptr[c] \in Nat /\ ptr[d] \in Nat
      /\ len[c] \in Nat /\ len[d] \in Nat
  BY DEF Bits, NULL, IInv, TypeOK
<1>2. Block(c) = ptr[c] .. ptr[c] + len[c] - 1 /\ Block(d) = ptr[d] .. ptr[d] + len[d] - 1
  BY <1>1 DEF Block, Span
<1>3. \A b \in Bits : ~(b \in Block(c) /\ b \in Block(d))
  BY DEF IInv, WordOwnership, InWord
<1> SUFFICES ASSUME NEW b, b \in Block(c), b \in Block(d) PROVE FALSE
  OBVIOUS
<1>4. ptr[c] >= ptr[d] => ptr[c] \in Block(c) /\ ptr[c] \in Block(d)
  BY <1>1, <1>2
<1>5. ptr[d] >= ptr[c] => ptr[d] \in Block(c) /\ ptr[d] \in Block(d)
  BY <1>1, <1>2
<1> QED
  BY <1>1, <1>3, <1>4, <1>5

LEMMA InitCharged == Init => ChargedOK
<1> SUFFICES ASSUME Init PROVE ChargedOK
  OBVIOUS
<1>1. Charged = {}
  BY DEF Init, Charged, Block
<1> QED
  BY <1>1, FS_EmptySet, SizesAssumption DEF Init, ChargedOK

LEMMA NextCharged == ASSUME IInv, ChargedOK, [Next]_vars PROVE ChargedOK'
<1>1. CASE UNCHANGED vars
  BY <1>1 DEF vars, ChargedOK, Charged, Block
<1>2. CASE shareLeftNbr' = shareLeftNbr /\ Charged' = Charged
  BY <1>2 DEF ChargedOK
<1>3. ASSUME NEW c \in Clients, ~using[c], NEW n \in Needs[c], NEW s \in Segs,
             GetBuffer(c, n, s)
      PROVE  ChargedOK'
  <2>1. n \in 1 .. 255 /\ s \in Nat
    BY SizesAssumption DEF Segs
  <2>2. Charged' \subseteq Charged \cup Span(s, n)
    <3>1. \A d \in Clients \ {c} : ptr'[d] = ptr[d] /\ len'[d] = len[d]
      BY <1>3 DEF GetBuffer, IInv, TypeOK
    <3>2. Block(c)' = Span(s, n)
      BY <1>3, <2>1 DEF GetBuffer, IInv, TypeOK, Block, NULL
    <3>3. \A d \in Clients \ {c} : Block(d)' = Block(d)
      BY <3>1 DEF Block
    <3> QED
      BY <3>1, <3>2, <3>3 DEF Charged
  <2>3. /\ IsFiniteSet(Span(s, n)) /\ Cardinality(Span(s, n)) = n
        /\ IsFiniteSet(Charged) /\ Cardinality(Charged) \in Nat
    BY <2>1, SpanSize, ChargedFinite
  <2>4. /\ IsFiniteSet(Charged \cup Span(s, n))
        /\ Cardinality(Charged \cup Span(s, n)) <= Cardinality(Charged) + n
    <3>1. /\ IsFiniteSet(Charged \cup Span(s, n))
          /\ Cardinality(Charged \cup Span(s, n)) =
               Cardinality(Charged) + Cardinality(Span(s, n)) - Cardinality(Charged \cap Span(s, n))
      BY <2>3, FS_Union
    <3>2. Cardinality(Charged \cap Span(s, n)) \in Nat
      BY <2>3, FS_Intersection, FS_CardinalityType
    <3> QED
      BY <2>1, <2>3, <3>1, <3>2
  <2>5. Cardinality(Charged') <= Cardinality(Charged) + n /\ Cardinality(Charged') \in Nat
    <3>1. IsFiniteSet(Charged') /\ Cardinality(Charged') <= Cardinality(Charged \cup Span(s, n))
      BY <2>2, <2>4, FS_Subset
    <3>2. Cardinality(Charged') \in Nat /\ Cardinality(Charged \cup Span(s, n)) \in Nat
      BY <2>4, <3>1, FS_CardinalityType
    <3> QED
      BY <2>1, <2>3, <2>4, <3>1, <3>2
  <2>6. shareLeftNbr' = shareLeftNbr - n /\ shareLeftNbr \in Nat
    BY <1>3 DEF GetBuffer, IInv, TypeOK
  <2> QED
    BY <2>1, <2>3, <2>5, <2>6, SizesAssumption DEF ChargedOK
<1>4. ASSUME NEW c \in Clients, ~using[c], NEW n \in Needs[c], GetBufferFails(c, n)
      PROVE  ChargedOK'
  <2>1. ptr[c] \notin Bits
    BY <1>4 DEF IInv, VisibleBlocks
  <2>2. \A d \in Clients \ {c} : ptr'[d] = ptr[d] /\ Block(d)' = Block(d)
    BY <1>4 DEF GetBufferFails, IInv, TypeOK, Block
  <2>3. ptr'[c] \notin Bits
    BY <1>4 DEF GetBufferFails, IInv, TypeOK, Bits, NULL
  <2>4. Charged' = Charged
    BY <2>1, <2>2, <2>3 DEF Charged
  <2> QED
    BY <1>2, <1>4, <2>4 DEF GetBufferFails
<1>5. ASSUME NEW c \in Clients, Reuse(c) PROVE ChargedOK'
  BY <1>2, <1>5 DEF Reuse, Charged, Block
<1>6. ASSUME NEW c \in Clients, FreeBuffer(c) PROVE ChargedOK'
  <2> DEFINE s == ptr[c]
             n == shareLenRecorder[ptr[c]]
  <2>1. s \in Bits /\ s \in Nat /\ s # NULL /\ n = len[c] /\ n \in Nat
    <3>1. s \in shareBitMap
      BY <1>6 DEF FreeBuffer, Freeable
    <3>2. s \in Bits
      BY <3>1 DEF IInv, TypeOK
    <3>3. n = len[c]
      BY <3>2 DEF IInv, VisibleBlocks
    <3>4. len[c] \in 0 .. 255
      BY DEF IInv, TypeOK
    <3> QED
      BY <3>2, <3>3, <3>4 DEF Bits, NULL
  <2>2. Block(c) = Span(s, n) /\ Block(c) \subseteq Charged
    BY <2>1 DEF Block, Charged
  <2>3. Charged' = Charged \ Block(c)
    <3>1. \A d \in Clients \ {c} : ptr'[d] = ptr[d] /\ Block(d)' = Block(d)
      BY <1>6 DEF FreeBuffer, IInv, TypeOK, Block
    <3>2. ptr'[c] \notin Bits
      BY <1>6 DEF FreeBuffer, IInv, TypeOK, Bits, NULL
    <3>3. \A d \in Clients \ {c} : ptr[d] \in Bits => Block(d) \cap Block(c) = {}
      BY <2>1, ChargedDisjoint
    <3> QED
      BY <3>1, <3>2, <3>3 DEF Charged
  <2>4. Cardinality(Charged') = Cardinality(Charged) - n
    <3>1. IsFiniteSet(Charged) /\ Cardinality(Block(c)) = n
      BY <2>1, <2>2, SpanSize, ChargedFinite
    <3>2. Cardinality(Charged \ Block(c)) = Cardinality(Charged) - Cardinality(Charged \cap Block(c))
      BY <3>1, FS_Difference
    <3>3. Charged \cap Block(c) = Block(c)
      BY <2>2
    <3> QED
      BY <2>3, <3>1, <3>2, <3>3
  <2>5. shareLeftNbr' = shareLeftNbr + n /\ shareLeftNbr \in Nat
    BY <1>6 DEF FreeBuffer, IInv, TypeOK
  <2>6. Cardinality(Charged) \in Nat
    BY ChargedFinite
  <2> HIDE DEF n
  <2> QED
    BY <2>1, <2>4, <2>5, <2>6, SizesAssumption DEF ChargedOK
<1>7. ASSUME NEW c \in Clients, FreeBufferFails(c) PROVE ChargedOK'
  <2>1. ptr[c] \notin Bits
    <3> SUFFICES ASSUME ptr[c] \in Bits PROVE FALSE
      OBVIOUS
    <3>1. ptr[c] \in Segs /\ ptr[c] # NULL /\ len[c] \in 0 .. 255 /\ len[c] >= 1
      BY DEF IInv, TypeOK, BlocksInArena, Bits, NULL
    <3>2. ptr[c] \in InWord(c)
      BY <3>1 DEF InWord, Block, Span, Segs
    <3>3. ptr[c] \in shareBitMap /\ shareLenRecorder[ptr[c]] = len[c]
      BY <3>2 DEF IInv, WordOwnership, VisibleBlocks
    <3> QED
      BY <1>7, <3>1, <3>3 DEF FreeBufferFails, Freeable
  <2>2. \A d \in Clients \ {c} : ptr'[d] = ptr[d] /\ Block(d)' = Block(d)
    BY <1>7 DEF FreeBufferFails, IInv, TypeOK, Block
  <2>3. ptr'[c] \in {ptr[c], NULL}
    BY <1>7 DEF FreeBufferFails, IInv, TypeOK
  <2>4. Charged' = Charged
    BY <2>1, <2>2, <2>3 DEF Charged, Bits, NULL
  <2> QED
    BY <1>2, <1>7, <2>4 DEF FreeBufferFails
<1> QED
  BY <1>1, <1>3, <1>4, <1>5, <1>6, <1>7 DEF Next, Acquire

\* shareLeftNbr never promises more segments than the bitmap leaves, though a
\* block beyond the word is lost to it for ever: so the early refusal of
\* SHABUF_HasVliadBuffer hides no overdraft.
THEOREM NeverOverPromises == Spec => []LeftNbrNeverOverPromises
<1>1. Init => IInv /\ ChargedOK
  BY InitIInv, InitCharged
<1>2. IInv /\ ChargedOK /\ [Next]_vars => (IInv /\ ChargedOK)'
  BY NextIInv, NextCharged
<1>3. IInv /\ ChargedOK => LeftNbrNeverOverPromises
  <2> SUFFICES ASSUME IInv, ChargedOK PROVE LeftNbrNeverOverPromises
    OBVIOUS
  <2>1. /\ Cardinality(shareBitMap) <= Cardinality(Charged)
        /\ Cardinality(shareBitMap) \in Nat /\ Cardinality(Charged) \in Nat
        /\ shareLeftNbr \in Nat
    BY ChargedFinite DEF IInv, TypeOK
  <2> QED
    BY <2>1, SizesAssumption DEF ChargedOK, LeftNbrNeverOverPromises
<1> QED
  BY <1>1, <1>2, <1>3, PTL DEF Spec
-----------------------------------------------------------------------------
(***************************************************************************)
(* The search, whatever the bitmap.  The loop is a recursive function: it  *)
(* exists, and its states are what they are, by induction over the         *)
(* segments, which the least element of a set of numbers provides.         *)
(***************************************************************************)
LEMMA LeastNumber ==
  ASSUME NEW T \in SUBSET Nat, T # {}
  PROVE  \E x \in T : \A y \in T : x <= y
<1> DEFINE R == OpToRel(<, Nat)
<1>1. IsWellFoundedOn(R, Nat)
  BY NatLessThanWellFounded, Zenon
<1> HIDE DEF R
<1>2. PICK x \in T : \A y \in T : <<y, x>> \notin R
  BY <1>1, WFMin
<1>3. \A y \in T : y < x => <<y, x>> \in R
  BY DEF R, OpToRel
<1>4. \A y \in T : y \in Nat /\ x \in Nat /\ ~(y < x)
  BY <1>2, <1>3
<1>5. \A y \in T : x <= y
  BY <1>4
<1> QED
  BY <1>5

LEMMA Induction ==
  ASSUME NEW n \in Nat, NEW Good \in SUBSET (0 .. n), 0 \in Good,
         \A i \in Good : i < n => i + 1 \in Good
  PROVE  \A i \in 0 .. n : i \in Good
<1> DEFINE Bad == (0 .. n) \ Good
<1> SUFFICES ASSUME Bad # {} PROVE FALSE
  OBVIOUS
<1>1. Bad \in SUBSET Nat
  OBVIOUS
<1> HIDE DEF Bad
<1>2. PICK x \in Bad : \A y \in Bad : x <= y
  BY <1>1, LeastNumber
<1>3. x \in 0 .. n /\ x \notin Good
  BY <1>2 DEF Bad
<1>4. x # 0 /\ x - 1 \in 0 .. n /\ x - 1 \notin Bad
  BY <1>2, <1>3
<1>5. x - 1 \in Good /\ x - 1 < n /\ x - 1 + 1 = x
  BY <1>3, <1>4 DEF Bad
<1> QED
  BY <1>3, <1>5

\* The loop's states, one after the other.
LEMMA ScanLoopStates ==
  ASSUME NEW n
  PROVE  /\ ScanLoop(n)[0] = ScanStart
         /\ \A i \in 0 .. SEGMENTS - 1 : ScanLoop(n)[i + 1] = ScanSegment(n, ScanLoop(n)[i], i)
<1> DEFINE Loop(g, m) == g = [i \in 0 .. m |-> IF i = 0 THEN ScanStart
                                              ELSE ScanSegment(n, g[i - 1], i - 1)]
           Good == {m \in 0 .. SEGMENTS : \E g : Loop(g, m)}
<1>1. 0 \in Good
  <2> DEFINE g == [i \in 0 .. 0 |-> ScanStart]
  <2>1. \A i \in 0 .. 0 : i = 0
    OBVIOUS
  <2>2. Loop(g, 0)
    BY <2>1
  <2> HIDE DEF g
  <2>3. 0 \in 0 .. SEGMENTS
    BY SizesAssumption
  <2> QED
    BY <2>2, <2>3
<1>2. ASSUME NEW m \in Good, m < SEGMENTS PROVE m + 1 \in Good
  <2>1. PICK g : Loop(g, m)
    OBVIOUS
  <2>2. m \in 0 .. SEGMENTS /\ m + 1 \in 0 .. SEGMENTS
    BY <1>2, SizesAssumption
  <2> DEFINE h == [i \in 0 .. m + 1 |-> IF i = 0 THEN ScanStart
                                        ELSE ScanSegment(n, g[i - 1], i - 1)]
  <2>3. \A i \in 0 .. m : h[i] = g[i]
    BY <2>1, <2>2
  <2>4. \A i \in 0 .. m + 1 : i # 0 => i - 1 \in 0 .. m
    BY <2>2
  <2>5. \A i \in 0 .. m + 1 : h[i] = IF i = 0 THEN ScanStart ELSE ScanSegment(n, h[i - 1], i - 1)
    <3> SUFFICES ASSUME NEW i \in 0 .. m + 1
                 PROVE  h[i] = IF i = 0 THEN ScanStart ELSE ScanSegment(n, h[i - 1], i - 1)
      OBVIOUS
    <3>1. h[i] = IF i = 0 THEN ScanStart ELSE ScanSegment(n, g[i - 1], i - 1)
      OBVIOUS
    <3>2. i # 0 => h[i - 1] = g[i - 1]
      BY <2>3, <2>4
    <3> QED
      BY <3>1, <3>2
  <2>6. h = [i \in 0 .. m + 1 |-> h[i]]
    OBVIOUS
  <2> HIDE DEF h
  <2>7. Loop(h, m + 1)
    BY <2>5, <2>6
  <2> QED
    BY <2>2, <2>7
<1>3. \E g : Loop(g, SEGMENTS)
  <2>1. SEGMENTS \in Nat /\ SEGMENTS \in 0 .. SEGMENTS
    BY SizesAssumption
  <2>2. Good \in SUBSET (0 .. SEGMENTS)
    OBVIOUS
  <2>3. \A i \in Good : i < SEGMENTS => i + 1 \in Good
    BY <1>2
  <2>4. SEGMENTS \in Good
    <3> HIDE DEF Good
    <3> QED
      BY <1>1, <2>1, <2>2, <2>3, Induction
  <2> QED
    BY <2>4
<1>4. Loop(ScanLoop(n), SEGMENTS)
  BY <1>3 DEF ScanLoop
<1>5. \A i \in 0 .. SEGMENTS :
        ScanLoop(n)[i] = IF i = 0 THEN ScanStart ELSE ScanSegment(n, ScanLoop(n)[i - 1], i - 1)
  BY <1>4
<1>6. 0 \in 0 .. SEGMENTS
  BY SizesAssumption
<1>7. \A i \in 0 .. SEGMENTS - 1 : i + 1 \in 0 .. SEGMENTS /\ i + 1 # 0 /\ i + 1 - 1 = i
  BY SizesAssumption
<1> QED
  BY <1>5, <1>6, <1>7

\* A run of clear bits, and what the search prefers, by their ends.
IsRun(a, b, n) ==
  /\ a \in Nat /\ b \in Nat /\ a + n <= b /\ a < SEGMENTS /\ b <= SEGMENTS
  /\ \A x \in Nat : a <= x /\ x < b => x \notin shareBitMap
  /\ a = 0 \/ a - 1 \in shareBitMap
  /\ b = SEGMENTS \/ b \in shareBitMap

LEMMA RunsAre ==
  ASSUME NEW n \in 1 .. 255
  PROVE  /\ \A r \in Runs(n) : IsRun(r[1], r[2], n) /\ r = <<r[1], r[2]>>
         /\ \A a, b : IsRun(a, b, n) => <<a, b>> \in Runs(n)
<1>1. ASSUME NEW r \in Runs(n) PROVE IsRun(r[1], r[2], n) /\ r = <<r[1], r[2]>>
  <2>1. /\ r \in Segs \X (1 .. SEGMENTS) /\ r[1] + n <= r[2]
        /\ (r[1] .. r[2] - 1) \cap shareBitMap = {}
        /\ r[1] = 0 \/ r[1] - 1 \in shareBitMap
        /\ r[2] = SEGMENTS \/ r[2] \in shareBitMap
    BY DEF Runs
  <2>2. r[1] \in 0 .. SEGMENTS - 1 /\ r[2] \in 1 .. SEGMENTS /\ r = <<r[1], r[2]>>
    BY <2>1 DEF Segs
  <2>3. \A x \in Nat : r[1] <= x /\ x < r[2] => x \in r[1] .. r[2] - 1
    BY <2>2, SizesAssumption
  <2> QED
    BY <2>1, <2>2, <2>3, SizesAssumption DEF IsRun
<1>2. ASSUME NEW a, NEW b, IsRun(a, b, n) PROVE <<a, b>> \in Runs(n)
  <2>1. a \in Segs /\ b \in 1 .. SEGMENTS
    BY <1>2, SizesAssumption DEF IsRun, Segs
  <2>2. (a .. b - 1) \cap shareBitMap = {}
    BY <1>2, SizesAssumption DEF IsRun
  <2> QED
    BY <1>2, <2>1, <2>2 DEF IsRun, Runs
<1> QED
  BY <1>1, <1>2

(***************************************************************************)
(* What the loop knows after i segments: the length of the clear run that  *)
(* ends there, and the tightest, first run that ended before; or, without  *)
(* one, the start of the run it is in, if that is longer than needed.      *)
(***************************************************************************)
Tighter(a, b, n, i) ==
  /\ IsRun(a, b, n) /\ b < i
  /\ \A c, d \in Nat : IsRun(c, d, n) /\ d < i => b - a < d - c \/ (b - a = d - c /\ a <= c)

Running(n, i, p) ==
  /\ p.j <= i /\ (p.j = i \/ i - p.j - 1 \in shareBitMap)
  /\ \A x \in Nat : i - p.j <= x /\ x < i => x \notin shareBitMap
  /\ p.avail = 0 =>
       /\ \A c, d \in Nat : IsRun(c, d, n) => d >= i
       /\ p.match = IF p.j > n THEN i - p.j ELSE -1
  /\ p.avail # 0 => p.avail > n /\ Tighter(p.match, p.match + p.avail, n, i)

LoopStates == [match : Int, avail : Nat, j : Nat, done : BOOLEAN]

LoopOK(n, i, p) ==
  /\ p \in LoopStates
  /\ p.done => Tighter(p.match, p.match + n, n, SEGMENTS)
  /\ ~p.done => Running(n, i, p)

LEMMA LoopStarts ==
  ASSUME NEW n \in 1 .. 255 PROVE LoopOK(n, 0, ScanStart)
BY DEF LoopOK, LoopStates, Running, IsRun, ScanStart

\* A run ends at a used segment, or with the arena, when the clear bits before
\* suffice.
LEMMA RunEnds ==
  ASSUME NEW n \in 1 .. 255, NEW i \in Nat, i <= SEGMENTS, i = SEGMENTS \/ i \in shareBitMap,
         NEW j \in Nat, j <= i,
         j = i \/ i - j - 1 \in shareBitMap,
         \A x \in Nat : i - j <= x /\ x < i => x \notin shareBitMap
  PROVE  /\ j >= n => IsRun(i - j, i, n)
         /\ \A c \in Nat : IsRun(c, i, n) => c = i - j /\ j >= n
<1>1. i \in Nat /\ SEGMENTS \in Nat
  BY SizesAssumption
<1>2. j >= n => IsRun(i - j, i, n)
  BY <1>1 DEF IsRun
<1>3. ASSUME NEW c \in Nat, IsRun(c, i, n) PROVE c = i - j /\ j >= n
  <2>1. c + n <= i /\ (c = 0 \/ c - 1 \in shareBitMap)
    BY <1>3 DEF IsRun
  <2>2. ~(c < i - j)
    <3> SUFFICES ASSUME c < i - j PROVE FALSE
      OBVIOUS
    <3>1. i - j - 1 \in shareBitMap /\ i - j - 1 \in Nat /\ c <= i - j - 1 /\ i - j - 1 < i
      BY <1>1, <2>1
    <3> QED
      BY <1>3, <3>1 DEF IsRun
  <2>3. ~(c > i - j)
    <3> SUFFICES ASSUME c > i - j PROVE FALSE
      OBVIOUS
    <3>1. c - 1 \in shareBitMap /\ c - 1 \in Nat /\ i - j <= c - 1 /\ c - 1 < i
      BY <1>1, <2>1
    <3> QED
      BY <3>1
  <2> QED
    BY <1>1, <2>1, <2>2, <2>3
<1> QED
  BY <1>2, <1>3

LEMMA LoopGoesOn ==
  ASSUME TypeOK, NEW n \in 1 .. 255, NEW i \in Segs, NEW p, LoopOK(n, i, p)
  PROVE  LoopOK(n, i + 1, ScanSegment(n, p, i))
<1>1. /\ p \in LoopStates
      /\ i \in Nat /\ i < SEGMENTS /\ SEGMENTS \in Nat /\ n \in Nat /\ n >= 1
  BY SizesAssumption DEF LoopOK, Segs
<1>2. p.match \in Int /\ p.avail \in Nat /\ p.j \in Nat /\ p.done \in BOOLEAN
  BY <1>1 DEF LoopStates
<1> DEFINE q == ScanSegment(n, p, i)
           first == IF p.j >= n /\ p.match = -1 THEN i - p.j ELSE p.match
<1>3. first \in Int
  BY <1>1, <1>2
<1>4. CASE p.done
  <2>1. q = p
    BY <1>4 DEF ScanSegment
  <2> HIDE DEF q
  <2>2. LoopOK(n, i + 1, q)
    BY <1>4, <2>1 DEF LoopOK
  <2> QED
    BY <2>2 DEF q
<1>5. CASE ~p.done /\ i \notin shareBitMap
  <2>1. q = [p EXCEPT !.match = first, !.j = p.j + 1]
    BY <1>5 DEF ScanSegment
  <2>2. /\ q \in LoopStates
        /\ q.match = IF p.j >= n /\ p.match = -1 THEN i - p.j ELSE p.match
        /\ q.avail = p.avail /\ q.j = p.j + 1 /\ ~q.done
    <3> DEFINE k == p.j + 1
    <3>1. k \in Nat /\ q = [p EXCEPT !.match = first, !.j = k]
      BY <1>2, <2>1
    <3> HIDE DEF q, first, k
    <3>2. /\ q \in LoopStates /\ q.match = first /\ q.avail = p.avail /\ q.j = k
          /\ q.done = p.done
      BY <1>1, <1>3, <3>1 DEF LoopStates
    <3> QED
      BY <1>5, <3>2, Zenon DEF first, k
  <2> HIDE DEF q
  <2>3. /\ p.j <= i /\ (p.j = i \/ i - p.j - 1 \in shareBitMap)
        /\ \A x \in Nat : i - p.j <= x /\ x < i => x \notin shareBitMap
    BY <1>5 DEF LoopOK, Running
  <2>4. /\ q.j <= i + 1 /\ (q.j = i + 1 \/ (i + 1) - q.j - 1 \in shareBitMap)
        /\ \A x \in Nat : (i + 1) - q.j <= x /\ x < i + 1 => x \notin shareBitMap
    BY <1>1, <1>2, <1>5, <2>2, <2>3
  <2>5. \A c, d \in Nat : IsRun(c, d, n) => d # i
    BY <1>1, <1>2, <1>5 DEF IsRun
  <2>6. CASE p.avail = 0
    <3>1. /\ \A c, d \in Nat : IsRun(c, d, n) => d >= i
          /\ p.match = IF p.j > n THEN i - p.j ELSE -1
      BY <1>5, <2>6 DEF LoopOK, Running
    <3>2. \A c, d \in Nat : IsRun(c, d, n) => d >= i + 1
      BY <1>1, <1>2, <2>5, <3>1
    <3>3. q.match = IF q.j > n THEN (i + 1) - q.j ELSE -1
      BY <1>1, <1>2, <2>2, <2>3, <3>1
    <3>4a. Running(n, i + 1, q)
      BY <2>2, <2>4, <2>6, <3>2, <3>3, Zenon DEF Running
    <3>4. LoopOK(n, i + 1, q)
      BY <2>2, <3>4a, Zenon DEF LoopOK
    <3> QED
      BY <3>4 DEF q
  <2>7. CASE p.avail # 0
    <3>1. p.avail > n /\ Tighter(p.match, p.match + p.avail, n, i)
      BY <1>5, <2>7 DEF LoopOK, Running
    <3>2. q.match = p.match
      BY <2>2, <3>1 DEF Tighter, IsRun
    <3>3. Tighter(p.match, p.match + p.avail, n, i + 1)
      <4>1. IsRun(p.match, p.match + p.avail, n) /\ p.match + p.avail < i + 1
        BY <1>1, <1>2, <3>1 DEF Tighter
      <4>2. \A c, d \in Nat : IsRun(c, d, n) /\ d < i + 1 => d < i
        BY <1>1, <1>2, <2>5
      <4> QED
        BY <3>1, <4>1, <4>2 DEF Tighter
    <3>4a. Running(n, i + 1, q)
      BY <2>2, <2>4, <2>7, <3>1, <3>2, <3>3, Zenon DEF Running
    <3>4. LoopOK(n, i + 1, q)
      BY <2>2, <3>4a, Zenon DEF LoopOK
    <3> QED
      BY <3>4 DEF q
  <2> QED
    BY <2>6, <2>7
<1>6. CASE ~p.done /\ i \in shareBitMap
  <2>1. /\ p.j \in Nat /\ p.avail \in Nat /\ p.match \in Int
        /\ p.j <= i /\ (p.j = i \/ i - p.j - 1 \in shareBitMap)
        /\ \A x \in Nat : i - p.j <= x /\ x < i => x \notin shareBitMap
    BY <1>1, <1>2, <1>6 DEF LoopOK, Running
  <2>2. /\ p.j >= n => IsRun(i - p.j, i, n)
        /\ \A c \in Nat : IsRun(c, i, n) => c = i - p.j /\ p.j >= n
    <3> DEFINE k == p.j
    <3>1. /\ k \in Nat /\ k <= i /\ (k = i \/ i - k - 1 \in shareBitMap)
          /\ \A x \in Nat : i - k <= x /\ x < i => x \notin shareBitMap
      BY <2>1
    <3>2. i \in Nat /\ i <= SEGMENTS /\ (i = SEGMENTS \/ i \in shareBitMap)
      BY <1>1, <1>6
    <3> HIDE DEF k
    <3>3. /\ k >= n => IsRun(i - k, i, n)
          /\ \A c \in Nat : IsRun(c, i, n) => c = i - k /\ k >= n
      BY <3>1, <3>2, RunEnds
    <3> QED
      BY <3>3 DEF k
  <2>3. CASE p.j >= n /\ (p.avail > p.j \/ p.avail = 0)
    <3>1. q = [match |-> i - p.j, avail |-> p.j, j |-> 0, done |-> p.j = n]
      BY <1>6, <2>3 DEF ScanSegment
    <3>2. /\ q \in LoopStates
          /\ q.match = i - p.j /\ q.avail = p.j /\ q.j = 0
      BY <1>1, <1>2, <2>1, <3>1 DEF LoopStates
    <3>3. q.done = (p.j = n)
      BY <3>1
    <3> HIDE DEF q
    <3>4. \A c, d \in Nat : IsRun(c, d, n) /\ d < i => p.j < d - c
      <4>1. CASE p.avail = 0
        BY <1>1, <1>2, <1>6, <4>1 DEF LoopOK, Running
      <4>2. CASE p.avail # 0
        <5>1. /\ p.avail > p.j
              /\ \A c, d \in Nat : IsRun(c, d, n) /\ d < i => p.avail <= d - c
          BY <1>1, <1>2, <1>6, <2>1, <2>3, <4>2 DEF LoopOK, Running, Tighter
        <5> QED
          BY <1>1, <1>2, <2>1, <5>1
      <4> QED
        BY <4>1, <4>2
    <3>5. Tighter(i - p.j, i, n, i + 1)
      <4>1. IsRun(i - p.j, i, n) /\ i < i + 1
        BY <1>1, <1>2, <2>2, <2>3
      <4>2. ASSUME NEW c \in Nat, NEW d \in Nat, IsRun(c, d, n), d < i + 1
            PROVE  i - (i - p.j) < d - c \/ (i - (i - p.j) = d - c /\ i - p.j <= c)
        <5>1. CASE d = i
          BY <1>1, <1>2, <2>1, <2>2, <4>2, <5>1
        <5>2. CASE d < i
          BY <1>1, <1>2, <2>1, <3>4, <4>2, <5>2
        <5> QED
          BY <1>1, <1>2, <4>2, <5>1, <5>2
      <4> QED
        BY <4>1, <4>2 DEF Tighter
    <3>6. CASE p.j = n
      <4>1. q.match + n = i
        BY <1>1, <1>2, <2>1, <3>2, <3>6
      <4>2. ASSUME NEW c \in Nat, NEW d \in Nat, IsRun(c, d, n), d < SEGMENTS
            PROVE  i - q.match < d - c \/ (i - q.match = d - c /\ q.match <= c)
        <5>1. CASE d < i + 1
          BY <3>2, <3>5, <4>2, <5>1 DEF Tighter
        <5>2. CASE ~(d < i + 1)
          <6>1. d > i /\ c + n <= d
            BY <1>1, <1>2, <4>2, <5>2 DEF IsRun
          <6>2. c > i
            BY <1>1, <1>2, <1>6, <4>2, <6>1 DEF IsRun
          <6> QED
            BY <1>1, <1>2, <2>1, <3>2, <3>6, <4>1, <6>1, <6>2
        <5> QED
          BY <5>1, <5>2
      <4>3. Tighter(q.match, i, n, SEGMENTS)
        BY <1>1, <1>2, <2>2, <2>3, <3>2, <4>2 DEF Tighter
      <4>4. LoopOK(n, i + 1, q)
        BY <3>2, <3>3, <3>6, <4>1, <4>3 DEF LoopOK
      <4> QED
        BY <4>4 DEF q
    <3>7. CASE p.j # n
      <4>1. q.avail > n /\ q.avail # 0 /\ q.match + q.avail = i /\ (i + 1) - q.j - 1 = i /\ q.j <= i + 1
        BY <1>1, <1>2, <2>1, <2>3, <3>2, <3>7
      <4>2. Tighter(q.match, q.match + q.avail, n, i + 1)
        BY <3>2, <3>5, <4>1
      <4>3. \A x \in Nat : ~((i + 1) - q.j <= x /\ x < i + 1)
        BY <1>1, <1>2, <3>2
      <4>4a. Running(n, i + 1, q)
        BY <1>6, <4>1, <4>2, <4>3, Zenon DEF Running
      <4>4. LoopOK(n, i + 1, q)
        BY <3>2, <3>3, <3>7, <4>4a, Zenon DEF LoopOK
      <4> QED
        BY <4>4 DEF q
    <3> QED
      BY <3>6, <3>7
  <2>4. CASE ~(p.j >= n /\ (p.avail > p.j \/ p.avail = 0))
    <3>1. q = [p EXCEPT !.match = first, !.j = 0]
      BY <1>6, <2>4 DEF ScanSegment
    <3>2. /\ q \in LoopStates
          /\ q.match = IF p.j >= n /\ p.match = -1 THEN i - p.j ELSE p.match
          /\ q.avail = p.avail /\ q.j = 0 /\ ~q.done
      <4> HIDE DEF q, first
      <4>1. /\ q \in LoopStates /\ q.match = first /\ q.avail = p.avail /\ q.j = 0
            /\ q.done = p.done
        BY <1>1, <1>3, <3>1 DEF LoopStates
      <4> QED
        BY <1>6, <4>1, Zenon DEF first
    <3> HIDE DEF q
    <3>3. /\ q.j <= i + 1 /\ (i + 1) - q.j - 1 \in shareBitMap
          /\ \A x \in Nat : ~((i + 1) - q.j <= x /\ x < i + 1)
      BY <1>1, <1>2, <1>6, <3>2
    <3>4. CASE p.avail = 0
      <4>1. p.j < n /\ p.match = -1 /\ \A c, d \in Nat : IsRun(c, d, n) => d >= i
        BY <1>1, <1>2, <1>6, <2>1, <2>4, <3>4 DEF LoopOK, Running
      <4>2. \A c, d \in Nat : IsRun(c, d, n) => d >= i + 1
        BY <1>1, <1>2, <2>1, <2>2, <4>1
      <4>3. q.match = -1 /\ ~(q.j > n)
        BY <1>1, <1>2, <2>1, <3>2, <4>1
      <4>4a. Running(n, i + 1, q)
        BY <3>2, <3>3, <3>4, <4>2, <4>3, Zenon DEF Running
      <4>4. LoopOK(n, i + 1, q)
        BY <3>2, <4>4a, Zenon DEF LoopOK
      <4> QED
        BY <4>4 DEF q
    <3>5. CASE p.avail # 0
      <4>1. p.avail > n /\ Tighter(p.match, p.match + p.avail, n, i)
        BY <1>6, <3>5 DEF LoopOK, Running
      <4>2. q.match = p.match /\ p.match \in Nat /\ p.match + p.avail < i
        BY <3>2, <4>1 DEF Tighter, IsRun
      <4>3. ASSUME NEW c \in Nat, NEW d \in Nat, IsRun(c, d, n), d < i + 1
            PROVE  p.avail < d - c \/ (p.avail = d - c /\ p.match <= c)
        <5>1. CASE d = i
          <6>1. c = i - p.j /\ p.j >= n /\ p.avail <= p.j
            BY <2>1, <2>2, <2>4, <3>5, <4>3, <5>1
          <6>2. d - c = p.j /\ p.match + p.avail < i /\ p.match \in Int
            BY <1>1, <1>2, <2>1, <4>2, <5>1, <6>1
          <6>3. p.avail = p.j => p.match <= c
            BY <1>1, <1>2, <6>1, <6>2
          <6> QED
            BY <1>1, <1>2, <6>1, <6>2, <6>3
        <5>2. CASE d < i
          <6>1. \/ (p.match + p.avail) - p.match < d - c
                \/ (p.match + p.avail) - p.match = d - c /\ p.match <= c
            BY <4>1, <4>3, <5>2 DEF Tighter
          <6> QED
            BY <2>1, <4>2, <6>1
        <5> QED
          BY <1>1, <1>2, <4>3, <5>1, <5>2
      <4>4. Tighter(p.match, p.match + p.avail, n, i + 1)
        <5>1. (p.match + p.avail) - p.match = p.avail /\ p.match + p.avail < i + 1
          BY <1>1, <1>2, <2>1, <4>2
        <5> QED
          BY <4>1, <4>3, <5>1 DEF Tighter
      <4>5a. Running(n, i + 1, q)
        BY <3>2, <3>3, <3>5, <4>1, <4>2, <4>4, Zenon DEF Running
      <4>5. LoopOK(n, i + 1, q)
        BY <3>2, <4>5a, Zenon DEF LoopOK
      <4> QED
        BY <4>5 DEF q
    <3> QED
      BY <3>4, <3>5
  <2> QED
    BY <2>3, <2>4
<1> QED
  BY <1>1, <1>2, <1>4, <1>5, <1>6

LEMMA LoopDone ==
  ASSUME TypeOK, NEW n \in 1 .. 255
  PROVE  LoopOK(n, SEGMENTS, ScanLoop(n)[SEGMENTS])
<1> DEFINE Good == {i \in 0 .. SEGMENTS : LoopOK(n, i, ScanLoop(n)[i])}
<1>1. SEGMENTS \in Nat /\ 0 \in 0 .. SEGMENTS /\ SEGMENTS \in 0 .. SEGMENTS
  BY SizesAssumption
<1>2. 0 \in Good
  BY <1>1, ScanLoopStates, LoopStarts
<1>3. ASSUME NEW i \in Good, i < SEGMENTS PROVE i + 1 \in Good
  <2>1. i \in Segs /\ i \in 0 .. SEGMENTS - 1 /\ i + 1 \in 0 .. SEGMENTS
    BY <1>1, <1>3 DEF Segs
  <2>2. LoopOK(n, i, ScanLoop(n)[i])
    OBVIOUS
  <2>3. LoopOK(n, i + 1, ScanSegment(n, ScanLoop(n)[i], i))
    BY <2>1, <2>2, LoopGoesOn
  <2>4. ScanLoop(n)[i + 1] = ScanSegment(n, ScanLoop(n)[i], i)
    BY <2>1, ScanLoopStates
  <2> QED
    BY <2>1, <2>3, <2>4
<1>4. Good \in SUBSET (0 .. SEGMENTS)
  OBVIOUS
<1>5. SEGMENTS \in Good
  <2> HIDE DEF Good
  <2> QED
    BY <1>1, <1>2, <1>3, <1>4, Induction
<1> QED
  BY <1>5

\* A run that is preferred to every other is the one the search is for.
LEMMA OneTightest ==
  ASSUME NEW n \in 1 .. 255, NEW r \in Runs(n), \A o \in Runs(n) : Prefer(r, o)
  PROVE  Tightest(n) = {r[1]}
<1>1. r[1] \in Tightest(n)
  BY DEF Tightest
<1>2. ASSUME NEW q \in Runs(n), \A o \in Runs(n) : Prefer(q, o) PROVE q[1] = r[1]
  <2>1. Prefer(q, r) /\ Prefer(r, q)
    BY <1>2
  <2>2. /\ q[1] \in Int /\ q[2] \in Int /\ r[1] \in Int /\ r[2] \in Int /\ SEGMENTS \in Int
    BY SizesAssumption DEF Runs, Segs
  <2> QED
    BY <2>1, <2>2 DEF Prefer, Inner, Length
<1>3. \A s \in Tightest(n) : s = r[1]
  BY <1>2 DEF Tightest
<1> QED
  BY <1>1, <1>3

LEMMA InnerTightest ==
  ASSUME NEW n \in 1 .. 255, NEW a, NEW b, Tighter(a, b, n, SEGMENTS)
  PROVE  Tightest(n) = {a}
<1>1. /\ IsRun(a, b, n) /\ b < SEGMENTS
      /\ \A c, d \in Nat : IsRun(c, d, n) /\ d < SEGMENTS =>
           b - a < d - c \/ (b - a = d - c /\ a <= c)
  BY DEF Tighter
<1> DEFINE r == <<a, b>>
<1>2. r \in Runs(n) /\ r[1] = a /\ r[2] = b
  BY <1>1, RunsAre
<1>3. ASSUME NEW o \in Runs(n) PROVE Prefer(r, o)
  <2>1. IsRun(o[1], o[2], n) /\ o[1] \in Nat /\ o[2] \in Nat /\ a \in Nat /\ b \in Nat
    BY <1>1, RunsAre DEF IsRun
  <2>2. o[2] < SEGMENTS => b - a < o[2] - o[1] \/ (b - a = o[2] - o[1] /\ a <= o[1])
    BY <1>1, <2>1
  <2> HIDE DEF r
  <2> QED
    BY <1>1, <1>2, <2>1, <2>2 DEF Prefer, Inner, Length
<1> HIDE DEF r
<1> QED
  BY <1>2, <1>3, OneTightest

LEMMA ScanIsBestFit ==
  ASSUME TypeOK, NEW n \in 1 .. 255
  PROVE  IF BestFit(n) = {} THEN Scan(n) = -1 ELSE BestFit(n) = {Scan(n)}
<1>1. SEGMENTS \in Nat /\ SEGMENTS >= 1 /\ shareLeftNbr \in Nat
  BY SizesAssumption DEF TypeOK
<1>2. CASE n > shareLeftNbr
  <2>1. BestFit(n) = {} /\ Scan(n) = -1
    BY <1>1, <1>2 DEF BestFit, Scan
  <2> QED
    BY <2>1
<1>3. CASE ~(n > shareLeftNbr)
  <2> DEFINE e == ScanLoop(n)[SEGMENTS]
  <2>1. BestFit(n) = Tightest(n)
    BY <1>1, <1>3 DEF BestFit
  <2>2. Scan(n) = IF ~e.done /\ e.j >= n /\ e.match = -1 THEN SEGMENTS - e.j ELSE e.match
    BY <1>3 DEF Scan
  <2>3. LoopOK(n, SEGMENTS, e)
    BY LoopDone
  <2> HIDE DEF e
  <2>4. e.match \in Int /\ e.avail \in Nat /\ e.j \in Nat
    BY <2>3 DEF LoopOK, LoopStates
  <2>5. CASE e.done
    <3>1. Tightest(n) = {e.match}
      BY <2>3, <2>5, InnerTightest DEF LoopOK
    <3>2. Scan(n) = e.match
      BY <2>2, <2>5, Zenon
    <3> QED
      BY <2>1, <3>1, <3>2
  <2>6. CASE ~e.done
    <3>1. Running(n, SEGMENTS, e)
      BY <2>3, <2>6, Zenon DEF LoopOK
    <3>2. Scan(n) = IF e.j >= n /\ e.match = -1 THEN SEGMENTS - e.j ELSE e.match
      BY <2>2, <2>6, Zenon
    <3>3. CASE e.avail # 0
      <4>1. Tighter(e.match, e.match + e.avail, n, SEGMENTS)
        BY <3>1, <3>3 DEF Running
      <4>2. Tightest(n) = {e.match}
        BY <4>1, InnerTightest
      <4>3. e.match \in Nat /\ e.match # -1
        BY <4>1 DEF Tighter, IsRun
      <4> QED
        BY <2>1, <3>2, <4>2, <4>3
    <3>4. CASE e.avail = 0
      <4>1. /\ \A c, d \in Nat : IsRun(c, d, n) => d >= SEGMENTS
            /\ e.match = IF e.j > n THEN SEGMENTS - e.j ELSE -1
            /\ e.j <= SEGMENTS /\ (e.j = SEGMENTS \/ SEGMENTS - e.j - 1 \in shareBitMap)
            /\ \A x \in Nat : SEGMENTS - e.j <= x /\ x < SEGMENTS => x \notin shareBitMap
        BY <3>1, <3>4 DEF Running
      <4>2. /\ e.j >= n => IsRun(SEGMENTS - e.j, SEGMENTS, n)
            /\ \A c \in Nat : IsRun(c, SEGMENTS, n) => c = SEGMENTS - e.j /\ e.j >= n
        <5> DEFINE k == e.j
                   i == SEGMENTS
        <5>1. /\ k \in Nat /\ k <= i /\ (k = i \/ i - k - 1 \in shareBitMap)
              /\ \A x \in Nat : i - k <= x /\ x < i => x \notin shareBitMap
          BY <2>4, <4>1
        <5>2. i \in Nat /\ i <= SEGMENTS /\ (i = SEGMENTS \/ i \in shareBitMap)
          BY <1>1
        <5> HIDE DEF k, i
        <5>3. /\ k >= n => IsRun(i - k, i, n)
              /\ \A c \in Nat : IsRun(c, i, n) => c = i - k /\ k >= n
          BY <5>1, <5>2, RunEnds
        <5> QED
          BY <5>3 DEF k, i
      <4>3. \A r \in Runs(n) : /\ r = <<r[1], r[2]>> /\ IsRun(r[1], r[2], n)
                               /\ r[2] = SEGMENTS /\ r[1] = SEGMENTS - e.j /\ e.j >= n
        <5> SUFFICES ASSUME NEW r \in Runs(n)
                     PROVE  /\ r = <<r[1], r[2]>> /\ IsRun(r[1], r[2], n)
                            /\ r[2] = SEGMENTS /\ r[1] = SEGMENTS - e.j /\ e.j >= n
          OBVIOUS
        <5>1. /\ r = <<r[1], r[2]>> /\ IsRun(r[1], r[2], n)
              /\ r[1] \in Nat /\ r[2] \in Nat /\ r[2] <= SEGMENTS
          BY RunsAre DEF IsRun
        <5>2. r[2] = SEGMENTS
          BY <1>1, <4>1, <5>1
        <5> QED
          BY <4>2, <5>1, <5>2
      <4>5. CASE e.j >= n
        <5> DEFINE r == <<SEGMENTS - e.j, SEGMENTS>>
        <5>1. r \in Runs(n) /\ r[1] = SEGMENTS - e.j /\ r[2] = SEGMENTS
          BY <4>2, <4>5, RunsAre
        <5>2. \A o \in Runs(n) : Prefer(r, o)
          <6> HIDE DEF r
          <6> SUFFICES ASSUME NEW o \in Runs(n) PROVE Prefer(r, o)
            OBVIOUS
          <6>1. o[2] = SEGMENTS /\ o[1] = SEGMENTS - e.j
            BY <4>3
          <6> QED
            BY <1>1, <2>4, <5>1, <6>1 DEF Prefer, Inner, Length
        <5>3. Tightest(n) = {SEGMENTS - e.j}
          <6> HIDE DEF r
          <6> QED
            BY <5>1, <5>2, OneTightest
        <5>4. Scan(n) = SEGMENTS - e.j
          BY <1>1, <2>4, <3>2, <4>1, <4>5
        <5> QED
          BY <2>1, <5>3, <5>4
      <4>6. CASE ~(e.j >= n)
        <5>1. Runs(n) = {}
          BY <4>3, <4>6
        <5>2. Tightest(n) = {}
          BY <5>1 DEF Tightest
        <5>3. Scan(n) = -1
          BY <1>1, <2>4, <3>2, <4>1, <4>6
        <5> QED
          BY <2>1, <5>2, <5>3
      <4> QED
        BY <4>5, <4>6
    <3> QED
      BY <3>3, <3>4
  <2> QED
    BY <2>5, <2>6
<1> QED
  BY <1>2, <1>3

\* SHABUF_HasVliadBuffer finds what it is for: the tightest run that ends at a
\* used segment, the first of equals, else the run at the end of the arena, else
\* nothing, in one pass over the bits, whatever the arena and the bitmap.
THEOREM SearchFindsBestFit == Spec => []SearchIsBestFit
<1>1. TypeOK => SearchIsBestFit
  <2> SUFFICES ASSUME TypeOK, NEW n \in UNION {Needs[c] : c \in Clients}
               PROVE  IF BestFit(n) = {} THEN Scan(n) = -1 ELSE BestFit(n) = {Scan(n)}
    BY DEF SearchIsBestFit
  <2>1. n \in 1 .. 255
    BY SizesAssumption
  <2> QED
    BY <2>1, ScanIsBestFit
<1> QED
  BY <1>1, TypeCorrect, PTL
=============================================================================
