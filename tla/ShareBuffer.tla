---------------------------- MODULE ShareBuffer -----------------------------
(***************************************************************************)
(* The shared buffer of User/protocol/buffer_helper.c: an arena of         *)
(* SEGMENTS segments, a bitmap of the used ones, a best-fit search and the *)
(* length of each block recorded at its first segment.  SHABUF_GetBuffer   *)
(* and SHABUF_FreeBuffer each run inside one OS critical section, so each  *)
(* is one step.  The clients are the pointers of the program that hold a   *)
(* block: the static message pointers of gb_gprs_protocol.c and lwIP's     *)
(* pbufs (lwip/mem.h defines mem_malloc as SHABUF_GetBuffer).              *)
(*                                                                         *)
(* The bitmap word has BITMAP_BITS bits.  On the Cortex-M4 a shift by the  *)
(* width of the word or more gives 0, so a segment at or beyond            *)
(* BITMAP_BITS always reads as free and marking it changes nothing.        *)
(***************************************************************************)
EXTENDS Integers, FiniteSets

CONSTANTS SEGMENTS,      \* BUFFER_SEGMENT_NUMBER
          BITMAP_BITS,   \* the width of shareBitMap
          StaticClients, \* static pointers, acquired only when they are NULL
          PackClients,   \* static pointers data_pack_head acquires unguarded
          LocalClients,  \* pointers dropped after the free, whatever it returns
          Needs          \* Needs[c]: the block lengths c asks for, in segments

Clients == StaticClients \cup PackClients \cup LocalClients
Segs    == 0 .. SEGMENTS - 1
Bits    == 0 .. BITMAP_BITS - 1
NULL    == -1

\* A length is at least one segment; the callers' requests (at most lwIP's
\* TCP segment) are far below the 256 segments at which the u8 parameter of
\* the search and the u8 recorder would truncate.
ASSUME SizesAssumption ==
  /\ SEGMENTS \in Nat \ {0}
  /\ BITMAP_BITS \in Nat \ {0}
  /\ Needs \in [Clients -> SUBSET (1 .. 255)]

VARIABLES
  shareBitMap,      \* the segments whose bit is set
  shareLeftNbr,     \* segments the allocator believes are left
  shareLenRecorder, \* length of the block that starts at a segment, or 0
  ptr,              \* ptr[c]: first segment of c's block, or NULL
  len,              \* len[c]: the length c asked for when it got ptr[c]
  using             \* c is between its acquisition and its free

vars == <<shareBitMap, shareLeftNbr, shareLenRecorder, ptr, len, using>>

Span(s, n) == s .. s + n - 1
Block(c)   == IF ptr[c] = NULL THEN {} ELSE Span(ptr[c], len[c])
---------------------------------------------------------------------------
(* SHABUF_HasVliadBuffer.                                                  *)

\* The maximal runs of clear bits of at least n segments, as <<first, end>>.
Runs(n) ==
  {r \in Segs \X (1 .. SEGMENTS) :
     /\ r[1] + n <= r[2]
     /\ (r[1] .. r[2] - 1) \cap shareBitMap = {}
     /\ r[1] = 0 \/ r[1] - 1 \in shareBitMap
     /\ r[2] = SEGMENTS \/ r[2] \in shareBitMap}

\* A run that ends at a used segment competes for the tightest fit, the first
\* of equals; the run at the end of the arena is taken only for want of one.
Inner(r)     == r[2] < SEGMENTS
Length(r)    == r[2] - r[1]
Prefer(r, q) == \/ Inner(r) /\ ~Inner(q)
                \/ Inner(r) = Inner(q) /\ Length(r) < Length(q)
                \/ Inner(r) = Inner(q) /\ Length(r) = Length(q) /\ r[1] <= q[1]

Tightest(n) == {r[1] : r \in {q \in Runs(n) : \A o \in Runs(n) : Prefer(q, o)}}

\* Mutants: the early refusal left out; only the first segment looked at.
BestFitIgnoresLeft(n) == Tightest(n)
BestFitOfFirstBit(n)  == {s \in Segs \ shareBitMap : n <= shareLeftNbr /\ s + n <= SEGMENTS}

BestFit(n) == IF n <= shareLeftNbr THEN Tightest(n) ELSE {}

\* The same search as the code's loop: match, avail and j, and whether it has
\* returned, after i segments.
ScanStart == [match |-> -1, avail |-> 0, j |-> 0, done |-> FALSE]

ScanSegment(n, p, i) ==
  LET first == IF p.j >= n /\ p.match = -1 THEN i - p.j ELSE p.match
  IN  IF p.done THEN p
      ELSE IF i \notin shareBitMap THEN [p EXCEPT !.match = first, !.j = @ + 1]
      ELSE IF p.j >= n /\ (p.avail > p.j \/ p.avail = 0)
           THEN [match |-> i - p.j, avail |-> p.j, j |-> 0, done |-> p.j = n]
      ELSE [p EXCEPT !.match = first, !.j = 0]

ScanLoop(n) ==
  LET after[i \in 0 .. SEGMENTS] ==
        IF i = 0 THEN ScanStart ELSE ScanSegment(n, after[i - 1], i - 1)
  IN  after

\* Mutant: the code before its "BUG #001" repair, blind to the last run.
ScanWithoutTail(n) == IF n > shareLeftNbr THEN -1 ELSE ScanLoop(n)[SEGMENTS].match

Scan(n) ==
  LET end == ScanLoop(n)[SEGMENTS]
  IN  IF n > shareLeftNbr THEN -1
      ELSE IF ~end.done /\ end.j >= n /\ end.match = -1 THEN SEGMENTS - end.j
      ELSE end.match
---------------------------------------------------------------------------
Init ==
  /\ shareBitMap = {}
  /\ shareLeftNbr = SEGMENTS
  /\ shareLenRecorder = [s \in Segs |-> 0]
  /\ ptr = [c \in Clients |-> NULL]
  /\ len = [c \in Clients |-> 0]
  /\ using = [c \in Clients |-> FALSE]

\* Mutant: shareLeftNbr is not charged.
GetBufferUncharged(c, n, s) ==
  /\ s \in BestFit(n)
  /\ shareBitMap' = shareBitMap \cup (Span(s, n) \cap Bits)
  /\ shareLenRecorder' = [shareLenRecorder EXCEPT ![s] = n]
  /\ ptr' = [ptr EXCEPT ![c] = s]
  /\ len' = [len EXCEPT ![c] = n]
  /\ using' = [using EXCEPT ![c] = TRUE]
  /\ UNCHANGED shareLeftNbr

\* SHABUF_GetBuffer finds a place for n segments and the caller starts to use
\* it.  The bits of segments beyond the word are lost in the shift.
GetBuffer(c, n, s) ==
  /\ s \in BestFit(n)
  /\ shareBitMap' = shareBitMap \cup (Span(s, n) \cap Bits)
  /\ shareLeftNbr' = shareLeftNbr - n
  /\ shareLenRecorder' = [shareLenRecorder EXCEPT ![s] = n]
  /\ ptr' = [ptr EXCEPT ![c] = s]
  /\ len' = [len EXCEPT ![c] = n]
  /\ using' = [using EXCEPT ![c] = TRUE]

\* When there is no place the pointer becomes NULL and the caller gives up.
GetBufferFails(c, n) ==
  /\ BestFit(n) = {}
  /\ ptr' = [ptr EXCEPT ![c] = NULL]
  /\ UNCHANGED <<shareBitMap, shareLeftNbr, shareLenRecorder, len, using>>

\* Does the caller call SHABUF_GetBuffer, or use the pointer it still has?
Acquires(c) == ptr[c] = NULL \/ c \in PackClients

Acquire(c) ==
  /\ ~using[c]
  /\ Acquires(c)
  /\ \E n \in Needs[c] : (\E s \in Segs : GetBuffer(c, n, s)) \/ GetBufferFails(c, n)

Reuse(c) ==
  /\ ~using[c]
  /\ ~Acquires(c)
  /\ using' = [using EXCEPT ![c] = TRUE]
  /\ UNCHANGED <<shareBitMap, shareLeftNbr, shareLenRecorder, ptr, len>>

\* SHABUF_FreeBuffer accepts a pointer whose first bit is set and whose
\* length is recorded.
Freeable(s) == s \in shareBitMap /\ shareLenRecorder[s] > 0

\* Mutant: the loop clears the first bit of the block only.
FreeBufferFirstBit(c) ==
  /\ using[c]
  /\ Freeable(ptr[c])
  /\ shareBitMap' = shareBitMap \ {ptr[c]}
  /\ shareLeftNbr' = shareLeftNbr + shareLenRecorder[ptr[c]]
  /\ shareLenRecorder' = [shareLenRecorder EXCEPT ![ptr[c]] = 0]
  /\ ptr' = [ptr EXCEPT ![c] = NULL]
  /\ using' = [using EXCEPT ![c] = FALSE]
  /\ UNCHANGED len

FreeBuffer(c) ==
  /\ using[c]
  /\ Freeable(ptr[c])
  /\ LET n == shareLenRecorder[ptr[c]]
     IN  /\ shareBitMap' = shareBitMap \ Span(ptr[c], n)
         /\ shareLeftNbr' = shareLeftNbr + n
  /\ shareLenRecorder' = [shareLenRecorder EXCEPT ![ptr[c]] = 0]
  /\ ptr' = [ptr EXCEPT ![c] = NULL]
  /\ using' = [using EXCEPT ![c] = FALSE]
  /\ UNCHANGED len

\* A refused free: a static pointer keeps its value, a local one is lost.
FreeBufferFails(c) ==
  /\ using[c]
  /\ ~Freeable(ptr[c])
  /\ ptr' = IF c \in LocalClients THEN [ptr EXCEPT ![c] = NULL] ELSE ptr
  /\ using' = [using EXCEPT ![c] = FALSE]
  /\ UNCHANGED <<shareBitMap, shareLeftNbr, shareLenRecorder, len>>

Next == \E c \in Clients : Acquire(c) \/ Reuse(c) \/ FreeBuffer(c) \/ FreeBufferFails(c)

Spec == Init /\ [][Next]_vars
---------------------------------------------------------------------------
\* The types: the bitmap holds bits of the word only, shareLeftNbr never wraps
\* below zero, lengths fit their byte (shareBitMap, shareLenRecorder).
TypeOK ==
  /\ shareBitMap \subseteq Segs \cap Bits
  /\ shareLeftNbr \in Nat
  /\ shareLenRecorder \in [Segs -> 0 .. 255]
  /\ ptr \in [Clients -> Segs \cup {NULL}]
  /\ len \in [Clients -> 0 .. 255]
  /\ using \in [Clients -> BOOLEAN]

\* Two clients that use their buffers at the same time write different
\* segments: what SHABUF_GetBuffer returns is nobody else's.  It holds when the
\* word has a bit for every segment (ShareBuffer_proofs) and not otherwise.
UsersDisjoint ==
  \A c, d \in Clients : c # d /\ using[c] /\ using[d] => Block(c) \cap Block(d) = {}

\* The part of c's block that the bitmap can see.
InWord(c) == Block(c) \cap Bits

\* Below the width of the word a set bit is a segment with exactly one owner,
\* who is using it: no block is handed out twice, none is lost when a refused
\* free keeps or drops a pointer or data_pack_head overwrites one.
WordOwnership ==
  /\ shareBitMap = UNION {InWord(c) : c \in Clients}
  /\ \A c, d \in Clients : c # d => InWord(c) \cap InWord(d) = {}
  /\ \A c \in Clients : InWord(c) # {} => using[c]

\* The allocator never believes in more free segments than the bitmap leaves,
\* so the early refusal of the search (n > shareLeftNbr) hides no overdraft.
LeftNbrNeverOverPromises == shareLeftNbr + Cardinality(shareBitMap) <= SEGMENTS

\* The loop of SHABUF_HasVliadBuffer finds the tightest inner run, else the
\* run at the end of the arena, else nothing.
SearchIsBestFit ==
  \A n \in UNION {Needs[c] : c \in Clients} :
    IF BestFit(n) = {} THEN Scan(n) = -1 ELSE BestFit(n) = {Scan(n)}

\* What the word covers of the arena behaves as the abstract pool.
Pool == INSTANCE BufferPool
          WITH Segs <- Segs \cap Bits, owned <- [c \in Clients |-> InWord(c)]
PoolRefined == Pool!PoolSpec
=============================================================================
