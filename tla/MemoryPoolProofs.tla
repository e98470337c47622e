-------------------------- MODULE MemoryPoolProofs --------------------------
(***************************************************************************)
(* The memory pool is correct for any number of blocks of any size: types, *)
(* the exact free list, what clients hold, and the contract of BlockPool,  *)
(* proved from one inductive invariant, Inv.  FreeListExact is the part    *)
(* that carries the others: without it a pop could hand out a block twice, *)
(* and the counter stays within BlockCount only because the free blocks    *)
(* are listed once.                                                        *)
(***************************************************************************)
EXTENDS MemoryPool, FiniteSetTheorems, TLAPS

Inv == TypeOK /\ FreeListExact /\ OutstandingExact

(* What the steps below use of a listing of the free blocks.               *)
LEMMA Listing ==
    ASSUME TypeOK,
           NEW s \in [1 .. g_available_blocks -> Blocks], IsFreeList(s)
    PROVE  /\ \A a, b \in 1 .. g_available_blocks : s[a] = s[b] => a = b
           /\ g_free_list_head # POOL_END_OF_LIST =>
                 /\ g_available_blocks \in Nat \ {0}
                 /\ g_free_list_head = s[1]
                 /\ g_pool_allocated[s[1]] = 0
           /\ g_free_list_head = POOL_END_OF_LIST => g_available_blocks = 0
           /\ \A b \in Blocks : g_pool_allocated[b] # 0 =>
                 \A p \in 1 .. g_available_blocks : s[p] # b
BY MemoryAssumption DEF TypeOK, IsFreeList, IsInjective, Blocks, POOL_END_OF_LIST

(* A pointer is the start of at most the block it is mapped to.            *)
LEMMA BlockIndexType ==
    ASSUME NEW ptr \in Int, block_index(ptr) >= 0
    PROVE  block_index(ptr) \in Blocks
BY MemoryAssumption DEF block_index, Blocks

(* Quotient and remainder, and that nothing else is.                       *)
LEMMA Division ==
    ASSUME NEW a \in Int, NEW d \in Nat \ {0}
    PROVE  /\ a \div d \in Int /\ a % d \in 0 .. d - 1
           /\ a = d * (a \div d) + (a % d)
OBVIOUS
LEMMA DivisionIsUnique ==
    ASSUME NEW a \in Int, NEW d \in Nat \ {0}, NEW k \in Int, NEW r \in 0 .. d - 1,
           a = d * k + r
    PROVE  a \div d = k /\ a % d = r
OBVIOUS

(***************************************************************************)
(* memory_free() acts on the block whose address it is given, up to the    *)
(* addresses that the cast to int makes one, and on no other.              *)
(***************************************************************************)
LEMMA SameBlock ==
    ASSUME NEW ptr \in Int, NEW b \in Blocks
    PROVE  SameAsInt(Address(b), ptr) <=> block_index(ptr) = b
<1> DEFINE N == IntModulus * BlockSize
<1>1. b \in Nat /\ 2 * b < IntModulus /\ b < IntModulus /\ IntModulus \in Nat \ {0} /\ BlockSize \in Nat \ {0}
  BY MemoryAssumption DEF Blocks
<1>2. N \in Nat \ {0} /\ b * BlockSize \in Int
  BY <1>1
<1>3. ASSUME SameAsInt(Address(b), ptr)
      PROVE  block_index(ptr) = b
  <2>1. PICK k \in Int : ptr - b * BlockSize = N * k
    <3> HIDE DEF N
    <3>1. (ptr - b * BlockSize) % N = 0
      BY <1>3 DEF SameAsInt, Address, N
    <3> DEFINE a == ptr - b * BlockSize
    <3>2. a \in Int
      BY <1>2
    <3> HIDE DEF a
    <3>3. a \div N \in Int /\ a = N * (a \div N) + (a % N)
      BY <1>2, <3>2, Division
    <3>4. a = N * (a \div N)
      BY <1>2, <3>1, <3>3 DEF a
    <3> QED BY <3>3, <3>4 DEF a
  <2>2. ptr = BlockSize * (IntModulus * k + b) + 0
    BY <1>1, <2>1
  <2> DEFINE q == IntModulus * k + b
  <2>3. q \in Int
    BY <1>1, <2>1
  <2>4. q % IntModulus = b
    BY <1>1, <2>3, DivisionIsUnique
  <2> HIDE DEF q
  <2>5. 0 \in 0 .. BlockSize - 1
    BY <1>1
  <2>6. ptr \div BlockSize = q /\ ptr % BlockSize = 0
    BY <1>1, <2>2, <2>3, <2>5, DivisionIsUnique DEF q
  <2> QED BY <1>1, <1>3, <2>4, <2>6 DEF SameAsInt, block_index, AsInt
<1>4. ASSUME block_index(ptr) = b
      PROVE  SameAsInt(Address(b), ptr)
  <2> DEFINE q == ptr \div BlockSize
             k == q \div IntModulus
  <2>1. ptr >= 0 /\ ptr % BlockSize = 0 /\ AsInt(q) = b
    BY <1>1, <1>4 DEF block_index
  <2>2. q \in Int /\ ptr = BlockSize * q + (ptr % BlockSize)
    BY <1>1, Division
  <2> HIDE DEF q
  <2>3. k \in Int /\ q % IntModulus \in 0 .. IntModulus - 1 /\ q = IntModulus * k + (q % IntModulus)
    BY <1>1, <2>2, Division
  <2> HIDE DEF k
  <2>4. q % IntModulus = b
    BY <1>1, <2>1, <2>3 DEF AsInt
  <2>5. ptr = BlockSize * (IntModulus * k + b)
    BY <1>1, <2>1, <2>2, <2>3, <2>4
  <2>6. ptr - b * BlockSize = N * k + 0
    BY <1>1, <2>3, <2>5
  <2> DEFINE a == ptr - b * BlockSize
  <2>7. a \in Int /\ 0 \in 0 .. N - 1
    BY <1>2
  <2> HIDE DEF a, N
  <2>8. a % N = 0
    BY <1>2, <2>3, <2>6, <2>7, DivisionIsUnique DEF a
  <2> QED BY <2>1, <2>8 DEF SameAsInt, Address, a, N
<1> QED BY <1>3, <1>4

(***************************************************************************)
(* While a block is allocated the free blocks are fewer than BlockCount:   *)
(* the counter never exceeds the size of the pool.                         *)
(***************************************************************************)
LEMMA RoomForTheFreed ==
    ASSUME TypeOK, FreeListExact,
           NEW idx \in Blocks, g_pool_allocated[idx] # 0
    PROVE  g_available_blocks < BlockCount
<1> DEFINE n      == g_available_blocks
           others == Blocks \ {idx}
<1>1. PICK s \in [1 .. n -> Blocks] : IsFreeList(s)
  BY DEF FreeListExact
<1>2. n \in Nat
  BY MemoryAssumption DEF TypeOK
<1>3. s \in Injection(1 .. n, others)
  BY <1>1, Listing DEF Injection, IsInjective
<1>4. IsFiniteSet(Blocks) /\ Cardinality(Blocks) = BlockCount
  BY MemoryAssumption, FS_Interval DEF Blocks
<1>5. IsFiniteSet(others) /\ Cardinality(others) = BlockCount - 1
  BY <1>4, FS_RemoveElement
<1>6. Cardinality(1 .. n) = n
  BY <1>2, FS_Interval
<1>7. Cardinality(1 .. n) <= Cardinality(others)
  BY <1>3, <1>5, FS_Injection
<1> QED
  BY <1>2, <1>5, <1>6, <1>7, MemoryAssumption

-----------------------------------------------------------------------------
(* The chain memory_init() builds lists all blocks.                        *)
LEMMA FreshChain ==
    \E s \in [1 .. BlockCount -> Blocks] :
       /\ IsInjective(s)
       /\ s[1] = 0
       /\ \A b \in Blocks : \E p \in 1 .. BlockCount : s[p] = b
       /\ \A p \in 1 .. BlockCount :
             FreshLinks[s[p]] = IF p = BlockCount THEN POOL_END_OF_LIST ELSE s[p + 1]
<1> DEFINE s == [p \in 1 .. BlockCount |-> p - 1]
<1>1. s \in [1 .. BlockCount -> Blocks] /\ IsInjective(s) /\ s[1] = 0
  BY MemoryAssumption DEF Blocks, IsInjective
<1>2. ASSUME NEW b \in Blocks
      PROVE  \E p \in 1 .. BlockCount : s[p] = b
  <2>1. b + 1 \in 1 .. BlockCount /\ s[b + 1] = b
    BY MemoryAssumption DEF Blocks
  <2> QED BY <2>1
<1>3. ASSUME NEW p \in 1 .. BlockCount
      PROVE  FreshLinks[s[p]] = IF p = BlockCount THEN POOL_END_OF_LIST ELSE s[p + 1]
  BY MemoryAssumption DEF FreshLinks, Blocks
<1> QED BY <1>1, <1>2, <1>3

LEMMA InitInv == Init => Inv
<1> SUFFICES ASSUME Init PROVE Inv
  OBVIOUS
<1>1. TypeOK
  BY MemoryAssumption DEF Init, TypeOK, FreshLinks, Blocks, POOL_END_OF_LIST
<1>2. FreeListExact
  BY FreshChain, MemoryAssumption DEF Init, FreeListExact, IsFreeList
<1>3. OutstandingExact
  BY DEF Init, OutstandingExact, Blocks
<1> QED BY <1>1, <1>2, <1>3 DEF Inv

-----------------------------------------------------------------------------
(* Every step preserves types.                                             *)
LEMMA NextType ==
    ASSUME Inv, [Next]_poolVars
    PROVE  TypeOK'
<1> USE MemoryAssumption
<1>1. TypeOK /\ FreeListExact
  BY DEF Inv
<1>2. CASE memory_init
  BY <1>1, <1>2 DEF TypeOK, FreshLinks, Blocks, POOL_END_OF_LIST, memory_init
<1>3. CASE memory_alloc
  <2>1. PICK s \in [1 .. g_available_blocks -> Blocks] : IsFreeList(s)
    BY <1>1 DEF FreeListExact
  <2>2. /\ g_available_blocks \in Nat \ {0}
        /\ g_free_list_head = s[1]
    BY <1>1, <1>3, <2>1, Listing DEF memory_alloc
  <2>3. storage[s[1]] \in Blocks \cup {POOL_END_OF_LIST}
    BY <2>1, <2>2 DEF IsFreeList, Blocks
  <2> QED BY <1>1, <1>3, <2>2, <2>3 DEF TypeOK, memory_alloc
<1>4. CASE alloc_fails
  BY <1>1, <1>4 DEF TypeOK, alloc_fails
<1>5. ASSUME NEW ptr \in Pointers, memory_free(ptr)
      PROVE  TypeOK'
  <2> DEFINE idx == block_index(ptr)
  <2>1. idx \in Blocks /\ g_pool_allocated[idx] # 0 /\ Push(idx)
    BY <1>5, BlockIndexType DEF memory_free
  <2> HIDE DEF idx
  <2>2. g_available_blocks < BlockCount
    BY <1>1, <2>1, RoomForTheFreed
  <2>3. outstanding' \subseteq {Address(b) : b \in Blocks}
    BY <1>1, <1>5 DEF TypeOK, memory_free, GivesBack
  <2> QED BY <1>1, <2>1, <2>2, <2>3 DEF TypeOK, Push, Blocks, POOL_END_OF_LIST
<1>6. ASSUME NEW ptr \in Pointers, free_refused(ptr)
      PROVE  TypeOK'
  BY <1>1, <1>6 DEF TypeOK, free_refused, GivesBack
<1>7. ASSUME NEW b \in Blocks, NEW v \in Contents, ClientWrites(b, v)
      PROVE  TypeOK'
  BY <1>1, <1>7 DEF TypeOK, ClientWrites
<1>8. CASE UNCHANGED poolVars
  BY <1>1, <1>8 DEF TypeOK, poolVars
<1> QED BY <1>2, <1>3, <1>4, <1>5, <1>6, <1>7, <1>8 DEF Next

(* Every step leaves an exact free list.                                   *)
LEMMA NextFreeList ==
    ASSUME Inv, [Next]_poolVars
    PROVE  FreeListExact'
<1> USE MemoryAssumption
<1> DEFINE n == g_available_blocks
<1>1. TypeOK /\ n \in Nat
  BY DEF Inv, TypeOK
<1>types. storage \in [Blocks -> Int] /\ g_pool_allocated \in [Blocks -> {0, 1}]
  BY DEF Inv, TypeOK
<1>2. PICK s \in [1 .. n -> Blocks] : IsFreeList(s)
  BY DEF Inv, FreeListExact
<1>3. CASE memory_init
  <2>1. /\ storage' = FreshLinks /\ g_free_list_head' = 0 /\ n' = BlockCount
        /\ \A b \in Blocks : g_pool_allocated'[b] = 0
        /\ BlockCount # 0
    BY <1>3 DEF memory_init
  <2> PICK t \in [1 .. BlockCount -> Blocks] :
             /\ IsInjective(t)
             /\ t[1] = 0
             /\ \A b \in Blocks : \E p \in 1 .. BlockCount : t[p] = b
             /\ \A p \in 1 .. BlockCount :
                   FreshLinks[t[p]] = IF p = BlockCount THEN POOL_END_OF_LIST
                                      ELSE t[p + 1]
    BY FreshChain
  <2>2. t \in [1 .. n' -> Blocks] /\ IsFreeList(t)'
    BY <2>1 DEF IsFreeList
  <2> QED BY <2>2 DEF FreeListExact
<1>4. CASE memory_alloc                        \* the tail of the list
  <2>1. /\ n \in Nat \ {0} /\ n' = n - 1
        /\ g_free_list_head = s[1] /\ g_pool_allocated[s[1]] = 0
        /\ \A a, b \in 1 .. n : s[a] = s[b] => a = b
    BY <1>1, <1>2, <1>4, Listing DEF memory_alloc
  <2>2. PICK t \in [1 .. n' -> Blocks] : t = [p \in 1 .. n - 1 |-> s[p + 1]]
    <3>1. [p \in 1 .. n - 1 |-> s[p + 1]] \in [1 .. n' -> Blocks]
      BY <2>1
    <3> QED BY <3>1
  <2>3. IsInjective(t)
    BY <2>1, <2>2 DEF IsInjective
  <2>4. ASSUME NEW b \in Blocks
        PROVE  g_pool_allocated'[b] = 0 <=> \E p \in 1 .. n' : t[p] = b
    <3>1. CASE b = s[1]
      BY <1>1, <1>types, <1>4, <2>1, <2>2, <3>1 DEF memory_alloc
    <3>2. CASE b # s[1]
      <4>1. g_pool_allocated'[b] = g_pool_allocated[b]
        BY <1>1, <1>types, <1>4, <2>1, <3>2 DEF memory_alloc
      <4>2. ASSUME NEW p \in 1 .. n, s[p] = b
            PROVE  p - 1 \in 1 .. n' /\ t[p - 1] = b
        BY <2>1, <2>2, <3>2, <4>2
      <4>3. ASSUME NEW p \in 1 .. n', t[p] = b
            PROVE  p + 1 \in 1 .. n /\ s[p + 1] = b
        BY <2>1, <2>2, <4>3
      <4> QED BY <1>2, <4>1, <4>2, <4>3 DEF IsFreeList
    <3> QED BY <3>1, <3>2
  <2>5. g_free_list_head' = IF n' = 0 THEN POOL_END_OF_LIST ELSE t[1]
    <3>1. n # 1 => 1 \in 1 .. n - 1 /\ n' # 0
      BY <2>1
    <3>2. n # 1 => t[1] = s[1 + 1]
      BY <2>2, <3>1
    <3>3. g_free_list_head' = storage[s[1]]
      BY <1>4, <2>1 DEF memory_alloc
    <3>4. storage[s[1]] = IF 1 = n THEN POOL_END_OF_LIST ELSE s[2]
      BY <1>2, <2>1 DEF IsFreeList
    <3> QED BY <2>1, <3>1, <3>2, <3>3, <3>4
  <2>6. ASSUME NEW p \in 1 .. n'
        PROVE  storage'[t[p]] = IF p = n' THEN POOL_END_OF_LIST ELSE t[p + 1]
    BY <1>2, <1>4, <2>1, <2>2 DEF memory_alloc, IsFreeList
  <2>7. IsFreeList(t)'
    BY <2>3, <2>4, <2>5, <2>6 DEF IsFreeList, Blocks
  <2> QED BY <2>2, <2>7 DEF FreeListExact, Blocks
<1>5. CASE alloc_fails
  <2>1. UNCHANGED <<storage, g_pool_allocated, g_free_list_head, g_available_blocks>>
    BY <1>5 DEF alloc_fails
  <2>2. IsFreeList(s)'
    BY <1>2, <2>1 DEF IsFreeList, Blocks
  <2> QED BY <2>1, <2>2 DEF FreeListExact, Blocks
<1>6. ASSUME NEW ptr \in Pointers, memory_free(ptr)
      PROVE  FreeListExact'                    \* the freed block in front
  <2> DEFINE idx == block_index(ptr)
  <2>1. idx \in Blocks /\ g_pool_allocated[idx] # 0 /\ Push(idx)
    BY <1>6, BlockIndexType DEF memory_free
  <2> HIDE DEF idx
  <2>2. /\ \A a, b \in 1 .. n : s[a] = s[b] => a = b
        /\ \A p \in 1 .. n : s[p] # idx
    BY <1>1, <1>2, <2>1, Listing
  <2>3. /\ n' = n + 1
        /\ g_free_list_head' = idx
        /\ storage' = [storage EXCEPT ![idx] = g_free_list_head]
        /\ g_pool_allocated' = [g_pool_allocated EXCEPT ![idx] = 0]
    BY <2>1 DEF Push
  <2>4. PICK t \in [1 .. n' -> Blocks] :
           t = [p \in 1 .. n + 1 |-> IF p = 1 THEN idx ELSE s[p - 1]]
    <3>1. [p \in 1 .. n + 1 |-> IF p = 1 THEN idx ELSE s[p - 1]] \in [1 .. n' -> Blocks]
      BY <1>1, <2>1, <2>3
    <3> QED BY <3>1
  <2>5. IsInjective(t)
    BY <1>1, <2>2, <2>4 DEF IsInjective
  <2>6. ASSUME NEW b \in Blocks
        PROVE  g_pool_allocated'[b] = 0 <=> \E p \in 1 .. n' : t[p] = b
    <3>1. CASE b = idx
      <4>1. 1 \in 1 .. n' /\ t[1] = b
        BY <1>1, <2>3, <2>4, <3>1
      <4>2. g_pool_allocated'[b] = 0
        BY <1>1, <1>types, <2>1, <2>3, <3>1
      <4> QED BY <4>1, <4>2
    <3>2. CASE b # idx
      <4>1. g_pool_allocated'[b] = g_pool_allocated[b]
        BY <1>1, <1>types, <2>1, <2>3, <3>2
      <4>2. ASSUME NEW p \in 1 .. n, s[p] = b
            PROVE  p + 1 \in 1 .. n' /\ t[p + 1] = b
        BY <1>1, <2>3, <2>4, <4>2
      <4>3. ASSUME NEW p \in 1 .. n', t[p] = b
            PROVE  p - 1 \in 1 .. n /\ s[p - 1] = b
        BY <1>1, <2>3, <2>4, <3>2, <4>3
      <4> QED BY <1>2, <4>1, <4>2, <4>3 DEF IsFreeList
    <3> QED BY <3>1, <3>2
  <2>7. g_free_list_head' = IF n' = 0 THEN POOL_END_OF_LIST ELSE t[1]
    BY <1>1, <2>3, <2>4
  <2>8. ASSUME NEW p \in 1 .. n'
        PROVE  storage'[t[p]] = IF p = n' THEN POOL_END_OF_LIST ELSE t[p + 1]
    <3>1. CASE p = 1
      BY <1>1, <1>types, <1>2, <2>1, <2>3, <2>4, <3>1 DEF IsFreeList
    <3>2. CASE p # 1
      <4>1. p - 1 \in 1 .. n /\ t[p] = s[p - 1] /\ s[p - 1] # idx
        BY <1>1, <2>2, <2>3, <2>4, <3>2
      <4>2. storage'[s[p - 1]] = storage[s[p - 1]]
        BY <1>1, <1>types, <2>1, <2>3, <4>1
      <4>3. storage[s[p - 1]] = IF p - 1 = n THEN POOL_END_OF_LIST ELSE s[p]
        BY <1>1, <1>2, <4>1 DEF IsFreeList
      <4> QED BY <1>1, <2>3, <2>4, <3>2, <4>1, <4>2, <4>3
    <3> QED BY <3>1, <3>2
  <2>9. IsFreeList(t)'
    BY <2>5, <2>6, <2>7, <2>8 DEF IsFreeList, Blocks
  <2> QED BY <2>4, <2>9 DEF FreeListExact, Blocks
<1>7. ASSUME NEW b \in Blocks, NEW v \in Contents, ClientWrites(b, v)
      PROVE  FreeListExact'                    \* no link is in block b
  <2>1. \A p \in 1 .. n : s[p] # b
    BY <1>1, <1>2, <1>7, Listing DEF ClientWrites
  <2>2. \A p \in 1 .. n : storage'[s[p]] = storage[s[p]]
    BY <1>1, <1>types, <1>7, <2>1 DEF ClientWrites
  <2>3. UNCHANGED <<g_pool_allocated, g_free_list_head, g_available_blocks>>
    BY <1>7 DEF ClientWrites
  <2>4. IsFreeList(s)'
    BY <1>2, <2>2, <2>3 DEF IsFreeList, Blocks
  <2> QED BY <2>3, <2>4 DEF FreeListExact, Blocks
<1>8. CASE UNCHANGED poolVars \/ \E ptr \in Pointers : free_refused(ptr)
  <2>1. UNCHANGED <<storage, g_pool_allocated, g_free_list_head, g_available_blocks>>
    BY <1>8 DEF poolVars, free_refused
  <2>2. IsFreeList(s)'
    BY <1>2, <2>1 DEF IsFreeList, Blocks
  <2> QED BY <2>1, <2>2 DEF FreeListExact, Blocks
<1> QED BY <1>3, <1>4, <1>5, <1>6, <1>7, <1>8 DEF Next

(* Every step leaves the clients with the blocks marked allocated.         *)
LEMMA NextOutstanding ==
    ASSUME Inv, [Next]_poolVars
    PROVE  OutstandingExact'
<1>1. TypeOK /\ FreeListExact /\ OutstandingExact
  BY DEF Inv
<1>2. CASE memory_init
  BY <1>2 DEF memory_init, OutstandingExact, Blocks
<1>3. CASE memory_alloc                        \* the head of the list joins
  <2>1. PICK h \in Blocks : h = g_free_list_head
    BY <1>1, <1>3 DEF memory_alloc, TypeOK
  <2>2. \A b \in Blocks : g_pool_allocated'[b] = 1 <=> b = h \/ g_pool_allocated[b] = 1
    BY <1>1, <1>3, <2>1 DEF memory_alloc, TypeOK
  <2>3. outstanding' = outstanding \cup {Address(h)}
    BY <1>3, <2>1 DEF memory_alloc
  <2> QED BY <1>1, <2>1, <2>2, <2>3 DEF OutstandingExact, Blocks
<1>4. ASSUME NEW ptr \in Pointers, memory_free(ptr)
      PROVE  OutstandingExact'                 \* the block freed leaves
  <2>1. ptr \in Int
    BY MemoryAssumption
  <2> DEFINE idx == block_index(ptr)
  <2>2. idx \in Blocks /\ Push(idx)
    BY <1>4, <2>1, BlockIndexType DEF memory_free
  <2>3. \A b \in Blocks : SameAsInt(Address(b), ptr) <=> b = idx
    BY <2>1, SameBlock
  <2> HIDE DEF idx
  <2>4. \A b \in Blocks : g_pool_allocated'[b] = 1 <=> b # idx /\ g_pool_allocated[b] = 1
    BY <1>1, <2>2 DEF Push, TypeOK
  <2>5. outstanding' = {a \in outstanding : ~SameAsInt(a, ptr)}
    BY <1>4 DEF memory_free, GivesBack
  <2> QED BY <1>1, <2>3, <2>4, <2>5 DEF OutstandingExact, Blocks
<1>5. ASSUME NEW ptr \in Pointers, free_refused(ptr)
      PROVE  OutstandingExact'                 \* nobody held what it names
  <2>1. ptr \in Int
    BY MemoryAssumption
  <2>2. ASSUME NEW b \in Blocks, g_pool_allocated[b] = 1
        PROVE  ~SameAsInt(Address(b), ptr)
    BY <1>5, <2>1, <2>2, SameBlock DEF free_refused, Blocks
  <2>3. outstanding' = {a \in outstanding : ~SameAsInt(a, ptr)}
    BY <1>5 DEF free_refused, GivesBack
  <2>4. g_pool_allocated' = g_pool_allocated
    BY <1>5 DEF free_refused
  <2> QED BY <1>1, <2>2, <2>3, <2>4 DEF OutstandingExact, Blocks
<1>6. CASE alloc_fails \/ (\E b \in Blocks, v \in Contents : ClientWrites(b, v))
           \/ UNCHANGED poolVars
  <2>1. g_pool_allocated' = g_pool_allocated /\ outstanding' = outstanding
    BY <1>6 DEF alloc_fails, ClientWrites, poolVars
  <2> QED BY <1>1, <2>1 DEF OutstandingExact, Blocks
<1> QED BY <1>2, <1>3, <1>4, <1>5, <1>6 DEF Next

LEMMA Invariance == Spec => []Inv
<1>1. Inv /\ [Next]_poolVars => Inv'
  BY NextType, NextFreeList, NextOutstanding DEF Inv
<1> QED BY <1>1, InitInv, PTL DEF Spec

-----------------------------------------------------------------------------
(* memory.c: the counter stays within the pool, and head and result always *)
(* name a block or the end of the list.                                    *)
THEOREM PoolTypeCorrect == Spec => []TypeOK
BY Invariance, PTL DEF Inv

(* memory.c:15, "g_pool_allocated[i] == 0 <=> block i is on the free list",*)
(* after any sequence of calls and client writes.                          *)
THEOREM FreeListIsExact == Spec => []FreeListExact
BY Invariance, PTL DEF Inv

(* memory.h:119, memory_free() acts on the start of a block only: clients  *)
(* hold exactly the blocks they were given and have not given back.        *)
THEOREM OutstandingIsExact == Spec => []OutstandingExact
BY Invariance, PTL DEF Inv

(* memory_alloc() and memory_free() keep the contract of BlockPool: each   *)
(* step of the pool is a step of the contract or leaves it alone.          *)
THEOREM PoolContract == Spec => ImplementsPool
<1> USE MemoryAssumption
<1>1. Init => Pool!Init
  BY DEF Init, Pool!Init, Blocks
<1>2. ASSUME Inv, [Next]_poolVars
      PROVE  [Pool!Next]_<<{b \in Blocks : g_pool_allocated[b] = 1}, result>>
  <2> DEFINE n    == g_available_blocks
             held == {b \in Blocks : g_pool_allocated[b] = 1}
  <2>1. TypeOK
    BY <1>2 DEF Inv
  <2>2. PICK s \in [1 .. n -> Blocks] : IsFreeList(s)
    BY <1>2 DEF Inv, FreeListExact
  <2>3. CASE memory_init
    <3>1. Pool!Reset
      BY <2>3 DEF memory_init, Pool!Reset, Blocks
    <3> QED BY <3>1 DEF Pool!Next
  <2>4. CASE memory_alloc
    <3>1. PICK h \in Blocks : h = g_free_list_head /\ g_pool_allocated[h] = 0
      BY <2>1, <2>2, <2>4, Listing DEF memory_alloc
    <3>2. g_pool_allocated' = [g_pool_allocated EXCEPT ![h] = 1] /\ result' = h
      BY <2>4, <3>1 DEF memory_alloc
    <3>3. h \notin held /\ held' = held \cup {h}
      BY <2>1, <3>1, <3>2 DEF TypeOK, Blocks
    <3>4. Pool!Grant(h)
      BY <3>2, <3>3 DEF Pool!Grant
    <3> QED BY <3>1, <3>4 DEF Pool!Next
  <2>5. CASE alloc_fails
    <3>1. n = 0
      BY <2>1, <2>2, <2>5, Listing DEF alloc_fails
    <3>2. held = Blocks
      BY <2>1, <2>2, <3>1 DEF IsFreeList, TypeOK
    <3>3. Pool!Refuse
      BY <2>5, <3>2 DEF alloc_fails, Pool!Refuse, Blocks
    <3> QED BY <3>3 DEF Pool!Next
  <2>6. ASSUME NEW ptr \in Pointers, memory_free(ptr)
        PROVE  Pool!Next
    <3> DEFINE idx == block_index(ptr)
    <3>1. idx \in Blocks /\ g_pool_allocated[idx] # 0 /\ Push(idx)
      BY <2>6, BlockIndexType DEF memory_free
    <3> HIDE DEF idx
    <3>2. idx \in held /\ held' = held \ {idx}
      BY <2>1, <3>1 DEF TypeOK, Push, Blocks
    <3>3. Pool!Release(idx)
      BY <3>1, <3>2 DEF Pool!Release, Push
    <3> QED BY <3>1, <3>3 DEF Pool!Next
  <2>7. ASSUME NEW b \in Blocks, NEW v \in Contents, ClientWrites(b, v)
        PROVE  held' = held /\ result' = result
    BY <2>7 DEF ClientWrites, Blocks
  <2>8. CASE UNCHANGED poolVars \/ \E ptr \in Pointers : free_refused(ptr)
    BY <2>8 DEF poolVars, free_refused, Blocks
  <2> QED BY <1>2, <2>3, <2>4, <2>5, <2>6, <2>7, <2>8 DEF Next
<1> QED BY <1>1, <1>2, Invariance, PTL DEF Spec, ImplementsPool, Pool!Spec
=============================================================================
