----------------------------- MODULE MemoryPool -----------------------------
(***************************************************************************)
(* The fixed-size block allocator of src/src/memory.c.  Free blocks are    *)
(* chained through their own first bytes, so that the links share storage  *)
(* with what clients write: `storage[b]' is the int at the start of block  *)
(* b, a link while b is free and client data while b is allocated.         *)
(*                                                                         *)
(* Tasks and callbacks are cooperative: a call is one step, refused ones   *)
(* included.  Clients are assumed to write to allocated blocks only; what  *)
(* they free is arbitrary.                                                 *)
(***************************************************************************)
EXTENDS Integers, Functions

CONSTANTS
    BlockCount,     \* RTOS_POOL_BLOCK_COUNT
    BlockSize,      \* RTOS_POOL_BLOCK_SIZE
    IntModulus,     \* number of values of a C int, 2^32 on most hosts
    Pointers,       \* arguments of memory_free(), as bytes from the pool base
    Contents        \* ints that clients write at the start of their blocks

ASSUME MemoryAssumption ==
    /\ BlockCount \in Nat \ {0}
    /\ BlockSize \in Nat \ {0}
    /\ IntModulus \in Nat /\ 2 * BlockCount <= IntModulus    \* block numbers are ints
    /\ Pointers \subseteq Int
    /\ Contents \subseteq Int

VARIABLES storage, g_pool_allocated, g_free_list_head, g_available_blocks,
          result,       \* block returned by the last memory_alloc(), -1 for NULL
          outstanding   \* history: the addresses handed out and not given back

poolVars == <<storage, g_pool_allocated, g_free_list_head, g_available_blocks,
              result, outstanding>>

Blocks == 0 .. BlockCount - 1
POOL_END_OF_LIST == -1

Address(b) == b * BlockSize

(* (int) of a wider number.                                                *)
AsInt(x) ==
    LET low == x % IntModulus
    IN  IF 2 * low < IntModulus THEN low ELSE low - IntModulus

(* Faulty variant: any pointer into a block passes for its start.          *)
IndexOfInside(ptr) ==
    IF ptr >= 0 /\ AsInt(ptr \div BlockSize) \in Blocks
    THEN AsInt(ptr \div BlockSize)
    ELSE -1

(***************************************************************************)
(* The block a pointer is the start of, or -1.  The quotient is cast       *)
(* before its range is tested: an address a multiple of IntModulus blocks  *)
(* above a block is taken for that block.                                  *)
(***************************************************************************)
block_index(ptr) ==
    IF ptr >= 0 /\ ptr % BlockSize = 0 /\ AsInt(ptr \div BlockSize) \in Blocks
    THEN AsInt(ptr \div BlockSize)
    ELSE -1

(* memory_init(): the chain 0, 1, .., BlockCount - 1.                      *)
FreshLinks == [b \in Blocks |-> IF b + 1 < BlockCount THEN b + 1 ELSE POOL_END_OF_LIST]

Init ==
    /\ storage = FreshLinks
    /\ g_pool_allocated = [b \in Blocks |-> 0]
    /\ g_free_list_head = 0
    /\ g_available_blocks = BlockCount
    /\ result = POOL_END_OF_LIST
    /\ outstanding = {}

memory_init ==
    /\ storage' = FreshLinks
    /\ g_pool_allocated' = [b \in Blocks |-> 0]
    /\ g_free_list_head' = 0
    /\ g_available_blocks' = BlockCount
    /\ outstanding' = {}
    /\ UNCHANGED result

(* Faulty variant: the last free block is never handed out.                *)
FailsWithOneLeft ==
    /\ g_available_blocks <= 1
    /\ result' = POOL_END_OF_LIST
    /\ UNCHANGED <<storage, g_pool_allocated, g_free_list_head, g_available_blocks,
                   outstanding>>

alloc_fails ==
    /\ g_free_list_head = POOL_END_OF_LIST
    /\ result' = POOL_END_OF_LIST
    /\ UNCHANGED <<storage, g_pool_allocated, g_free_list_head, g_available_blocks,
                   outstanding>>

(* Faulty variant: the allocation is not recorded in the bitmap.           *)
AllocUnmarked ==
    /\ g_free_list_head # POOL_END_OF_LIST
    /\ g_free_list_head' = storage[g_free_list_head]
    /\ g_available_blocks' = g_available_blocks - 1
    /\ result' = g_free_list_head
    /\ outstanding' = outstanding \cup {Address(g_free_list_head)}
    /\ UNCHANGED <<storage, g_pool_allocated>>

(* Pop the head of the free list.                                          *)
memory_alloc ==
    /\ g_free_list_head # POOL_END_OF_LIST
    /\ g_free_list_head' = storage[g_free_list_head]
    /\ g_pool_allocated' = [g_pool_allocated EXCEPT ![g_free_list_head] = 1]
    /\ g_available_blocks' = g_available_blocks - 1
    /\ result' = g_free_list_head
    /\ outstanding' = outstanding \cup {Address(g_free_list_head)}
    /\ UNCHANGED storage

(* Push block idx onto the head of the free list.                          *)
Push(idx) ==
    /\ storage' = [storage EXCEPT ![idx] = g_free_list_head]
    /\ g_free_list_head' = idx
    /\ g_pool_allocated' = [g_pool_allocated EXCEPT ![idx] = 0]
    /\ g_available_blocks' = g_available_blocks + 1
    /\ UNCHANGED result

(* The pointer is the address, or one block_index() takes for it.          *)
SameAsInt(a, ptr) == ptr >= 0 /\ (ptr - a) % (IntModulus * BlockSize) = 0

(* What the caller of memory_free() holds no longer.                       *)
GivesBack(ptr) == outstanding' = {a \in outstanding : ~SameAsInt(a, ptr)}

(* Faulty variant: without double-free protection.                         *)
FreeUnchecked(ptr) == block_index(ptr) >= 0 /\ Push(block_index(ptr)) /\ GivesBack(ptr)

memory_free(ptr) ==
    /\ block_index(ptr) >= 0
    /\ g_pool_allocated[block_index(ptr)] # 0
    /\ Push(block_index(ptr))
    /\ GivesBack(ptr)

(* memory_free() logs why it refuses the pointer, and returns.             *)
free_refused(ptr) ==
    /\ block_index(ptr) >= 0 => g_pool_allocated[block_index(ptr)] = 0
    /\ GivesBack(ptr)
    /\ UNCHANGED <<storage, g_pool_allocated, g_free_list_head, g_available_blocks, result>>

(* A client stores into a block it was given.                              *)
ClientWrites(b, v) ==
    /\ g_pool_allocated[b] = 1
    /\ storage' = [storage EXCEPT ![b] = v]
    /\ UNCHANGED <<g_pool_allocated, g_free_list_head, g_available_blocks, result,
                   outstanding>>

Next ==
    \/ memory_init
    \/ memory_alloc
    \/ alloc_fails
    \/ \E ptr \in Pointers : memory_free(ptr) \/ free_refused(ptr)
    \/ \E b \in Blocks, v \in Contents : ClientWrites(b, v)

Spec == Init /\ [][Next]_poolVars

-----------------------------------------------------------------------------
(* Properties.                                                             *)

TypeOK ==
    /\ storage \in [Blocks -> Int]
    /\ g_pool_allocated \in [Blocks -> {0, 1}]
    /\ g_free_list_head \in Blocks \cup {POOL_END_OF_LIST}
    /\ g_available_blocks \in 0 .. BlockCount
    /\ result \in Blocks \cup {POOL_END_OF_LIST}
    /\ outstanding \subseteq {Address(b) : b \in Blocks}

(* s lists the free blocks from the head on, each once, ending properly.   *)
IsFreeList(s) ==
    /\ IsInjective(s)
    /\ \A b \in Blocks :
          g_pool_allocated[b] = 0 <=> \E p \in 1 .. g_available_blocks : s[p] = b
    /\ g_free_list_head =
          IF g_available_blocks = 0 THEN POOL_END_OF_LIST ELSE s[1]
    /\ \A p \in 1 .. g_available_blocks :
          storage[s[p]] = IF p = g_available_blocks THEN POOL_END_OF_LIST ELSE s[p + 1]

(***************************************************************************)
(* memory.c:15, "g_pool_allocated[i] == 0 <=> block i is on the free       *)
(* list".  The chain through the blocks has no cycle, no block twice, none *)
(* that is allocated, misses none that is free, and is as long as the      *)
(* counter says, though clients overwrite the links of allocated blocks    *)
(* and free null, foreign, misaligned and already free pointers.           *)
(***************************************************************************)
FreeListExact ==
    \E s \in [1 .. g_available_blocks -> Blocks] : IsFreeList(s)

(***************************************************************************)
(* memory.h:119, memory_free() acts on the start of a block only.  The     *)
(* pool counts as allocated exactly the blocks whose addresses clients     *)
(* were given and have not given back: no free of a misaligned, foreign or *)
(* null pointer takes a block from its holder, and no proper free is lost, *)
(* up to the pointers that the cast to int makes one.                      *)
(***************************************************************************)
OutstandingExact ==
    outstanding = {Address(b) : b \in {c \in Blocks : g_pool_allocated[c] = 1}}

(***************************************************************************)
(* The pool implements BlockPool: whatever the sequence of allocations and *)
(* frees, memory_alloc() never hands out a block that is still held and    *)
(* returns NULL only when all blocks are.                                  *)
(***************************************************************************)
Pool == INSTANCE BlockPool
        WITH held    <- {b \in Blocks : g_pool_allocated[b] = 1},
             NoBlock <- POOL_END_OF_LIST

ImplementsPool == Pool!Spec
=============================================================================
