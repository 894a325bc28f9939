-------------------------------- MODULE Heap --------------------------------
(***************************************************************************)
(* The kernel heap of mem.c.  The heap is HeapEntry pages; heap_map has   *)
(* one bit per page.  An object of size bytes takes 2^order pages found by *)
(* find_free_region, where the order rounds up the page count of the      *)
(* object and its 4-byte header.  The header, at the start of its first   *)
(* page, holds the total size; __free reads it back to know the order.    *)
(* A pointer is the index of the object's first page; live is the set of  *)
(* pointers that callers hold.  heap.pt is heap_page_table: an object's   *)
(* pages are mapped by create_heap_pages when it is allocated and made    *)
(* not present by destroy_heap_pages when it is freed.  The model scales  *)
(* HEAP_PAGE_SIZE for object sizes; the frames keep the MMU's 4kB pages.  *)
(* Every call is one atomic step: callers                                  *)
(* run with interrupts disabled (system calls through an interrupt gate,  *)
(* realloc from the network interrupt handler).                            *)
(***************************************************************************)
EXTENDS Bitmap, FiniteSetsExt, Paging

CONSTANTS HeapEntry, HeapPageSize, HeapHeaderSize, MaxHeapEntry, Sizes

VARIABLES heap, live, ret

vars == <<heap, live, ret>>

NULL == -1

Pages == 0 .. HeapEntry - 1

\* REQ_PAGE_NUM, REQ_SIZE_OFFSET and request_size_raw of mem.h
ReqPageNum(size) == size \div HeapPageSize
RequestSizeRaw(size) ==
    IF size % HeapPageSize # 0 THEN ReqPageNum(size) + 1 ELSE ReqPageNum(size)

\* ffs and fls of bitops.h: 1-based index of the lowest / highest set bit.
Ffs(w) == IF w = 0 THEN 0
          ELSE 1 + CHOOSE i \in 0 .. 31 : (w \div 2^i) % 2 = 1 /\ w % 2^i = 0
Fls(w) == IF w = 0 THEN 0 ELSE 1 + CHOOSE i \in 0 .. 31 : w \div 2^i = 1

\* Mutant: the order of the highest set bit, never rounded down.
AllocRequestOrderFls(size) == Fls(RequestSizeRaw(size))

\* alloc_request_order: one set bit means a power of two, else round up.
AllocRequestOrder(size) ==
    LET raw == RequestSizeRaw(size)
    IN  IF Ffs(raw) = Fls(raw) THEN Fls(raw) - 1 ELSE Fls(raw)

\* HEAP_PHYS_ADDR
HeapPhysAddr(idx) == HEAP_PHYS_TOP + idx * PAGE_SIZE

\* create_heap_pages: set_virtual_4kb_heap for num_pages pages from idx.
RECURSIVE CreateHeapPages(_, _, _)
CreateHeapPages(t, idx, n) ==
    IF n = 0 THEN t
    ELSE CreateHeapPages(SetVirtual4kbHeap(t, HeapPhysAddr(idx), idx), idx + 1, n - 1)

\* Mutant: the loop stops one page short.
RECURSIVE DestroyHeapPagesShort(_, _, _)
DestroyHeapPagesShort(t, idx, n) ==
    IF n <= 1 THEN t ELSE DestroyHeapPagesShort(FreeVirtual4kbHeap(t, idx), idx + 1, n - 1)

\* destroy_heap_pages: free_virtual_4kb_heap for num_pages pages from idx.
RECURSIVE DestroyHeapPages(_, _, _)
DestroyHeapPages(t, idx, n) ==
    IF n = 0 THEN t ELSE DestroyHeapPages(FreeVirtual4kbHeap(t, idx), idx + 1, n - 1)

\* heap_init: a clear map and zero counters.  header[i] is the word at the
\* start of page i.
Init == /\ heap = [map |-> [k \in 0 .. HeapEntry \div BitsLong - 1 |-> 0],
                   header |-> [i \in Pages |-> 0],
                   pt |-> [i \in Pages |-> ZeroPte],
                   page_alloc |-> 0, obj_alloc |-> 0]
        /\ live = {}
        /\ ret = NULL

(***************************************************************************)
(* __alloc with alloc_request_pages: the result is the new heap and the   *)
(* pointer, NULL when the size is 0, over MAX_HEAP_ENTRY pages (counted   *)
(* without the header) or when find_free_region fails.                    *)
(***************************************************************************)
\* Mutant: alloc_info updated before the -ENOMEM test.
AllocOpCountsFailure(h, size) ==
    LET total == HeapHeaderSize + size
        order == AllocRequestOrder(total)
        r == FindFreeRegion(h.map, HeapEntry, order)
        h1 == [h EXCEPT !.page_alloc = @ + 2^order, !.obj_alloc = @ + 1]
    IN  IF size = 0 \/ ReqPageNum(size) > MaxHeapEntry THEN [h |-> h, ptr |-> NULL]
        ELSE IF r.ret = -ENOMEM THEN [h |-> h1, ptr |-> NULL]
        ELSE [h |-> [h1 EXCEPT !.map = r.map, !.header[r.ret] = total,
                               !.pt = CreateHeapPages(h.pt, r.ret, 2^order)],
              ptr |-> r.ret]

AllocOp(h, size) ==
    LET total == HeapHeaderSize + size
        order == AllocRequestOrder(total)
        r == FindFreeRegion(h.map, HeapEntry, order)
    IN  IF size = 0 \/ ReqPageNum(size) > MaxHeapEntry \/ r.ret = -ENOMEM
        THEN [h |-> h, ptr |-> NULL]
        ELSE [h |-> [h EXCEPT !.map = r.map,
                              !.page_alloc = @ + 2^order,
                              !.obj_alloc = @ + 1,
                              !.header[r.ret] = total,
                              !.pt = CreateHeapPages(h.pt, r.ret, 2^order)],
              ptr |-> r.ret]

\* Mutant: the order taken from the data size, without the header.
FreeOpDataSize(h, p) ==
    LET order == AllocRequestOrder(h.header[p] - HeapHeaderSize)
    IN  [h EXCEPT !.map = ReleaseRegion(h.map, p, order),
                  !.pt = DestroyHeapPages(h.pt, p, 2^order),
                  !.page_alloc = @ - 2^order,
                  !.obj_alloc = @ - 1]

\* Mutant: obj_alloc not decremented.
FreeOpKeepsCount(h, p) ==
    LET order == AllocRequestOrder(h.header[p])
    IN  [h EXCEPT !.map = ReleaseRegion(h.map, p, order),
                  !.pt = DestroyHeapPages(h.pt, p, 2^order),
                  !.page_alloc = @ - 2^order]

\* __free with free_request_pages: the order comes from the header.
FreeOp(h, p) ==
    LET order == AllocRequestOrder(h.header[p])
    IN  [h EXCEPT !.map = ReleaseRegion(h.map, p, order),
                  !.pt = DestroyHeapPages(h.pt, p, 2^order),
                  !.page_alloc = @ - 2^order,
                  !.obj_alloc = @ - 1]

Malloc(size) ==
    LET r == AllocOp(heap, size)
    IN  /\ heap' = r.h
        /\ ret' = r.ptr
        /\ live' = IF r.ptr = NULL THEN live ELSE live \cup {r.ptr}

Free(p) ==
    /\ heap' = FreeOp(heap, p)
    /\ live' = live \ {p}
    /\ UNCHANGED ret

\* realloc: a new object first; only if that succeeds is the old one freed.
Realloc(p, size) ==
    LET r == AllocOp(heap, size)
    IN  /\ ret' = r.ptr
        /\ IF r.ptr = NULL THEN UNCHANGED <<heap, live>>
           ELSE /\ heap' = FreeOp(r.h, p)
                /\ live' = (live \ {p}) \cup {r.ptr}

Next == \/ \E size \in Sizes : Malloc(size)
        \/ \E p \in live : Free(p) \/ \E size \in Sizes : Realloc(p, size)

Spec == Init /\ [][Next]_vars

-----------------------------------------------------------------------------
TypeOK ==
    /\ heap.map \in [0 .. HeapEntry \div BitsLong - 1 -> 0 .. WordMax - 1]
    /\ heap.header \in [Pages -> Nat]
    /\ heap.pt \in [Pages -> [p : BOOLEAN, rw : BOOLEAN, us : BOOLEAN, frame : Nat]]
    /\ heap.page_alloc \in 0 .. HeapEntry /\ heap.obj_alloc \in 0 .. HeapEntry
    /\ live \subseteq Pages /\ ret \in Pages \cup {NULL}

\* The pages of the live object at p, by the order its header gives.
ObjPages(p) == p .. p + 2^AllocRequestOrder(heap.header[p]) - 1

(***************************************************************************)
(* The page map and the objects agree across any sequence of malloc, free *)
(* and realloc: the pages of the live objects lie in the heap, no two     *)
(* objects share a page, and the set bits of heap_map are exactly their   *)
(* pages (a page freed with the wrong order stays set or is cleared under *)
(* another object).                                                        *)
(***************************************************************************)
HeapMapMatchesObjects ==
    /\ \A p \in live : ObjPages(p) \subseteq Pages
    /\ \A p, q \in live : p # q => ObjPages(p) \cap ObjPages(q) = {}
    /\ SetBits(heap.map, HeapEntry) = UNION {ObjPages(p) : p \in live}

(***************************************************************************)
(* alloc_info counts what is allocated: page_alloc is the number of pages *)
(* of the live objects and obj_alloc their number, after the increments  *)
(* of alloc_request_pages and the decrements of free_request_pages.       *)
(***************************************************************************)
AllocInfoAccurate ==
    /\ heap.page_alloc = MapThenSumSet(LAMBDA p : 2^AllocRequestOrder(heap.header[p]), live)
    /\ heap.obj_alloc = Cardinality(live)

(***************************************************************************)
(* A heap page is present in heap_page_table exactly while a live object  *)
(* holds it: create_heap_pages and destroy_heap_pages map and unmap the   *)
(* 2^order pages alloc_request_order gives from the size, and __free      *)
(* takes that size back from the header.  A page left present after its  *)
(* object is freed lets a stale pointer read freed memory without a       *)
(* fault; a page of a live object not present faults in the kernel.       *)
(***************************************************************************)
HeapPagesMapped ==
    \A i \in Pages : heap.pt[i].p <=> i \in UNION {ObjPages(p) : p \in live}

\* The least order whose 2^order pages hold size bytes.
LeastOrder(size) ==
    CHOOSE o \in 0 .. 31 : /\ size <= 2^o * HeapPageSize
                           /\ \A q \in 0 .. o - 1 : size > 2^q * HeapPageSize

(***************************************************************************)
(* alloc_request_order, which rounds with ffs and fls, gave every live    *)
(* object the least order whose pages hold it and its header: no object   *)
(* has fewer pages than its header says it needs, nor twice what it needs.*)
(***************************************************************************)
AllocRequestOrderIsLeast ==
    \A p \in live : AllocRequestOrder(heap.header[p]) = LeastOrder(heap.header[p])

(***************************************************************************)
(* mem.h: "at most 32 contiguous pages can be allocated for a object"     *)
(* (MAX_HEAP_ENTRY).  __alloc compares the size without the header to the *)
(* limit, and the order rounds the page count up.                          *)
(***************************************************************************)
ObjectWithinMaxHeapEntry ==
    \A p \in live : 2^AllocRequestOrder(heap.header[p]) <= MaxHeapEntry

=============================================================================
