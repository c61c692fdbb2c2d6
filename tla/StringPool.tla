----------------------------- MODULE StringPool -----------------------------
(* The string pool of slicer's dex IR: the nodes of strings_map, the index *)
(* allocator (slicer/index_map.h) and the lookup table that grows in two   *)
(* partitions (slicer/hash_table.h), used by Reader::GetString while a     *)
(* class is read and then by Builder::GetAsciiString.  A node is known by  *)
(* its index; indexes into buckets are counted from 1, with 0 for none.    *)
EXTENDS Integers, Sequences, FiniteSets

CONSTANTS
  Text,            \* the texts the program may ask for
  File,            \* the string table of the .dex file that is read
  HashOf,          \* the hash of each text
  InitialBuckets   \* kInitialHashBuckets

ASSUME PoolAssumption ==
  /\ File \in Seq(Text)
  /\ \A i, j \in DOMAIN File : File[i] = File[j] => i = j
  /\ HashOf \in [Text -> Nat]
  /\ InitialBuckets \in Nat \ {0, 1}

VARIABLES
  node,       \* strings_map: the text of each node, by index
  used,       \* strings_indexes.indexes_map_
  pos,        \* strings_indexes.alloc_pos_
  full,       \* strings_lookup.full_table_
  insertion,  \* strings_lookup.insertion_table_
  reading,    \* Reader::CreateClassIr has not returned yet
  ok          \* no SLICER_CHECK has failed

vars == <<node, used, pos, full, insertion, reading, ok>>

AvgChainLength == 2
NoValue == -1
Empty == [value |-> NoValue, next |-> 0]
NoTable == [size |-> 0, bucket |-> <<>>]
-----------------------------------------------------------------------------
(* One partition: `size` buckets found by hash, then those of the chains.  *)
Partition(n) == [size |-> n, bucket |-> <<>> \o [b \in 1..n |-> Empty]]
Capacity(p) == p.size * AvgChainLength
Overflows(p) == Len(p.bucket) + 1 > Capacity(p)
BucketOf(p, t) == (HashOf[t] % p.size) + 1

\* Partition::Insert of a node with text t, when there is room.
Put(p, n, t) ==
  LET b == BucketOf(p, t) IN
  IF p.bucket[b].value = NoValue
  THEN [p EXCEPT !.bucket[b].value = n]
  ELSE [p EXCEPT !.bucket = Append([p.bucket EXCEPT ![b].next = Len(p.bucket) + 1],
                                   [value |-> n, next |-> p.bucket[b].next])]

\* Slip: only the first bucket of the chain.
LookupFirst(p, t, text) ==
  LET v == IF p.size = 0 THEN NoValue ELSE p.bucket[BucketOf(p, t)].value
  IN IF v # NoValue /\ text[v] = t THEN v ELSE NoValue

\* Partition::Lookup: along the chain of the text's bucket.
LookupIn(p, t, text) ==
  LET walk[b \in 0..Len(p.bucket)] ==
        IF b = 0 \/ p.bucket[b].value = NoValue THEN NoValue
        ELSE IF text[p.bucket[b].value] = t THEN p.bucket[b].value
        ELSE walk[p.bucket[b].next]
  IN IF p.size = 0 THEN NoValue ELSE walk[BucketOf(p, t)]

\* Partition::InsertAll, which must not overflow: [table, ok].
InsertAll(into, src, text) ==
  LET copy[b \in 0..Len(src.bucket)] ==
        IF b = 0 THEN [table |-> into, ok |-> TRUE]
        ELSE LET v == src.bucket[b].value
                 sofar == copy[b - 1]
             IN IF v = NoValue THEN sofar
                ELSE IF Overflows(sofar.table) THEN [sofar EXCEPT !.ok = FALSE]
                ELSE [sofar EXCEPT !.table = Put(sofar.table, v, text[v])]
  IN copy[Len(src.bucket)]

Unchanged(n) == n   \* a slip
\* kResizeFactor is 1.6, and the product is truncated.
Grown(n) == (n * 8) \div 5

Lookup(t) ==
  LET old == LookupIn(full, t, node)
  IN IF old # NoValue THEN old ELSE LookupIn(insertion, t, node)

\* Slip: the full table is not copied into the larger one.
InsertNew(n, t) ==
  IF ~Overflows(insertion)
  THEN insertion' = Put(insertion, n, t) /\ UNCHANGED <<full, ok>>
  ELSE /\ full' = insertion
       /\ insertion' = Put(Partition(Grown(insertion.size)), n, t)
       /\ UNCHANGED ok

\* HashTable::Insert of node n with text t.
Insert(n, t) ==
  LET text == [m \in DOMAIN node \cup {n} |-> IF m = n THEN t ELSE node[m]]
      new == InsertAll(Partition(Grown(insertion.size)), full, text)
  IN IF ~Overflows(insertion)
     THEN /\ insertion' = Put(insertion, n, t)
          /\ UNCHANGED <<full, ok>>
     ELSE /\ full' = insertion
          /\ insertion' = Put(new.table, n, t)
          /\ ok' = (ok /\ new.ok /\ ~Overflows(new.table))
-----------------------------------------------------------------------------
(* The index allocator, with indexes from 0 and sequences from 1.          *)
Marked(i, u) ==
  [j \in 1..(IF i >= Len(u) THEN i + 1 ELSE Len(u)) |->
     j = i + 1 \/ (j <= Len(u) /\ u[j])]

NextIndex == pos   \* a slip

\* AllocateIndex: the first free index from alloc_pos_ on.
FreeIndex ==
  LET skip[p \in 0..Len(used)] == IF p < Len(used) /\ used[p + 1] THEN skip[p + 1] ELSE p
  IN skip[pos]

SetNode(i, t) == node' = [m \in DOMAIN node \cup {i} |-> IF m = i THEN t ELSE node[m]]
-----------------------------------------------------------------------------
Init ==
  /\ node = [m \in {} |-> 0]
  /\ used = <<>> /\ pos = 0
  /\ full = NoTable
  /\ insertion = Partition(InitialBuckets)
  /\ reading = TRUE
  /\ ok = TRUE

\* Reader::GetString and ParseString, for an index not read before.
ReaderGetString(i) ==
  /\ reading /\ ok
  /\ i \notin DOMAIN node
  /\ SetNode(i, File[i + 1])
  /\ Insert(i, File[i + 1])
  /\ used' = Marked(i, used)
  /\ UNCHANGED <<pos, reading>>

\* The class is read; what follows goes through ir::Builder.
EndReading ==
  /\ reading /\ ok
  /\ reading' = FALSE
  /\ UNCHANGED <<node, used, pos, full, insertion, ok>>

\* Builder::GetAsciiString for a text that the lookup does not find.
GetAsciiString(t) ==
  /\ ~reading /\ ok
  /\ Lookup(t) = NoValue
  /\ SetNode(FreeIndex, t)
  /\ Insert(FreeIndex, t)
  /\ used' = Marked(FreeIndex, used)
  /\ pos' = FreeIndex + 1
  /\ UNCHANGED reading

Next ==
  \/ \E i \in 0..(Len(File) - 1) : ReaderGetString(i)
  \/ EndReading
  \/ \E t \in Text : GetAsciiString(t)

Spec == Init /\ [][Next]_vars
-----------------------------------------------------------------------------
Partitions == {p \in {full, insertion} : p # NoTable}

TypeOK ==
  /\ node \in [DOMAIN node -> Text]
  /\ \A p \in Partitions : /\ Len(p.bucket) \in p.size..Capacity(p)
                           /\ \A b \in DOMAIN p.bucket : p.bucket[b].value \in DOMAIN node \cup {NoValue}
  /\ used \in Seq(BOOLEAN) /\ pos \in 0..Len(used)
  /\ reading \in BOOLEAN /\ ok \in BOOLEAN

\* Growing never loses its room: the larger partition takes everything of the
\* old full table and the new node (the SLICER_CHECKs of HashTable::Insert
\* and InsertAll hold at every size the factor 1.6 leads to).
RoomToGrow == ok

\* The lookup and the node table agree: each text has at most one node, the
\* lookup finds exactly that node, and the allocator knows its index is used.
FoundOnce ==
  /\ \A t \in Text : LET n == Lookup(t) IN
       IF n = NoValue THEN \A m \in DOMAIN node : node[m] # t
       ELSE \A m \in DOMAIN node : node[m] = t <=> m = n
  /\ \A n \in DOMAIN node : n < Len(used) /\ used[n + 1]

\* Texts of the file that were read keep the file's index whatever is added
\* later, and a new node never takes the index of one that was read.
FileIndexes ==
  [][\A n \in DOMAIN node : n \in DOMAIN node' /\ node'[n] = node[n]]_vars

\* The pool interns: seen through its lookup, it only ever adds a text with an
\* index of its own.
Pool == INSTANCE Interning WITH
  Text <- Text,
  Index <- 0..(Len(File) + Cardinality(Text)),
  index <- [t \in {t \in Text : Lookup(t) # NoValue} |-> Lookup(t)]

Interns == Pool!Spec
=============================================================================
