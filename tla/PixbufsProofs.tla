--------------------------- MODULE PixbufsProofs ---------------------------
(***************************************************************************)
(* Proofs about Pixbufs: for every number of fields, names, buffers and    *)
(* table entries, and every width of the counter.                          *)
(***************************************************************************)
EXTENDS Pixbufs, FiniteSetTheorems, WellFoundedInduction, TLAPS

USE DEF Slots, Fields

-----------------------------------------------------------------------------
(* The inductive invariants                                                *)

InCache(b) == \E s \in Slots : cache[s] = b

(* What can be drawn, or found by its name.                                *)
InUse(b) == Holders(b) # {} \/ InCache(b)

(* Freed memory is used nowhere; the count is that of the fields, and      *)
(* greater once a <progressbar> has forgotten the buffer.                  *)
CountsRight ==
  \A b \in Bufs :
    /\ IsFiniteSet(Holders(b))
    /\ buf[b] = None => ~InUse(b) /\ b \notin leaked
    /\ buf[b] # None /\ b \notin leaked =>
         Holders(b) # {} /\ buf[b].ref = Cardinality(Holders(b))
    /\ buf[b] # None /\ b \in leaked /\ InUse(b) =>
         buf[b].ref > Cardinality(Holders(b))

(* A name is in the table once; before it overflows, all that is held is   *)
(* in the table.                                                           *)
CacheRight ==
  /\ \A s, t \in Slots :
       cache[s] # None /\ cache[t] # None /\ buf[cache[s]].uri = buf[cache[t]].uri => s = t
  /\ overflowed \/ \A b \in Held : InCache(b)

(* What is in use has the data of its name, and is what was asked for.     *)
DataRight ==
  /\ \A b \in Bufs : InUse(b) => buf[b].data = DataOf(buf[b].uri)
  /\ \A f \in Fields : field[f] # None =>
       asked[f] = [uri |-> buf[field[f]].uri, data |-> buf[field[f]].data]

-----------------------------------------------------------------------------
(* The operators of the model                                              *)

Heaps == [Bufs -> Pixbuf \cup {None}]

Tables == [Slots -> Bufs \cup {None}]

(* Counting down does not wrap above 0, and is a count again at 0.         *)
LEMMA DecrementedCounts ==
  /\ \A n \in 1 .. 2 ^ RefWidth - 1 : Decremented(n) = n - 1
  /\ Decremented(0) \in 0 .. 2 ^ RefWidth - 1
  <1> DEFINE N == 2 ^ RefWidth
  <1>1. N \in Nat /\ N > 1
    BY RefAssumption
  <1> HIDE DEF N
  <1>2. (\A n \in 1 .. N - 1 : (n - 1) % N = n - 1) /\ (0 - 1) % N \in 0 .. N - 1
    BY <1>1
  <1>3. QED
    BY <1>2 DEF N, Decremented

(* Giving up a reference frees the buffer when it is the last one, and     *)
(* touches nothing but the count of this buffer.                           *)
LEMMA DeletedHeap ==
  ASSUME NEW heap \in Heaps, NEW b \in Bufs, heap[b] # None, heap[b].ref > 0
  PROVE  /\ Deleted(heap, b) \in Heaps
         /\ \A c \in Bufs : c # b => Deleted(heap, b)[c] = heap[c]
         /\ heap[b].ref = 1 => Deleted(heap, b)[b] = None
         /\ heap[b].ref > 1 =>
              /\ Deleted(heap, b)[b] # None
              /\ Deleted(heap, b)[b].ref = heap[b].ref - 1
              /\ Deleted(heap, b)[b].uri = heap[b].uri
              /\ Deleted(heap, b)[b].data = heap[b].data
  <1> DEFINE r == heap[b].ref
             less == [heap[b] EXCEPT !.ref = Decremented(r)]
  <1>1. heap[b] \in Pixbuf /\ r \in 1 .. 2 ^ RefWidth - 1 /\ 2 ^ RefWidth \in Nat
    BY RefAssumption DEF Heaps, Pixbuf
  <1>2. Decremented(r) = r - 1 /\ r - 1 \in 0 .. 2 ^ RefWidth - 1
    BY <1>1, DecrementedCounts
  <1>3. /\ less \in Pixbuf /\ less.ref = r - 1
        /\ less.uri = heap[b].uri /\ less.data = heap[b].data
    BY <1>1, <1>2 DEF Pixbuf
  <1>4. less # None
    BY <1>3, PixbufAssumption
  <1>5. b # None
    BY NoneAssumption
  <1>6. Deleted(heap, b) = [heap EXCEPT ![b] = IF Decremented(r) > 0 THEN less ELSE None]
    BY <1>5 DEF Deleted
  <1> HIDE DEF less
  <1>7. QED
    BY <1>1, <1>2, <1>3, <1>4, <1>6 DEF Heaps

LEMMA DeletedNone == \A heap : Deleted(heap, None) = heap
  BY DEF Deleted

(* The table without freed buffers keeps the others where they are.        *)
LEMMA PurgedTable ==
  ASSUME NEW table \in Tables, NEW heap \in Heaps
  PROVE  /\ Purged(table, heap) \in Tables
         /\ \A s \in Slots : Purged(table, heap)[s] # None =>
              Purged(table, heap)[s] = table[s] /\ heap[table[s]] # None
         /\ \A s \in Slots : table[s] # None /\ heap[table[s]] # None =>
              Purged(table, heap)[s] = table[s]
  BY DEF Tables, Heaps, Purged

(* A set of table indices that is not empty has a lowest one.              *)
LEMMA LowestIn ==
  ASSUME NEW S \in SUBSET Slots, S # {}
  PROVE  Lowest(S) \in S
  <1> DEFINE Less == OpToRel(<, Nat)
  <1>1. S \subseteq Nat
    BY NCacheAssumption
  <1>2. Less = {ss \in Nat \X Nat : ss[1] < ss[2]}
    BY DEF OpToRel
  <1>3. IsWellFoundedOn(Less, Nat)
    BY NatLessThanWellFounded
  <1> HIDE DEF Less
  <1>4. PICK s \in S : \A t \in S : <<t, s>> \notin Less
    BY <1>1, <1>3, WFMin
  <1>5. ASSUME NEW t \in S PROVE s <= t
    <2>1. ~ (t < s)
      BY <1>1, <1>2, <1>4
    <2>2. QED
      BY <1>1, <2>1
  <1>6. QED
    BY <1>5 DEF Lowest

(* What is held after the field f has been given the value new: a buffer   *)
(* gains f, loses it, or neither.                                          *)
LEMMA HoldersGained ==
  ASSUME NEW f \in Fields, NEW b \in Bufs, field \in [Fields -> Bufs \cup {None}],
         field' = [field EXCEPT ![f] = b], field[f] # b, IsFiniteSet(Holders(b))
  PROVE  /\ IsFiniteSet(Holders(b)')
         /\ Cardinality(Holders(b)') = Cardinality(Holders(b)) + 1
  <1>1. Holders(b)' = Holders(b) \cup {f} /\ f \notin Holders(b)
    BY DEF Holders
  <1>2. QED
    BY <1>1, FS_AddElement

LEMMA HoldersLost ==
  ASSUME NEW f \in Fields, NEW new, NEW b \in Bufs, field \in [Fields -> Bufs \cup {None}],
         field' = [field EXCEPT ![f] = new], b # new, field[f] = b, IsFiniteSet(Holders(b))
  PROVE  /\ IsFiniteSet(Holders(b)')
         /\ Cardinality(Holders(b)') = Cardinality(Holders(b)) - 1
  <1>1. Holders(b)' = Holders(b) \ {f} /\ f \in Holders(b)
    BY DEF Holders
  <1>2. QED
    BY <1>1, FS_RemoveElement

LEMMA HoldersKept ==
  ASSUME NEW f \in Fields, NEW new, NEW b \in Bufs, field \in [Fields -> Bufs \cup {None}],
         field' = [field EXCEPT ![f] = new], b # new, field[f] # b
  PROVE  Holders(b)' = Holders(b)
  BY DEF Holders

-----------------------------------------------------------------------------
(* What the steps that change a field have in common: f is given the       *)
(* buffer new (or None), the one it had is given up, and the buffers of    *)
(* fresh have leaked.                                                      *)

(* The buffers that have no part in the step stay; one reference of the    *)
(* old one is given up; the new one is loaded, or found and counted again. *)
HeapMoves(f, new, fresh) ==
  /\ buf' \in Heaps
  /\ \A c \in fresh : buf[c] = None /\ buf'[c] # None
  /\ \A c \in Bufs : c # new /\ c # field[f] /\ c \notin fresh => buf'[c] = buf[c]
  /\ field[f] # None =>
       LET old == field[f] IN
         /\ buf[old].ref = 1 => buf'[old] = None
         /\ buf[old].ref > 1 =>
              /\ buf'[old] # None /\ buf'[old].ref = buf[old].ref - 1
              /\ buf'[old].uri = buf[old].uri /\ buf'[old].data = buf[old].data
  /\ new # None =>
       /\ buf'[new] # None
       /\ buf[new] = None => buf'[new].ref = 1
       /\ buf[new] # None =>
            /\ InCache(new) /\ buf'[new].ref = buf[new].ref + 1
            /\ buf'[new].uri = buf[new].uri /\ buf'[new].data = buf[new].data

(* Entries go with their buffers, and there is at most one more, for a     *)
(* buffer that is loaded.                                                  *)
TableMoves(new) ==
  /\ cache' \in Tables
  /\ \A s \in Slots : cache[s] # None /\ buf'[cache[s]] # None => cache'[s] = cache[s]
  /\ \A s \in Slots : cache'[s] # None => buf'[cache'[s]] # None
  /\ \A s \in Slots : cache'[s] # None /\ cache'[s] # cache[s] =>
       cache'[s] = new /\ buf[new] = None
  /\ \A s, t \in Slots :
       /\ cache'[s] # None /\ cache'[s] # cache[s]
       /\ cache'[t] # None /\ cache'[t] # cache[t]
       => s = t

Moves(f, new, fresh) ==
  /\ new \in Bufs \cup {None} /\ (new # None => new # field[f])
  /\ fresh \subseteq Bufs /\ new \notin fresh
  /\ field' = [field EXCEPT ![f] = new]
  /\ leaked' = leaked \cup fresh
  /\ HeapMoves(f, new, fresh)
  /\ TableMoves(new)

(* A field holds a buffer with a count, of which there is at least one.    *)
LEMMA HeldCounted ==
  ASSUME TypeOK, CountsRight, NEW f \in Fields, field[f] # None
  PROVE  /\ field[f] \in Bufs /\ buf[field[f]] \in Pixbuf /\ buf[field[f]] # None
         /\ buf[field[f]].ref \in Nat /\ buf[field[f]].ref > 0
         /\ f \in Holders(field[f]) /\ Holders(field[f]) # {}
  <1> DEFINE b == field[f]
  <1>1. b \in Bufs /\ f \in Holders(b)
    BY DEF TypeOK, Holders
  <1>2. buf[b] # None
    BY <1>1 DEF CountsRight, InUse
  <1>3. buf[b] \in Pixbuf
    BY <1>1, <1>2 DEF TypeOK
  <1>4. IsFiniteSet(Holders(b)) /\ Holders(b) # {}
    BY <1>1 DEF CountsRight
  <1>5. Cardinality(Holders(b)) \in Nat /\ Cardinality(Holders(b)) # 0
    BY <1>4, FS_CardinalityType, FS_EmptySet
  <1>6. buf[b].ref \in Nat
    BY <1>3, RefAssumption DEF Pixbuf
  <1>7. buf[b].ref >= Cardinality(Holders(b))
    BY <1>1, <1>2, <1>4, <1>5, <1>6 DEF CountsRight, InUse
  <1>8. QED
    BY <1>1, <1>2, <1>3, <1>4, <1>5, <1>6, <1>7

(* The counts are right after such a step.                                 *)
LEMMA CountsMoves ==
  ASSUME TypeOK, CountsRight, NEW f \in Fields, NEW new, NEW fresh, Moves(f, new, fresh)
  PROVE  CountsRight'
  <1> DEFINE n(b) == Cardinality(Holders(b))
  <1>1. field \in [Fields -> Bufs \cup {None}] /\ field' = [field EXCEPT ![f] = new]
    BY DEF TypeOK, Moves
  <1> SUFFICES ASSUME NEW b \in Bufs
               PROVE  /\ IsFiniteSet(Holders(b)')
                      /\ buf'[b] = None => ~InUse(b)' /\ b \notin leaked'
                      /\ buf'[b] # None /\ b \notin leaked' =>
                           Holders(b)' # {} /\ buf'[b].ref = n(b)'
                      /\ buf'[b] # None /\ b \in leaked' /\ InUse(b)' =>
                           buf'[b].ref > n(b)'
    BY DEF CountsRight
  <1>2. b # None
    BY NoneAssumption
  <1>3. IsFiniteSet(Holders(b)) /\ (new # None => new # field[f])
    BY DEF CountsRight, Moves
  <1>4. b = new => IsFiniteSet(Holders(b)') /\ n(b)' = n(b) + 1
    BY <1>1, <1>2, <1>3, HoldersGained
  <1>5. b # new /\ field[f] = b => IsFiniteSet(Holders(b)') /\ n(b)' = n(b) - 1
    BY <1>1, <1>3, HoldersLost
  <1>6. b # new /\ field[f] # b => Holders(b)' = Holders(b)
    BY <1>1, HoldersKept
  <1>7. IsFiniteSet(Holders(b)) /\ IsFiniteSet(Holders(b)')
    BY <1>3, <1>4, <1>5, <1>6
  <1>8. n(b) \in Nat /\ (n(b) = 0 <=> Holders(b) = {})
    BY <1>7, FS_CardinalityType, FS_EmptySet
  <1>9. n(b)' \in Nat /\ (n(b)' = 0 <=> Holders(b)' = {})
    BY <1>7, FS_CardinalityType, FS_EmptySet
  <1>10. InCache(b)' => InCache(b) \/ (b = new /\ buf[new] = None)
    BY <1>2 DEF Moves, TableMoves, InCache
  <1>11. buf'[b] = None => ~InCache(b)'
    BY <1>2 DEF Moves, TableMoves, InCache
  <1>12. CASE b \in fresh
    <2>1. b # new /\ buf[b] = None /\ buf'[b] # None /\ b \in leaked'
      BY <1>12 DEF Moves, HeapMoves
    <2>2. ~InUse(b) /\ field[f] # b
      BY <2>1 DEF CountsRight, InUse, Holders
    <2>3. Holders(b)' = Holders(b)
      BY <1>6, <2>1, <2>2
    <2>4. ~InUse(b)'
      BY <2>1, <2>2, <2>3, <1>10 DEF InUse
    <2>5. QED
      BY <1>7, <2>1, <2>4
  <1>13. CASE b \notin fresh /\ b = new
    <2>1. field[f] # b /\ buf'[b] # None
      BY <1>2, <1>13 DEF Moves, HeapMoves
    <2>2. Holders(b)' # {} /\ n(b)' = n(b) + 1
      BY <1>8, <1>9, <1>13, <1>4, <2>1
    <2>3. b \in leaked' <=> b \in leaked
      BY <1>13 DEF Moves
    <2>4. CASE buf[b] = None
      <3>1. Holders(b) = {} /\ b \notin leaked /\ buf'[b].ref = 1
        BY <1>2, <1>13, <2>4 DEF Moves, HeapMoves, CountsRight, InUse
      <3>2. QED
        BY <1>7, <1>8, <2>1, <2>2, <2>3, <3>1
    <2>5. CASE buf[b] # None
      <3>1. InUse(b) /\ buf'[b].ref = buf[b].ref + 1
        BY <1>2, <1>13, <2>5 DEF Moves, HeapMoves, InUse
      <3>2. buf[b].ref \in Nat
        BY <2>5, RefAssumption DEF TypeOK, Pixbuf
      <3>3. IF b \in leaked THEN buf[b].ref > n(b) ELSE buf[b].ref = n(b)
        BY <2>5, <3>1 DEF CountsRight
      <3>4. QED
        BY <1>7, <1>8, <2>1, <2>2, <2>3, <3>1, <3>2, <3>3
    <2>6. QED
      BY <2>4, <2>5
  <1>14. CASE b \notin fresh /\ b # new /\ b = field[f]
    <2>1. /\ buf[b] # None /\ buf[b].ref \in Nat /\ buf[b].ref > 0
          /\ Holders(b) # {}
      BY <1>2, <1>14, HeldCounted
    <2>2. n(b)' = n(b) - 1
      BY <1>14, <1>5
    <2>3. IF b \in leaked THEN buf[b].ref > n(b) ELSE buf[b].ref = n(b)
      BY <2>1 DEF CountsRight, InUse
    <2>4. b \in leaked' <=> b \in leaked
      BY <1>14 DEF Moves
    <2>5. CASE buf[b].ref = 1
      <3>1. buf'[b] = None
        BY <1>2, <1>14, <2>5 DEF Moves, HeapMoves
      <3>2. b \notin leaked /\ Holders(b)' = {}
        BY <1>8, <1>9, <2>1, <2>2, <2>3, <2>5
      <3>3. QED
        BY <1>7, <1>11, <2>4, <3>1, <3>2 DEF InUse
    <2>6. CASE buf[b].ref > 1
      <3>1. buf'[b] # None /\ buf'[b].ref = buf[b].ref - 1
        BY <1>2, <1>14, <2>6 DEF Moves, HeapMoves
      <3>2. QED
        BY <1>7, <1>8, <1>9, <2>1, <2>2, <2>3, <2>4, <2>6, <3>1
    <2>7. QED
      BY <2>1, <2>5, <2>6
  <1>15. CASE b \notin fresh /\ b # new /\ b # field[f]
    <2>1. buf'[b] = buf[b] /\ Holders(b)' = Holders(b)
      BY <1>15, <1>6 DEF Moves, HeapMoves
    <2>2. b \in leaked' <=> b \in leaked
      BY <1>15 DEF Moves
    <2>3. InUse(b)' => InUse(b)
      BY <1>10, <1>15, <2>1 DEF InUse
    <2>4. QED
      BY <1>7, <2>1, <2>2, <2>3 DEF CountsRight
  <1>16. QED
    BY <1>12, <1>13, <1>14, <1>15

(* Names and data stay with a buffer as long as it is not freed.           *)
LEMMA NamesKept ==
  ASSUME TypeOK, CountsRight, NEW f \in Fields, NEW new, NEW fresh, Moves(f, new, fresh),
         NEW b \in Bufs, buf[b] # None, buf'[b] # None
  PROVE  buf'[b].uri = buf[b].uri /\ buf'[b].data = buf[b].data
  <1>1. b \notin fresh /\ b # None
    BY NoneAssumption DEF Moves, HeapMoves
  <1>2. CASE b = new
    BY <1>1, <1>2 DEF Moves, HeapMoves
  <1>3. CASE b # new /\ b = field[f]
    <2>1. buf[b].ref \in Nat /\ buf[b].ref > 0
      BY <1>1, <1>3, HeldCounted
    <2>2. buf[b].ref = 1 \/ buf[b].ref > 1
      BY <2>1
    <2>3. QED
      BY <1>1, <1>3, <2>2 DEF Moves, HeapMoves
  <1>4. CASE b # new /\ b # field[f]
    BY <1>1, <1>4 DEF Moves, HeapMoves
  <1>5. QED
    BY <1>2, <1>3, <1>4

(* A buffer that is used after such a step is the new one, or was used     *)
(* before.                                                                 *)
LEMMA UseMoves ==
  ASSUME TypeOK, CountsRight, NEW f \in Fields, NEW new, NEW fresh, Moves(f, new, fresh),
         NEW b \in Bufs, InUse(b)'
  PROVE  /\ buf'[b] # None
         /\ b = new \/ (InUse(b) /\ buf[b] # None)
  <1>1. CountsRight'
    BY CountsMoves
  <1>2. b # None
    BY NoneAssumption
  <1>3. buf'[b] # None
    BY <1>1 DEF CountsRight
  <1>4. ASSUME b # new PROVE InUse(b)
    <2>1. InCache(b)' => InCache(b)
      BY <1>2, <1>4 DEF Moves, TableMoves, InCache
    <2>2. Holders(b)' # {} => Holders(b) # {}
      BY <1>4 DEF Moves, TypeOK, Holders
    <2>3. QED
      BY <2>1, <2>2 DEF InUse
  <1>5. InUse(b) => buf[b] # None
    BY DEF CountsRight
  <1>6. QED
    BY <1>3, <1>4, <1>5

(* The table is right after such a step, when a buffer that is loaded has  *)
(* a name the table did not have.                                          *)
LEMMA CacheMoves ==
  ASSUME TypeOK, CountsRight, CacheRight,
         NEW f \in Fields, NEW new, NEW fresh, Moves(f, new, fresh),
         new # None /\ buf[new] = None =>
           Cached(buf'[new].uri) = {} /\ (overflowed' \/ InCache(new)'),
         overflowed => overflowed'
  PROVE  CacheRight'
  <1>1. ASSUME NEW s \in Slots, NEW t \in Slots, cache'[s] # None, cache'[t] # None,
               buf'[cache'[s]].uri = buf'[cache'[t]].uri
        PROVE  s = t
    <2>1. ASSUME NEW r \in Slots, cache'[r] # None, cache'[r] = cache[r]
          PROVE  buf'[cache'[r]].uri = buf[cache[r]].uri
      <3>1. cache[r] \in Bufs /\ InCache(cache[r]) /\ buf'[cache[r]] # None
        BY <2>1 DEF TypeOK, InCache, Moves, TableMoves
      <3>2. buf[cache[r]] # None
        BY <3>1 DEF CountsRight, InUse
      <3>3. QED
        BY <2>1, <3>1, <3>2, NamesKept
    <2>2. ASSUME NEW q \in Slots, cache'[q] # None, cache'[q] = cache[q],
                 NEW r \in Slots, cache'[r] # None, cache'[r] # cache[r]
          PROVE  buf'[cache'[q]].uri # buf'[cache'[r]].uri
      <3>1. cache'[r] = new /\ new # None /\ buf[new] = None
        BY <2>2 DEF Moves, TableMoves
      <3>2. buf[cache[q]].uri # buf'[new].uri
        BY <2>2, <3>1 DEF Cached
      <3>3. QED
        BY <2>1, <2>2, <3>1, <3>2
    <2>3. CASE cache'[s] = cache[s] /\ cache'[t] = cache[t]
      <3>1. cache[s] # None /\ cache[t] # None /\ buf[cache[s]].uri = buf[cache[t]].uri
        BY <1>1, <2>1, <2>3
      <3>2. QED
        BY <3>1 DEF CacheRight
    <2>4. CASE cache'[s] # cache[s] /\ cache'[t] # cache[t]
      BY <1>1, <2>4 DEF Moves, TableMoves
    <2>5. QED
      BY <1>1, <2>2, <2>3, <2>4
  <1>2. ASSUME ~overflowed', NEW b \in Bufs, Holders(b)' # {}
        PROVE  InCache(b)'
    <2>1. b # None /\ buf'[b] # None
      BY <1>2, UseMoves, NoneAssumption DEF InUse
    <2>2. ASSUME InCache(b) PROVE InCache(b)'
      <3>1. PICK s \in Slots : cache[s] = b
        BY <2>2 DEF InCache
      <3>2. cache'[s] = b
        BY <2>1, <3>1 DEF Moves, TableMoves
      <3>3. QED
        BY <3>2 DEF InCache
    <2>3. CASE b = new
      BY <1>2, <2>1, <2>2, <2>3 DEF Moves, HeapMoves
    <2>4. CASE b # new
      <3>1. Holders(b) # {}
        BY <1>2, <2>4 DEF Moves, TypeOK, Holders
      <3>2. InCache(b)
        BY <1>2, <3>1 DEF CacheRight, Held
      <3>3. QED
        BY <2>2, <3>2
    <2>5. QED
      BY <2>3, <2>4
  <1>3. QED
    BY <1>1, <1>2 DEF CacheRight, Held

(* The data are right after such a step, when a buffer that is loaded has  *)
(* the data of its name, and asked follows the field.                      *)
LEMMA DataMoves ==
  ASSUME TypeOK, CountsRight, DataRight,
         NEW f \in Fields, NEW new, NEW fresh, Moves(f, new, fresh),
         new # None /\ buf[new] = None => buf'[new].data = DataOf(buf'[new].uri),
         NEW a, asked' = [asked EXCEPT ![f] = a],
         new # None => a = [uri |-> buf'[new].uri, data |-> DataOf(buf'[new].uri)],
         source' = source
  PROVE  DataRight'
  <1>1. \A u : DataOf(u)' = DataOf(u)
    BY DEF DataOf
  <1>2. ASSUME NEW b \in Bufs, InUse(b)'
        PROVE  buf'[b].data = DataOf(buf'[b].uri)
    <2>1. b # None /\ buf'[b] # None /\ (b = new \/ (InUse(b) /\ buf[b] # None))
      BY <1>2, UseMoves, NoneAssumption
    <2>2. CASE buf[b] = None
      BY <2>1, <2>2
    <2>3. CASE buf[b] # None
      <3>1. buf'[b].uri = buf[b].uri /\ buf'[b].data = buf[b].data
        BY <2>1, <2>3, NamesKept
      <3>2. InUse(b)
        BY <2>1, <2>3 DEF Moves, HeapMoves, InUse
      <3>3. QED
        BY <3>1, <3>2 DEF DataRight
    <2>4. QED
      BY <2>2, <2>3
  <1>3. ASSUME NEW g \in Fields, field'[g] # None
        PROVE  asked'[g] = [uri |-> buf'[field'[g]].uri, data |-> buf'[field'[g]].data]
    <2>1. CASE g = f
      <3>1. field'[g] = new /\ asked'[g] = a /\ new \in Bufs
        BY <1>3, <2>1 DEF TypeOK, Moves
      <3>2. InUse(new)'
        BY <3>1 DEF InUse, Holders
      <3>3. QED
        BY <1>2, <1>3, <3>1, <3>2
    <2>2. CASE g # f
      <3>1. field'[g] = field[g] /\ asked'[g] = asked[g] /\ field[g] \in Bufs
        BY <1>3, <2>2 DEF TypeOK, Moves
      <3>2. buf'[field[g]] # None
        <4>1. InUse(field[g])'
          BY <3>1 DEF InUse, Holders
        <4>2. QED
          BY <3>1, <4>1, UseMoves
      <3>3. buf[field[g]] # None
        BY <1>3, <3>1, HeldCounted
      <3>4. /\ buf'[field[g]].uri = buf[field[g]].uri
            /\ buf'[field[g]].data = buf[field[g]].data
        BY <3>1, <3>2, <3>3, NamesKept
      <3>5. QED
        BY <1>3, <3>1, <3>4 DEF DataRight
    <2>3. QED
      BY <2>1, <2>2
  <1>4. QED
    BY <1>1, <1>2, <1>3 DEF DataRight

-----------------------------------------------------------------------------
(* The setters and finalizers are such steps.                              *)

LEMMA HeapStep ==
  ASSUME TypeOK, CountsRight, NEW f \in Fields, NEW new \in Bufs \cup {None},
         NEW fresh \in SUBSET Bufs, new \notin fresh, new # None => new # field[f],
         NEW heap \in Heaps, buf' = Deleted(heap, field[f]),
         \A c \in fresh : buf[c] = None /\ heap[c] # None,
         \A c \in Bufs : c # new /\ c \notin fresh => heap[c] = buf[c],
         new # None =>
           /\ heap[new] # None
           /\ buf[new] = None => heap[new].ref = 1
           /\ buf[new] # None =>
                /\ InCache(new) /\ heap[new].ref = buf[new].ref + 1
                /\ heap[new].uri = buf[new].uri /\ heap[new].data = buf[new].data
  PROVE  /\ HeapMoves(f, new, fresh)
         /\ \A c \in Bufs : c # field[f] => buf'[c] = heap[c]
  <1>1. None \notin Bufs
    BY NoneAssumption
  <1>2. CASE field[f] = None
    BY <1>1, <1>2, DeletedNone DEF HeapMoves
  <1>3. CASE field[f] # None
    <2> DEFINE old == field[f]
    <2>1. old \in Bufs /\ buf[old] # None /\ buf[old].ref > 0
      BY <1>3, HeldCounted
    <2>2. old # new /\ old \notin fresh /\ heap[old] = buf[old]
      BY <1>3, <2>1
    <2>3. /\ Deleted(heap, old) \in Heaps
          /\ \A c \in Bufs : c # old => Deleted(heap, old)[c] = heap[c]
          /\ heap[old].ref = 1 => Deleted(heap, old)[old] = None
          /\ heap[old].ref > 1 =>
               /\ Deleted(heap, old)[old] # None
               /\ Deleted(heap, old)[old].ref = heap[old].ref - 1
               /\ Deleted(heap, old)[old].uri = heap[old].uri
               /\ Deleted(heap, old)[old].data = heap[old].data
      BY <2>1, <2>2, DeletedHeap
    <2>4. QED
      BY <1>1, <1>3, <2>1, <2>2, <2>3 DEF HeapMoves
  <1>4. QED
    BY <1>2, <1>3

LEMMA TableStep ==
  ASSUME TypeOK, buf' \in Heaps, NEW new, NEW table \in Tables,
         cache' = Purged(table, buf'),
         \A s \in Slots : cache[s] # None => table[s] = cache[s],
         \A s \in Slots : table[s] # cache[s] => table[s] = new /\ buf[new] = None,
         \A s, t \in Slots : table[s] # cache[s] /\ table[t] # cache[t] => s = t
  PROVE  TableMoves(new)
  <1>1. /\ cache' \in Tables
        /\ \A s \in Slots : cache'[s] # None => cache'[s] = table[s] /\ buf'[table[s]] # None
        /\ \A s \in Slots : table[s] # None /\ buf'[table[s]] # None => cache'[s] = table[s]
    BY PurgedTable
  <1>2. QED
    BY <1>1 DEF TableMoves

(* A buffer that is found under a name.                                    *)
LEMMA FoundCached ==
  ASSUME TypeOK, CountsRight, NEW u, Cached(u) # {}
  PROVE  LET b == cache[Lowest(Cached(u))]
         IN  b \in Bufs /\ InCache(b) /\ buf[b] \in Pixbuf /\ buf[b] # None /\ buf[b].uri = u
  <1>1. Lowest(Cached(u)) \in Cached(u)
    BY LowestIn DEF Cached
  <1> DEFINE b == cache[Lowest(Cached(u))]
  <1>2. Lowest(Cached(u)) \in Slots /\ b # None /\ buf[b].uri = u
    BY <1>1 DEF Cached
  <1>3. b \in Bufs /\ InCache(b)
    BY <1>2 DEF TypeOK, InCache
  <1>4. buf[b] # None
    BY <1>3 DEF CountsRight, InUse
  <1>5. QED
    BY <1>2, <1>3, <1>4 DEF TypeOK

LEMMA SetCachedMoves ==
  ASSUME TypeOK, CountsRight, NEW f \in Fields, NEW u \in Uris, SetCached(f, u)
  PROVE  \E new \in Bufs :
           Moves(f, new, {}) /\ buf[new] # None /\ buf'[new].uri = u
  <1> DEFINE b == cache[Lowest(Cached(u))]
             heap == [buf EXCEPT ![b].ref = @ + 1]
  <1>1. /\ Cached(u) # {} /\ buf[b].ref < MaxRefs /\ buf' = Deleted(heap, field[f])
        /\ field' = [field EXCEPT ![f] = b] /\ cache' = Purged(cache, buf')
        /\ ~Same(f, u) /\ leaked' = leaked
    BY DEF SetCached
  <1>2. b \in Bufs /\ InCache(b) /\ buf[b] \in Pixbuf /\ buf[b] # None /\ buf[b].uri = u
    BY <1>1, FoundCached
  <1> HIDE DEF b
  <1>3. b # field[f] /\ b # None
    BY <1>1, <1>2, NoneAssumption DEF Same
  <1>4. buf \in Heaps /\ cache \in Tables
    BY DEF TypeOK, Heaps, Tables
  <1>5. buf[b].ref \in Nat /\ buf[b].ref + 1 \in 0 .. 2 ^ RefWidth - 1
    BY <1>1, <1>2, RefAssumption DEF Pixbuf
  <1>6. /\ heap[b] \in Pixbuf /\ heap[b].ref = buf[b].ref + 1
        /\ heap[b].uri = buf[b].uri /\ heap[b].data = buf[b].data
    BY <1>2, <1>4, <1>5 DEF Pixbuf, Heaps
  <1>7. heap \in Heaps /\ heap[b] # None /\ \A c \in Bufs : c # b => heap[c] = buf[c]
    BY <1>2, <1>4, <1>6, PixbufAssumption DEF Heaps
  <1> HIDE DEF heap
  <1>8. HeapMoves(f, b, {})
    BY <1>1, <1>2, <1>3, <1>6, <1>7, HeapStep
  <1>9. TableMoves(b)
    BY <1>1, <1>4, <1>8, TableStep DEF HeapMoves
  <1>10. QED
    BY <1>1, <1>2, <1>3, <1>8, <1>9 DEF Moves, HeapMoves

LEMMA LoadedType ==
  ASSUME TypeOK, NEW u \in Uris
  PROVE  /\ Loaded(u) \in Pixbuf /\ Loaded(u).ref = 1
         /\ Loaded(u).uri = u /\ Loaded(u).data = DataOf(u)
         /\ DataOf(u) \in Uris \cup Data
  <1>1. DataOf(u) \in Uris \cup Data
    BY DEF TypeOK, DataOf
  <1>2. 1 \in 0 .. 2 ^ RefWidth - 1
    BY RefAssumption
  <1>3. QED
    BY <1>1, <1>2 DEF Loaded, Pixbuf

LEMMA SetLoadedMoves ==
  ASSUME TypeOK, CountsRight, NEW f \in Fields, NEW u \in Uris, SetLoaded(f, u)
  PROVE  \E new \in Bufs :
           /\ Moves(f, new, {}) /\ buf[new] = None /\ buf'[new].uri = u
           /\ buf'[new].data = DataOf(u)
           /\ overflowed' \/ InCache(new)'
  <1>1. PICK b \in Bufs :
          /\ buf[b] = None
          /\ buf' = Deleted([buf EXCEPT ![b] = Loaded(u)], field[f])
          /\ field' = [field EXCEPT ![f] = b]
          /\ IF EmptySlots = {}
               THEN overflowed' = TRUE /\ cache' = Purged(cache, buf')
               ELSE /\ cache' = Purged([cache EXCEPT ![Lowest(EmptySlots)] = b], buf')
                    /\ UNCHANGED overflowed
    BY DEF SetLoaded
  <1> DEFINE heap == [buf EXCEPT ![b] = Loaded(u)]
             slot == Lowest(EmptySlots)
             table == IF EmptySlots = {} THEN cache ELSE [cache EXCEPT ![slot] = b]
  <1>2. b # None /\ ~InUse(b) /\ leaked' = leaked
    BY <1>1, NoneAssumption DEF CountsRight, SetLoaded
  <1>3. b # field[f]
    BY <1>2 DEF InUse, Holders
  <1>4. buf \in Heaps /\ cache \in Tables
    BY DEF TypeOK, Heaps, Tables
  <1>5. /\ heap \in Heaps /\ heap[b] = Loaded(u) /\ heap[b] # None
        /\ \A c \in Bufs : c # b => heap[c] = buf[c]
    BY <1>4, LoadedType, PixbufAssumption DEF Heaps
  <1>6. HeapMoves(f, b, {}) /\ buf'[b] = Loaded(u)
    <2> HIDE DEF heap
    <2>1. heap[b].ref = 1
      BY <1>5, LoadedType
    <2>2. buf' = Deleted(heap, field[f])
      BY <1>1 DEF heap
    <2>3. buf[b] = None /\ b # field[f]
      BY <1>1, <1>3
    <2>4. HeapMoves(f, b, {}) /\ \A c \in Bufs : c # field[f] => buf'[c] = heap[c]
      BY <1>5, <2>1, <2>2, <2>3, HeapStep
    <2>5. QED
      BY <1>5, <2>3, <2>4
  <1>7. EmptySlots # {} => slot \in Slots /\ cache[slot] = None
    BY LowestIn DEF EmptySlots
  <1>8. /\ table \in Tables /\ cache' = Purged(table, buf')
        /\ \A s \in Slots : table[s] # cache[s] => s = slot /\ table[s] = b /\ cache[s] = None
    BY <1>1, <1>4, <1>7 DEF Tables
  <1>9. TableMoves(b)
    <2> HIDE DEF table
    <2>1. buf' \in Heaps
      BY <1>6 DEF HeapMoves
    <2>2. QED
      BY <1>1, <1>8, <2>1, TableStep
  <1>10. Moves(f, b, {})
    BY <1>1, <1>2, <1>3, <1>6, <1>9 DEF Moves
  <1>11. EmptySlots # {} => InCache(b)'
    <2>1. buf' \in Heaps /\ buf'[b] # None
      BY <1>2, <1>6 DEF HeapMoves
    <2>2. EmptySlots # {} => table[slot] = b
      BY <1>4, <1>7 DEF Tables
    <2>3. EmptySlots # {} => cache'[slot] = b
      <3> HIDE DEF table
      <3>1. QED
        BY <1>2, <1>7, <1>8, <2>1, <2>2, PurgedTable
    <2>4. QED
      BY <1>7, <2>3 DEF InCache
  <1>12. QED
    BY <1>1, <1>6, <1>10, <1>11, LoadedType

(* The step that empties a field, after buffers of fresh have leaked.      *)
LEMMA DropMoves ==
  ASSUME TypeOK, CountsRight, NEW f \in Fields, NEW fresh \in SUBSET Bufs,
         NEW heap \in Heaps, buf' = Deleted(heap, field[f]),
         \A c \in fresh : buf[c] = None /\ heap[c] # None,
         \A c \in Bufs : c \notin fresh => heap[c] = buf[c],
         field' = [field EXCEPT ![f] = None], cache' = Purged(cache, buf'),
         leaked' = leaked \cup fresh
  PROVE  Moves(f, None, fresh)
  <1>1. None \notin fresh
    BY NoneAssumption
  <1>2. HeapMoves(f, None, fresh)
    BY <1>1, HeapStep
  <1>3. cache \in Tables /\ buf' \in Heaps
    BY <1>2 DEF TypeOK, Tables, HeapMoves
  <1>4. TableMoves(None)
    BY <1>3, TableStep
  <1>5. QED
    BY <1>1, <1>2, <1>4 DEF Moves

LEMMA AbandonedType ==
  ASSUME NEW u \in Uris, NEW rest \in Abandoned(u)
  PROVE  rest \in Pixbuf /\ rest # None
  <1>1. 0 \in 0 .. 2 ^ RefWidth - 1 /\ 1 \in 0 .. 2 ^ RefWidth - 1
    BY RefAssumption
  <1>2. rest \in Pixbuf
    BY <1>1, DecrementedCounts DEF Abandoned, Pixbuf
  <1>3. QED
    BY <1>2, PixbufAssumption

LEMMA ImageGoneMoves ==
  ASSUME TypeOK, CountsRight, NEW f \in Fields, ImageGone(f)
  PROVE  Moves(f, None, {})
  <1>1. buf \in Heaps
    BY DEF TypeOK, Heaps
  <1>2. QED
    BY <1>1, DropMoves DEF ImageGone

(* A load that fails drops the image of an <img> or <button>.              *)
LEMMA SetFailsMoves ==
  ASSUME TypeOK, CountsRight, NEW f \in Images, NEW u \in Uris, SetFails(f, u)
  PROVE  \E fresh \in SUBSET Bufs : Moves(f, None, fresh)
  <1>1. PICK b \in Bufs, rest \in Abandoned(u) :
          /\ buf[b] = None /\ buf' = Deleted([buf EXCEPT ![b] = rest], field[f])
          /\ field' = [field EXCEPT ![f] = None] /\ leaked' = leaked \cup {b}
    BY DEF SetFails, DropOwn
  <1>2. rest \in Pixbuf /\ rest # None
    BY AbandonedType
  <1> DEFINE heap == [buf EXCEPT ![b] = rest]
  <1>3. /\ heap \in Heaps /\ heap[b] # None
        /\ \A c \in Bufs : c \notin {b} => heap[c] = buf[c]
    BY <1>2 DEF TypeOK, Heaps
  <1>4. cache' = Purged(cache, buf')
    BY DEF SetFails
  <1> HIDE DEF heap
  <1>5. buf' = Deleted(heap, field[f])
    BY <1>1 DEF heap
  <1>6. Moves(f, None, {b})
    BY <1>1, <1>3, <1>4, <1>5, DropMoves
  <1>7. QED
    BY <1>6

LEMMA SetOutOfMemoryMoves ==
  ASSUME TypeOK, CountsRight, NEW f \in Images, NEW u \in Uris, SetOutOfMemory(f, u)
  PROVE  Moves(f, None, {})
  <1>1. buf \in Heaps
    BY DEF TypeOK, Heaps
  <1>2. QED
    BY <1>1, DropMoves DEF SetOutOfMemory, DropOwn

(* A load that fails leaves the image of a <progressbar>, and the table.   *)
LEMMA PurgedKeeps ==
  ASSUME TypeOK, CountsRight, \A c \in Bufs : buf[c] # None => buf'[c] # None,
         cache' = Purged(cache, buf')
  PROVE  cache' = cache
  <1>1. ASSUME NEW s \in Slots, cache[s] # None PROVE buf'[cache[s]] # None
    <2>1. cache[s] \in Bufs /\ InUse(cache[s])
      BY <1>1 DEF TypeOK, InUse, InCache
    <2>2. QED
      BY <2>1 DEF CountsRight
  <1>2. QED
    BY <1>1 DEF TypeOK, Purged

LEMMA BarFails ==
  ASSUME TypeOK, CountsRight, NEW f \in Fields, f \notin Images, NEW u \in Uris,
         SetFails(f, u)
  PROVE  /\ \E b \in Bufs, rest \in Pixbuf :
              /\ buf[b] = None /\ rest # None /\ buf' = [buf EXCEPT ![b] = rest]
              /\ leaked' = leaked \cup {b}
         /\ UNCHANGED <<cache, field, source, asked, overflowed>>
  <1>1. PICK b \in Bufs, rest \in Abandoned(u) :
          /\ buf[b] = None /\ buf' = [buf EXCEPT ![b] = rest] /\ leaked' = leaked \cup {b}
    BY DEF SetFails, DropOwn
  <1>2. rest \in Pixbuf /\ rest # None
    BY AbandonedType
  <1>3. \A c \in Bufs : buf[c] # None => buf'[c] # None
    BY <1>1, <1>2 DEF TypeOK
  <1>4. cache' = cache
    BY <1>3, PurgedKeeps DEF SetFails
  <1>5. UNCHANGED <<field, source, asked, overflowed>>
    BY DEF SetFails, DropOwn
  <1>6. QED
    BY <1>1, <1>2, <1>4, <1>5

-----------------------------------------------------------------------------
(* Steps that change no field, and a <progressbar> that is gone            *)

LEMMA BarFailsInv ==
  ASSUME TypeOK, CountsRight, CacheRight, NEW b \in Bufs, NEW rest \in Pixbuf,
         buf[b] = None, rest # None, buf' = [buf EXCEPT ![b] = rest],
         leaked' = leaked \cup {b}, UNCHANGED <<cache, field, overflowed>>
  PROVE  CountsRight' /\ CacheRight'
  <1>1. ~InUse(b) /\ b # None
    BY NoneAssumption DEF CountsRight
  <1>2. \A c \in Bufs : Holders(c)' = Holders(c) /\ (InCache(c)' <=> InCache(c))
    BY DEF Holders, InCache
  <1>3. \A c \in Bufs : InUse(c)' <=> InUse(c)
    BY <1>2 DEF InUse
  <1>4. buf'[b] = rest /\ \A c \in Bufs : c # b => buf'[c] = buf[c]
    BY DEF TypeOK
  <1>5. CountsRight'
    BY <1>1, <1>2, <1>3, <1>4 DEF CountsRight
  <1>6. \A s \in Slots : cache[s] # None => cache[s] \in Bufs /\ cache[s] # b
    BY <1>1 DEF TypeOK, InUse, InCache
  <1>7. CacheRight'
    BY <1>2, <1>4, <1>6 DEF CacheRight, Held
  <1>8. QED
    BY <1>5, <1>7

LEMMA BarFailsData ==
  ASSUME TypeOK, CountsRight, DataRight, NEW b \in Bufs, NEW rest \in Pixbuf,
         buf[b] = None, buf' = [buf EXCEPT ![b] = rest],
         UNCHANGED <<cache, field, source, asked>>
  PROVE  DataRight'
  <1>1. ~InUse(b)
    BY DEF CountsRight
  <1>2. \A c \in Bufs : InUse(c)' <=> InUse(c)
    BY DEF InUse, Holders, InCache
  <1>3. \A c \in Bufs : c # b => buf'[c] = buf[c]
    BY DEF TypeOK
  <1>4. \A f \in Fields : field[f] # None => field[f] \in Bufs /\ field[f] # b
    BY <1>1 DEF TypeOK, InUse, Holders
  <1>5. \A u : DataOf(u)' = DataOf(u)
    BY DEF DataOf
  <1>6. QED
    BY <1>1, <1>2, <1>3, <1>4, <1>5 DEF DataRight

LEMMA BarGoneInv ==
  ASSUME TypeOK, CountsRight, CacheRight, NEW f \in Fields, BarGone(f)
  PROVE  TypeOK' /\ CountsRight' /\ CacheRight'
  <1>1. PICK old \in Bufs :
          /\ old = field[f] /\ old # None /\ Holders(old) # {}
          /\ buf[old] # None /\ buf[old].ref \in Nat
    BY HeldCounted DEF BarGone
  <1>2. /\ field' = [field EXCEPT ![f] = None] /\ leaked' = leaked \cup {old}
        /\ asked' = [asked EXCEPT ![f] = None]
        /\ UNCHANGED <<buf, cache, source, overflowed>>
    BY <1>1 DEF BarGone
  <1>3. field \in [Fields -> Bufs \cup {None}] /\ \A b \in Bufs : b # None
    BY NoneAssumption DEF TypeOK
  <1>4. TypeOK'
    BY <1>1, <1>2 DEF TypeOK
  <1>5. ASSUME NEW b \in Bufs, b # old
        PROVE  Holders(b)' = Holders(b) /\ (InUse(b)' <=> InUse(b))
    <2>1. Holders(b)' = Holders(b)
      BY <1>1, <1>2, <1>3, <1>5, HoldersKept
    <2>2. QED
      BY <1>2, <2>1 DEF InUse, InCache
  <1>6. /\ IsFiniteSet(Holders(old)')
        /\ buf[old].ref > Cardinality(Holders(old)')
    <2>1. IsFiniteSet(Holders(old))
      BY <1>1 DEF CountsRight
    <2>2. /\ IsFiniteSet(Holders(old)')
          /\ Cardinality(Holders(old)') = Cardinality(Holders(old)) - 1
      BY <1>1, <1>2, <1>3, <2>1, HoldersLost
    <2>3. Cardinality(Holders(old)) \in Nat
      BY <2>1, FS_CardinalityType
    <2>4. buf[old].ref >= Cardinality(Holders(old))
      BY <1>1, <2>3 DEF CountsRight, InUse
    <2>5. QED
      BY <1>1, <2>2, <2>3, <2>4
  <1>7. CountsRight'
    <2> SUFFICES ASSUME NEW b \in Bufs
                 PROVE  /\ IsFiniteSet(Holders(b)')
                        /\ buf[b] = None => ~InUse(b)' /\ b \notin leaked'
                        /\ buf[b] # None /\ b \notin leaked' =>
                             Holders(b)' # {} /\ buf[b].ref = Cardinality(Holders(b)')
                        /\ buf[b] # None /\ b \in leaked' /\ InUse(b)' =>
                             buf[b].ref > Cardinality(Holders(b)')
      BY <1>2 DEF CountsRight
    <2>1. CASE b = old
      BY <1>1, <1>2, <1>6, <2>1
    <2>2. CASE b # old
      BY <1>2, <1>5, <2>2 DEF CountsRight
    <2>3. QED
      BY <2>1, <2>2
  <1>8. \A b \in Bufs : b \in Held' => b \in Held
    BY <1>1, <1>5 DEF Held
  <1>9. CacheRight'
    BY <1>2, <1>8 DEF CacheRight, InCache, Held
  <1>10. QED
    BY <1>4, <1>7, <1>9

LEMMA BarGoneData ==
  ASSUME TypeOK, DataRight, NEW f \in Fields, BarGone(f)
  PROVE  DataRight'
  <1>1. /\ field' = [field EXCEPT ![f] = None] /\ asked' = [asked EXCEPT ![f] = None]
        /\ UNCHANGED <<buf, cache, source>>
    BY DEF BarGone
  <1>2. \A b \in Bufs : InUse(b)' => InUse(b)
    BY <1>1, NoneAssumption DEF TypeOK, InUse, InCache, Holders
  <1>3. \A u : DataOf(u)' = DataOf(u)
    BY <1>1 DEF DataOf
  <1>4. \A g \in Fields : field'[g] # None =>
          field'[g] = field[g] /\ asked'[g] = asked[g]
    BY <1>1 DEF TypeOK
  <1>5. QED
    BY <1>1, <1>2, <1>3, <1>4 DEF DataRight

(* Steps that leave buffers, table and fields alone.                       *)
LEMMA SameInv ==
  ASSUME CountsRight, CacheRight, UNCHANGED <<buf, cache, field, overflowed, leaked>>
  PROVE  CountsRight' /\ CacheRight'
  BY ZenonT(60) DEF CountsRight, CacheRight, InUse, InCache, Held, Holders

-----------------------------------------------------------------------------
(* The invariants hold                                                     *)

Inv == TypeOK /\ CountsRight /\ CacheRight

LEMMA MovesType ==
  ASSUME TypeOK, NEW f \in Fields, NEW new, NEW fresh, Moves(f, new, fresh),
         UNCHANGED source, overflowed' \in BOOLEAN,
         asked' \in [Fields -> [uri : Uris, data : Uris \cup Data] \cup {None}]
  PROVE  TypeOK'
  BY DEF TypeOK, Moves, HeapMoves, TableMoves, Heaps, Tables

LEMMA AsksType ==
  ASSUME TypeOK, NEW f \in Fields, NEW u \in Uris, Asks(f, u)
  PROVE  asked' \in [Fields -> [uri : Uris, data : Uris \cup Data] \cup {None}]
  <1>1. [uri |-> u, data |-> DataOf(u)] \in [uri : Uris, data : Uris \cup Data]
    BY LoadedType
  <1>2. QED
    BY <1>1 DEF TypeOK, Asks

LEMMA Initially == Init => Inv /\ DataRight
  <1> SUFFICES ASSUME Init PROVE Inv /\ DataRight
    OBVIOUS
  <1>1. TypeOK
    BY DEF Init, TypeOK
  <1>2. \A b \in Bufs : Holders(b) = {} /\ ~InCache(b) /\ buf[b] = None
    BY NoneAssumption DEF Init, Holders, InCache
  <1>3. CountsRight
    BY <1>2, FS_EmptySet DEF Init, CountsRight, InUse
  <1>4. CacheRight /\ DataRight
    BY <1>2 DEF Init, CacheRight, DataRight, Held, InUse
  <1>5. QED
    BY <1>1, <1>3, <1>4 DEF Inv

(* An image property is set.                                               *)
LEMMA SetterInv ==
  ASSUME Inv, NEW f \in Fields, NEW u \in Uris, ReloadImg(f, u)
  PROVE  Inv'
  <1> USE DEF Inv
  <1>1. CASE SetSame(f, u)
    <2>1. TypeOK'
      BY <1>1, AsksType DEF SetSame, TypeOK
    <2>2. QED
      BY <1>1, <2>1, SameInv DEF SetSame
  <1>2. CASE SetCached(f, u)
    <2>1. PICK new \in Bufs : Moves(f, new, {}) /\ buf[new] # None
      BY <1>2, SetCachedMoves
    <2>2. TypeOK'
      BY <1>2, <2>1, AsksType, MovesType DEF SetCached, TypeOK
    <2>3. CountsRight'
      BY <2>1, CountsMoves
    <2>4. CacheRight'
      BY <1>2, <2>1, CacheMoves DEF SetCached
    <2>5. QED
      BY <2>2, <2>3, <2>4
  <1>3. CASE SetLoaded(f, u)
    <2>1. PICK new \in Bufs :
            /\ Moves(f, new, {}) /\ buf[new] = None /\ buf'[new].uri = u
            /\ overflowed' \/ InCache(new)'
      BY <1>3, SetLoadedMoves
    <2>2. overflowed' \in BOOLEAN /\ (overflowed => overflowed') /\ UNCHANGED source
      BY <1>3 DEF SetLoaded, TypeOK
    <2>3. TypeOK'
      BY <1>3, <2>1, <2>2, AsksType, MovesType DEF SetLoaded
    <2>4. CountsRight'
      BY <2>1, CountsMoves
    <2>5. CacheRight'
      BY <1>3, <2>1, <2>2, CacheMoves DEF SetLoaded
    <2>6. QED
      BY <2>3, <2>4, <2>5
  <1>4. CASE f \in Images /\ (SetFails(f, u) \/ SetOutOfMemory(f, u))
    <2>1. PICK fresh \in SUBSET Bufs : Moves(f, None, fresh)
      BY <1>4, SetFailsMoves, SetOutOfMemoryMoves
    <2>2. asked' = [asked EXCEPT ![f] = None] /\ UNCHANGED <<source, overflowed>>
      BY <1>4 DEF SetFails, SetOutOfMemory, DropOwn
    <2>3. TypeOK'
      BY <2>1, <2>2, MovesType DEF TypeOK
    <2>4. CountsRight'
      BY <2>1, CountsMoves
    <2>5. CacheRight'
      BY <2>1, <2>2, CacheMoves
    <2>6. QED
      BY <2>3, <2>4, <2>5
  <1>5. CASE f \notin Images /\ SetFails(f, u)
    <2>1. PICK b \in Bufs, rest \in Pixbuf :
            /\ buf[b] = None /\ rest # None /\ buf' = [buf EXCEPT ![b] = rest]
            /\ leaked' = leaked \cup {b}
      BY <1>5, BarFails
    <2>2. UNCHANGED <<cache, field, source, asked, overflowed>>
      BY <1>5, BarFails
    <2>3. TypeOK'
      BY <2>1, <2>2 DEF TypeOK
    <2>4. QED
      BY <2>1, <2>2, <2>3, BarFailsInv
  <1>6. CASE f \notin Images /\ SetOutOfMemory(f, u)
    <2>1. /\ UNCHANGED <<buf, field, source, asked, overflowed, leaked>>
          /\ cache' = Purged(cache, buf')
      BY <1>6 DEF SetOutOfMemory, DropOwn
    <2>2. cache' = cache
      BY <2>1, PurgedKeeps
    <2>3. QED
      BY <2>1, <2>2, SameInv DEF TypeOK
  <1>7. QED
    BY <1>1, <1>2, <1>3, <1>4, <1>5, <1>6 DEF ReloadImg

LEMMA InvNext == Inv /\ [Next]_vars => Inv'
  <1> SUFFICES ASSUME Inv, [Next]_vars PROVE Inv'
    OBVIOUS
  <1>1. ASSUME NEW f \in Fields, NEW u \in Uris, SetSrc(f, u) \/ SetBarImage(f, u)
        PROVE  Inv'
    BY <1>1, SetterInv DEF SetSrc, SetBarImage
  <1>2. ASSUME NEW f \in Fields, ImageGone(f) PROVE Inv'
    <2>1. Moves(f, None, {})
      BY <1>2, ImageGoneMoves DEF Inv
    <2>2. asked' = [asked EXCEPT ![f] = None] /\ UNCHANGED <<source, overflowed>>
      BY <1>2 DEF ImageGone
    <2>3. TypeOK'
      BY <2>1, <2>2, MovesType DEF Inv, TypeOK
    <2>4. CountsRight' /\ CacheRight'
      BY <2>1, <2>2, CountsMoves, CacheMoves DEF Inv
    <2>5. QED
      BY <2>3, <2>4 DEF Inv
  <1>3. ASSUME NEW f \in Fields, BarGone(f) PROVE Inv'
    BY <1>3, BarGoneInv DEF Inv
  <1>4. ASSUME NEW u \in Streams, NewData(u) PROVE Inv'
    <2>1. TypeOK'
      BY <1>4 DEF NewData, Inv, TypeOK
    <2>2. QED
      BY <1>4, <2>1, SameInv DEF NewData, Inv
  <1>5. CASE UNCHANGED vars
    BY <1>5, SameInv DEF vars, Inv, TypeOK
  <1>6. QED
    BY <1>1, <1>2, <1>3, <1>4, <1>5 DEF Next

(* Data come with a name: only a stream that has no image can bring others.*)
LEMMA DataNext ==
  ASSUME "newData" \notin Env
  PROVE  Inv /\ DataRight /\ [Next]_vars => DataRight'
  <1> SUFFICES ASSUME Inv, DataRight, [Next]_vars PROVE DataRight'
    OBVIOUS
  <1> USE DEF Inv
  <1>1. ASSUME NEW f \in Fields, NEW u \in Uris, SetSrc(f, u) \/ SetBarImage(f, u)
        PROVE  DataRight'
    <2>1. CASE SetSame(f, u)
      <3>1. \A b \in Bufs : InUse(b)' <=> InUse(b)
        BY <2>1 DEF SetSame, InUse, Holders, InCache
      <3>2. \A v : DataOf(v)' = DataOf(v)
        BY <2>1 DEF SetSame, DataOf
      <3>3. field[f] \in Bufs /\ InUse(field[f]) /\ buf[field[f]].uri = u
        BY <2>1, HeldCounted DEF SetSame, Same, InUse
      <3>4. \A g \in Fields :
              asked'[g] = IF g = f THEN [uri |-> u, data |-> DataOf(u)] ELSE asked[g]
        BY <2>1 DEF SetSame, Asks, TypeOK
      <3>5. \A g \in Fields : field[g] # None =>
              asked'[g] = [uri |-> buf[field[g]].uri, data |-> buf[field[g]].data]
        BY <3>3, <3>4 DEF DataRight
      <3>6. QED
        BY <2>1, <3>1, <3>2, <3>5 DEF SetSame, DataRight
    <2>2. CASE SetCached(f, u)
      <3>1. PICK new \in Bufs : Moves(f, new, {}) /\ buf[new] # None /\ buf'[new].uri = u
        BY <2>2, SetCachedMoves
      <3>2. asked' = [asked EXCEPT ![f] = [uri |-> u, data |-> DataOf(u)]] /\ source' = source
        BY <2>2 DEF SetCached, Asks
      <3>3. QED
        BY <3>1, <3>2, DataMoves
    <2>3. CASE SetLoaded(f, u)
      <3>1. PICK new \in Bufs :
              /\ Moves(f, new, {}) /\ buf'[new].uri = u /\ buf'[new].data = DataOf(u)
        BY <2>3, SetLoadedMoves
      <3>2. asked' = [asked EXCEPT ![f] = [uri |-> u, data |-> DataOf(u)]] /\ source' = source
        BY <2>3 DEF SetLoaded, Asks
      <3>3. QED
        BY <3>1, <3>2, DataMoves
    <2>4. CASE f \in Images /\ (SetFails(f, u) \/ SetOutOfMemory(f, u))
      <3>1. PICK fresh \in SUBSET Bufs : Moves(f, None, fresh)
        BY <2>4, SetFailsMoves, SetOutOfMemoryMoves
      <3>2. asked' = [asked EXCEPT ![f] = None] /\ source' = source
        BY <2>4 DEF SetFails, SetOutOfMemory, DropOwn
      <3>3. QED
        BY <3>1, <3>2, DataMoves
    <2>5. CASE f \notin Images /\ SetFails(f, u)
      BY <2>5, BarFails, BarFailsData
    <2>6. CASE f \notin Images /\ SetOutOfMemory(f, u)
      <3>1. UNCHANGED <<buf, field, source, asked>> /\ cache' = Purged(cache, buf')
        BY <2>6 DEF SetOutOfMemory, DropOwn
      <3>2. cache' = cache
        BY <3>1, PurgedKeeps
      <3>3. QED
        BY <3>1, <3>2 DEF DataRight, InUse, Holders, InCache, DataOf
    <2>7. QED
      BY <1>1, <2>1, <2>2, <2>3, <2>4, <2>5, <2>6 DEF SetSrc, SetBarImage, ReloadImg
  <1>2. ASSUME NEW f \in Fields, ImageGone(f) PROVE DataRight'
    <2>1. Moves(f, None, {})
      BY <1>2, ImageGoneMoves
    <2>2. asked' = [asked EXCEPT ![f] = None] /\ source' = source
      BY <1>2 DEF ImageGone
    <2>3. QED
      BY <2>1, <2>2, DataMoves
  <1>3. ASSUME NEW f \in Fields, BarGone(f) PROVE DataRight'
    BY <1>3, BarGoneData
  <1>4. ASSUME NEW u \in Streams, NewData(u) PROVE DataRight'
    <2>1. /\ \A b \in Bufs : buf[b] # None => buf[b].uri # u
          /\ UNCHANGED <<buf, cache, field, asked>>
          /\ \A v \in Streams : v # u => source'[v] = source[v]
      BY <1>4 DEF NewData, TypeOK
    <2>2. \A v : v # u => DataOf(v)' = DataOf(v)
      BY <2>1 DEF DataOf
    <2>3. \A b \in Bufs : InUse(b)' <=> InUse(b)
      BY <2>1 DEF InUse, Holders, InCache
    <2>4. \A b \in Bufs : InUse(b) => buf[b] # None
      BY DEF CountsRight
    <2>5. QED
      BY <2>1, <2>2, <2>3, <2>4 DEF DataRight
  <1>5. CASE UNCHANGED vars
    BY <1>5 DEF vars, DataRight, InUse, Holders, InCache, DataOf
  <1>6. QED
    BY <1>1, <1>2, <1>3, <1>4, <1>5 DEF Next

LEMMA InvAlways == Spec => []Inv
  <1>1. Init => Inv
    BY Initially
  <1>2. QED
    BY <1>1, InvNext, PTL DEF Spec

-----------------------------------------------------------------------------
(* The theorems                                                            *)

(* The count of a buffer (urefcnt) is the number of the fields that show   *)
(* it, greater where a <progressbar> has forgotten it; no field shows      *)
(* memory that has been freed; and no memory is lost but at the two known  *)
(* places.                                                                 *)
THEOREM RefsExactAlways == Spec => []RefsExact
  <1>1. Inv => RefsExact
    <2> SUFFICES ASSUME Inv PROVE RefsExact
      OBVIOUS
    <2>1. ASSUME NEW b \in Held
          PROVE  /\ buf[b] # None
                 /\ IF b \in leaked THEN buf[b].ref > Cardinality(Holders(b))
                    ELSE buf[b].ref = Cardinality(Holders(b))
      BY DEF Inv, CountsRight, InUse, Held
    <2>2. ASSUME NEW b \in Bufs, buf[b] # None PROVE b \in Held \cup leaked
      BY <2>2 DEF Inv, CountsRight, Held
    <2>3. QED
      BY <2>1, <2>2 DEF Inv, RefsExact
  <1>2. QED
    BY <1>1, InvAlways, PTL

(* appixbufcache names no buffer that has been freed and no name twice,    *)
(* and elements that show one name share its buffer until it overflows.    *)
THEOREM CacheSoundAlways == Spec => []CacheSound
  <1>1. Inv => CacheSound
    <2> SUFFICES ASSUME Inv PROVE CacheSound
      OBVIOUS
    <2>1. ASSUME NEW s \in Slots, cache[s] # None PROVE buf[cache[s]] # None
      <3>1. cache[s] \in Bufs /\ InUse(cache[s])
        BY <2>1 DEF Inv, TypeOK, InUse, InCache
      <3>2. QED
        BY <3>1 DEF Inv, CountsRight
    <2>2. ASSUME ~overflowed, NEW b \in Held, NEW c \in Held, buf[b].uri = buf[c].uri
          PROVE  b = c
      <3>1. InCache(b) /\ InCache(c) /\ b # None /\ c # None
        BY <2>2, NoneAssumption DEF Inv, CacheRight, Held
      <3>2. PICK s \in Slots, t \in Slots : cache[s] = b /\ cache[t] = c
        BY <3>1 DEF InCache
      <3>3. s = t
        BY <2>2, <3>1, <3>2 DEF Inv, CacheRight
      <3>4. QED
        BY <3>2, <3>3
    <2>3. QED
      BY <2>1, <2>2 DEF Inv, CacheRight, CacheSound
  <1>2. QED
    BY <1>1, InvAlways, PTL

(* A field shows the name and the data that the script has last put there, *)
(* as long as streams do not replace the data of an image that is shown.   *)
THEOREM ShowsAskedAlways ==
  ASSUME "newData" \notin Env
  PROVE  Spec => []ShowsAsked
  <1>1. Init => DataRight
    BY Initially
  <1>2. DataRight => ShowsAsked
    BY DEF DataRight, ShowsAsked
  <1>3. Inv /\ DataRight /\ [Next]_vars => DataRight'
    BY DataNext
  <1>4. QED
    BY <1>1, <1>2, <1>3, InvAlways, PTL DEF Spec
=============================================================================
