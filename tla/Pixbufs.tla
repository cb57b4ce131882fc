------------------------------ MODULE Pixbufs ------------------------------
(***************************************************************************)
(* Decoded images (xtk_img.c): pixel buffers are counted references, found *)
(* by name in a table of fixed size, and held by the image fields of <img> *)
(* and <button> and by the two of <progressbar>.                           *)
(***************************************************************************)
EXTENDS Integers, FiniteSets

CONSTANTS
  NCache,     (* XTKC_NMAX_PBCACHE                                          *)
  RefWidth,   (* the width of urefcnt in bits                               *)
  MaxRefs,    (* bound on the references to one buffer                      *)
  Bufs,       (* the pixel buffers there is memory for                      *)
  Images,     (* the image fields of <img> and <button> objects             *)
  Bars,       (* the image fields of <progressbar> objects                  *)
  Uris,       (* file paths and http:// names                               *)
  Streams,    (* the names that are http:// names                           *)
  Data,       (* what streams bring                                         *)
  None,
  Env         (* see EnvKinds                                               *)

(***************************************************************************)
(* "badFile": files are missing, of unknown type or too large.             *)
(* "newData": a stream brings new data while there is an image of its name *)
(***************************************************************************)
EnvKinds == {"badFile", "newData"}

ASSUME NCacheAssumption == NCache \in Nat
ASSUME RefAssumption ==
  /\ RefWidth \in Nat /\ 2 ^ RefWidth \in Nat
  /\ MaxRefs \in Nat \ {0} /\ MaxRefs < 2 ^ RefWidth
ASSUME FieldsAssumption == Images \cap Bars = {}
ASSUME StreamsAssumption == Streams \subseteq Uris
ASSUME NoneAssumption == None \notin Bufs \cup Uris \cup Data
ASSUME EnvAssumption == Env \subseteq EnvKinds

Slots == 0 .. NCache - 1
Fields == Images \cup Bars

Pixbuf == [uri : Uris, data : Uris \cup Data \cup {None}, ref : 0 .. 2 ^ RefWidth - 1]

ASSUME PixbufAssumption == None \notin Pixbuf

VARIABLES
  buf,        (* xtk_pixbuf_t by buffer, None where the memory is free      *)
  cache,      (* appixbufcache                                              *)
  field,      (* ppixbuf, ppbempty and ppbfull                              *)
  source,     (* what each stream brings; a file's data is its name         *)
  asked,      (* history: the name and the data the script has last set     *)
  overflowed, (* history: the table has been full when a buffer was loaded  *)
  leaked      (* history: buffers of failed loads, and those that have been *)
              (* held by a <progressbar> that is gone                       *)

vars == <<buf, cache, field, source, asked, overflowed, leaked>>

Init ==
  /\ buf = [b \in Bufs |-> None]
  /\ cache = [s \in Slots |-> None]
  /\ field = [f \in Fields |-> None]
  /\ source \in [Streams -> Data]
  /\ asked = [f \in Fields |-> None]
  /\ overflowed = FALSE
  /\ leaked = {}

-----------------------------------------------------------------------------
(* Entries with this name; the first one is taken.                         *)
Cached(u) == {s \in Slots : cache[s] # None /\ buf[cache[s]].uri = u}

Lowest(S) == CHOOSE s \in S : \A t \in S : s <= t

EmptySlots == {s \in Slots : cache[s] = None}

Decremented(n) == (n - 1) % 2 ^ RefWidth

(* Mutant: the last reference but one frees the buffer.                    *)
DeletedEarly(heap, b) ==
  IF b = None THEN heap
  ELSE LET left == Decremented(heap[b].ref)
       IN  [heap EXCEPT ![b] = IF left > 1 THEN [@ EXCEPT !.ref = left] ELSE None]

(* xtk_pixbuf_delete: the buffers after a reference to b is given up.      *)
Deleted(heap, b) ==
  IF b = None THEN heap
  ELSE LET left == Decremented(heap[b].ref)
       IN  [heap EXCEPT ![b] = IF left > 0 THEN [@ EXCEPT !.ref = left] ELSE None]

(* Mutant: the table keeps the entry.                                      *)
PurgedNot(table, heap) == table

(* The table without the buffers that have been freed.                     *)
Purged(table, heap) ==
  [s \in Slots |-> IF table[s] # None /\ heap[table[s]] = None THEN None ELSE table[s]]

-----------------------------------------------------------------------------
(* Setting an image property: xgg_xadget_reload_img and its callers        *)

(* Mutant: a field that has an image keeps it.                             *)
SameIfAny(f, u) == field[f] # None

(* The name is that of the image in the field: nothing is done.            *)
Same(f, u) == field[f] # None /\ buf[field[f]].uri = u

DataOf(u) == IF u \in Streams THEN source[u] ELSE u

Asks(f, u) == asked' = [asked EXCEPT ![f] = [uri |-> u, data |-> DataOf(u)]]

SetSame(f, u) ==
  /\ Same(f, u)
  /\ Asks(f, u)
  /\ UNCHANGED <<buf, cache, field, source, overflowed, leaked>>

(* Mutant: a buffer that is found is not counted again.                    *)
SetCachedUncounted(f, u) ==
  /\ ~Same(f, u) /\ Cached(u) # {}
  /\ LET b == cache[Lowest(Cached(u))] IN
       /\ buf' = Deleted(buf, field[f])
       /\ field' = [field EXCEPT ![f] = b]
  /\ cache' = Purged(cache, buf')
  /\ Asks(f, u)
  /\ UNCHANGED <<source, overflowed, leaked>>

(* The table has a buffer of this name.                                    *)
SetCached(f, u) ==
  /\ ~Same(f, u) /\ Cached(u) # {}
  /\ LET b == cache[Lowest(Cached(u))] IN
       /\ buf[b].ref < MaxRefs
       /\ buf' = Deleted([buf EXCEPT ![b].ref = @ + 1], field[f])
       /\ field' = [field EXCEPT ![f] = b]
  /\ cache' = Purged(cache, buf')
  /\ Asks(f, u)
  /\ UNCHANGED <<source, overflowed, leaked>>

(* A buffer with what is behind the name.                                  *)
Loaded(u) == [uri |-> u, data |-> DataOf(u), ref |-> 1]

(* A buffer is loaded; when the table is full it is used all the same, as  *)
(* xtk_pixbuf_load returns the result of the load.                         *)
SetLoaded(f, u) ==
  /\ ~Same(f, u) /\ Cached(u) = {}
  /\ \E b \in Bufs :
       /\ buf[b] = None
       /\ buf' = Deleted([buf EXCEPT ![b] = Loaded(u)], field[f])
       /\ field' = [field EXCEPT ![f] = b]
       /\ IF EmptySlots = {}
            THEN overflowed' = TRUE /\ cache' = Purged(cache, buf')
            ELSE /\ cache' = Purged([cache EXCEPT ![Lowest(EmptySlots)] = b], buf')
                 /\ UNCHANGED overflowed
  /\ Asks(f, u)
  /\ UNCHANGED <<source, leaked>>

(* The setters of <img> and <button> drop the image they have.             *)
DropOwn(f, heap) ==
  IF f \in Images
    THEN /\ buf' = Deleted(heap, field[f])
         /\ field' = [field EXCEPT ![f] = None]
         /\ asked' = [asked EXCEPT ![f] = None]
    ELSE buf' = heap /\ UNCHANGED <<field, asked>>

(* What a failed load leaves behind: a png's buffer is not freed, and of   *)
(* anything else the count wraps below 0.                                  *)
Abandoned(u) == {[uri |-> u, data |-> None, ref |-> r] : r \in {0, 1, Decremented(0)}}

(* The load fails.                                                         *)
SetFails(f, u) ==
  /\ "badFile" \in Env
  /\ ~Same(f, u) /\ Cached(u) = {}
  /\ \E b \in Bufs, rest \in Abandoned(u) :
       /\ buf[b] = None
       /\ DropOwn(f, [buf EXCEPT ![b] = rest])
       /\ leaked' = leaked \cup {b}
  /\ cache' = Purged(cache, buf')
  /\ UNCHANGED <<source, overflowed>>

(* malloc() fails.                                                         *)
SetOutOfMemory(f, u) ==
  /\ ~Same(f, u) /\ Cached(u) = {}
  /\ \A b \in Bufs : buf[b] # None
  /\ DropOwn(f, buf)
  /\ cache' = Purged(cache, buf')
  /\ UNCHANGED <<source, overflowed, leaked>>

(* xgg_xadget_reload_img                                                   *)
ReloadImg(f, u) ==
  \/ SetSame(f, u) \/ SetCached(f, u) \/ SetLoaded(f, u)
  \/ SetFails(f, u) \/ SetOutOfMemory(f, u)

(* src of <img> and image of <button> are set.                             *)
SetSrc(f, u) == f \in Images /\ ReloadImg(f, u)

(* emptyImage or fullImage of <progressbar> is set.                        *)
SetBarImage(f, u) == f \in Bars /\ ReloadImg(f, u)

-----------------------------------------------------------------------------
(* The finalizers of <img> and <button>; a new object may take its place.  *)
(* The setter of <img> does the same to a value that is no image.          *)
ImageGone(f) ==
  /\ f \in Images /\ field[f] # None
  /\ buf' = Deleted(buf, field[f])
  /\ cache' = Purged(cache, buf')
  /\ field' = [field EXCEPT ![f] = None]
  /\ asked' = [asked EXCEPT ![f] = None]
  /\ UNCHANGED <<source, overflowed, leaked>>

(* The finalizer of <progressbar> does not give up its images.             *)
BarGone(f) ==
  /\ f \in Bars /\ field[f] # None
  /\ field' = [field EXCEPT ![f] = None]
  /\ asked' = [asked EXCEPT ![f] = None]
  /\ leaked' = leaked \cup {field[f]}
  /\ UNCHANGED <<buf, cache, source, overflowed>>

(* Something else is sent under the same name.                             *)
NewData(u) ==
  /\ (\A b \in Bufs : buf[b] # None => buf[b].uri # u) \/ "newData" \in Env
  /\ \E d \in Data : source' = [source EXCEPT ![u] = d]
  /\ UNCHANGED <<buf, cache, field, asked, overflowed, leaked>>

Next ==
  \/ \E f \in Fields, u \in Uris : SetSrc(f, u) \/ SetBarImage(f, u)
  \/ \E f \in Fields : ImageGone(f) \/ BarGone(f)
  \/ \E u \in Streams : NewData(u)

Spec == Init /\ [][Next]_vars

-----------------------------------------------------------------------------
(* Properties                                                              *)

TypeOK ==
  /\ buf \in [Bufs -> Pixbuf \cup {None}]
  /\ cache \in [Slots -> Bufs \cup {None}]
  /\ field \in [Fields -> Bufs \cup {None}]
  /\ source \in [Streams -> Data]
  /\ asked \in [Fields -> [uri : Uris, data : Uris \cup Data] \cup {None}]
  /\ overflowed \in BOOLEAN
  /\ leaked \subseteq Bufs

Holders(b) == {f \in Fields : field[f] = b}

Held == {b \in Bufs : Holders(b) # {}}

(* "reference count" (xtk.h): as long as no <progressbar> has forgotten it *)
(* a buffer's count is the number of its fields; and memory is held by a   *)
(* field, or has leaked at one of the known places.                        *)
RefsExact ==
  /\ TypeOK
  /\ \A b \in Held :
       /\ buf[b] # None
       /\ IF b \in leaked THEN buf[b].ref > Cardinality(Holders(b))
          ELSE buf[b].ref = Cardinality(Holders(b))
  /\ \A b \in Bufs : buf[b] # None => b \in Held \cup leaked

(* The table has no freed buffers, and one for a name at most; until it    *)
(* overflows, elements that show one name share a buffer.                  *)
CacheSound ==
  /\ \A s \in Slots : cache[s] # None => buf[cache[s]] # None
  /\ \A s, t \in Slots :
       /\ cache[s] # None /\ cache[t] # None
       /\ buf[cache[s]].uri = buf[cache[t]].uri
       => s = t
  /\ overflowed \/ \A b, c \in Held : buf[b].uri = buf[c].uri => b = c

(* "load or reload image" (xgg_xadget_reload_img): a field shows what the  *)
(* script has last put there.                                              *)
ShowsAsked ==
  \A f \in Fields :
    field[f] # None =>
      asked[f] = [uri |-> buf[field[f]].uri, data |-> buf[field[f]].data]
=============================================================================
