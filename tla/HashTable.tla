----------------------------- MODULE HashTable ------------------------------
(***************************************************************************)
(* The hash tables of source/hash.c: buckets of entries, the newest first  *)
(* (or last, HASH_FL_INSERTTAIL), doubled in number when there are 1.2     *)
(* entries to a bucket.  A table may hold several entries of one key: the  *)
(* history of nicknames (modules/ircd/client.c) is made of them.  An entry *)
(* is a key and the number of its insertion, which tells entries apart as  *)
(* their addresses do.                                                     *)
(***************************************************************************)
EXTENDS Integers, Sequences, SequencesExt, FiniteSetsExt, Functions

CONSTANTS
    Keys,
    Hash,           \* hash_get_key_hash before it is cut to the table's size
    Equal(_, _),    \* the comparison function: is the first key the second one?
    Smallest,       \* the size that create_hash_table begins with (128)
    Sizes,          \* the sizes that are asked for
    InsertTail,           \* HASH_FL_INSERTTAIL
    MaxInserts      \* bound on the insertions

\* Keys that compare equal are to have the same hash.  The table cannot see to
\* it: nickcmp compares by a map that the configuration gives, and the hash is
\* taken of the key in lower case.
ASSUME HashAssumption == \A k, l \in Keys : Equal(k, l) => Hash[k] = Hash[l]

VARIABLES
    table,          \* from 0..size - 1 to the entries of each bucket, in order
    entries,        \* their number, as the table counts it
    live,           \* the entries that the callers have inserted and not deleted
    inserted,       \* the insertions so far
    doubled         \* the number of the last insertion before the last doubling

tableVars == <<table, entries, live, inserted, doubled>>

NoEnt == <<>>

\* create_hash_table: the power of two that is not above elems, but for the
\* tables smaller than Smallest, which are half of it.
RECURSIVE Doubled(_, _)
Doubled(n, elems) == IF n < elems THEN Doubled(2 * n, elems) ELSE n

create_size(elems) ==
    LET n == Doubled(Smallest, elems) IN IF n > elems THEN n \div 2 ELSE n

Size(t) == Cardinality(DOMAIN t)
Bucket(t, key) == Hash[key] % Size(t)
NewTable(size) == [b \in 0..(size - 1) |-> <<>>]

\* An entry put into the table as it is.
Put(t, e) ==
    LET b == Bucket(t, e[1])
    IN  [t EXCEPT ![b] = IF InsertTail THEN Append(@, e) ELSE <<e>> \o @]

\* (a mistake: the buckets are kept as they are)
ResizeOnly(t, size) == [b \in 0..(size - 1) |-> IF b < Size(t) THEN t[b] ELSE <<>>]

\* resize_hash_table: every bucket is emptied from its head, and each entry
\* inserted again.
resize_hash_table(t, size) ==
    FoldLeft(Put, NewTable(size), FlattenSeq([k \in 1..Size(t) |-> t[k - 1]]))

IsFull(t, n) == (Size(t) * 6) \div 5 <= n

hash_insert(t, n, e) ==
    IF IsFull(t, n + 1) THEN resize_hash_table(Put(t, e), 2 * Size(t)) ELSE Put(t, e)

hash_delete(t, e) ==
    [t EXCEPT ![Bucket(t, e[1])] = SelectSeq(@, LAMBDA f : f # e)]

\* hash_find: the first entry of its bucket that compares equal.
hash_find(t, key) ==
    LET b == t[Bucket(t, key)]
        k == SelectInSeq(b, LAMBDA e : Equal(e[1], key))
    IN  IF k = 0 THEN NoEnt ELSE b[k]

TableInit ==
    /\ \E elems \in Sizes : table = NewTable(create_size(elems))
    /\ entries = 0
    /\ live = {}
    /\ inserted = 0
    /\ doubled = 0

Insert(key) ==
    LET e == <<key, inserted + 1>>
    IN  /\ inserted < MaxInserts
        /\ table' = hash_insert(table, entries, e)
        /\ entries' = entries + 1
        /\ live' = live \cup {e}
        /\ inserted' = inserted + 1
        /\ doubled' = IF IsFull(table, entries + 1) THEN inserted + 1 ELSE doubled

Delete(e) ==
    /\ table' = hash_delete(table, e)
    /\ entries' = IF Contains(table[Bucket(table, e[1])], e) THEN entries - 1 ELSE entries
    /\ live' = live \ {e}
    /\ UNCHANGED <<inserted, doubled>>

TableNext ==
    \/ \E key \in Keys : Insert(key)
    \/ \E e \in live : Delete(e)

-----------------------------------------------------------------------------
\* The entries whose key is equal to a key.
Having(key) == {e \in live : Equal(e[1], key)}

\* The count is that of the entries, each of which is found once, in the bucket
\* of its key; the table is never as full as it may become before it doubles.
CountsEntries ==
    /\ entries = Cardinality(live)
    /\ FoldFunction(+, 0, [b \in DOMAIN table |-> Len(table[b])]) = entries
    /\ \A e \in live : Contains(table[Bucket(table, e[1])], e)
    /\ ~IsFull(table, entries)

\* A key is found when there is an entry of it, and of several entries the
\* newest is (with HASH_FL_INSERTTAIL the oldest), as long as one has been
\* inserted since the table doubled, which turns the buckets around.
FindsEntries ==
    \A key \in Keys :
        LET have == Having(key)
            found == hash_find(table, key)
        IN  /\ have = {} <=> found = NoEnt
            /\ have # {} => found \in have
            /\ have # {} /\ InsertTail => found[2] = Min({e[2] : e \in have})
            /\ (~InsertTail /\ \E e \in have : e[2] > doubled) => found[2] = Max({e[2] : e \in have})
============================================================================
