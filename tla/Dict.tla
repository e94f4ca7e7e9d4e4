-------------------------------- MODULE Dict --------------------------------
(***************************************************************************)
(* The chained hash table of src/dict.c as operators on a table value. A   *)
(* key is represented by its hash value; a bucket is the chain of entries  *)
(* from table[h] along next, and bucket h is table[h + 1].                 *)
(***************************************************************************)
EXTENDS Naturals, Sequences, SequencesExt

CONSTANT DICT_HT_INITIAL_SIZE   \* 4 in dict.h

ASSUME InitialSizeAssumption == DICT_HT_INITIAL_SIZE \in Nat \ {0}

\* dictCreate, _dictInit and _dictReset.
dictCreate == [size |-> 0, used |-> 0, table |-> << >>]

\* The entries in the order of dictNext: bucket by bucket, along each chain.
dictEntries(ht) == FlattenSeq(ht.table)

Slot(key, size) == (key % size) + 1     \* dictHashKey & sizemask

\* The initial size, doubled until it is enough.
dictNextPower(size) ==
    LET power[i \in 0..size] ==
          IF i = 0 THEN DICT_HT_INITIAL_SIZE
          ELSE IF power[i - 1] >= size THEN power[i - 1] ELSE 2 * power[i - 1]
    IN  power[size]

\* An entry becomes the first of its chain.
Push(table, e) == [table EXCEPT ![Slot(e.key, Len(table))] = <<e>> \o @]

\* The entries are pushed one by one into the new table.
dictExpand(ht, size) ==
    LET n == dictNextPower(size)
        es == dictEntries(ht)
        table[i \in 0..Len(es)] ==
          IF i = 0 THEN [h \in 1..n |-> << >>] ELSE Push(table[i - 1], es[i])
    IN  [size |-> n, used |-> ht.used, table |-> table[Len(es)]]

FaultyExpandIfNeeded(ht) ==
    IF ht.size = 0 THEN dictExpand(ht, DICT_HT_INITIAL_SIZE) ELSE ht
dictExpandIfNeeded(ht) ==
    IF ht.size = 0 THEN dictExpand(ht, DICT_HT_INITIAL_SIZE)
    ELSE IF ht.used = ht.size THEN dictExpand(ht, ht.size * 2)
    ELSE ht

\* The chain where key belongs, and the place of key in it: 0 if it is not there.
Bucket(ht, key) == IF ht.size = 0 THEN << >> ELSE ht.table[Slot(key, ht.size)]
Place(ht, key) == SelectInSeq(Bucket(ht, key), LAMBDA e : e.key = key)

dictHas(ht, key) == Place(ht, key) # 0
dictFind(ht, key) == Bucket(ht, key)[Place(ht, key)].val

\* _dictKeyIndex expands the table before it looks for the key, so that the
\* table may grow although nothing is added.
dictAdd(ht, key, val) ==
    LET big == dictExpandIfNeeded(ht) IN
    IF dictHas(big, key) THEN big
    ELSE [big EXCEPT !.used = @ + 1, !.table = Push(@, [key |-> key, val |-> val])]

dictReplace(ht, key, val) ==
    LET added == dictAdd(ht, key, val)
    IN  [added EXCEPT !.table[Slot(key, added.size)][Place(added, key)].val = val]

dictDelete(ht, key) ==
    IF ~dictHas(ht, key) THEN ht
    ELSE [ht EXCEPT !.used = @ - 1,
                    !.table[Slot(key, ht.size)] = RemoveAt(@, Place(ht, key))]

\* Every entry is in the chain of its hash and no key is there twice, the
\* count is right and a table never holds more entries than buckets.
dictConsistent(ht) ==
    /\ Len(ht.table) = ht.size
    /\ ht.used = Len(dictEntries(ht)) /\ ht.used <= ht.size
    /\ \A h \in DOMAIN ht.table : \A i \in DOMAIN ht.table[h] :
         /\ Slot(ht.table[h][i].key, ht.size) = h
         /\ \A j \in DOMAIN ht.table[h] : ht.table[h][j].key = ht.table[h][i].key => j = i
=============================================================================
