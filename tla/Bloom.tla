------------------------------- MODULE Bloom -------------------------------
(***************************************************************************)
(* bloom_filter of fc (bloom_filter.hpp): filters that are built from      *)
(* parameters, filled, copied, united and intersected.  Keys are one byte  *)
(* long, and a word has six bits.                                          *)
(***************************************************************************)
EXTENDS Integers, Sequences, FiniteSets, SequencesExt, Bitwise

CONSTANTS FilterKeys,     \* what is inserted: small numbers
          Parameters,     \* bloom_parameters with the optimum (min_m, min_k) of the formula
          predef_salt,    \* the table of predefined salts
          bits_per_char,  \* bits of a cell
          MaxInserts      \* bound on inserted_element_count_

\* A table is a whole number of cells: what clamping to other sizes does is outside this model.
ASSUME BloomSizes ==
  \A p \in Parameters : /\ p.minimum_size % bits_per_char = 0 /\ p.minimum_size > 0
                        /\ p.maximum_size % bits_per_char = 0

VARIABLES filter,   \* two bloom_filters
          kept       \* for each, the keys a reader may count on finding

bloom_vars == <<filter, kept>>

SaltWord == 64   \* salts are words: arithmetic on them wraps

ids == 1 .. 2

-----------------------------------------------------------------------------
\* bloom_parameters::operator!: parameters nothing can be computed from.
refused(p) ==
  \/ p.minimum_size > p.maximum_size
  \/ p.minimum_hashes > p.maximum_hashes
  \/ p.minimum_hashes < 1
  \/ p.maximum_hashes = 0
  \/ p.seed \in {0, SaltWord - 1}

clamp(n, low, high) == IF n < low THEN low ELSE IF n > high THEN high ELSE n

\* The optimum rounded up to whole cells, then forced into the limits of the parameters.
compute_optimal_parameters(p) ==
  IF refused(p)
  THEN [number_of_hashes |-> 0, table_size |-> 0]
  ELSE LET over == p.min_m % bits_per_char
           whole == IF over = 0 THEN p.min_m ELSE p.min_m + (bits_per_char - over)
       IN [number_of_hashes |-> clamp(p.min_k, p.minimum_hashes, p.maximum_hashes),
           table_size |-> clamp(whole, p.minimum_size, p.maximum_size)]

\* External: rand() after srand(seed).
rand(seed, n) == (seed * 29 + n * 37 + 11) % SaltWord

\* The salts of a filter: the predefined ones mixed in place with each other and the seed, or all
\* of them and as many unlike, nonzero, random ones as are missing.
generate_unique_salt(count, seed) ==
  IF count <= Len(predef_salt)
  THEN LET mixed(salts, i) ==
             [salts EXCEPT ![i] = (salts[i] * salts[((i + 2) % count) + 1] + seed) % SaltWord]
       IN FoldLeft(mixed, SubSeq(predef_salt, 1, count), [i \in 1 .. count |-> i])
  ELSE LET added(salts, n) ==
             IF Len(salts) = count \/ rand(seed, n) = 0 \/ rand(seed, n) \in ToSet(salts)
             THEN salts ELSE Append(salts, rand(seed, n))
       IN FoldLeft(added, predef_salt, [n \in 1 .. SaltWord |-> n])

new_filter(p) ==
  LET o == compute_optimal_parameters(p)
      random_seed == (p.seed * 37 + 1) % SaltWord
  IN [salt_count_ |-> o.number_of_hashes,
      table_size_ |-> o.table_size,
      seed_ |-> random_seed,
      salt_ |-> generate_unique_salt(o.number_of_hashes, random_seed),
      bits |-> {},
      inserted |-> 0]

\* The others have no table.
built_filters == {new_filter(p) : p \in {q \in Parameters : ~refused(q)}}

\* The end of hash_ap, which is all of it for one byte: 37 is 0xA5A5A5A5 in six bits.
hash_ap(key, hash) == (hash + (key ^^ ((hash * 37) % SaltWord))) % SaltWord

compute_indices(f, hash) == hash % f.table_size_

marks(f, key) == {compute_indices(f, hash_ap(key, f.salt_[i])) : i \in 1 .. Len(f.salt_)}

contains(f, key) == marks(f, key) \subseteq f.bits

\* The first of keys that is (not) there, or one past the end.
contains_all(f, keys) ==
  LET missing == {i \in 1 .. Len(keys) : ~contains(f, keys[i])}
  IN CHOOSE i \in missing \cup {Len(keys) + 1} : \A j \in missing : i <= j

contains_none(f, keys) ==
  LET present == {i \in 1 .. Len(keys) : contains(f, keys[i])}
  IN CHOOSE i \in present \cup {Len(keys) + 1} : \A j \in present : i <= j

same_filter(f, g) == f = g

\* Filters combine only when their bits mean the same: &=, |= and ^= do nothing otherwise.
compatible(f, g) ==
  /\ f.salt_count_ = g.salt_count_ /\ f.table_size_ = g.table_size_ /\ f.seed_ = g.seed_

-----------------------------------------------------------------------------
BloomInit ==
  /\ filter \in [ids -> built_filters]
  /\ kept = [i \in ids |-> {}]

insert(i, key) ==
  /\ filter[i].inserted < MaxInserts
  /\ filter' = [filter EXCEPT ![i].bits = @ \cup marks(filter[i], key), ![i].inserted = @ + 1]
  /\ kept' = [kept EXCEPT ![i] = @ \cup {key}]

clear(i) ==
  /\ filter' = [filter EXCEPT ![i].bits = {}, ![i].inserted = 0]
  /\ kept' = [kept EXCEPT ![i] = {}]

assign_filter(i, j) ==
  /\ filter' = [filter EXCEPT ![i] = filter[j]]
  /\ kept' = [kept EXCEPT ![i] = kept[j]]

intersect(i, j) ==
  /\ compatible(filter[i], filter[j])
  /\ filter' = [filter EXCEPT ![i].bits = @ \cap filter[j].bits]
  /\ kept' = [kept EXCEPT ![i] = @ \cap kept[j]]

unite(i, j) ==
  /\ compatible(filter[i], filter[j])
  /\ filter' = [filter EXCEPT ![i].bits = @ \cup filter[j].bits]
  /\ kept' = [kept EXCEPT ![i] = @ \cup kept[j]]

\* Nothing may be counted on after ^=: keys of one side lose the bits they share with the other.
differ(i, j) ==
  /\ compatible(filter[i], filter[j])
  /\ filter' = [filter EXCEPT ![i].bits = (@ \ filter[j].bits) \cup (filter[j].bits \ @)]
  /\ kept' = [kept EXCEPT ![i] = {}]

BloomNext ==
  \E i \in ids :
    \/ \E key \in FilterKeys : insert(i, key)
    \/ clear(i)
    \/ \E j \in ids \ {i} : assign_filter(i, j) \/ intersect(i, j) \/ unite(i, j) \/ differ(i, j)

-----------------------------------------------------------------------------
\* A filter never denies a key it was given, through copies, unions and intersections, whatever
\* the hashes; the searches over a list agree; two filters that compare equal answer alike, and an
\* emptied filter has no key.
FiltersFind ==
  /\ \A i \in ids : \A key \in kept[i] : contains(filter[i], key)
  /\ \A i \in ids :
       LET keys == SetToSeq(kept[i])
       IN /\ contains_all(filter[i], keys) = Len(keys) + 1
          /\ keys # <<>> => contains_none(filter[i], keys) = 1
  /\ same_filter(filter[1], filter[2]) =>
       \A key \in FilterKeys : contains(filter[1], key) <=> contains(filter[2], key)
  /\ \A i \in ids : filter[i].bits = {} => \A key \in FilterKeys : ~contains(filter[i], key)
  /\ \A i \in ids : \A b \in filter[i].bits : b < filter[i].table_size_
=============================================================================
