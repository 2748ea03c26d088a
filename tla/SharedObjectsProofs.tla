------------------------- MODULE SharedObjectsProofs -------------------------
(* Theorems about SharedObjects, for all readers, names and contents of      *)
(* flags, and a memory of any size.                                          *)
EXTENDS SharedObjects, FiniteSetTheorems, TLAPS

LEMMA SeqGrows ==
    ASSUME NEW S, NEW T, S \subseteq T, NEW s \in Seq(S)
    PROVE  s \in Seq(T)
OBVIOUS

LEMMA HeldAddresses ==
    ASSUME TypeOK, NEW r \in Readers
    PROVE  /\ \A i \in DOMAIN hold[r] : hold[r][i] \in Addresses
           /\ \A i \in DOMAIN mine[r] : mine[r][i] \in Addresses
           /\ DOMAIN hold[r] = 1 .. Len(hold[r]) /\ Len(hold[r]) \in Nat
           /\ DOMAIN mine[r] = 1 .. Len(mine[r]) /\ Len(mine[r]) \in Nat
BY DEF TypeOK

LEMMA CellTypes ==
    ASSUME TypeOK, NEW a \in Addresses
    PROVE  /\ memory[a] \in Contents
           /\ memory[a].cm \in ConfigMapNames
           /\ \A p \in Parts : /\ memory[a].data[p] \in Data
                               /\ memory[a].at[p] \in Addresses \cup {Nil}
<1>1. memory[a] \in Contents
  BY DEF TypeOK, Addresses
<1> QED
  BY <1>1 DEF TypeOK, Contents

\* A pointer is worth a flag, and no pointer None.
LEMMA ValueTypes ==
    ASSUME TypeOK, NEW a \in Addresses
    PROVE  Value(a) \in Values /\ Value(a) # None /\ a # Nil
<1>1. Value(a) \in Values
  BY CellTypes DEF Value, Values
<1> QED
  BY <1>1, ObjectsAssumption DEF Addresses, Nil

------------------------------------------------------------------------------
(* New cells change nothing for the holders of old pointers.                 *)

\* Cells that point to their own parts, or to none.
Fresh(new) ==
    /\ new \in Seq(Contents)
    /\ \A i \in 1 .. Len(new) : \A p \in Parts : new[i].at[p] \in {Nil, Len(memory) + i}

LEMMA MemoryGrows ==
    ASSUME TypeOK, NEW new, Fresh(new), memory' = memory \o new
    PROVE  /\ memory' \in Seq(Contents)
           /\ Len(memory') = Len(memory) + Len(new)
           /\ \A a \in Addresses : memory'[a] = memory[a]
           /\ \A i \in 1 .. Len(new) : memory'[Len(memory) + i] = new[i]
           /\ Addresses \subseteq Addresses'
           /\ \A a \in Addresses' \ Addresses :
                 \E i \in 1 .. Len(new) : a = Len(memory) + i
           /\ Len(memory) \in Nat /\ Len(new) \in Nat
<1>1. memory \in Seq(Contents) /\ new \in Seq(Contents)
  BY DEF TypeOK, Fresh
<1>2. /\ memory' \in Seq(Contents)
      /\ Len(memory') = Len(memory) + Len(new)
      /\ \A a \in 1 .. Len(memory) : memory'[a] = memory[a]
      /\ \A i \in 1 .. Len(new) : memory'[Len(memory) + i] = new[i]
      /\ Len(memory) \in Nat /\ Len(new) \in Nat
  BY <1>1
<1>3. ASSUME NEW a \in 1 .. Len(memory'), a \notin 1 .. Len(memory)
      PROVE  \E i \in 1 .. Len(new) : a = Len(memory) + i
  <2>1. a - Len(memory) \in 1 .. Len(new) /\ a = Len(memory) + (a - Len(memory))
    BY <1>2, <1>3
  <2> QED
    BY <2>1
<1>4. Addresses \subseteq Addresses'
  BY <1>2 DEF Addresses
<1>5. Addresses = 1 .. Len(memory) /\ Addresses' = 1 .. Len(memory')
  BY DEF Addresses
<1> HIDE DEF Addresses
<1> QED
  BY <1>2, <1>3, <1>4, <1>5

LEMMA GrownParts ==
    ASSUME TypeOK, PartsAreApart, NEW new, Fresh(new), memory' = memory \o new
    PROVE  /\ (\A a \in Addresses : \A p \in Parts : memory[a].at[p] \in Addresses \cup {Nil})'
           /\ PartsAreApart'
<1>1. ASSUME NEW a \in Addresses', NEW p \in Parts
      PROVE  \/ a \in Addresses /\ memory'[a].at[p] = memory[a].at[p]
                /\ memory[a].at[p] \in Addresses \cup {Nil}
             \/ a \notin Addresses /\ memory'[a].at[p] \in {a, Nil}
  <2>1. CASE a \in Addresses
    BY <2>1, MemoryGrows DEF TypeOK
  <2>2. CASE a \notin Addresses
    <3>1. PICK i \in 1 .. Len(new) : a = Len(memory) + i
      BY <2>2, MemoryGrows
    <3> QED
      BY <2>2, <3>1, MemoryGrows DEF Fresh
  <2> QED
    BY <2>1, <2>2
<1>2. Addresses \subseteq Addresses'
  BY MemoryGrows
<1>3. (\A a \in Addresses : \A p \in Parts : memory[a].at[p] \in Addresses \cup {Nil})'
  BY <1>1, <1>2
<1>4. ASSUME NEW a \in Addresses', NEW b \in Addresses', NEW p \in Parts,
             memory'[a].at[p] = memory'[b].at[p], memory'[a].at[p] # Nil
      PROVE  a = b
  <2>1. CASE a \in Addresses /\ b \in Addresses
    <3>1. memory[a].at[p] = memory[b].at[p] /\ memory[a].at[p] # Nil
      BY <1>1, <1>4, <2>1
    <3> QED
      BY <2>1, <3>1 DEF PartsAreApart
  <2>2. CASE a \notin Addresses \/ b \notin Addresses
    BY <1>1, <1>4, <2>2
  <2> QED
    BY <2>1, <2>2
<1> QED
  BY <1>3, <1>4 DEF PartsAreApart

LEMMA GrownValues ==
    ASSUME TypeOK, NEW new, Fresh(new), memory' = memory \o new, NEW a \in Addresses
    PROVE  Value(a)' = Value(a)
<1>1. \A p \in Parts : memory[a].at[p] \in Addresses \cup {Nil}
  BY DEF TypeOK
<1> QED
  BY <1>1, MemoryGrows DEF Value

\* What a lister may do to pointers when the memory only grows.
LEMMA GrownPointers ==
    ASSUME TypeOK, NEW new, Fresh(new), memory' = memory \o new, NEW r \in Readers
    PROVE  hold[r] \in Seq(Addresses') /\ mine[r] \in Seq(Addresses')
<1>1. hold[r] \in Seq(Addresses) /\ mine[r] \in Seq(Addresses)
  BY DEF TypeOK
<1>2. Addresses \subseteq Addresses'
  BY MemoryGrows
<1> QED
  BY <1>1, <1>2, SeqGrows

------------------------------------------------------------------------------
(* The steps.                                                                *)

LEMMA StoreKinds ==
    ASSUME TypeOK, NEW n \in Names, Store(n)
    PROVE  \/ \E flag \in Values :
                /\ Fresh(<<Decoded(flag)>>)
                /\ memory' = memory \o <<Decoded(flag)>>
                /\ index' = [index EXCEPT ![n] = Len(memory) + 1]
                /\ UNCHANGED <<hold, mine>>
           \/ /\ index' = [index EXCEPT ![n] = Nil]
              /\ UNCHANGED <<memory, hold, mine>>
<1>1. ASSUME NEW flag \in Values, memory' = Append(memory, Decoded(flag))
      PROVE  Fresh(<<Decoded(flag)>>) /\ memory' = memory \o <<Decoded(flag)>>
  <2>1. memory \in Seq(Contents) /\ Len(memory) \in Nat
    BY DEF TypeOK
  <2>2. /\ Decoded(flag) \in Contents
        /\ \A p \in Parts : Decoded(flag).at[p] \in {Nil, Len(memory) + 1}
    BY <2>1, ObjectsAssumption DEF Decoded, Values, Contents, Nil
  <2>3. Fresh(<<Decoded(flag)>>)
    BY <2>2 DEF Fresh
  <2> QED
    BY <1>1, <2>1, <2>2, <2>3
<1> QED
  BY <1>1, ObjectsAssumption DEF Store

\* What a deep copy makes of one part, and of a flag.
LEMMA PartCopied ==
    ASSUME TypeOK, NEW flag \in Contents, NEW p \in Parts, NEW out \in Nat,
           flag.at[p] \in Addresses \cup {Nil}
    PROVE  LET copy == PartDeepCopyInto(flag, p, out)
           IN  /\ copy \in Contents /\ copy.cm = flag.cm
               /\ \A q \in Parts \ {p} : copy.at[q] = flag.at[q] /\ copy.data[q] = flag.data[q]
               /\ IF flag.at[p] = Nil
                    THEN copy.at[p] = Nil
                    ELSE copy.at[p] = out /\ copy.data[p] = memory[flag.at[p]].data[p]
<1>1. CASE flag.at[p] = Nil
  BY <1>1 DEF PartDeepCopyInto
<1>2. CASE flag.at[p] # Nil
  <2>1. memory[flag.at[p]].data[p] \in Data
    BY <1>2, CellTypes
  <2>2. PartDeepCopyInto(flag, p, out) =
          [cm |-> flag.cm, at |-> [flag.at EXCEPT ![p] = out],
           data |-> [flag.data EXCEPT ![p] = memory[flag.at[p]].data[p]]]
    BY <1>2 DEF PartDeepCopyInto, Contents
  <2> QED
    BY <1>2, <2>1, <2>2 DEF Contents
<1> QED
  BY <1>1, <1>2

LEMMA FlagCopied ==
    ASSUME TypeOK, NEW a \in Addresses, NEW out \in Nat
    PROVE  LET copy == DeepCopy(a, out)
           IN  /\ copy \in Contents /\ copy.cm = memory[a].cm
               /\ \A p \in Parts :
                     IF memory[a].at[p] = Nil
                       THEN copy.at[p] = Nil
                       ELSE /\ copy.at[p] = out
                            /\ copy.data[p] = memory[memory[a].at[p]].data[p]
<1> DEFINE flag == ObjectMetaDeepCopyInto(memory[a], out)
           copy == DeepCopy(a, out)
<1>1. memory[a] \in Contents /\ \A p \in Parts : memory[a].at[p] \in Addresses \cup {Nil}
  BY CellTypes
<1>2. "metadata" \in Parts /\ "replicas" \in Parts
  BY DEF Parts
<1>3. /\ flag \in Contents /\ flag.cm = memory[a].cm
      /\ flag.at["replicas"] = memory[a].at["replicas"]
      /\ IF memory[a].at["metadata"] = Nil
           THEN flag.at["metadata"] = Nil
           ELSE /\ flag.at["metadata"] = out
                /\ flag.data["metadata"] = memory[memory[a].at["metadata"]].data["metadata"]
  BY <1>1, <1>2, PartCopied DEF ObjectMetaDeepCopyInto
<1>4. copy = PartDeepCopyInto(flag, "replicas", out)
  BY DEF DeepCopy, SpecDeepCopyInto
<1> HIDE DEF flag, copy
<1>5. /\ copy \in Contents /\ copy.cm = flag.cm
      /\ copy.at["metadata"] = flag.at["metadata"] /\ copy.data["metadata"] = flag.data["metadata"]
      /\ IF flag.at["replicas"] = Nil
           THEN copy.at["replicas"] = Nil
           ELSE /\ copy.at["replicas"] = out
                /\ copy.data["replicas"] = memory[flag.at["replicas"]].data["replicas"]
  BY <1>1, <1>2, <1>3, <1>4, PartCopied
<1>6. ASSUME NEW p \in Parts
      PROVE  IF memory[a].at[p] = Nil
               THEN copy.at[p] = Nil
               ELSE copy.at[p] = out /\ copy.data[p] = memory[memory[a].at[p]].data[p]
  <2>1. p = "metadata" \/ p = "replicas"
    BY DEF Parts
  <2> QED
    BY <1>3, <1>5, <2>1
<1> QED
  BY <1>3, <1>5, <1>6 DEF copy

LEMMA CopiesAreFresh ==
    ASSUME TypeOK, NEW r \in Readers
    PROVE  /\ Fresh(ListDeepCopy(hold[r]))
           /\ Len(ListDeepCopy(hold[r])) = Len(hold[r])
           /\ \A i \in 1 .. Len(hold[r]) :
                 LET copy == ListDeepCopy(hold[r])[i]
                     in == memory[hold[r][i]]
                 IN  /\ copy.cm = in.cm
                     /\ \A p \in Parts :
                           IF in.at[p] = Nil
                             THEN copy.at[p] = Nil
                             ELSE /\ copy.at[p] = Len(memory) + i
                                  /\ copy.data[p] = memory[in.at[p]].data[p]
<1> DEFINE copies == ListDeepCopy(hold[r])
<1>1. ASSUME NEW i \in 1 .. Len(hold[r])
      PROVE  LET in == memory[hold[r][i]]
             IN  /\ copies[i] \in Contents
                 /\ copies[i].cm = in.cm
                 /\ \A p \in Parts :
                       IF in.at[p] = Nil
                         THEN copies[i].at[p] = Nil
                         ELSE /\ copies[i].at[p] = Len(memory) + i
                              /\ copies[i].data[p] = memory[in.at[p]].data[p]
  <2>1. copies[i] = DeepCopy(hold[r][i], Len(memory) + i) /\ hold[r][i] \in Addresses
    BY HeldAddresses DEF ListDeepCopy
  <2>2. Len(memory) + i \in Nat
    BY HeldAddresses DEF TypeOK
  <2> HIDE DEF copies
  <2>3. ASSUME NEW a \in Addresses, a = hold[r][i]
        PROVE  /\ copies[i] \in Contents
               /\ copies[i].cm = memory[a].cm
               /\ \A p \in Parts :
                     IF memory[a].at[p] = Nil
                       THEN copies[i].at[p] = Nil
                       ELSE /\ copies[i].at[p] = Len(memory) + i
                            /\ copies[i].data[p] = memory[memory[a].at[p]].data[p]
    BY <2>1, <2>2, <2>3, FlagCopied
  <2> QED
    BY <2>1, <2>3
<1>2. DOMAIN copies = 1 .. Len(hold[r]) /\ Len(hold[r]) \in Nat
  BY HeldAddresses DEF ListDeepCopy
<1>3. copies = [i \in 1 .. Len(hold[r]) |-> copies[i]]
  BY <1>2 DEF ListDeepCopy
<1> HIDE DEF copies
<1>4. copies \in Seq(Contents) /\ Len(copies) = Len(hold[r])
  <2> DEFINE f == [i \in 1 .. Len(hold[r]) |-> copies[i]]
  <2>1. f \in Seq(Contents) /\ Len(f) = Len(hold[r])
    BY <1>1, <1>2
  <2> QED
    BY <1>3, <2>1
<1>5. \A i \in 1 .. Len(copies) : \A p \in Parts : copies[i].at[p] \in {Nil, Len(memory) + i}
  BY <1>1, <1>4
<1>6. Fresh(copies)
  BY <1>4, <1>5 DEF Fresh
<1> QED
  BY <1>1, <1>4, <1>6 DEF copies

\* A write goes to the reader's copy, or to a part it points to.
LEMMA ModifyKinds ==
    ASSUME TypeOK, NEW r \in Readers, Modify(r)
    PROVE  \E i \in DOMAIN mine[r] :
              LET a == mine[r][i] IN
              /\ a \in Addresses
              /\ memory' \in Seq(Contents)
              /\ Len(memory') = Len(memory)
              /\ \A b \in Addresses :
                    /\ memory'[b].at = memory[b].at
                    /\ b # a => memory'[b].cm = memory[b].cm
                    /\ \A p \in Parts :
                          b = memory[a].at[p] \/ memory'[b].data[p] = memory[b].data[p]
              /\ UNCHANGED <<index, hold, mine>>
<1>1. PICK i \in DOMAIN mine[r] :
         LET a == mine[r][i] IN
         \/ \E cm \in ConfigMapNames : memory' = [memory EXCEPT ![a].cm = cm]
         \/ \E p \in Parts, d \in Data :
              /\ memory[a].at[p] # Nil
              /\ memory' = [memory EXCEPT ![memory[a].at[p]].data[p] = d]
  BY DEF Modify
<1> DEFINE a == mine[r][i]
<1>2. a \in Addresses
  BY HeldAddresses
<1>3. memory \in Seq(Contents) /\ \A p \in Parts : memory[a].at[p] \in Addresses \cup {Nil}
  BY <1>2 DEF TypeOK
<1> HIDE DEF a
<1>4. ASSUME NEW b \in Addresses, NEW cell \in Contents, memory' = [memory EXCEPT ![b] = cell]
      PROVE  /\ memory' \in Seq(Contents) /\ Len(memory') = Len(memory)
             /\ \A c \in Addresses : memory'[c] = IF c = b THEN cell ELSE memory[c]
  BY <1>3, <1>4 DEF Addresses
<1>5. \A b \in Addresses : memory[b] \in Contents
  BY <1>3 DEF Addresses
<1>6. CASE \E cm \in ConfigMapNames : memory' = [memory EXCEPT ![a].cm = cm]
  <2>1. PICK cm \in ConfigMapNames : memory' = [memory EXCEPT ![a] = [memory[a] EXCEPT !.cm = cm]]
    BY <1>6
  <2> DEFINE cell == [memory[a] EXCEPT !.cm = cm]
  <2>2. cell \in Contents /\ cell.at = memory[a].at /\ cell.data = memory[a].data
    BY <1>2, <1>5 DEF Contents
  <2> HIDE DEF cell
  <2>3. /\ memory' \in Seq(Contents) /\ Len(memory') = Len(memory)
        /\ \A c \in Addresses : memory'[c] = IF c = a THEN cell ELSE memory[c]
    BY <1>2, <1>4, <2>1, <2>2 DEF cell
  <2>4. UNCHANGED <<index, hold, mine>>
    BY DEF Modify
  <2>5. \A b \in Addresses :
           /\ memory'[b].at = memory[b].at
           /\ b # a => memory'[b].cm = memory[b].cm
           /\ memory'[b].data = memory[b].data
    BY <2>2, <2>3
  <2> QED
    BY <1>2, <2>3, <2>4, <2>5 DEF a
<1>7. CASE \E p \in Parts, d \in Data :
              /\ memory[a].at[p] # Nil
              /\ memory' = [memory EXCEPT ![memory[a].at[p]].data[p] = d]
  <2>1. PICK p \in Parts, d \in Data :
              /\ memory[a].at[p] # Nil
              /\ memory' = [memory EXCEPT ![memory[a].at[p]].data[p] = d]
    BY <1>7
  <2> DEFINE b == memory[a].at[p]
             cell == [cm |-> memory[b].cm, at |-> memory[b].at,
                      data |-> [memory[b].data EXCEPT ![p] = d]]
  <2>2. b \in Addresses
    BY <1>3, <2>1
  <2>3. [memory[b] EXCEPT !.data[p] = d] = cell
    BY <1>5, <2>2 DEF Contents
  <2>4. memory' = [memory EXCEPT ![b] = cell]
    BY <2>1, <2>3
  <2>5. /\ cell \in Contents /\ cell.at = memory[b].at /\ cell.cm = memory[b].cm
        /\ \A q \in Parts : q # p => cell.data[q] = memory[b].data[q]
    BY <2>2, <1>5 DEF Contents
  <2> HIDE DEF cell
  <2>6. /\ memory' \in Seq(Contents) /\ Len(memory') = Len(memory)
        /\ \A c \in Addresses : memory'[c] = IF c = b THEN cell ELSE memory[c]
    BY <2>2, <1>4, <2>4, <2>5
  <2>7. UNCHANGED <<index, hold, mine>>
    BY DEF Modify
  <2>8. \A c \in Addresses :
           /\ memory'[c].at = memory[c].at
           /\ memory'[c].cm = memory[c].cm
           /\ \A q \in Parts : c = memory[a].at[q] \/ memory'[c].data[q] = memory[c].data[q]
    BY <2>5, <2>6
  <2> QED
    BY <1>2, <2>6, <2>7, <2>8 DEF a
<1> QED
  BY <1>1, <1>6, <1>7 DEF a

LEMMA StoreInv ==
    ASSUME MemoryInv, NEW n \in Names, Store(n)
    PROVE  MemoryInv'
<1> USE DEF MemoryInv
<1>1. ASSUME NEW new, Fresh(new), Len(new) = 1,
             memory' = memory \o new,
             index' = [index EXCEPT ![n] = Len(memory) + 1],
             UNCHANGED <<hold, mine>>
      PROVE  MemoryInv'
  <2>0. Len(memory') = Len(memory) + 1 /\ Len(memory) \in Nat
    BY <1>1, MemoryGrows
  <2>1. Len(memory) + 1 \in Addresses' /\ Len(memory) + 1 \notin Addresses
    BY <2>0 DEF Addresses
  <2>2. index \in [Names -> Addresses \cup {Nil}] /\ Addresses \subseteq Addresses'
    BY <1>1, MemoryGrows DEF TypeOK
  <2>3. index' \in [Names -> Addresses' \cup {Nil}]
    BY <1>1, <2>1, <2>2
  <2>4. hold' \in [Readers -> Seq(Addresses')] /\ mine' \in [Readers -> Seq(Addresses')]
    BY <1>1, GrownPointers DEF TypeOK
  <2>5. TypeOK' /\ PartsAreApart'
    BY <1>1, <2>3, <2>4, MemoryGrows, GrownParts DEF TypeOK
  <2>6. Len(memory) + 1 # Nil
    BY <1>1, MemoryGrows DEF Nil
  <2>7. NamesAreApart'
    BY <1>1, <2>1, <2>2, <2>6 DEF NamesAreApart
  <2>8. CopiesAreOwned'
    BY <1>1, <2>1, <2>2, HeldAddresses DEF CopiesAreOwned
  <2> QED
    BY <2>5, <2>7, <2>8
<1>2. CASE index' = [index EXCEPT ![n] = Nil] /\ UNCHANGED <<memory, hold, mine>>
  <2>1. TypeOK' /\ PartsAreApart'
    BY <1>2 DEF TypeOK, Addresses, PartsAreApart
  <2>2. NamesAreApart' /\ CopiesAreOwned'
    BY <1>2, HeldAddresses, ValueTypes DEF TypeOK, NamesAreApart, CopiesAreOwned
  <2> QED
    BY <2>1, <2>2
<1>3. \A flag : Len(<<Decoded(flag)>>) = 1
  OBVIOUS
<1> QED
  BY <1>1, <1>2, <1>3, StoreKinds

\* A reader gets pointers of the indexer.
LEMMA ReadInv ==
    ASSUME MemoryInv, NEW r \in Readers, NEW items \in Seq(Addresses),
           \A i \in 1 .. Len(items) : \E n \in Names : items[i] = index[n],
           hold' = [hold EXCEPT ![r] = items],
           UNCHANGED <<memory, index, mine>>
    PROVE  MemoryInv'
<1>1. TypeOK' /\ PartsAreApart' /\ NamesAreApart'
  BY DEF MemoryInv, TypeOK, Addresses, PartsAreApart, NamesAreApart
<1>2. ASSUME NEW q \in Readers, NEW j \in DOMAIN hold'[q], NEW p \in Readers, NEW i \in DOMAIN mine[p]
      PROVE  hold'[q][j] # mine[p][i]
  <2>1. hold \in [Readers -> Seq(Addresses)] /\ DOMAIN items = 1 .. Len(items)
    BY DEF MemoryInv, TypeOK
  <2>2. CASE q = r
    BY <1>2, <2>1, <2>2 DEF MemoryInv, CopiesAreOwned
  <2>3. CASE q # r
    BY <1>2, <2>1, <2>3 DEF MemoryInv, CopiesAreOwned
  <2> QED
    BY <2>2, <2>3
<1>3. CopiesAreOwned'
  BY <1>2 DEF MemoryInv, CopiesAreOwned
<1> QED
  BY <1>1, <1>3 DEF MemoryInv

LEMMA GetReads ==
    ASSUME MemoryInv, NEW r \in Readers, NEW n \in Names, Get(r, n)
    PROVE  \E items \in Seq(Addresses) :
              /\ items = IF index[n] = Nil THEN <<>> ELSE <<index[n]>>
              /\ \A i \in 1 .. Len(items) : \E m \in Names : items[i] = index[m]
              /\ hold' = [hold EXCEPT ![r] = items]
              /\ UNCHANGED <<memory, index, mine>>
<1> DEFINE items == IF index[n] = Nil THEN <<>> ELSE <<index[n]>>
<1>1. index[n] \in Addresses \cup {Nil}
  BY DEF MemoryInv, TypeOK
<1>2. items \in Seq(Addresses) /\ \A i \in 1 .. Len(items) : items[i] = index[n]
  BY <1>1
<1> QED
  BY <1>2 DEF Get

LEMMA ListReads ==
    ASSUME MemoryInv, NEW r \in Readers, List(r)
    PROVE  \E items \in Seq(Addresses) :
              /\ \A i \in 1 .. Len(items) : \E n \in Names : items[i] = index[n]
              /\ \A n \in Names : index[n] # Nil => \E i \in 1 .. Len(items) : items[i] = index[n]
              /\ \A i, j \in 1 .. Len(items) : items[i] = items[j] => i = j
              /\ hold' = [hold EXCEPT ![r] = items]
              /\ UNCHANGED <<memory, index, mine>>
<1> DEFINE found == {index[n] : n \in Names} \ {Nil}
           count == Cardinality(found)
<1>1. PICK items \in Bijection(1 .. count, found) : hold' = [hold EXCEPT ![r] = items]
  BY DEF List
<1>2. found \subseteq Addresses
  BY DEF MemoryInv, TypeOK
<1>n. count \in Nat
  <2>1. IsFiniteSet(Addresses)
    <3>1. Len(memory) \in Nat
      BY DEF MemoryInv, TypeOK
    <3> QED
      BY <3>1, FS_Interval DEF Addresses
  <2> QED
    BY <1>2, <2>1, FS_Subset, FS_CardinalityType
<1> HIDE DEF count
<1>3. /\ items \in [1 .. count -> found]
      /\ \A i, j \in 1 .. count : items[i] = items[j] => i = j
      /\ \A a \in found : \E i \in 1 .. count : items[i] = a
  BY DEF Bijection, Injection, Surjection, IsInjective
<1>4. items \in Seq(Addresses) /\ Len(items) = count
  BY <1>n, <1>2, <1>3
<1>5. \A a \in found : \E n \in Names : a = index[n]
  OBVIOUS
<1>6. \A n \in Names : index[n] # Nil => index[n] \in found
  OBVIOUS
<1> HIDE DEF found
<1>7. /\ \A i \in 1 .. Len(items) : \E n \in Names : items[i] = index[n]
      /\ \A n \in Names : index[n] # Nil => \E i \in 1 .. Len(items) : items[i] = index[n]
      /\ \A i, j \in 1 .. Len(items) : items[i] = items[j] => i = j
  BY <1>3, <1>4, <1>5, <1>6
<1>8. UNCHANGED <<memory, index, mine>>
  BY DEF List
<1> QED
  BY <1>1, <1>4, <1>7, <1>8

LEMMA CopyInv ==
    ASSUME MemoryInv, NEW r \in Readers, Copy(r)
    PROVE  MemoryInv'
<1> USE DEF MemoryInv
<1> DEFINE copies == ListDeepCopy(hold[r])
           new(i) == Len(memory) + i
<1>1. /\ Fresh(copies) /\ Len(copies) = Len(hold[r])
      /\ memory' = memory \o copies
      /\ mine' = [mine EXCEPT ![r] = [i \in 1 .. Len(hold[r]) |-> new(i)]]
      /\ UNCHANGED <<index, hold>>
  BY CopiesAreFresh, HeldAddresses DEF Copy
<1>2. Len(memory) \in Nat /\ Len(hold[r]) \in Nat
  BY HeldAddresses DEF TypeOK
<1>3. \A i \in 1 .. Len(hold[r]) : new(i) \in Addresses' /\ new(i) \notin Addresses /\ new(i) # Nil
  BY <1>1, <1>2, MemoryGrows DEF Addresses, Nil
<1>4. Addresses \subseteq Addresses'
  BY <1>1, MemoryGrows
<1> HIDE DEF copies
<1>5. [i \in 1 .. Len(hold[r]) |-> new(i)] \in Seq(Addresses')
  BY <1>2, <1>3
<1>6. mine' \in [Readers -> Seq(Addresses')]
  BY <1>1, <1>5, GrownPointers DEF TypeOK
<1>7. hold' \in [Readers -> Seq(Addresses')] /\ index' \in [Names -> Addresses' \cup {Nil}]
  BY <1>1, <1>4, GrownPointers DEF TypeOK
<1>8. TypeOK' /\ PartsAreApart'
  BY <1>1, <1>6, <1>7, MemoryGrows, GrownParts DEF TypeOK
<1>9. NamesAreApart'
  BY <1>1 DEF NamesAreApart
<1>10. ASSUME NEW q \in Readers, NEW j \in DOMAIN mine'[q]
       PROVE  \/ q = r /\ j \in 1 .. Len(hold[r]) /\ mine'[q][j] = new(j)
              \/ q # r /\ j \in DOMAIN mine[q] /\ mine'[q][j] = mine[q][j]
  BY <1>1 DEF TypeOK
<1>11. \A n \in Names : index[n] \in Addresses \cup {Nil}
  BY DEF TypeOK
<1>12. ASSUME NEW p \in Readers, NEW i \in DOMAIN mine'[p]
       PROVE  /\ \A n \in Names : index[n] # mine'[p][i]
              /\ \A q \in Readers : /\ \A j \in DOMAIN hold[q] : hold[q][j] # mine'[p][i]
                                    /\ \A j \in DOMAIN mine'[q] :
                                          mine'[q][j] = mine'[p][i] => q = p /\ j = i
  <2> HIDE DEF MemoryInv, new
  <2>1. CASE p = r
    <3>1. i \in 1 .. Len(hold[r]) /\ mine'[p][i] = new(i)
      BY <1>10, <2>1
    <3>2. ASSUME NEW q \in Readers, NEW j \in DOMAIN mine'[q], mine'[q][j] = mine'[p][i]
          PROVE  q = p /\ j = i
      <4>1. CASE q = r
        BY <1>2, <1>10, <2>1, <3>1, <3>2, <4>1 DEF new
      <4>2. CASE q # r
        BY <1>3, <1>10, <3>1, <3>2, <4>2, HeldAddresses DEF MemoryInv
      <4> QED
        BY <4>1, <4>2
    <3> QED
      BY <1>3, <1>11, <3>1, <3>2, HeldAddresses DEF MemoryInv
  <2>2. CASE p # r
    <3>1. i \in DOMAIN mine[p] /\ mine'[p][i] = mine[p][i] /\ mine[p][i] \in Addresses
      BY <1>10, <2>2, HeldAddresses DEF MemoryInv
    <3>2. ASSUME NEW q \in Readers, NEW j \in DOMAIN mine'[q], mine'[q][j] = mine'[p][i]
          PROVE  q = p /\ j = i
      BY <1>3, <1>10, <3>1, <3>2 DEF MemoryInv, CopiesAreOwned
    <3> QED
      BY <3>1, <3>2 DEF MemoryInv, CopiesAreOwned
  <2> QED
    BY <2>1, <2>2
<1>13. CopiesAreOwned'
  <2>1. index' = index /\ hold' = hold
    BY <1>1
  <2> HIDE DEF MemoryInv, new
  <2> QED
    BY <1>12, <2>1 DEF CopiesAreOwned
<1> QED
  BY <1>8, <1>9, <1>13

LEMMA ModifyInv ==
    ASSUME MemoryInv, NEW r \in Readers, Modify(r)
    PROVE  MemoryInv'
<1>1. /\ memory' \in Seq(Contents)
      /\ Addresses' = Addresses
      /\ \A a \in Addresses : memory'[a].at = memory[a].at
      /\ UNCHANGED <<index, hold, mine>>
  BY ModifyKinds DEF MemoryInv, Addresses
<1>2. TypeOK'
  BY <1>1 DEF MemoryInv, TypeOK
<1>3. PartsAreApart'
  BY <1>1 DEF MemoryInv, PartsAreApart
<1>4. NamesAreApart' /\ CopiesAreOwned'
  BY <1>1 DEF MemoryInv, NamesAreApart, CopiesAreOwned
<1> QED
  BY <1>2, <1>3, <1>4 DEF MemoryInv

------------------------------------------------------------------------------
(* The invariant, and that no copy shares anything.                          *)

LEMMA InitMemory == Init => MemoryInv
<1> SUFFICES ASSUME Init PROVE MemoryInv
  OBVIOUS
<1>1. TypeOK
  BY DEF Init, TypeOK, Addresses
<1>2. PartsAreApart /\ NamesAreApart /\ CopiesAreOwned
  BY DEF Init, Addresses, PartsAreApart, NamesAreApart, CopiesAreOwned
<1> QED
  BY <1>1, <1>2 DEF MemoryInv

LEMMA NextMemory == MemoryInv /\ [Next]_vars => MemoryInv'
<1>1. ASSUME MemoryInv, Next
      PROVE  MemoryInv'
  <2>1. ASSUME NEW r \in Readers, List(r) \/ \E n \in Names : Get(r, n)
        PROVE  MemoryInv'
    BY <1>1, <2>1, GetReads, ListReads, ReadInv
  <2> QED
    BY <1>1, <2>1, StoreInv, CopyInv, ModifyInv DEF Next
<1>2. ASSUME MemoryInv, UNCHANGED vars
      PROVE  MemoryInv'
  BY <1>2 DEF vars, MemoryInv, TypeOK, Addresses, PartsAreApart, NamesAreApart, CopiesAreOwned
<1> QED
  BY <1>1, <1>2

\* The inductive invariant holds in every reachable state.
THEOREM MemoryInvariant == Spec => []MemoryInv
BY InitMemory, NextMemory, PTL DEF Spec

\* Two different cells lead to different flags and different parts.
LEMMA CellsAreApart ==
    ASSUME MemoryInv, NEW a \in Addresses, NEW b \in Addresses \cup {Nil}, a # b
    PROVE  Reach(a) \cap Reach(b) = {}
<1>1. CASE b = Nil
  BY <1>1 DEF Reach
<1>2. CASE b # Nil
  <2>1. \A p \in Parts : ~(memory[a].at[p] = memory[b].at[p] /\ memory[a].at[p] # Nil)
    BY <1>2 DEF MemoryInv, PartsAreApart
  <2>2. "flag" \notin Parts
    BY DEF Parts
  <2>3. ASSUME NEW e, e \in Reach(a), e \in Reach(b)
        PROVE  FALSE
    <3>1. a # Nil
      BY DEF Addresses, Nil
    <3>2. e = <<"flag", a>> \/ \E p \in Parts : e = <<p, memory[a].at[p]>> /\ memory[a].at[p] # Nil
      BY <2>3, <3>1 DEF Reach
    <3>3. e = <<"flag", b>> \/ \E p \in Parts : e = <<p, memory[b].at[p]>> /\ memory[b].at[p] # Nil
      BY <1>2, <2>3 DEF Reach
    <3> QED
      BY <2>1, <2>2, <3>2, <3>3
  <2> QED
    BY <2>3
<1> QED
  BY <1>1, <1>2

\* A copy shares nothing with the indexer, with what anyone was given, and with
\* any other copy.
THEOREM CopiesShareNothing == Spec => []CopiesAreApart
<1>1. MemoryInv => CopiesAreApart
  <2> SUFFICES ASSUME MemoryInv, NEW r \in Readers, NEW i \in DOMAIN mine[r]
               PROVE  LET apart(a) == Reach(mine[r][i]) \cap Reach(a) = {} IN
                      /\ \A n \in Names : apart(index[n])
                      /\ \A q \in Readers : /\ \A j \in DOMAIN hold[q] : apart(hold[q][j])
                                            /\ \A j \in DOMAIN mine[q] : <<q, j>> = <<r, i>> \/ apart(mine[q][j])
    BY DEF CopiesAreApart
  <2>1. mine[r][i] \in Addresses
    BY HeldAddresses DEF MemoryInv
  <2>2. \A n \in Names : index[n] \in Addresses \cup {Nil} /\ index[n] # mine[r][i]
    BY DEF MemoryInv, TypeOK, CopiesAreOwned
  <2>3. \A q \in Readers : \A j \in DOMAIN hold[q] : hold[q][j] \in Addresses /\ hold[q][j] # mine[r][i]
    BY HeldAddresses DEF MemoryInv, CopiesAreOwned
  <2>4. \A q \in Readers : \A j \in DOMAIN mine[q] :
           mine[q][j] \in Addresses /\ (<<q, j>> = <<r, i>> \/ mine[q][j] # mine[r][i])
    BY HeldAddresses DEF MemoryInv, CopiesAreOwned
  <2> QED
    BY <2>1, <2>2, <2>3, <2>4, CellsAreApart
<1> QED
  BY <1>1, MemoryInvariant, PTL

------------------------------------------------------------------------------
(* The pointers implement ValueCache.                                        *)

\* What pointers are worth: those of the indexer, and those of the readers.
Cached == [n \in Names |-> IF index[n] = Nil THEN None ELSE Value(index[n])]
Held   == [r \in Readers |-> [i \in DOMAIN hold[r] |-> Value(hold[r][i])]]
Own    == [r \in Readers |-> [i \in DOMAIN mine[r] |-> Value(mine[r][i])]]

\* Pointers that stay, to cells whose worth stays, are worth what they were.
LEMMA HeldStays ==
    ASSUME TypeOK, hold' = hold, \A a \in Addresses : Value(a)' = Value(a)
    PROVE  Held' = Held
BY HeldAddresses DEF Held

LEMMA OwnStays ==
    ASSUME TypeOK, mine' = mine, \A a \in Addresses : Value(a)' = Value(a)
    PROVE  Own' = Own
BY HeldAddresses DEF Own

LEMMA CachedStays ==
    ASSUME TypeOK, index' = index, \A a \in Addresses : Value(a)' = Value(a)
    PROVE  Cached' = Cached
BY DEF Cached, TypeOK

\* What a pointer is worth in a memory.
Worth(mem, a) ==
    [cm    |-> mem[a].cm,
     parts |-> [p \in Parts |-> IF mem[a].at[p] = Nil THEN None ELSE mem[mem[a].at[p]].data[p]]]

LEMMA ValueIsWorth == \A a : Value(a) = Worth(memory, a)
BY DEF Value, Worth

\* The readers' pointers are worth what they are worth in the memory.
LEMMA HeldWorth ==
    Held = [r \in Readers |-> [i \in DOMAIN hold[r] |-> Worth(memory, hold[r][i])]]
BY DEF Held, Value, Worth

LEMMA HeldChanges ==
    ASSUME MemoryInv, NEW r \in Readers, NEW items, hold' = [hold EXCEPT ![r] = items], memory' = memory
    PROVE  Held' = [Held EXCEPT ![r] = [i \in DOMAIN items |-> Value(items[i])]]
<1>1. Held' = [q \in Readers |-> [i \in DOMAIN hold'[q] |-> Worth(memory', hold'[q][i])]]
  BY DEF Held, Value, Worth
<1>2. [i \in DOMAIN items |-> Value(items[i])] = [i \in DOMAIN items |-> Worth(memory, items[i])]
  BY DEF Value, Worth
<1>3. hold \in [Readers -> Seq(Addresses)]
  BY DEF MemoryInv, TypeOK
<1>4. Held' = [Held EXCEPT ![r] = [i \in DOMAIN items |-> Worth(memory, items[i])]]
  BY <1>1, <1>3, HeldWorth
<1> QED
  BY <1>2, <1>4

\* A step that leaves the memory alone changes the worth of no pointer.
LEMMA MemoryStays ==
    ASSUME memory' = memory
    PROVE  \A a \in Addresses : Value(a)' = Value(a)
BY DEF Value

LEMMA StoreIsStore ==
    ASSUME MemoryInv, NEW n \in Names, Store(n)
    PROVE  Flags!Store(n)
<1>1. ASSUME NEW v \in Values \cup {None}, Cached' = [Cached EXCEPT ![n] = v], Held' = Held, Own' = Own
      PROVE  Flags!Store(n)
  BY <1>1 DEF Flags!Store, Cached, Held, Own
<1>2. ASSUME NEW flag \in Values,
             Fresh(<<Decoded(flag)>>),
             memory' = memory \o <<Decoded(flag)>>,
             index' = [index EXCEPT ![n] = Len(memory) + 1],
             UNCHANGED <<hold, mine>>
      PROVE  Flags!Store(n)
  <2>1. \A b \in Addresses : Value(b)' = Value(b)
    BY <1>2, GrownValues DEF MemoryInv
  <2>2. Held' = Held /\ Own' = Own
    BY <1>2, <2>1, HeldStays, OwnStays DEF MemoryInv
  <2>3. PICK a : a = Len(memory) + 1
    OBVIOUS
  <2>4. memory'[a] = Decoded(flag) /\ a # Nil
    <3>1. memory'[Len(memory) + 1] = <<Decoded(flag)>>[1] /\ Len(memory) \in Nat
      BY <1>2, MemoryGrows DEF MemoryInv
    <3> QED
      BY <2>3, <3>1 DEF Nil
  <2>5. Value(a)' = flag
    <3>1. \A p \in Parts : flag.parts[p] # None => Decoded(flag).at[p] = a /\ a # Nil
      BY <2>3, <2>4 DEF Decoded
    <3>2. [p \in Parts |-> IF Decoded(flag).at[p] = Nil THEN None
                                                       ELSE memory'[Decoded(flag).at[p]].data[p]]
             = flag.parts
      BY <2>4, <3>1 DEF Decoded, Values
    <3> QED
      BY <2>4, <3>2 DEF Value, Decoded, Values
  <2>7. Cached' = [Cached EXCEPT ![n] = flag]
    <3>1. ASSUME NEW m \in Names
          PROVE  Cached'[m] = IF m = n THEN flag ELSE Cached[m]
      <4>1. CASE m = n
        <5>1. index'[m] = a
          BY <1>2, <2>3, <4>1 DEF MemoryInv, TypeOK
        <5> QED
          BY <2>4, <2>5, <4>1, <5>1 DEF Cached, Value
      <4>2. CASE m # n
        BY <1>2, <2>1, <4>2 DEF MemoryInv, TypeOK, Cached
      <4> QED
        BY <4>1, <4>2
    <3> QED
      BY <3>1 DEF Cached
  <2> QED
    BY <1>1, <2>2, <2>7
<1>3. CASE index' = [index EXCEPT ![n] = Nil] /\ UNCHANGED <<memory, hold, mine>>
  <2>1. Held' = Held /\ Own' = Own
    BY <1>3, MemoryStays, HeldStays, OwnStays DEF MemoryInv
  <2>2. Cached' = [Cached EXCEPT ![n] = None]
    BY <1>3, MemoryStays DEF MemoryInv, TypeOK, Cached
  <2> QED
    BY <1>1, <2>1, <2>2
<1> QED
  BY <1>2, <1>3, StoreKinds DEF MemoryInv

LEMMA GetIsGet ==
    ASSUME MemoryInv, NEW r \in Readers, NEW n \in Names, Get(r, n)
    PROVE  Flags!Get(r, n)
<1>1. PICK items \in Seq(Addresses) :
         /\ items = IF index[n] = Nil THEN <<>> ELSE <<index[n]>>
         /\ hold' = [hold EXCEPT ![r] = items]
         /\ UNCHANGED <<memory, index, mine>>
  BY GetReads
<1>2. Cached' = Cached /\ Own' = Own
  BY <1>1, MemoryStays, CachedStays, OwnStays DEF MemoryInv
<1>3. [i \in DOMAIN items |-> Value(items[i])] = IF Cached[n] = None THEN <<>> ELSE <<Cached[n]>>
  <2>1. CASE index[n] = Nil
    BY <1>1, <2>1 DEF Cached
  <2>2. CASE index[n] # Nil
    <3>1. Cached[n] = Value(index[n]) /\ Cached[n] # None
      BY <2>2, ValueTypes DEF Cached, MemoryInv, TypeOK
    <3>2. items = <<index[n]>>
      BY <1>1, <2>2
    <3> QED
      BY <3>1, <3>2
  <2> QED
    BY <2>1, <2>2
<1>4. Held' = [Held EXCEPT ![r] = [i \in DOMAIN items |-> Value(items[i])]]
  <2>1. hold' = [hold EXCEPT ![r] = items] /\ memory' = memory
    BY <1>1
  <2> QED
    BY <2>1, HeldChanges
<1>5. Held' = [Held EXCEPT ![r] = IF Cached[n] = None THEN <<>> ELSE <<Cached[n]>>]
  BY <1>3, <1>4
<1> QED
  BY <1>2, <1>5 DEF Flags!Get, Cached, Held, Own

LEMMA ListIsList ==
    ASSUME MemoryInv, NEW r \in Readers, List(r)
    PROVE  Flags!List(r)
<1>1. PICK items \in Seq(Addresses) :
         /\ \A i \in 1 .. Len(items) : \E n \in Names : items[i] = index[n]
         /\ \A n \in Names : index[n] # Nil => \E i \in 1 .. Len(items) : items[i] = index[n]
         /\ \A i, j \in 1 .. Len(items) : items[i] = items[j] => i = j
         /\ hold' = [hold EXCEPT ![r] = items]
         /\ UNCHANGED <<memory, index, mine>>
  BY ListReads
<1> DEFINE order == [i \in 1 .. Len(items) |-> CHOOSE n \in Names : items[i] = index[n]]
           worth == [i \in DOMAIN items |-> Value(items[i])]
<1>2. DOMAIN items = 1 .. Len(items) /\ Len(items) \in Nat
  OBVIOUS
<1>3. \A i \in 1 .. Len(items) : order[i] \in Names /\ items[i] = index[order[i]] /\ items[i] \in Addresses
  BY <1>1
<1>4. order \in [1 .. Len(items) -> Names] /\ DOMAIN order = 1 .. Len(items)
  BY <1>3
<1> HIDE DEF order
<1>5. \A a \in Addresses : a # Nil /\ Value(a) # None
  BY ValueTypes DEF MemoryInv
<1>6. \A n \in Names : Cached[n] # None <=> index[n] # Nil
  BY <1>5 DEF Cached, MemoryInv, TypeOK
<1>7. \A i \in 1 .. Len(items) : Cached[order[i]] = worth[i] /\ Cached[order[i]] # None
  BY <1>2, <1>3, <1>5 DEF Cached
<1>8. {order[i] : i \in DOMAIN order} = {n \in Names : Cached[n] # None}
  <2>1. ASSUME NEW n \in Names, Cached[n] # None
        PROVE  \E i \in DOMAIN order : n = order[i]
    <3>1. index[n] # Nil
      BY <1>6, <2>1
    <3>2. PICK i \in 1 .. Len(items) : items[i] = index[n]
      BY <1>1, <3>1
    <3> QED
      BY <1>3, <1>4, <3>1, <3>2 DEF MemoryInv, NamesAreApart
  <2>2. \A i \in DOMAIN order : order[i] \in {n \in Names : Cached[n] # None}
    BY <1>3, <1>4, <1>7
  <2> QED
    BY <2>1, <2>2
<1>9. \A i, j \in DOMAIN order : order[i] = order[j] => i = j
  BY <1>1, <1>3, <1>4
<1>10. worth = [i \in DOMAIN order |-> Cached[order[i]]]
  BY <1>2, <1>4, <1>7
<1>11. Cached' = Cached /\ Own' = Own
  BY <1>1, MemoryStays, CachedStays, OwnStays DEF MemoryInv
<1>12. Held' = [Held EXCEPT ![r] = worth]
  BY <1>1, HeldChanges
<1>13. Held'[r] = worth
  BY <1>12 DEF Held
<1>14. Len(Held'[r]) = Len(items)
  BY <1>2, <1>13
<1> HIDE DEF worth
<1>15. \E o \in [1 .. Len(Held'[r]) -> Names] :
          /\ {o[i] : i \in DOMAIN o} = {n \in Names : Cached[n] # None}
          /\ \A i, j \in DOMAIN o : o[i] = o[j] => i = j
          /\ Held' = [Held EXCEPT ![r] = [i \in DOMAIN o |-> Cached[o[i]]]]
  BY <1>4, <1>8, <1>9, <1>10, <1>12, <1>14
<1> QED
  BY <1>11, <1>15 DEF Flags!List, Cached, Held, Own

LEMMA CopyIsCopy ==
    ASSUME MemoryInv, NEW r \in Readers, Copy(r)
    PROVE  Flags!Copy(r)
<1> DEFINE copies == ListDeepCopy(hold[r])
           new(i) == Len(memory) + i
<1>1. /\ Fresh(copies) /\ Len(copies) = Len(hold[r])
      /\ memory' = memory \o copies
      /\ mine' = [mine EXCEPT ![r] = [i \in 1 .. Len(hold[r]) |-> new(i)]]
      /\ UNCHANGED <<index, hold>>
  BY CopiesAreFresh, HeldAddresses DEF MemoryInv, Copy
<1>2. \A a \in Addresses : Value(a)' = Value(a)
  BY <1>1, GrownValues DEF MemoryInv
<1>3. Cached' = Cached /\ Held' = Held
  BY <1>1, <1>2, CachedStays, HeldStays DEF MemoryInv
<1>4. DOMAIN hold[r] = 1 .. Len(hold[r]) /\ Len(hold[r]) \in Nat /\ Len(memory) \in Nat
  BY HeldAddresses DEF MemoryInv, TypeOK
<1>5. ASSUME NEW i \in 1 .. Len(hold[r]), NEW a, a = new(i)
      PROVE  Value(a)' = Value(hold[r][i])
  <2>1. memory'[a] = copies[i]
    BY <1>1, <1>5, MemoryGrows DEF MemoryInv
  <2>2. a # Nil
    BY <1>4, <1>5 DEF Nil
  <2> HIDE DEF new, copies
  <2>3. /\ copies[i].cm = memory[hold[r][i]].cm
        /\ \A p \in Parts :
              IF memory[hold[r][i]].at[p] = Nil
                THEN copies[i].at[p] = Nil
                ELSE /\ copies[i].at[p] = new(i)
                     /\ copies[i].data[p] = memory[memory[hold[r][i]].at[p]].data[p]
    BY CopiesAreFresh DEF MemoryInv, copies, new
  <2>4. hold[r][i] \in Addresses
    BY <1>4, HeldAddresses DEF MemoryInv
  <2>5. PICK h \in Addresses : h = hold[r][i]
    BY <2>4
  <2>6. ASSUME NEW p \in Parts
        PROVE  (IF memory'[a].at[p] = Nil THEN None ELSE memory'[memory'[a].at[p]].data[p])
                 = IF memory[h].at[p] = Nil THEN None ELSE memory[memory[h].at[p]].data[p]
    <3>1. CASE memory[h].at[p] = Nil
      BY <2>1, <2>3, <2>5, <3>1
    <3>2. CASE memory[h].at[p] # Nil
      BY <1>5, <2>1, <2>2, <2>3, <2>5, <3>2
    <3> QED
      BY <3>1, <3>2
  <2>7. Worth(memory', a) = Worth(memory, h)
    BY <2>1, <2>3, <2>5, <2>6 DEF Worth
  <2>8. Value(a)' = Worth(memory', a)
    BY DEF Value, Worth
  <2> QED
    BY <2>5, <2>7, <2>8, ValueIsWorth
<1> HIDE DEF copies, new
<1>6. Own' = [Own EXCEPT ![r] = Held[r]]
  <2>1. ASSUME NEW q \in Readers
        PROVE  Own'[q] = IF q = r THEN Held[r] ELSE Own[q]
    <3>1. CASE q = r
      <4>1. mine'[r] = [i \in 1 .. Len(hold[r]) |-> new(i)]
        BY <1>1 DEF MemoryInv, TypeOK
      <4>2. \A i \in 1 .. Len(hold[r]) : mine'[r][i] = new(i) /\ Value(mine[r][i])' = Value(hold[r][i])
        BY <1>5, <4>1 DEF Value
      <4> QED
        BY <1>4, <3>1, <4>1, <4>2 DEF Held, Own
    <3>2. CASE q # r
      <4>1. mine'[q] = mine[q] /\ \A i \in DOMAIN mine[q] : mine[q][i] \in Addresses
        BY <1>1, <3>2, HeldAddresses DEF MemoryInv, TypeOK
      <4>2. Own'[q] = [i \in DOMAIN mine[q] |-> Value(mine[q][i])]
        BY <1>2, <4>1 DEF Own
      <4> QED
        BY <3>2, <4>2 DEF Own
    <3> QED
      BY <3>1, <3>2
  <2> QED
    BY <2>1 DEF Own
<1> QED
  BY <1>3, <1>6 DEF Flags!Copy, Cached, Held, Own

LEMMA ModifyIsModify ==
    ASSUME MemoryInv, NEW r \in Readers, Modify(r)
    PROVE  Flags!Modify(r)
<1>1. PICK i \in DOMAIN mine[r] :
         LET a == mine[r][i] IN
         /\ a \in Addresses
         /\ memory' \in Seq(Contents)
         /\ Len(memory') = Len(memory)
         /\ \A b \in Addresses :
               /\ memory'[b].at = memory[b].at
               /\ b # a => memory'[b].cm = memory[b].cm
               /\ \A p \in Parts :
                     b = memory[a].at[p] \/ memory'[b].data[p] = memory[b].data[p]
         /\ UNCHANGED <<index, hold, mine>>
  BY ModifyKinds DEF MemoryInv
<1> DEFINE a == mine[r][i]
           v == Value(a)'
<1>2. ASSUME NEW b \in Addresses, b # a
      PROVE  Value(b)' = Value(b)
  <2>1. ASSUME NEW p \in Parts, memory[b].at[p] # Nil
        PROVE  memory'[memory[b].at[p]].data[p] = memory[memory[b].at[p]].data[p]
    <3>1. memory[b].at[p] \in Addresses /\ memory[b].at[p] # memory[a].at[p]
      BY <1>1, <1>2, <2>1, CellTypes DEF MemoryInv, PartsAreApart
    <3> QED
      BY <1>1, <3>1
  <2>2. memory'[b].at = memory[b].at /\ memory'[b].cm = memory[b].cm
    BY <1>1, <1>2
  <2> QED
    BY <2>1, <2>2 DEF Value
<1>3. v \in Values
  <2>1. memory'[a].cm \in ConfigMapNames /\ memory'[a].at = memory[a].at
    <3>1. memory'[a] \in Contents
      BY <1>1 DEF Addresses
    <3> QED
      BY <1>1, <3>1 DEF Contents
  <2>2. ASSUME NEW b \in Addresses, NEW p \in Parts
        PROVE  memory'[b].data[p] \in Data
    <3>1. memory'[b] \in Contents
      BY <1>1 DEF Addresses
    <3> QED
      BY <3>1 DEF Contents
  <2>3. \A p \in Parts : memory[a].at[p] \in Addresses \cup {Nil}
    BY <1>1, CellTypes DEF MemoryInv
  <2> DEFINE part(p) == IF memory'[a].at[p] = Nil THEN None ELSE memory'[memory'[a].at[p]].data[p]
  <2>4. \A p \in Parts : part(p) \in Data \cup {None}
    BY <2>1, <2>2, <2>3
  <2>5. v = [cm |-> memory'[a].cm, parts |-> [p \in Parts |-> part(p)]]
    BY <1>1 DEF Value
  <2> HIDE DEF part, v
  <2> QED
    BY <2>1, <2>4, <2>5 DEF Values
<1>4. /\ \A n \in Names : index[n] \in Addresses \cup {Nil} /\ index[n] # a
      /\ \A q \in Readers : \A j \in DOMAIN hold[q] : hold[q][j] \in Addresses /\ hold[q][j] # a
      /\ \A q \in Readers : \A j \in DOMAIN mine[q] :
            mine[q][j] \in Addresses /\ (mine[q][j] = a => q = r /\ j = i)
  BY HeldAddresses DEF MemoryInv, TypeOK, CopiesAreOwned
<1>5. Cached' = Cached
  BY <1>1, <1>2, <1>4 DEF Cached
<1>6. Held' = Held
  BY <1>1, <1>2, <1>4 DEF Held
<1> HIDE DEF v
<1>7. Own' = [Own EXCEPT ![r][i] = v]
  <2>1. ASSUME NEW q \in Readers, NEW j \in DOMAIN mine[q]
        PROVE  Value(mine[q][j])' = IF q = r /\ j = i THEN v ELSE Value(mine[q][j])
    BY <1>1, <1>2, <1>4 DEF v
  <2>2. Own' = [q \in Readers |-> [j \in DOMAIN mine[q] |-> IF q = r /\ j = i THEN v ELSE Value(mine[q][j])]]
    BY <1>1, <2>1 DEF Own
  <2> QED
    BY <2>2 DEF Own
<1>8. i \in DOMAIN Own[r]
  BY DEF Own
<1> QED
  BY <1>3, <1>5, <1>6, <1>7, <1>8 DEF Flags!Modify, Cached, Held, Own

LEMMA StepIsOfValues == MemoryInv /\ [Next]_vars => [Flags!Next]_<<Cached, Held, Own>>
<1>1. ASSUME MemoryInv, Next
      PROVE  Flags!Next
  BY <1>1, StoreIsStore, GetIsGet, ListIsList, CopyIsCopy, ModifyIsModify DEF Next, Flags!Next
<1>2. ASSUME MemoryInv, UNCHANGED vars
      PROVE  UNCHANGED <<Cached, Held, Own>>
  BY <1>2 DEF vars, Cached, Held, Own, Value
<1> QED
  BY <1>1, <1>2

\* To every reader it is as if flags were values: nobody's write is seen by
\* anyone else, and a copy is equal to its original.
THEOREM PointersActLikeValues == Spec => ActsLikeValues
<1>1. Init => Flags!Init
  BY DEF Init, Flags!Init
<1> QED
  BY <1>1, StepIsOfValues, MemoryInvariant, PTL
     DEF Spec, ActsLikeValues, Flags!Spec, Flags!vars, Cached, Held, Own

==============================================================================
