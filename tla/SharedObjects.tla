---------------------------- MODULE SharedObjects ----------------------------
(* The FeatureFlags in the memory of the operator's process.  The listers    *)
(* hand out the very pointers the informer's indexer has, to all workers;    *)
(* who wants to change an object changes a DeepCopy of it.  Parts of it are  *)
(* behind pointers, which a plain assignment of the struct would share.      *)
(*                                                                           *)
(* Memory is a sequence of cells that only grows.  A cell has room for one   *)
(* FeatureFlag and for the parts it may point to: at[p] is the address of    *)
(* the cell whose data[p] is its part p, or Nil.                             *)
EXTENDS Sequences, Functions, FiniteSets, Naturals

CONSTANTS Readers,         \* goroutines that read through a lister
          Names,           \* names of flags, in one namespace
          ConfigMapNames,  \* values of Spec.ConfigMapName
          Data,            \* values of a part; 0 is that of a new one
          None,
          Received,        \* bound: the flags the API server sends
          MaxCells         \* bound: cells allocated in a behavior

Nil == 0

\* The maps and slices of ObjectMeta (labels, annotations, owner references),
\* taken as one, and the int32 of Spec.Replicas.
Parts == {"metadata", "replicas"}

Values == [cm : ConfigMapNames, parts : [Parts -> Data \cup {None}]]

ASSUME ObjectsAssumption ==
    /\ 0 \in Data
    /\ None \notin Data \cup Values
    /\ Received \subseteq Values
    /\ MaxCells \in Nat

VARIABLES memory,
          index,   \* the indexer: the address of each flag, or Nil
          hold,    \* per reader: the pointers its last Get or List returned
          mine     \* per reader: the pointers to its copies

vars == <<memory, index, hold, mine>>

Init ==
    /\ memory = <<>>
    /\ index = [n \in Names |-> Nil]
    /\ hold = [r \in Readers |-> <<>>]
    /\ mine = [r \in Readers |-> <<>>]

------------------------------------------------------------------------------
(* zz_generated.deepcopy.go: what DeepCopyInto writes to the new cell out,   *)
(* for the flag in the cell in, after *out = *in; and for a list's items.    *)

PartDeepCopyInto(flag, p, out) ==
    IF flag.at[p] = Nil THEN flag
                        ELSE [flag EXCEPT !.at[p] = out, !.data[p] = memory[flag.at[p]].data[p]]

ObjectMetaDeepCopyInto(flag, out) == PartDeepCopyInto(flag, "metadata", out)
SpecDeepCopyInto(flag, out) == PartDeepCopyInto(flag, "replicas", out)

DeepCopy_Metadata(in, out) ==    \* mutant: without in.ObjectMeta.DeepCopyInto
    SpecDeepCopyInto(memory[in], out)

DeepCopy_Zero(in, out) ==    \* mutant: the new int32 is not assigned
    [ObjectMetaDeepCopyInto(SpecDeepCopyInto(memory[in], out), out) EXCEPT !.data["replicas"] = 0]

DeepCopy(in, out) == SpecDeepCopyInto(ObjectMetaDeepCopyInto(memory[in], out), out)

ListDeepCopy(items) == [i \in DOMAIN items |-> DeepCopy(items[i], Len(memory) + i)]

------------------------------------------------------------------------------

\* What the pointer a is worth to its reader.
Value(a) ==
    [cm    |-> memory[a].cm,
     parts |-> [p \in Parts |-> IF memory[a].at[p] = Nil THEN None
                                                         ELSE memory[memory[a].at[p]].data[p]]]

\* The cell of a newly decoded flag, which is the next one.
Decoded(flag) ==
    [cm   |-> flag.cm,
     at   |-> [p \in Parts |-> IF flag.parts[p] = None THEN Nil ELSE Len(memory) + 1],
     data |-> [p \in Parts |-> IF flag.parts[p] = None THEN 0 ELSE flag.parts[p]]]

Fits == Len(memory') <= MaxCells

\* The informer has decoded a new version of a flag, or learnt of its deletion:
\* the indexer's entry is replaced, never written through.
Store(n) ==
    \/ /\ \E flag \in Received : memory' = Append(memory, Decoded(flag))
       /\ Fits
       /\ index' = [index EXCEPT ![n] = Len(memory) + 1]
       /\ UNCHANGED <<hold, mine>>
    \/ /\ index' = [index EXCEPT ![n] = Nil]
       /\ UNCHANGED <<memory, hold, mine>>

\* The lister's Get returns the pointer it finds, or not found.
Get(r, n) ==
    /\ hold' = [hold EXCEPT ![r] = IF index[n] = Nil THEN <<>> ELSE <<index[n]>>]
    /\ UNCHANGED <<memory, index, mine>>

\* The lister's List appends all of them, in no order.
List(r) ==
    /\ LET found == {index[n] : n \in Names} \ {Nil}
       IN  \E items \in Bijection(1 .. Cardinality(found), found) :
              hold' = [hold EXCEPT ![r] = items]
    /\ UNCHANGED <<memory, index, mine>>

\* The reader copies what it holds: one flag (updateFeatureFlagStatus), or the
\* items of a list.
Copy(r) ==
    /\ memory' = memory \o ListDeepCopy(hold[r])
    /\ Fits
    /\ mine' = [mine EXCEPT ![r] = [i \in DOMAIN hold[r] |-> Len(memory) + i]]
    /\ UNCHANGED <<index, hold>>

\* The reader changes one of its copies: a field, or what is behind a pointer.
Modify(r) ==
    /\ \E i \in DOMAIN mine[r] :
         LET a == mine[r][i] IN
         \/ \E cm \in ConfigMapNames : memory' = [memory EXCEPT ![a].cm = cm]
         \/ \E p \in Parts, d \in Data :
              /\ memory[a].at[p] # Nil
              /\ memory' = [memory EXCEPT ![memory[a].at[p]].data[p] = d]
    /\ UNCHANGED <<index, hold, mine>>

Next ==
    \/ \E n \in Names : Store(n)
    \/ \E r \in Readers : List(r) \/ Copy(r) \/ Modify(r) \/ \E n \in Names : Get(r, n)

Spec == Init /\ [][Next]_vars

------------------------------------------------------------------------------
(* Properties.                                                               *)

\* What a pointer leads to: a flag, and the parts it points to.
Reach(a) ==
    IF a = Nil THEN {}
    ELSE {<<"flag", a>>} \cup {<<p, memory[a].at[p]>> : p \in {q \in Parts : memory[a].at[q] # Nil}}

\* What a reader has copied shares nothing with the indexer, with what anyone
\* was given by a lister, with the copies of others, or with another copy
\* (DeepCopy, "creating a new FeatureFlag").
CopiesAreApart ==
    \A r \in Readers : \A i \in DOMAIN mine[r] :
       LET apart(a) == Reach(mine[r][i]) \cap Reach(a) = {} IN
       /\ \A n \in Names : apart(index[n])
       /\ \A q \in Readers : /\ \A j \in DOMAIN hold[q] : apart(hold[q][j])
                             /\ \A j \in DOMAIN mine[q] : <<q, j>> = <<r, i>> \/ apart(mine[q][j])

\* To every reader it is as if flags were values: what a lister has returned
\* stays as it was, a copy is equal to its original, and only its owner changes
\* it (controller.go: "NEVER modify objects from the store").
Flags == INSTANCE ValueCache WITH
    cached <- [n \in Names |-> IF index[n] = Nil THEN None ELSE Value(index[n])],
    held <- [r \in Readers |-> [i \in DOMAIN hold[r] |-> Value(hold[r][i])]],
    own <- [r \in Readers |-> [i \in DOMAIN mine[r] |-> Value(mine[r][i])]]

ActsLikeValues == Flags!Spec

------------------------------------------------------------------------------
(* What makes the properties inductive.                                      *)

Addresses == 1 .. Len(memory)
Contents == [cm : ConfigMapNames, at : [Parts -> Nat], data : [Parts -> Data]]

\* Pointers lead to cells of the memory.
TypeOK ==
    /\ memory \in Seq(Contents)
    /\ \A a \in Addresses : \A p \in Parts : memory[a].at[p] \in Addresses \cup {Nil}
    /\ index \in [Names -> Addresses \cup {Nil}]
    /\ hold \in [Readers -> Seq(Addresses)]
    /\ mine \in [Readers -> Seq(Addresses)]

\* No two flags in memory point to one part.
PartsAreApart ==
    \A a, b \in Addresses : \A p \in Parts :
       memory[a].at[p] = memory[b].at[p] /\ memory[a].at[p] # Nil => a = b

\* No two names have one flag.
NamesAreApart == \A n, m \in Names : index[n] = index[m] /\ index[n] # Nil => n = m

\* The pointers to copies are given out once, and not by the indexer.
CopiesAreOwned ==
    \A r \in Readers : \A i \in DOMAIN mine[r] :
       /\ \A n \in Names : index[n] # mine[r][i]
       /\ \A q \in Readers : /\ \A j \in DOMAIN hold[q] : hold[q][j] # mine[r][i]
                             /\ \A j \in DOMAIN mine[q] :
                                   mine[q][j] = mine[r][i] => q = r /\ j = i

\* The inductive invariant of the memory.
MemoryInv ==
    /\ TypeOK
    /\ PartsAreApart
    /\ NamesAreApart
    /\ CopiesAreOwned

==============================================================================
